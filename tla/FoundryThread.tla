---------------------------- MODULE FoundryThread ----------------------------
(***************************************************************************)
(* The Foundry thread of one incident.  Four kinds of activity of the API  *)
(* gateway write to it, from any of its workers and with no lock:          *)
(*   - the dispatch of the incident, which opens it with a first run,      *)
(*   - the resumption after an approval (approvals.py),                    *)
(*   - the injection of a verification result (remediation_executor.py),   *)
(*     which cancels whatever runs and starts a re-diagnosis,              *)
(*   - an operator's chat message (foundry.py), which waits for the answer.*)
(*                                                                         *)
(* Of the service itself the code relies on this: a thread that has an     *)
(* active run takes neither a message nor another run, a run sees the      *)
(* messages that were there when it started, and a cancellation takes      *)
(* effect some time after it was asked for.                                *)
(***************************************************************************)
EXTENDS Naturals, Sequences, FiniteSets

CONSTANTS
    Dispatch,     \* the activity that opened the thread
    Responses,    \* approvals that resume it
    Injections,   \* verification results, one per verified execution
    Chats,        \* chat messages of operators
    MaxCount,     \* MAX_RE_DIAGNOSIS_COUNT, 3 in the code
    CountedBy,    \* the partition key path of the incidents container
    None          \* "no answer"

Activities == {Dispatch} \cup Responses \cup Injections \cup Chats

ASSUME ActivitiesAssumption ==
    /\ Dispatch \notin Responses \cup Injections \cup Chats
    /\ Responses \cap Injections = {}
    /\ Responses \cap Chats = {}
    /\ Injections \cap Chats = {}
    /\ None \notin Activities
ASSUME CountAssumption == MaxCount \in Nat \ {0}
ASSUME KeyAssumption == CountedBy \in {"resource_id", "incident_id"}

VARIABLES
    messages,    \* of the thread, in order
    run,         \* the run that each activity started
    since,       \* how many messages the thread had then
    stage,       \* where each activity is
    listed,      \* the runs an injection found active
    cancelled,   \* the runs whose cancellation it asked for
    count,       \* re_diagnosis_count of the incident
    reply,       \* whose answer a chat returned to the operator
    unread,      \* the injections whose read of the counter failed
    faulted      \* whether a call to the service failed for another reason
                 \* than a busy thread

threadVars == <<messages, run, since, stage, listed, cancelled, count,
                reply, faulted, unread>>

Active == {"running", "cancelling"}

Message == [by : Activities, role : {"user", "assistant"}]

Stage == {"new", "list", "cancel", "sleep", "post", "run", "count",
          "poll", "answer", "done"}

ThreadTypeOK ==
    /\ messages \in Seq(Message)
    /\ run \in [Activities -> Active \cup {"none", "completed", "failed",
                                           "cancelled"}]
    /\ since \in [Activities -> Nat]
    /\ stage \in [Activities -> Stage]
    /\ listed \in [Injections -> SUBSET Activities]
    /\ cancelled \in [Injections -> SUBSET Activities]
    /\ count \in 0 .. MaxCount
    /\ reply \in [Chats -> Activities \cup {None}]
    /\ faulted \in BOOLEAN
    /\ unread \subseteq Injections

(* dispatch_to_orchestrator: thread, message and run in one call.          *)
ThreadInit ==
    /\ messages = <<[by |-> Dispatch, role |-> "user"]>>
    /\ run = [a \in Activities |-> IF a = Dispatch THEN "running" ELSE "none"]
    /\ since = [a \in Activities |-> IF a = Dispatch THEN 1 ELSE 0]
    /\ stage = [a \in Activities |-> IF a = Dispatch THEN "done" ELSE "new"]
    /\ listed = [v \in Injections |-> {}]
    /\ cancelled = [v \in Injections |-> {}]
    /\ count = 0
    /\ reply = [c \in Chats |-> None]
    /\ faulted = FALSE
    /\ unread = {}

-----------------------------------------------------------------------------
Goto(a, s) == stage' = [stage EXCEPT ![a] = s]

(* The lists are local to _cancel_active_runs.                              *)
Forget(a) ==
    /\ listed' = [v \in Injections |-> IF v = a THEN {} ELSE listed[v]]
    /\ cancelled' = [v \in Injections |-> IF v = a THEN {} ELSE cancelled[v]]

Busy == \E a \in Activities : run[a] \in Active

(* The runs that _cancel_active_runs cancels.                               *)
ActiveRuns == {a \in Activities : run[a] \in Active}

(* What an injection does once the listed runs have been dealt with: it    *)
(* sleeps a second if it cancelled any.  Mutant: it never sleeps.          *)
PostAtOnce(asked) == "post"

AfterCancel(asked) == IF asked = {} THEN "post" ELSE "sleep"

(* incr of re_diagnosis_count, addressed with the incident id as partition *)
(* key: a container with another key does not find the document.          *)
Incremented ==
    IF CountedBy = "incident_id" /\ count < MaxCount THEN count + 1 ELSE count

-----------------------------------------------------------------------------
(* _inject_verification_result and _cancel_active_runs.                    *)

ReadCount(v) ==
    /\ stage[v] = "new"
    /\ Goto(v, IF count >= MaxCount THEN "done" ELSE "list")
    /\ UNCHANGED <<messages, run, since, listed, cancelled, count, reply,
                   faulted, unread>>

(* A failing read is swallowed and an incident not found has no count:     *)
(* both are taken for 0.                                                   *)
ReadFails(v) ==
    /\ stage[v] = "new"
    /\ unread' = unread \cup {v}
    /\ Goto(v, "list")
    /\ UNCHANGED <<messages, run, since, listed, cancelled, count, reply,
                   faulted>>

ListRuns(v) ==
    /\ stage[v] = "list"
    /\ listed' = [listed EXCEPT ![v] = ActiveRuns]
    /\ Goto(v, "cancel")
    /\ UNCHANGED <<messages, run, since, cancelled, count, reply, faulted,
                   unread>>

(* A failure of the list is swallowed; the injection goes on to post.      *)
ListFails(v) ==
    /\ stage[v] = "list"
    /\ Goto(v, "post")
    /\ faulted' = TRUE
    /\ UNCHANGED <<messages, run, since, listed, cancelled, count, reply,
                   unread>>

(* runs.cancel of a run that has ended raises and is skipped, of a run      *)
(* that is being cancelled it may.                                         *)
CancelRun(v) ==
    /\ stage[v] = "cancel"
    /\ \E a \in listed[v] :
          /\ listed' = [listed EXCEPT ![v] = @ \ {a}]
          /\ \/ /\ run[a] \in Active
                /\ run' = [run EXCEPT ![a] = "cancelling"]
                /\ cancelled' = [cancelled EXCEPT ![v] = @ \cup {a}]
             \/ /\ run[a] # "running"
                /\ UNCHANGED <<run, cancelled>>
    /\ UNCHANGED <<messages, since, stage, count, reply, faulted, unread>>

CancelFails(v) ==
    /\ stage[v] = "cancel"
    /\ \E a \in listed[v] : listed' = [listed EXCEPT ![v] = @ \ {a}]
    /\ faulted' = TRUE
    /\ UNCHANGED <<messages, run, since, stage, cancelled, count, reply,
                   unread>>

CancelDone(v) ==
    /\ stage[v] = "cancel"
    /\ listed[v] = {}
    /\ Goto(v, AfterCancel(cancelled[v]))
    /\ UNCHANGED <<messages, run, since, listed, cancelled, count, reply,
                   faulted, unread>>

(* A cancellation that was asked for has taken effect within the second;   *)
(* WakeEarly is the service being slower than that.                        *)
Wake(v) ==
    /\ stage[v] = "sleep"
    /\ \A a \in cancelled[v] : run[a] \notin Active
    /\ Goto(v, "post")
    /\ Forget(v)
    /\ UNCHANGED <<messages, run, since, count, reply, faulted, unread>>

WakeEarly(v) ==
    /\ stage[v] = "sleep"
    /\ \E a \in cancelled[v] : run[a] \in Active
    /\ Goto(v, "post")
    /\ Forget(v)
    /\ faulted' = TRUE
    /\ UNCHANGED <<messages, run, since, count, reply, unread>>

Count(v) ==
    /\ stage[v] = "count"
    /\ count' = Incremented
    /\ Goto(v, "done")
    /\ UNCHANGED <<messages, run, since, listed, cancelled, reply, faulted,
                   unread>>

-----------------------------------------------------------------------------
(* messages.create and runs.create, the same two calls in all of them.     *)

Begin(a) ==
    /\ a \in Responses \cup Chats
    /\ stage[a] = "new"
    /\ Goto(a, "post")
    /\ UNCHANGED <<messages, run, since, listed, cancelled, count, reply,
                   faulted, unread>>

Post(a) ==
    /\ stage[a] = "post"
    /\ ~Busy
    /\ messages' = Append(messages, [by |-> a, role |-> "user"])
    /\ Goto(a, "run")
    /\ UNCHANGED <<run, since, listed, cancelled, count, reply, faulted,
                   unread>>

AfterRun(a) == IF a \in Injections THEN "count"
               ELSE IF a \in Chats THEN "poll" ELSE "done"

StartRun(a) ==
    /\ stage[a] = "run"
    /\ ~Busy
    /\ run' = [run EXCEPT ![a] = "running"]
    /\ since' = [since EXCEPT ![a] = Len(messages)]
    /\ Goto(a, AfterRun(a))
    /\ UNCHANGED <<messages, listed, cancelled, count, reply, faulted, unread>>

(* The thread is busy: either call raises.  Injections and approvals log   *)
(* it and are done, a chat answers 502.                                    *)
Refused(a) ==
    /\ stage[a] \in {"post", "run"}
    /\ Busy
    /\ Goto(a, "done")
    /\ UNCHANGED <<messages, run, since, listed, cancelled, count, reply,
                   faulted, unread>>

(* Any call to the service may fail on its own account, and the worker may *)
(* die between two calls.                                                  *)
FailsOrDies(a) ==
    /\ stage[a] \notin {"new", "done"}
    /\ Goto(a, "done")
    /\ Forget(a)
    /\ faulted' = TRUE
    /\ UNCHANGED <<messages, run, since, count, reply, unread>>

-----------------------------------------------------------------------------
(* dispatch_chat_to_orchestrator, after its run was started.               *)

(* The status of the chat's own run.                                       *)
Poll(c) ==
    /\ stage[c] = "poll"
    /\ run[c] \in {"completed", "failed", "cancelled"}
    /\ Goto(c, IF run[c] = "completed" THEN "answer" ELSE "done")
    /\ UNCHANGED <<messages, run, since, listed, cancelled, count, reply,
                   faulted, unread>>

(* 120 seconds are over.                                                   *)
GiveUp(c) ==
    /\ stage[c] = "poll"
    /\ run[c] \in Active
    /\ Goto(c, "done")
    /\ UNCHANGED <<messages, run, since, listed, cancelled, count, reply,
                   faulted, unread>>

Answers == {i \in DOMAIN messages : messages[i].role = "assistant"}

(* Mutant: messages.list in the order of time.                             *)
OldestAnswer ==
    {messages[i].by : i \in {j \in Answers : \A k \in Answers : j <= k}}

(* Mutant: its place instead of its author.                                *)
LatestPlace == {i \in Answers : \A k \in Answers : k <= i}

(* The assistant's most recent message, whichever run wrote it.            *)
LatestAnswer ==
    {messages[i].by : i \in {j \in Answers : \A k \in Answers : k <= j}}

ReturnAnswer(c) ==
    /\ stage[c] = "answer"
    /\ IF Answers = {} THEN UNCHANGED reply
       ELSE \E a \in LatestAnswer : reply' = [reply EXCEPT ![c] = a]
    /\ Goto(c, "done")
    /\ UNCHANGED <<messages, run, since, listed, cancelled, count, faulted,
                   unread>>

-----------------------------------------------------------------------------
(* The service: a run ends with an answer or without.                      *)

Complete(a) ==
    /\ run[a] \in Active
    /\ run' = [run EXCEPT ![a] = "completed"]
    /\ \/ messages' = Append(messages, [by |-> a, role |-> "assistant"])
       \/ UNCHANGED messages
    /\ UNCHANGED <<since, stage, listed, cancelled, count, reply, faulted,
                   unread>>

Fail(a) ==
    /\ run[a] = "running"
    /\ run' = [run EXCEPT ![a] = "failed"]
    /\ UNCHANGED <<messages, since, stage, listed, cancelled, count, reply,
                   faulted, unread>>

Cancelled(a) ==
    /\ run[a] = "cancelling"
    /\ run' = [run EXCEPT ![a] = "cancelled"]
    /\ UNCHANGED <<messages, since, stage, listed, cancelled, count, reply,
                   faulted, unread>>

ThreadNext ==
    \/ \E v \in Injections :
          \/ ReadCount(v) \/ ReadFails(v) \/ ListRuns(v) \/ ListFails(v)
          \/ CancelRun(v) \/ CancelFails(v) \/ CancelDone(v) \/ Wake(v)
          \/ WakeEarly(v) \/ Count(v)
    \/ \E c \in Chats : Poll(c) \/ GiveUp(c) \/ ReturnAnswer(c)
    \/ \E a \in Activities :
          \/ Begin(a) \/ Post(a) \/ StartRun(a) \/ Refused(a) \/ FailsOrDies(a)
          \/ Complete(a) \/ Fail(a) \/ Cancelled(a)

ThreadSpec == ThreadInit /\ [][ThreadNext]_threadVars

-----------------------------------------------------------------------------
(* A run whose answer is still to come or has come: it was not cancelled.  *)
Kept(a) == run[a] \in {"running", "completed", "failed"}

(* Injections cancel what others have started and are then refused in turn *)
(* by a third.  When everybody is through and nobody met a failure other   *)
(* than a busy thread, every message that reached the thread has all the   *)
(* same been seen by a run that was not cancelled: no approval and no      *)
(* verification result is left in the thread unread                        *)
(* (remediation_executor.py:416-452, approvals.py:351-370).                *)
NoMessageUnread ==
    (~faulted /\ \A a \in Activities : stage[a] \in {"new", "done"}) =>
        \A i \in DOMAIN messages :
            messages[i].role = "user" =>
                \E a \in Activities : Kept(a) /\ i <= since[a]

(* A chat takes the latest answer of a thread that others write to.  If    *)
(* its own run wrote one, the operator is shown that or a later one, never *)
(* the answer to an earlier message (foundry.py:462-477).                  *)
ReplyIsFresh ==
    \A c \in Chats, i \in DOMAIN messages :
        (reply[c] # None /\ messages[i] = [by |-> c, role |-> "assistant"]) =>
            \E j \in i .. Len(messages) :
                messages[j] = [by |-> reply[c], role |-> "assistant"]

-----------------------------------------------------------------------------
(* What the repository says of this code and the code does not do.          *)

(* LOOP-004: at most MaxCount re-diagnoses per incident, to prevent        *)
(* infinite loops.  The count is read before and written after, by a patch  *)
(* that addresses the document with the wrong partition key.                *)
LoopIsCapped ==
    Cardinality({v \in Injections : run[v] # "none"}) <= MaxCount

=============================================================================
