------------------------------- MODULE WarRoom -------------------------------
(***************************************************************************)
(* The war room of one incident (services/api-gateway/war_room.py and its  *)
(* endpoints in main.py): a document that operators join, annotate and     *)
(* hand over, and the in-memory queues that push annotations to the        *)
(* browsers connected to the same worker.                                  *)
(*                                                                         *)
(* The helpers never await between two Cosmos calls, so a worker process   *)
(* runs one call at a time; calls of different workers interleave.         *)
(***************************************************************************)
EXTENDS Naturals, Sequences, SequencesExt

CONSTANTS
    Calls,      \* HTTP requests to the four POST endpoints
    Operators,  \* who makes them
    Workers,    \* uvicorn worker processes
    Clients,    \* connections to the event stream
    QueueSize,  \* maxsize of a connection's queue, 100 in the code
    None        \* "no room", "no operator", "no worker"

ASSUME SizeAssumption == QueueSize \in Nat \ {0}
ASSUME NoneAssumption == None \notin Operators \cup Workers \cup Calls

VARIABLES
    room,     \* the war_rooms document of the incident
    call,     \* what each request asks for, of whom, in which worker
    stage,    \* where it is
    seen,     \* the document it holds
    attempt,  \* rounds of the retry loop used up
    reply,    \* what it was answered
    at,       \* the worker each event stream is connected to
    queue,    \* _WAR_ROOM_QUEUES: what waits to be pushed to it
    shown     \* what it has been sent

callVars == <<call, stage, seen, attempt, reply>>
wvars == <<room, callVars, at, queue, shown>>

Kind == {"join", "annotate", "heartbeat", "handoff"}

(* An annotation is named by the request that made it; life counts the      *)
(* creations of the document (its created_at).                              *)
Room ==
    [participants : Seq(Operators), annotations : Seq(Calls),
     handoff : Calls \cup {None}, life : Nat, etag : Nat]

ASSUME NoRoom == None \notin Room

Stage == {"idle", "read", "create", "replace", "reread", "done", "dead"}

RoomTypeOK ==
    /\ room \in Room \cup {None}
    /\ call \in [Calls -> [kind : Kind \cup {"none"}, by : Operators \cup {None},
                           on : Workers \cup {None}]]
    /\ stage \in [Calls -> Stage]
    /\ seen \in [Calls -> Room \cup {None}]
    /\ attempt \in [Calls -> 0 .. 1]
    /\ reply \in [Calls -> {"none", "ok", "error"}]
    /\ at \in [Clients -> Workers \cup {None}]
    /\ queue \in [Clients -> Seq(Calls)]
    /\ shown \in [Clients -> Seq(Calls)]

RoomInit ==
    /\ room = None
    /\ call = [c \in Calls |-> [kind |-> "none", by |-> None, on |-> None]]
    /\ stage = [c \in Calls |-> "idle"]
    /\ seen = [c \in Calls |-> None]
    /\ attempt = [c \in Calls |-> 0]
    /\ reply = [c \in Calls |-> "none"]
    /\ at = [k \in Clients |-> None]
    /\ queue = [k \in Clients |-> << >>]
    /\ shown = [k \in Clients |-> << >>]

-----------------------------------------------------------------------------
Running(c) == stage[c] \in {"read", "create", "replace", "reread"}

Goto(c, s) == stage' = [stage EXCEPT ![c] = s]

Answer(c, a) ==
    /\ Goto(c, "done")
    /\ reply' = [reply EXCEPT ![c] = a]
    /\ seen' = [seen EXCEPT ![c] = None]

(* Mutant: the list is not looked at.                                       *)
NeverPresent(c) == call[c].kind = "none"

(* The operator is already in the participants list.                        *)
Present(c) == call[c].by \in Range(room.participants)

(* Mutant: replace_item without its etag.                                   *)
EtagIgnored(c) == room.life > 0

(* replace_item(etag=..., match_condition=IfNotModified) goes through.      *)
EtagMatches(c) == room.etag = seen[c].etag

(* The document the request writes: the copy it read, with its own change.  *)
(* A heartbeat changes last_seen_at only, which is not modelled.            *)
Updated(c) ==
    LET k == call[c].kind
        d == seen[c]
    IN  [participants |-> IF k = "join" THEN Append(d.participants, call[c].by)
                                        ELSE d.participants,
         annotations  |-> IF k = "annotate" THEN Append(d.annotations, c)
                                            ELSE d.annotations,
         handoff      |-> IF k = "handoff" THEN c ELSE d.handoff,
         life         |-> d.life,
         etag         |-> d.etag + 1]

(* _broadcast_annotation: the streams of this worker, full ones excepted.   *)
Broadcast(c) ==
    queue' = [k \in Clients |->
                IF at[k] = call[c].on /\ Len(queue[k]) < QueueSize
                THEN Append(queue[k], c) ELSE queue[k]]

-----------------------------------------------------------------------------
(* The handlers.  Who makes a request matters to a join only.              *)

Start(c) ==
    /\ stage[c] = "idle"
    /\ \E k \in Kind, w \in Workers :
       \E o \in IF k = "join" THEN Operators ELSE {None} :
          /\ \A d \in Calls : Running(d) => call[d].on # w
          /\ call' = [call EXCEPT ![c] = [kind |-> k, by |-> o, on |-> w]]
    /\ Goto(c, "read")
    /\ UNCHANGED <<room, seen, attempt, reply, at, queue, shown>>

(* read_item finds no document: a join goes on to create it, a heartbeat is *)
(* a no-op, the other two raise.                                            *)
ReadMissing(c) ==
    /\ stage[c] = "read"
    /\ room = None
    /\ CASE call[c].kind = "join"      -> Goto(c, "create") /\ UNCHANGED <<seen, reply>>
         [] call[c].kind = "heartbeat" -> Answer(c, "ok")
         [] OTHER                      -> Answer(c, "error")
    /\ UNCHANGED <<room, call, attempt, at, queue, shown>>

(* Mutant: the annotation is pushed before it is written.                   *)
ReadFoundEager(c) ==
    /\ stage[c] = "read"
    /\ room # None
    /\ IF call[c].kind = "join" /\ Present(c)
       THEN Answer(c, "ok")
       ELSE /\ Goto(c, "replace")
            /\ seen' = [seen EXCEPT ![c] = room]
            /\ UNCHANGED reply
    /\ IF call[c].kind = "annotate" THEN Broadcast(c) ELSE UNCHANGED queue
    /\ UNCHANGED <<room, call, attempt, at, shown>>

ReadFound(c) ==
    /\ stage[c] = "read"
    /\ room # None
    /\ IF call[c].kind = "join" /\ Present(c)
       THEN Answer(c, "ok")
       ELSE /\ Goto(c, "replace")
            /\ seen' = [seen EXCEPT ![c] = room]
            /\ UNCHANGED reply
    /\ UNCHANGED <<room, call, attempt, at, queue, shown>>

(* The first join creates the document with upsert_item, which replaces     *)
(* whatever another creator has stored since this one read "not found".     *)
Create(c) ==
    /\ stage[c] = "create"
    /\ room' = [participants |-> << >>, annotations |-> << >>, handoff |-> None,
                life |-> IF room = None THEN 1 ELSE room.life + 1,
                etag |-> IF room = None THEN 1 ELSE room.etag + 1]
    /\ seen' = [seen EXCEPT ![c] = room']
    /\ Goto(c, "replace")
    /\ UNCHANGED <<call, attempt, reply, at, queue, shown>>

(* The write went through; an annotation is pushed to this worker's streams.*)
Replace(c) ==
    /\ stage[c] = "replace"
    /\ EtagMatches(c)
    /\ room' = Updated(c)
    /\ Answer(c, "ok")
    /\ IF call[c].kind = "annotate" THEN Broadcast(c) ELSE UNCHANGED queue
    /\ UNCHANGED <<call, attempt, at, shown>>

(* Mutant: the annotation that could not be stored is answered ok.          *)
NotReplacedQuietly(c) ==
    IF call[c].kind \in {"annotate", "heartbeat"} /\ attempt[c] = 0
    THEN /\ Goto(c, "read")
         /\ attempt' = [attempt EXCEPT ![c] = 1]
         /\ UNCHANGED <<seen, reply, queue>>
    ELSE /\ Answer(c, "ok")
         /\ IF call[c].kind = "annotate" THEN Broadcast(c) ELSE UNCHANGED queue
         /\ UNCHANGED attempt

(* Mutant: the retry loop has no end.                                       *)
NotReplacedForever(c) ==
    IF call[c].kind \in {"annotate", "heartbeat"}
    THEN /\ Goto(c, "read")
         /\ attempt' = [attempt EXCEPT ![c] = @ + 1]
         /\ UNCHANGED <<seen, reply, queue>>
    ELSE Answer(c, "ok") /\ UNCHANGED <<attempt, queue>>

(* replace_item raised.  A join reads the document again and is answered    *)
(* ok; an annotation has a second round and then raises; a heartbeat has a  *)
(* second round and gives up; a handoff is answered although not stored.    *)
NotReplaced(c) ==
    CASE call[c].kind = "join" ->
           Goto(c, "reread") /\ UNCHANGED <<seen, reply, attempt, queue>>
      [] call[c].kind \in {"annotate", "heartbeat"} /\ attempt[c] = 0 ->
           /\ Goto(c, "read")
           /\ attempt' = [attempt EXCEPT ![c] = 1]
           /\ UNCHANGED <<seen, reply, queue>>
      [] call[c].kind = "annotate" /\ attempt[c] = 1 ->
           Answer(c, "error") /\ UNCHANGED <<attempt, queue>>
      [] OTHER -> Answer(c, "ok") /\ UNCHANGED <<attempt, queue>>

(* The etag is stale, or the request did not reach the container.           *)
ReplaceFails(c) ==
    /\ stage[c] = "replace"
    /\ NotReplaced(c)
    /\ UNCHANGED <<room, call, at, shown>>

(* The write went through and its response was lost.                        *)
ReplaceUnheard(c) ==
    /\ stage[c] = "replace"
    /\ EtagMatches(c)
    /\ room' = Updated(c)
    /\ NotReplaced(c)
    /\ UNCHANGED <<call, at, shown>>

Reread(c) ==
    /\ stage[c] = "reread"
    /\ Answer(c, "ok")
    /\ UNCHANGED <<room, call, attempt, at, queue, shown>>

(* Any other call of the handler raises: Cosmos, or the language model.     *)
Fails(c) ==
    /\ Running(c)
    /\ stage[c] = "replace" => call[c].kind = "handoff"
    /\ Answer(c, "error")
    /\ UNCHANGED <<room, call, attempt, at, queue, shown>>

-----------------------------------------------------------------------------
(* Event streams and workers.                                              *)

Connect(k) ==
    /\ at[k] = None
    /\ \E w \in Workers : at' = [at EXCEPT ![k] = w]
    /\ UNCHANGED <<room, callVars, queue, shown>>

Push(k) ==
    /\ queue[k] # << >>
    /\ queue' = [queue EXCEPT ![k] = Tail(@)]
    /\ shown' = [shown EXCEPT ![k] = Append(@, Head(queue[k]))]
    /\ UNCHANGED <<room, callVars, at>>

Disconnect(k) ==
    /\ at[k] # None
    /\ at' = [at EXCEPT ![k] = None]
    /\ queue' = [queue EXCEPT ![k] = << >>]
    /\ shown' = [shown EXCEPT ![k] = << >>]
    /\ UNCHANGED <<room, callVars>>

(* A worker dies with the call it runs and the queues of its streams.       *)
Crash(w) ==
    /\ \E c \in Calls : Running(c) /\ call[c].on = w
    /\ stage' = [c \in Calls |-> IF Running(c) /\ call[c].on = w THEN "dead"
                                                                 ELSE stage[c]]
    /\ seen' = [c \in Calls |-> IF call[c].on = w THEN None ELSE seen[c]]
    /\ at' = [k \in Clients |-> IF at[k] = w THEN None ELSE at[k]]
    /\ queue' = [k \in Clients |-> IF at[k] = w THEN << >> ELSE queue[k]]
    /\ shown' = [k \in Clients |-> IF at[k] = w THEN << >> ELSE shown[k]]
    /\ UNCHANGED <<room, call, attempt, reply>>

RoomNext ==
    \/ \E c \in Calls :
          \/ Start(c) \/ ReadMissing(c) \/ ReadFound(c) \/ Create(c) \/ Replace(c)
          \/ ReplaceFails(c) \/ ReplaceUnheard(c) \/ Reread(c) \/ Fails(c)
    \/ \E k \in Clients : Connect(k) \/ Push(k) \/ Disconnect(k)
    \/ \E w \in Workers : Crash(w)

RoomSpec == RoomInit /\ [][RoomNext]_wvars

-----------------------------------------------------------------------------
(* Properties.                                                             *)

(* "two simultaneous callers cannot create duplicate participant entries"   *)
(* (get_or_create_war_room): whatever interleaves, no operator is listed    *)
(* twice.                                                                   *)
ParticipantsUnique == room # None => IsInjective(room.participants)

(* The calls of all workers take effect as if one after the other: whatever *)
(* copies are read, written back, retried and lost, each write is the one  *)
(* change its call asked for, made to the room as the write before left it, *)
(* and none is made after the call was answered.                            *)
Held ==
    IF room = None
    THEN [participants |-> << >>, annotations |-> << >>, handoff |-> None, life |-> 0]
    ELSE room

Asked == [c \in Calls |-> [kind |-> call[c].kind, by |-> call[c].by]]

Over == {c \in Calls : stage[c] \in {"done", "dead"}}

Stored == {c \in Calls : call[c].kind = "annotate" /\ reply[c] = "ok"}

Promised == INSTANCE RoomLog WITH
    people <- Held.participants, notes <- Held.annotations, summary <- Held.handoff,
    life <- Held.life, asked <- Asked, over <- Over, stored <- Stored

KeepsLog == Promised!Log

(* An annotation that was answered ok is in the room for as long as the     *)
(* document is not created a second time (add_annotation).                  *)
AnsweredIsStored ==
    \A c \in Calls :
        call[c].kind = "annotate" /\ reply[c] = "ok" /\ room # None /\ room.life = 1
            => c \in Range(room.annotations)

(* What a stream has been sent and what waits for it are annotations of the *)
(* room, in the room's order (some may be missing): the broadcast follows   *)
(* the write, in a worker that runs one call at a time.                     *)
StreamFollowsRoom ==
    \A k \in Clients : room # None /\ room.life = 1 =>
        LET events == shown[k] \o queue[k]
        IN  \E f \in [DOMAIN events -> DOMAIN room.annotations] :
                \A i \in DOMAIN events :
                    /\ room.annotations[f[i]] = events[i]
                    /\ \A j \in DOMAIN events : i < j => f[i] < f[j]

(* "Create war room if it does not exist, then add operator as participant" *)
(* (war_room.py:88): a room that exists is not created anew, without the    *)
(* participants and the annotations it had.                                 *)
CreatedOnce == room # None => room.life = 1

=============================================================================
