----------------------------- MODULE ChatStream -----------------------------
(***************************************************************************)
(* How an operator's chat message gets its answer on the screen.  The      *)
(* browser (web-ui ChatDrawer.tsx, lib/use-sse.ts) posts the message to    *)
(* the gateway, which blocks until the agent has answered and keeps the    *)
(* answer in the memory of the worker that served the request, under the   *)
(* id of the thread (chat.py).  The browser then opens an event stream to  *)
(* a web-ui instance (app/api/stream/route.ts), which polls the gateway,   *)
(* any worker of it, and pushes numbered events; a ring buffer of the      *)
(* instance (lib/sse-buffer.ts) serves browsers that reconnect.            *)
(*                                                                         *)
(* One browser and one thread, whose messages are the turns 1, 2, ...      *)
(***************************************************************************)
EXTENDS Naturals, Sequences

CONSTANTS
    Workers,     \* of the gateway
    Instances,   \* of the web UI
    MaxTurns,    \* bound on the messages of the thread
    MaxMishaps,  \* bound on what goes wrong with streams
    MaxSize,     \* capacity of a ring buffer, 1000 in the code
    None         \* "no worker"

ASSUME BoundsAssumption ==
    /\ MaxTurns \in Nat \ {0}
    /\ MaxMishaps \in Nat
    /\ MaxSize \in Nat \ {0}
ASSUME WorkerAssumption == None \notin Workers
ASSUME InstanceAssumption == Instances # {}

VARIABLES
    turn,        \* messages sent so far
    waiting,     \* the turns whose POSTs the browser waits for
    streaming,   \* isStreaming: the spinner, and the lock of the input
    outcome,     \* how each turn ended on the screen
    shown,       \* the texts shown in each turn
    server,      \* the worker that served each turn
    pending,     \* turns whose request a worker still works on
    mute,        \* turns that the agent completed without a text
    cache,       \* _RESPONSE_CACHE of each worker: the turn it answers with
    buffer,      \* the ring buffer of each instance
    conn,        \* server side of the browser's current connection
    stray,       \* connections the browser has left and the server has not
    source,      \* the EventSource: is it open or refused, lastSeq, last id
    tokenDue,    \* a token for the stream has been asked for
    mishaps,     \* connections that broke or were refused, tokens and polls
                 \* that were late
    torn,        \* history: a buffer has lost some of its events, not all
    overrun,     \* history: the poll that found a silence ended past its time
    revived      \* history: a token came when the turn of the stream was over

browserVars == <<turn, waiting, streaming, outcome, shown, source, tokenDue,
                 revived>>
gatewayVars == <<server, pending, mute, cache>>
streamVars == <<buffer, conn, stray, mishaps, torn, overrun>>
chatVars == <<browserVars, gatewayVars, streamVars>>

Turns == 1 .. MaxTurns

(* An event: what it tells (the reply to a turn; 0, that time is up), from *)
(* which worker the instance had it, and during which turn.                *)
Event == [seq : Nat, kind : {"token", "done"}, of : 0 .. MaxTurns,
          by : Workers \cup {None}, during : 0 .. MaxTurns]

StreamTypeOK ==
    /\ turn \in 0 .. MaxTurns
    /\ waiting \in SUBSET Turns
    /\ streaming \in BOOLEAN
    /\ outcome \in [Turns -> {"open", "done", "error"}]
    /\ shown \in [Turns -> Seq(Event)]
    /\ server \in [Turns -> Workers \cup {None}]
    /\ pending \in SUBSET Turns
    /\ mute \in SUBSET Turns
    /\ cache \in [Workers -> 0 .. MaxTurns]
    /\ buffer \in [Instances -> Seq(Event)]
    /\ conn \in [at : Instances, seq : Nat, polling : BOOLEAN, wire : Seq(Event)]
    /\ stray \in SUBSET [at : Instances, seq : Nat]
    /\ source \in [open : BOOLEAN, refused : BOOLEAN, lastSeq : Nat,
                   lastId : Nat, texts : Nat]
    /\ tokenDue \in BOOLEAN
    /\ mishaps \in 0 .. MaxMishaps
    /\ torn \in BOOLEAN /\ overrun \in BOOLEAN /\ revived \in BOOLEAN

(* connect() of use-sse.ts: a new EventSource, numbers from the start.     *)
FreshSource == [open |-> TRUE, refused |-> FALSE, lastSeq |-> 0, lastId |-> 0,
                texts |-> 0]

(* Nothing is read of a source or a connection that is closed.             *)
Closed == [FreshSource EXCEPT !.open = FALSE]

NoConn == [at |-> CHOOSE i \in Instances : TRUE, seq |-> 0, polling |-> FALSE,
           wire |-> << >>]

ChatInit ==
    /\ turn = 0 /\ waiting = {} /\ streaming = FALSE
    /\ outcome = [t \in Turns |-> "open"]
    /\ shown = [t \in Turns |-> << >>]
    /\ server = [t \in Turns |-> None]
    /\ pending = {} /\ mute = {}
    /\ cache = [w \in Workers |-> 0]
    /\ buffer = [i \in Instances |-> << >>]
    /\ conn = NoConn
    /\ stray = {}
    /\ source = Closed
    /\ tokenDue = FALSE
    /\ mishaps = 0
    /\ torn = FALSE /\ overrun = FALSE /\ revived = FALSE

-----------------------------------------------------------------------------
(* SSEEventBuffer.push, with the eviction of the oldest.                   *)
Buffered(b, events) ==
    LET all == b \o events
    IN  SubSeq(all, IF Len(all) > MaxSize THEN Len(all) - MaxSize + 1 ELSE 1, Len(all))

(* getEventsSince: the events after the last one the browser has seen.     *)
(* SelectSeq, as a recursive function that a proof can unfold.             *)
Since(b, last) ==
    LET kept[n \in 0 .. Len(b)] ==
            IF n = 0 THEN << >>
            ELSE IF b[n].seq > last THEN Append(kept[n - 1], b[n])
                 ELSE kept[n - 1]
    IN  kept[Len(b)]

(* pushEvent into the buffer of instance i.                                *)
Store(i, events) ==
    /\ buffer' = [buffer EXCEPT ![i] = Buffered(@, events)]
    /\ torn' = (torn \/ Len(buffer[i]) + Len(events) > MaxSize)

(* Replay, to a browser that has seen an event.  Mutant: to any.           *)
MissedAlways(b, last) == Since(b, last)

Missed(b, last) == IF last > 0 THEN Since(b, last) ELSE << >>

(* The browser leaves its connection, which does not stop polling before   *)
(* the server has noticed.                                                 *)
Leave ==
    stray' = IF conn.polling THEN stray \cup {[at |-> conn.at, seq |-> conn.seq]}
                             ELSE stray

(* GET /api/stream on instance i, whose buffer still has b.                *)
Open(i, b, last) ==
    LET m == Missed(b, last)
    IN  /\ conn' = [at |-> i, polling |-> TRUE, wire |-> m,
                    seq |-> IF m = << >> THEN 0 ELSE m[Len(m)].seq]
        /\ Leave

(* Mutant: a number too low.                                               *)
EventsBehind(seq, t, w) ==
    [k \in 1 .. 2 |-> [seq |-> (seq + k) - 2, kind |-> <<"token", "done">>[k],
                       of |-> t, by |-> w, during |-> turn]]

(* Mutant: when the time is up, the text alone.                            *)
EventsOpen(seq, t, w) ==
    [k \in 1 .. (IF t = 0 THEN 1 ELSE 2) |->
        [seq |-> seq + k, kind |-> <<"token", "done">>[k],
         of |-> t, by |-> w, during |-> turn]]

(* One more mishap; not all of them are rare, but an instance has few.      *)
Mishap == mishaps < MaxMishaps /\ mishaps' = mishaps + 1

(* What a poll that found the reply to turn t at worker w pushes; t is 0   *)
(* when the time is up.                                                    *)
Events(seq, t, w) ==
    LET kinds == IF t \in mute THEN <<"done">> ELSE <<"token", "done">>
    IN  [k \in DOMAIN kinds |->
            [seq |-> seq + k, kind |-> kinds[k], of |-> t, by |-> w, during |-> turn]]

(* ... and pushes when the time is up by then: the answer and that time is *)
(* up, the check after the loop being reached by its break too.            *)
Pushed(seq, t, w, late) ==
    LET e == Events(seq, t, w)
    IN  IF late THEN e \o Events(e[Len(e)].seq, 0, None) ELSE e

(* The spinner stops, in the last turn if that one is still open.          *)
End(how) ==
    /\ streaming' = FALSE
    /\ outcome' = IF streaming THEN [outcome EXCEPT ![turn] = how] ELSE outcome

-----------------------------------------------------------------------------
(* Browser and gateway: handleSend and POST /api/v1/chat.                  *)

Send(w) ==
    /\ ~streaming
    /\ turn < MaxTurns
    /\ turn' = turn + 1
    /\ waiting' = waiting \cup {turn + 1}
    /\ streaming' = TRUE
    /\ server' = [server EXCEPT ![turn + 1] = w]
    /\ pending' = pending \cup {turn + 1}
    /\ UNCHANGED <<outcome, shown, source, tokenDue, revived, mute, cache,
                   streamVars>>

(* Mutant: setdefault on the cache.                                        *)
CachedFirst(t) == [cache EXCEPT ![server[t]] = IF @ = 0 THEN t ELSE @]

(* _RESPONSE_CACHE[thread_id] = ... in the worker that served the turn.    *)
Cached(t) == [cache EXCEPT ![server[t]] = t]

(* The worker answers.  Runs of a thread follow one another, and so do     *)
(* their ends.  A browser that still waits opens a stream for the run and  *)
(* asks for a token to go with it.                                         *)
Answer(t, i) ==
    /\ t \in pending
    /\ \A u \in pending : t <= u
    /\ pending' = pending \ {t}
    /\ cache' = Cached(t)
    /\ \/ mute' = mute \cup {t}
       \/ UNCHANGED mute
    /\ waiting' = waiting \ {t}
    /\ IF t \in waiting
       THEN /\ Open(i, buffer[i], 0)
            /\ source' = FreshSource
            /\ tokenDue' = TRUE
       ELSE UNCHANGED <<conn, stray, source, tokenDue>>
    /\ UNCHANGED <<turn, streaming, outcome, shown, revived, server, buffer,
                   mishaps, torn, overrun>>

(* The dispatch fails: 502, shown as an error.                             *)
AnswerFails(t) ==
    /\ t \in pending
    /\ pending' = pending \ {t}
    /\ waiting' = waiting \ {t}
    /\ IF t \in waiting THEN End("error") ELSE UNCHANGED <<streaming, outcome>>
    /\ UNCHANGED <<turn, shown, source, tokenDue, revived, server, mute, cache,
                   streamVars>>

(* Mutant: the answer is still waited for.                                 *)
PostLate(t) ==
    /\ t \in waiting /\ streaming
    /\ End("error")
    /\ UNCHANGED <<turn, waiting, shown, source, tokenDue, revived, gatewayVars,
                   streamVars>>

(* The proxy gives up after 120 s, or the network does; the gateway does   *)
(* not hear of it.                                                         *)
PostLost(t) ==
    /\ t \in waiting
    /\ waiting' = waiting \ {t}
    /\ End("error")
    /\ UNCHANGED <<turn, shown, source, tokenDue, revived, gatewayVars, streamVars>>

(* The token arrives, at any time before the next run, and differs from    *)
(* the last one: the dependencies of connect() have changed, and another   *)
(* EventSource is opened, whether or not the one there was is closed.      *)
TokenArrives(i) ==
    /\ tokenDue
    /\ tokenDue' = FALSE
    /\ Open(i, buffer[i], 0)
    /\ source' = FreshSource
    /\ revived' = (revived \/ ~streaming \/ waiting # {})
    /\ Mishap
    /\ UNCHANGED <<turn, waiting, streaming, outcome, shown, gatewayVars, buffer,
                   torn, overrun>>

-----------------------------------------------------------------------------
(* The stream route.                                                       *)

(* A poll that found the reply to t, late or not.                          *)
Late(late, t) ==
    /\ IF late THEN Mishap ELSE UNCHANGED mishaps
    /\ overrun' = (overrun \/ (late /\ t \in mute))

Push(t, w, late) ==
    LET e == Pushed(conn.seq, t, w, late)
    IN  /\ conn' = [conn EXCEPT !.wire = @ \o e, !.polling = FALSE,
                                !.seq = e[Len(e)].seq]
        /\ Store(conn.at, e)
        /\ Late(late, t)

(* get_chat_result of any worker: without an entry it is in progress.  The *)
(* poll may have begun before the deadline and end after it.               *)
Poll(w) ==
    /\ conn.polling
    /\ cache[w] # 0
    /\ \E late \in BOOLEAN : Push(cache[w], w, late)
    /\ UNCHANGED <<browserVars, gatewayVars, stray>>

(* 120 s without a result.                                                 *)
TimeUp ==
    /\ conn.polling
    /\ Push(0, None, FALSE)
    /\ UNCHANGED <<browserVars, gatewayVars, stray>>

(* A connection the browser has left polls on, and fills the buffer.       *)
StrayPoll(w) ==
    /\ cache[w] # 0
    /\ \E s \in stray, late \in BOOLEAN :
          /\ Store(s.at, Pushed(s.seq, cache[w], w, late))
          /\ stray' = stray \ {s}
          /\ Late(late, cache[w])
    /\ UNCHANGED <<browserVars, gatewayVars, conn>>

StrayTimeUp ==
    /\ \E s \in stray :
          /\ Store(s.at, Pushed(s.seq, 0, None, FALSE))
          /\ stray' = stray \ {s}
    /\ UNCHANGED <<browserVars, gatewayVars, conn, mishaps, overrun>>

StrayAborts ==
    /\ \E s \in stray : stray' = stray \ {s}
    /\ UNCHANGED <<browserVars, gatewayVars, buffer, conn, mishaps, torn, overrun>>

(* 30 minutes pass with nobody connected (a connection lasts two), or the  *)
(* instance is replaced: all that its buffer had is gone.                  *)
Expire(i) ==
    /\ ~source.open /\ stray = {}
    /\ buffer[i] # << >>
    /\ buffer' = [buffer EXCEPT ![i] = << >>]
    /\ UNCHANGED <<browserVars, gatewayVars, conn, stray, mishaps, torn, overrun>>

-----------------------------------------------------------------------------
(* The EventSource.                                                        *)

(* The connection breaks; the browser opens another to any instance and    *)
(* sends the id of the last event it has received.  Of the events of that  *)
(* instance the n oldest may have expired, each 30 minutes after its push. *)
Reconnect(i) ==
    /\ source.open
    /\ Mishap
    /\ \E n \in 0 .. Len(buffer[i]) :
          /\ source.lastId = 0 => n = 0
          /\ LET young == SubSeq(buffer[i], n + 1, Len(buffer[i]))
             IN  buffer' = [buffer EXCEPT ![i] = young] /\ Open(i, young, source.lastId)
          /\ torn' = (torn \/ n > 0)
    /\ UNCHANGED <<browserVars, gatewayVars, overrun>>

(* The connection breaks, or has not been there yet, and the new one is    *)
(* answered with an HTTP error: the EventSource gives up for good.         *)
Refuse ==
    /\ source.open
    /\ Mishap
    /\ source' = [Closed EXCEPT !.refused = TRUE]
    /\ conn' = NoConn
    /\ Leave
    /\ UNCHANGED <<turn, waiting, streaming, outcome, shown, tokenDue, revived,
                   gatewayVars, buffer, torn, overrun>>

(* Mutant: at least, for more than.                                        *)
NotYetSeen(e) == e.seq >= source.lastSeq

Unseen(e) == e.seq > source.lastSeq

(* A text is shown unless its number has been seen.                        *)
ReceiveText ==
    /\ source.open /\ conn.wire # << >>
    /\ LET e == Head(conn.wire)
       IN  /\ e.kind = "token"
           /\ IF Unseen(e)
              THEN /\ source' = [source EXCEPT !.lastSeq = e.seq, !.lastId = e.seq,
                                               !.texts = @ + 1]
                   /\ shown' = [shown EXCEPT ![turn] = Append(@, e)]
              ELSE /\ source' = [source EXCEPT !.lastId = e.seq]
                   /\ UNCHANGED shown
    /\ conn' = [conn EXCEPT !.wire = Tail(@)]
    /\ UNCHANGED <<turn, waiting, streaming, outcome, tokenDue, revived,
                   gatewayVars, buffer, stray, mishaps, torn, overrun>>

(* Done, whatever its number: the source is closed and the input unlocked. *)
ReceiveDone ==
    /\ source.open /\ conn.wire # << >>
    /\ Head(conn.wire).kind = "done"
    /\ source' = Closed
    /\ End("done")
    /\ conn' = NoConn
    /\ Leave
    /\ UNCHANGED <<turn, waiting, shown, tokenDue, revived, gatewayVars, buffer,
                   mishaps, torn, overrun>>

ChatNext ==
    \/ \E w \in Workers : Send(w) \/ Poll(w) \/ StrayPoll(w)
    \/ \E t \in Turns : \/ AnswerFails(t) \/ PostLost(t)
                        \/ \E i \in Instances : Answer(t, i)
    \/ \E i \in Instances : TokenArrives(i) \/ Reconnect(i) \/ Expire(i)
    \/ TimeUp \/ StrayTimeUp \/ StrayAborts
    \/ Refuse \/ ReceiveText \/ ReceiveDone

ChatSpec == ChatInit /\ [][ChatNext]_chatVars

(* The proxy and the stream route have deadlines, and what is on the wire  *)
(* arrives or the connection breaks.  Nothing makes an agent answer or a   *)
(* worker answer a poll.                                                   *)
FairChatSpec ==
    /\ ChatSpec
    /\ \A t \in Turns : WF_chatVars(PostLost(t))
    /\ WF_chatVars(TimeUp)
    /\ WF_chatVars(ReceiveText \/ ReceiveDone)

-----------------------------------------------------------------------------
(* Buffers are kept by thread and numbers start again: a turn that ended   *)
(* regularly has shown a text that was polled for after the message was    *)
(* sent, unless the agent had none for it or for an earlier one; neither a *)
(* `done` nor a text of an earlier turn is replayed in its place           *)
(* (route.ts:82-91, use-sse.ts:83-95).  That is promised until a late      *)
(* token revives the stream of a turn that is over.                        *)
NoSilentEnd ==
    ~revived => \A t \in Turns :
        outcome[t] = "done" =>
            \/ \E u \in mute : u <= t
            \/ \E k \in DOMAIN shown[t] : shown[t][k].during = t

(* However often a connection breaks, and whichever instances it is        *)
(* resumed at, one source shows one text: numbers that start again from    *)
(* zero or from a replayed event are enough to tell a repetition, as long  *)
(* as no buffer has lost the beginning of what it was given, and none was  *)
(* given a silence and then a text, by a poll that ended past its time     *)
(* (use-sse.ts:68-81, route.ts:51-91, 133-196, sse-buffer.ts:42-45).       *)
OneTextPerSource == ~torn /\ ~overrun => source.texts <= 1

(* A turn shows the answer to an earlier one only when the poll reached    *)
(* another worker than the message did: the cache of a worker is never     *)
(* behind the messages it has served, and no whole buffer replays it       *)
(* (chat.py:31, 245, 435, sse-buffer.ts:57-59).  A late token may bring an *)
(* answer back that the worker has not replaced yet.                       *)
StaleOnlyElsewhere ==
    ~torn /\ ~overrun /\ ~revived =>
        \A t \in Turns : \A k \in DOMAIN shown[t] :
            shown[t][k].of # 0 =>
                shown[t][k].of = t \/ shown[t][k].by # server[t]

(* The input does not stay locked, unless an HTTP error closes the source  *)
(* for good (route.ts:186, use-sse.ts:90, 97-101).                         *)
SpinnerClears == streaming ~> (~streaming \/ source.refused)

-----------------------------------------------------------------------------
(* What the operator sees is a conversation, whatever becomes of posts,     *)
(* connections and late answers: one message is answered at a time, a turn  *)
(* ends once, and until a late token revives a stream nothing is added to   *)
(* a turn that has ended and no error follows a text                        *)
(* (ChatDrawer.tsx:83-115, 171-230).                                        *)
Said == [t \in Turns |-> [k \in DOMAIN shown[t] |-> shown[t][k].of]]

Seen == INSTANCE Conversation
            WITH asked <- turn, ended <- outcome, said <- Said, silent <- mute,
                 disturbed <- revived

KeepsConversation == Seen!Talk

-----------------------------------------------------------------------------
(* What the repository says of this code and the code does not do.          *)

(* "Using a simple dict -- single process" (chat.py:28): the answer found   *)
(* by thread id is that to the message just sent.  There are up to ten      *)
(* processes, and the dict of another one may hold an older answer.         *)
AnswersThisTurn ==
    \A t \in Turns :
        \A k \in DOMAIN shown[t] : shown[t][k].of \in {0, t}

=============================================================================
