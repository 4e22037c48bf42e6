---------------------------- MODULE WarRoomProofs ----------------------------
(***************************************************************************)
(* Proofs about WarRoom: for any number of requests, operators, workers,   *)
(* streams and any queue size, the etags keep what was stored in a room    *)
(* and the streams in its order.                                           *)
(***************************************************************************)
EXTENDS WarRoom, TLAPS

(* A copy is of the document, and is the document while the etag is its.   *)
CopiesAreOfRoom ==
    \A c \in Calls : seen[c] # None =>
        /\ room # None /\ seen[c].etag <= room.etag
        /\ seen[c].etag = room.etag => seen[c] = room

(* A request about to write holds a copy, and a join one it is not in.     *)
WritersHold ==
    \A c \in Calls :
        /\ stage[c] = "replace" => seen[c] # None
        /\ stage[c] = "replace" /\ call[c].kind = "join" =>
               call[c].by \notin Range(seen[c].participants)
        /\ stage[c] = "reread" => call[c].kind = "join"

Callers ==
    \A c \in Calls :
        /\ call[c].kind = "join" => call[c].by \in Operators
        /\ stage[c] = "idle" => reply[c] = "none"

Alive == room # None => room.life >= 1

(* AnsweredIsStored, and an answer needs a room.                           *)
AnswersAreStored ==
    \A c \in Calls : call[c].kind = "annotate" /\ reply[c] = "ok" =>
        /\ room # None
        /\ room.life = 1 => c \in Range(room.annotations)

(* The events are some of the annotations, in their order.                 *)
Embeds(e, a) ==
    \E f \in [DOMAIN e -> DOMAIN a] :
        \A i \in DOMAIN e :
            /\ a[f[i]] = e[i]
            /\ \A j \in DOMAIN e : i < j => f[i] < f[j]

Events(k) == shown[k] \o queue[k]

StreamsFollow ==
    \A k \in Clients :
        /\ room = None => Events(k) = <<>>
        /\ room # None /\ room.life = 1 => Embeds(Events(k), room.annotations)

RoomInv ==
    /\ RoomTypeOK
    /\ CopiesAreOfRoom /\ WritersHold /\ Callers /\ Alive
    /\ ParticipantsUnique /\ AnswersAreStored /\ StreamsFollow

-----------------------------------------------------------------------------
LEMMA Appended ==
    ASSUME NEW S, NEW s \in Seq(S), NEW x \in S
    PROVE  /\ Append(s, x) \in Seq(S)
           /\ Range(Append(s, x)) = Range(s) \cup {x}
           /\ IsInjective(s) /\ x \notin Range(s) => IsInjective(Append(s, x))
           /\ IsPrefix(s, Append(s, x)) /\ IsPrefix(s, s)
<1> DEFINE a == Append(s, x)
<1>1. a \in Seq(S) /\ Len(a) = Len(s) + 1 /\ a[Len(s) + 1] = x
      /\ \A i \in 1 .. Len(s) : a[i] = s[i]
  OBVIOUS
<1>2. DOMAIN a = 1 .. Len(s) + 1 /\ DOMAIN s = 1 .. Len(s) /\ Len(s) \in Nat
  OBVIOUS
<1>3. Range(a) = Range(s) \cup {x}
  <2>1. \A i \in DOMAIN a : i \in DOMAIN s \/ i = Len(s) + 1
    BY <1>2
  <2>2. DOMAIN s \subseteq DOMAIN a /\ Len(s) + 1 \in DOMAIN a
    BY <1>2
  <2>3. \A i \in DOMAIN s : a[i] = s[i]
    BY <1>1, <1>2
  <2>4. a[Len(s) + 1] = x
    BY <1>1
  <2> HIDE DEF a
  <2> QED
    BY <2>1, <2>2, <2>3, <2>4 DEF Range
<1>4. ASSUME IsInjective(s), x \notin Range(s) PROVE IsInjective(a)
  <2> SUFFICES ASSUME NEW i \in DOMAIN a, NEW j \in DOMAIN a, a[i] = a[j] PROVE i = j
    BY DEF IsInjective
  <2>1. \A k \in DOMAIN a : k \in DOMAIN s \/ k = Len(s) + 1
    BY <1>2
  <2>2. \A k \in DOMAIN s : a[k] = s[k] /\ s[k] \in Range(s)
    BY <1>1, <1>2 DEF Range
  <2>3. a[Len(s) + 1] = x
    BY <1>1
  <2> HIDE DEF a
  <2> QED
    BY <1>4, <2>1, <2>2, <2>3 DEF IsInjective
<1>5. IsPrefix(s, a) /\ IsPrefix(s, s)
  BY DEF IsPrefix
<1> QED
  BY <1>1, <1>3, <1>4, <1>5

LEMMA SamePrefix == ASSUME NEW S, NEW s \in Seq(S) PROVE IsPrefix(s, s)
  BY DEF IsPrefix

(* What is queued last comes last, and what is sent was next.              *)
LEMMA AppendToBoth ==
    ASSUME NEW S, NEW s \in Seq(S), NEW q \in Seq(S), NEW x \in S
    PROVE  s \o Append(q, x) = Append(s \o q, x)
<1> DEFINE a == s \o Append(q, x)
           b == Append(s \o q, x)
<1>1. a \in Seq(S) /\ b \in Seq(S) /\ Len(a) = Len(b)
  OBVIOUS
<1>2. \A i \in 1 .. Len(b) : a[i] = b[i]
  OBVIOUS
<1> QED
  BY <1>1, <1>2

LEMMA HeadMoves ==
    ASSUME NEW S, NEW s \in Seq(S), NEW q \in Seq(S), q # <<>>
    PROVE  Append(s, Head(q)) \o Tail(q) = s \o q
<1> DEFINE a == Append(s, Head(q)) \o Tail(q)
           b == s \o q
<1>1. a \in Seq(S) /\ b \in Seq(S) /\ Len(a) = Len(b)
  OBVIOUS
<1>2. \A i \in 1 .. Len(b) : a[i] = b[i]
  OBVIOUS
<1> QED
  BY <1>1, <1>2

LEMMA NothingAndNothing == <<>> \o <<>> = <<>>
  OBVIOUS

LEMMA EmptyEmbeds ==
    ASSUME NEW a PROVE Embeds(<<>>, a)
<1> DEFINE f == [i \in DOMAIN <<>> |-> i]
<1>1. DOMAIN <<>> = {}
  OBVIOUS
<1>2. f \in [DOMAIN <<>> -> DOMAIN a]
  BY <1>1
<1> QED
  BY <1>1, <1>2 DEF Embeds

LEMMA EmbedsLonger ==
    ASSUME NEW S, NEW a \in Seq(S), NEW x \in S, NEW e, Embeds(e, a)
    PROVE  Embeds(e, Append(a, x))
<1>1. DOMAIN a \subseteq DOMAIN Append(a, x) /\ \A i \in DOMAIN a : Append(a, x)[i] = a[i]
  OBVIOUS
<1>2. PICK f \in [DOMAIN e -> DOMAIN a] :
          \A i \in DOMAIN e : /\ a[f[i]] = e[i]
                              /\ \A j \in DOMAIN e : i < j => f[i] < f[j]
  BY DEF Embeds
<1> DEFINE b == Append(a, x)
<1> HIDE DEF b
<1>3. f \in [DOMAIN e -> DOMAIN b] /\ \A i \in DOMAIN e : b[f[i]] = e[i]
  BY <1>1, <1>2 DEF b
<1>4. Embeds(e, b)
  BY <1>2, <1>3 DEF Embeds
<1> QED
  BY <1>4 DEF b

LEMMA EmbedsBoth ==
    ASSUME NEW S, NEW a \in Seq(S), NEW x \in S, NEW e \in Seq(S), Embeds(e, a)
    PROVE  Embeds(Append(e, x), Append(a, x))
<1>1. PICK f \in [DOMAIN e -> DOMAIN a] :
          \A i \in DOMAIN e : /\ a[f[i]] = e[i]
                              /\ \A j \in DOMAIN e : i < j => f[i] < f[j]
  BY DEF Embeds
<1> DEFINE b == Append(a, x)
           d == Append(e, x)
           m == Len(e) + 1
           n == Len(a) + 1
           g == [i \in DOMAIN d |-> IF i = m THEN n ELSE f[i]]
<1>2. /\ DOMAIN d = 1 .. m /\ DOMAIN e = 1 .. Len(e) /\ d[m] = x
      /\ \A i \in DOMAIN e : d[i] = e[i]
      /\ m \in Nat /\ m \notin DOMAIN e /\ m \in DOMAIN d
      /\ \A i \in DOMAIN d : i = m \/ i \in DOMAIN e
  OBVIOUS
<1>3. /\ DOMAIN b = 1 .. n /\ DOMAIN a = 1 .. Len(a) /\ b[n] = x /\ n \in DOMAIN b
      /\ \A i \in DOMAIN a : b[i] = a[i] /\ i \in DOMAIN b /\ i < n
  OBVIOUS
<1>4. \A i \in DOMAIN e : i < m /\ ~(m < i)
  BY <1>2
<1>5. g[m] = n /\ \A i \in DOMAIN e : g[i] = f[i] /\ f[i] \in DOMAIN a
  BY <1>1, <1>2
<1>6. g \in [DOMAIN d -> DOMAIN b]
  BY <1>1, <1>2, <1>3
<1> HIDE DEF b, d, g, m, n
<1>7. ASSUME NEW i \in DOMAIN d
      PROVE  /\ b[g[i]] = d[i]
             /\ \A j \in DOMAIN d : i < j => g[i] < g[j]
  <2>1. CASE i \in DOMAIN e
    <3>1. b[g[i]] = d[i]
      BY <2>1, <1>1, <1>2, <1>3, <1>5
    <3>2. ASSUME NEW j \in DOMAIN d, i < j
          PROVE  g[i] < g[j]
      <4>1. CASE j = m
        BY <2>1, <4>1, <1>3, <1>5
      <4>2. CASE j \in DOMAIN e
        BY <2>1, <3>2, <4>2, <1>1, <1>5
      <4> QED
        BY <4>1, <4>2, <1>2
    <3> QED
      BY <3>1, <3>2
  <2>2. CASE i = m
    <3>1. b[g[i]] = d[i]
      BY <2>2, <1>2, <1>3, <1>5
    <3>2. ASSUME NEW j \in DOMAIN d, i < j
          PROVE  FALSE
      <4>1. CASE j = m
        BY <2>2, <3>2, <4>1, <1>2
      <4>2. CASE j \in DOMAIN e
        BY <2>2, <3>2, <4>2, <1>4
      <4> QED
        BY <4>1, <4>2, <1>2
    <3> QED
      BY <3>1, <3>2
  <2> QED
    BY <2>1, <2>2, <1>2
<1>8. Embeds(d, b)
  BY <1>6, <1>7 DEF Embeds
<1> QED
  BY <1>8 DEF b, d

-----------------------------------------------------------------------------
LEMMA RoomInitInv == RoomInit => RoomInv
<1> SUFFICES ASSUME RoomInit PROVE RoomInv
  OBVIOUS
<1>1. RoomTypeOK
  BY DEF RoomInit, RoomTypeOK, Stage
<1>2. CopiesAreOfRoom /\ WritersHold /\ Alive /\ ParticipantsUnique /\ AnswersAreStored
  BY DEF RoomInit, CopiesAreOfRoom, WritersHold, Alive, ParticipantsUnique, AnswersAreStored
<1>3. Callers
  BY DEF RoomInit, Callers
<1>4. StreamsFollow
  BY DEF RoomInit, StreamsFollow, Events
<1> QED
  BY <1>1, <1>2, <1>3, <1>4 DEF RoomInv

(* A request moves on and writes nothing.                                  *)
LEMMA OwnStep ==
    ASSUME RoomInv, NEW c \in Calls, RoomTypeOK', UNCHANGED <<room, queue, shown>>,
           \A d \in Calls \ {c} : /\ stage'[d] = stage[d] /\ seen'[d] = seen[d]
                                  /\ reply'[d] = reply[d] /\ call'[d] = call[d],
           seen'[c] \in {None, room, seen[c]},
           stage'[c] = "replace" => seen'[c] # None,
           stage'[c] = "replace" /\ call'[c].kind = "join" =>
               call'[c].by \notin Range(seen'[c].participants),
           stage'[c] = "reread" => call'[c].kind = "join",
           call'[c].kind = "join" => call'[c].by \in Operators,
           stage'[c] = "idle" => reply'[c] = "none",
           call'[c].kind = "annotate" /\ reply'[c] = "ok" =>
               call[c].kind = "annotate" /\ reply[c] = "ok"
    PROVE  RoomInv'
<1>1. CopiesAreOfRoom'
  <2>1. room # None => room.etag \in Nat
    BY DEF RoomInv, RoomTypeOK, Room
  <2> QED
    BY <2>1 DEF RoomInv, CopiesAreOfRoom
<1>2. WritersHold'
  BY DEF RoomInv, WritersHold
<1>3. Callers'
  BY DEF RoomInv, Callers
<1>4. AnswersAreStored'
  BY DEF RoomInv, AnswersAreStored
<1>5. Alive' /\ ParticipantsUnique' /\ StreamsFollow'
  BY DEF RoomInv, Alive, ParticipantsUnique, StreamsFollow, Events
<1> QED
  BY <1>1, <1>2, <1>3, <1>4, <1>5 DEF RoomInv

(* What an answer changes.                                                 *)
LEMMA AnswerChanges ==
    ASSUME RoomTypeOK, NEW c \in Calls, NEW a \in {"ok", "error"}, Answer(c, a)
    PROVE  /\ stage'[c] = "done" /\ reply'[c] = a /\ seen'[c] = None
           /\ \A d \in Calls \ {c} :
                 stage'[d] = stage[d] /\ reply'[d] = reply[d] /\ seen'[d] = seen[d]
           /\ stage' \in [Calls -> Stage] /\ seen' \in [Calls -> Room \cup {None}]
           /\ reply' \in [Calls -> {"none", "ok", "error"}]
  BY DEF Answer, Goto, RoomTypeOK, Stage

LEMMA GotoChanges ==
    ASSUME RoomTypeOK, NEW c \in Calls, NEW s \in Stage, Goto(c, s)
    PROVE  /\ stage'[c] = s /\ \A d \in Calls \ {c} : stage'[d] = stage[d]
           /\ stage' \in [Calls -> Stage]
  BY DEF Goto, RoomTypeOK

LEMMA StartStep == ASSUME RoomInv, NEW c \in Calls, Start(c) PROVE RoomInv'
<1>1. RoomTypeOK
  BY DEF RoomInv
<1>2. PICK k \in Kind, w \in Workers, o \in Operators \cup {None} :
          /\ call' = [call EXCEPT ![c] = [kind |-> k, by |-> o, on |-> w]]
          /\ k = "join" => o \in Operators
  BY DEF Start
<1>3. /\ stage[c] = "idle" /\ Goto(c, "read")
      /\ UNCHANGED <<room, seen, attempt, reply, at, queue, shown>>
  BY DEF Start
<1>4. /\ stage'[c] = "read" /\ \A d \in Calls \ {c} : stage'[d] = stage[d]
      /\ stage' \in [Calls -> Stage]
  BY <1>1, <1>3, GotoChanges DEF Stage
<1>5. /\ call'[c].kind = k /\ call'[c].by = o
      /\ \A d \in Calls \ {c} : call'[d] = call[d]
      /\ call' \in [Calls -> [kind : Kind \cup {"none"}, by : Operators \cup {None},
                              on : Workers \cup {None}]]
  BY <1>1, <1>2 DEF RoomTypeOK
<1>6. RoomTypeOK'
  BY <1>1, <1>3, <1>4, <1>5 DEF RoomTypeOK
<1>7. reply[c] = "none"
  BY <1>3 DEF RoomInv, Callers
<1> QED
  BY <1>2, <1>3, <1>4, <1>5, <1>6, <1>7, OwnStep

LEMMA ReadMissingStep == ASSUME RoomInv, NEW c \in Calls, ReadMissing(c) PROVE RoomInv'
<1>1. RoomTypeOK
  BY DEF RoomInv
<1>2. room = None /\ stage[c] = "read" /\ UNCHANGED <<room, call, attempt, at, queue, shown>>
  BY DEF ReadMissing
<1>3. call[c].kind = "join" => call[c].by \in Operators
  BY DEF RoomInv, Callers
<1>4. CASE Goto(c, "create") /\ UNCHANGED <<seen, reply>>
  <2>1. /\ stage'[c] = "create" /\ \A d \in Calls \ {c} : stage'[d] = stage[d]
        /\ stage' \in [Calls -> Stage]
    BY <1>1, <1>4, GotoChanges DEF Stage
  <2>2. RoomTypeOK'
    BY <1>1, <1>2, <1>4, <2>1 DEF RoomTypeOK
  <2> QED
    BY <1>2, <1>3, <1>4, <2>1, <2>2, OwnStep
<1>5. CASE \/ call[c].kind = "heartbeat" /\ Answer(c, "ok")
           \/ Answer(c, "error")
  <2>1. PICK a \in {"ok", "error"} : Answer(c, a) /\ (a = "ok" => call[c].kind # "annotate")
    BY <1>5
  <2>2. /\ stage'[c] = "done" /\ reply'[c] = a /\ seen'[c] = None
        /\ \A d \in Calls \ {c} :
              stage'[d] = stage[d] /\ reply'[d] = reply[d] /\ seen'[d] = seen[d]
        /\ stage' \in [Calls -> Stage] /\ seen' \in [Calls -> Room \cup {None}]
        /\ reply' \in [Calls -> {"none", "ok", "error"}]
    BY <1>1, <2>1, AnswerChanges
  <2>3. RoomTypeOK'
    BY <1>1, <1>2, <2>2 DEF RoomTypeOK
  <2> QED
    BY <1>2, <1>3, <2>1, <2>2, <2>3, OwnStep
<1> QED
  BY <1>4, <1>5 DEF ReadMissing

LEMMA ReadFoundStep == ASSUME RoomInv, NEW c \in Calls, ReadFound(c) PROVE RoomInv'
<1>1. RoomTypeOK
  BY DEF RoomInv
<1>2. room # None /\ stage[c] = "read" /\ UNCHANGED <<room, call, attempt, at, queue, shown>>
  BY DEF ReadFound
<1>3. call[c].kind = "join" => call[c].by \in Operators
  BY DEF RoomInv, Callers
<1>4. CASE call[c].kind = "join" /\ Present(c)
  <2>1. /\ stage'[c] = "done" /\ reply'[c] = "ok" /\ seen'[c] = None
        /\ \A d \in Calls \ {c} :
              stage'[d] = stage[d] /\ reply'[d] = reply[d] /\ seen'[d] = seen[d]
        /\ stage' \in [Calls -> Stage] /\ seen' \in [Calls -> Room \cup {None}]
        /\ reply' \in [Calls -> {"none", "ok", "error"}]
    BY <1>1, <1>4, AnswerChanges DEF ReadFound
  <2>2. RoomTypeOK'
    BY <1>1, <1>2, <2>1 DEF RoomTypeOK
  <2> QED
    BY <1>2, <1>3, <1>4, <2>1, <2>2, OwnStep
<1>5. CASE ~(call[c].kind = "join" /\ Present(c))
  <2>1. Goto(c, "replace") /\ seen' = [seen EXCEPT ![c] = room] /\ reply' = reply
    BY <1>5 DEF ReadFound
  <2>2. /\ stage'[c] = "replace" /\ \A d \in Calls \ {c} : stage'[d] = stage[d]
        /\ stage' \in [Calls -> Stage]
    BY <1>1, <2>1, GotoChanges DEF Stage
  <2>3. /\ seen'[c] = room /\ \A d \in Calls \ {c} : seen'[d] = seen[d]
        /\ seen' \in [Calls -> Room \cup {None}]
    BY <1>1, <2>1 DEF RoomTypeOK
  <2>4. RoomTypeOK'
    BY <1>1, <1>2, <2>1, <2>2, <2>3 DEF RoomTypeOK
  <2>5. call[c].kind = "join" => call[c].by \notin Range(room.participants)
    BY <1>5 DEF Present
  <2> QED
    BY <1>2, <1>3, <2>1, <2>2, <2>3, <2>4, <2>5, OwnStep
<1> QED
  BY <1>4, <1>5

LEMMA RereadStep == ASSUME RoomInv, NEW c \in Calls, Reread(c) PROVE RoomInv'
<1>1. RoomTypeOK
  BY DEF RoomInv
<1>2. /\ stage[c] = "reread" /\ Answer(c, "ok")
      /\ UNCHANGED <<room, call, attempt, at, queue, shown>>
  BY DEF Reread
<1>3. /\ stage'[c] = "done" /\ reply'[c] = "ok" /\ seen'[c] = None
      /\ \A d \in Calls \ {c} :
            stage'[d] = stage[d] /\ reply'[d] = reply[d] /\ seen'[d] = seen[d]
      /\ stage' \in [Calls -> Stage] /\ seen' \in [Calls -> Room \cup {None}]
      /\ reply' \in [Calls -> {"none", "ok", "error"}]
  BY <1>1, <1>2, AnswerChanges
<1>4. RoomTypeOK'
  BY <1>1, <1>2, <1>3 DEF RoomTypeOK
<1>5. call[c].kind = "join" /\ call[c].by \in Operators
  BY <1>2 DEF RoomInv, WritersHold, Callers
<1> QED
  BY <1>2, <1>3, <1>4, <1>5, OwnStep

LEMMA FailsStep == ASSUME RoomInv, NEW c \in Calls, Fails(c) PROVE RoomInv'
<1>1. RoomTypeOK
  BY DEF RoomInv
<1>2. Answer(c, "error") /\ UNCHANGED <<room, call, attempt, at, queue, shown>>
  BY DEF Fails
<1>3. /\ stage'[c] = "done" /\ reply'[c] = "error" /\ seen'[c] = None
      /\ \A d \in Calls \ {c} :
            stage'[d] = stage[d] /\ reply'[d] = reply[d] /\ seen'[d] = seen[d]
      /\ stage' \in [Calls -> Stage] /\ seen' \in [Calls -> Room \cup {None}]
      /\ reply' \in [Calls -> {"none", "ok", "error"}]
  BY <1>1, <1>2, AnswerChanges
<1>4. RoomTypeOK'
  BY <1>1, <1>2, <1>3 DEF RoomTypeOK
<1>5. call[c].kind = "join" => call[c].by \in Operators
  BY DEF RoomInv, Callers
<1> QED
  BY <1>2, <1>3, <1>4, <1>5, OwnStep

(* The exits of a write that raised: no annotation is answered ok.         *)
LEMMA NotReplacedChanges ==
    ASSUME RoomTypeOK, NEW c \in Calls, NotReplaced(c)
    PROVE  /\ queue' = queue
           /\ stage'[c] \in {"reread", "read", "done"}
           /\ stage'[c] = "reread" => call[c].kind = "join"
           /\ seen'[c] \in {None, seen[c]}
           /\ reply'[c] = reply[c] \/ reply'[c] = "error" \/ call[c].kind # "annotate"
           /\ \A d \in Calls \ {c} :
                 stage'[d] = stage[d] /\ reply'[d] = reply[d] /\ seen'[d] = seen[d]
           /\ stage' \in [Calls -> Stage] /\ seen' \in [Calls -> Room \cup {None}]
           /\ reply' \in [Calls -> {"none", "ok", "error"}]
           /\ attempt' \in [Calls -> 0 .. 1]
<1>1. CASE /\ UNCHANGED <<seen, reply, queue>>
           /\ \/ call[c].kind = "join" /\ Goto(c, "reread") /\ attempt' = attempt
              \/ Goto(c, "read") /\ attempt' = [attempt EXCEPT ![c] = 1]
  <2>1. PICK s \in {"reread", "read"} : Goto(c, s) /\ (s = "reread" => call[c].kind = "join")
    BY <1>1
  <2>2. UNCHANGED <<seen, reply, queue>>
    BY <1>1
  <2>3. /\ stage'[c] = s /\ \A d \in Calls \ {c} : stage'[d] = stage[d]
        /\ stage' \in [Calls -> Stage]
    BY <2>1, GotoChanges DEF Stage
  <2>4. attempt' \in [Calls -> 0 .. 1]
    BY <1>1 DEF RoomTypeOK
  <2> QED
    BY <2>1, <2>2, <2>3, <2>4 DEF RoomTypeOK
<1>2. CASE /\ UNCHANGED <<queue, attempt>>
           /\ \/ Answer(c, "error")
              \/ call[c].kind # "annotate" /\ Answer(c, "ok")
  <2>1. PICK a \in {"ok", "error"} : Answer(c, a) /\ (a = "ok" => call[c].kind # "annotate")
    BY <1>2
  <2>2. UNCHANGED <<queue, attempt>>
    BY <1>2
  <2>3. /\ stage'[c] = "done" /\ reply'[c] = a /\ seen'[c] = None
        /\ \A d \in Calls \ {c} :
              stage'[d] = stage[d] /\ reply'[d] = reply[d] /\ seen'[d] = seen[d]
        /\ stage' \in [Calls -> Stage] /\ seen' \in [Calls -> Room \cup {None}]
        /\ reply' \in [Calls -> {"none", "ok", "error"}]
    BY <2>1, AnswerChanges
  <2> QED
    BY <2>1, <2>2, <2>3 DEF RoomTypeOK
<1>3. attempt[c] \in 0 .. 1
  BY DEF RoomTypeOK
<1> QED
  BY <1>1, <1>2, <1>3 DEF NotReplaced

LEMMA ReplaceFailsStep == ASSUME RoomInv, NEW c \in Calls, ReplaceFails(c) PROVE RoomInv'
<1>1. RoomTypeOK
  BY DEF RoomInv
<1>2. NotReplaced(c) /\ UNCHANGED <<room, call, at, shown>>
  BY DEF ReplaceFails
<1>3. /\ queue' = queue
      /\ stage'[c] \in {"reread", "read", "done"}
      /\ stage'[c] = "reread" => call[c].kind = "join"
      /\ seen'[c] \in {None, seen[c]}
      /\ reply'[c] = reply[c] \/ reply'[c] = "error" \/ call[c].kind # "annotate"
      /\ \A d \in Calls \ {c} :
            stage'[d] = stage[d] /\ reply'[d] = reply[d] /\ seen'[d] = seen[d]
      /\ stage' \in [Calls -> Stage] /\ seen' \in [Calls -> Room \cup {None}]
      /\ reply' \in [Calls -> {"none", "ok", "error"}]
      /\ attempt' \in [Calls -> 0 .. 1]
  BY <1>1, <1>2, NotReplacedChanges
<1>4. RoomTypeOK'
  BY <1>1, <1>2, <1>3 DEF RoomTypeOK
<1>5. call[c].kind = "join" => call[c].by \in Operators
  BY DEF RoomInv, Callers
<1> QED
  BY <1>2, <1>3, <1>4, <1>5, OwnStep

-----------------------------------------------------------------------------
(* A write with a matching etag is made of the document as it is.          *)
LEMMA WriteFacts ==
    ASSUME RoomInv, NEW c \in Calls, stage[c] = "replace", EtagMatches(c),
           room' = Updated(c)
    PROVE  /\ seen[c] = room /\ room # None /\ room \in Room /\ room' \in Room
           /\ room'.etag = room.etag + 1 /\ room'.life = room.life
           /\ room'.participants = IF call[c].kind = "join"
                                   THEN Append(room.participants, call[c].by)
                                   ELSE room.participants
           /\ room'.annotations = IF call[c].kind = "annotate"
                                  THEN Append(room.annotations, c) ELSE room.annotations
           /\ call[c].kind = "join" =>
                 call[c].by \in Operators /\ call[c].by \notin Range(room.participants)
<1>1. seen[c] = room /\ room # None /\ room \in Room
  BY DEF RoomInv, CopiesAreOfRoom, WritersHold, EtagMatches, RoomTypeOK
<1>2. call[c].kind = "join" =>
          call[c].by \in Operators /\ call[c].by \notin Range(room.participants)
  BY <1>1 DEF RoomInv, Callers, WritersHold
<1>3. /\ room'.etag = room.etag + 1 /\ room'.life = room.life
      /\ room'.participants = IF call[c].kind = "join"
                              THEN Append(room.participants, call[c].by)
                              ELSE room.participants
      /\ room'.annotations = IF call[c].kind = "annotate"
                             THEN Append(room.annotations, c) ELSE room.annotations
  BY <1>1 DEF Updated
<1>4. room' \in Room
  <2>1. room.participants \in Seq(Operators) /\ room.annotations \in Seq(Calls)
        /\ room.life \in Nat /\ room.etag \in Nat /\ room.handoff \in Calls \cup {None}
    BY <1>1 DEF Room
  <2>2. (IF call[c].kind = "join" THEN Append(room.participants, call[c].by)
         ELSE room.participants) \in Seq(Operators)
    BY <1>2, <2>1, Appended
  <2>3. (IF call[c].kind = "annotate" THEN Append(room.annotations, c)
         ELSE room.annotations) \in Seq(Calls)
    BY <2>1, Appended
  <2>4. (IF call[c].kind = "handoff" THEN c ELSE room.handoff) \in Calls \cup {None}
    BY <2>1
  <2>5. room.etag + 1 \in Nat
    BY <2>1
  <2> QED
    BY <1>1, <2>1, <2>2, <2>3, <2>4, <2>5 DEF Updated, Room
<1> QED
  BY <1>1, <1>2, <1>3, <1>4

(* A write, and the streams that are told of it.                           *)
LEMMA WriteStep ==
    ASSUME RoomInv, NEW c \in Calls, stage[c] = "replace", EtagMatches(c),
           room' = Updated(c), RoomTypeOK', UNCHANGED <<call, shown>>,
           \A d \in Calls \ {c} :
               /\ stage'[d] = stage[d] /\ seen'[d] = seen[d] /\ reply'[d] = reply[d],
           seen'[c] \in {None, seen[c]},
           stage'[c] \in {"reread", "read", "done"},
           stage'[c] = "reread" => call[c].kind = "join",
           \A k \in Clients : \/ queue'[k] = queue[k]
                              \/ call[c].kind = "annotate" /\ queue'[k] = Append(queue[k], c)
    PROVE  RoomInv'
<1>1. /\ seen[c] = room /\ room # None /\ room \in Room /\ room' \in Room
      /\ room'.etag = room.etag + 1 /\ room'.life = room.life
      /\ room'.participants = IF call[c].kind = "join"
                              THEN Append(room.participants, call[c].by)
                              ELSE room.participants
      /\ room'.annotations = IF call[c].kind = "annotate"
                             THEN Append(room.annotations, c) ELSE room.annotations
      /\ call[c].kind = "join" =>
            call[c].by \in Operators /\ call[c].by \notin Range(room.participants)
  BY WriteFacts
<1>2. room' # None
  BY <1>1, NoRoom
<1>3. room.etag \in Nat /\ room.annotations \in Seq(Calls) /\ room.participants \in Seq(Operators)
  BY <1>1 DEF Room
<1>4. CopiesAreOfRoom'
  <2> SUFFICES ASSUME NEW d \in Calls, seen'[d] # None
               PROVE  seen'[d].etag <= room'.etag /\ seen'[d].etag # room'.etag
    BY <1>2 DEF CopiesAreOfRoom
  <2>1. seen'[d] = seen[d]
    OBVIOUS
  <2>2. seen[d].etag \in Nat /\ seen[d].etag <= room.etag
    BY <2>1 DEF RoomInv, CopiesAreOfRoom, RoomTypeOK, Room
  <2> QED
    BY <2>1, <2>2, <1>1, <1>3
<1>5. WritersHold' /\ Callers'
  BY DEF RoomInv, WritersHold, Callers
<1>6. Alive'
  BY <1>1 DEF RoomInv, Alive
<1>7. ParticipantsUnique'
  BY <1>1, <1>3, Appended DEF RoomInv, ParticipantsUnique
<1>8. AnswersAreStored'
  <2> SUFFICES ASSUME NEW d \in Calls, call[d].kind = "annotate", reply'[d] = "ok",
                      room'.life = 1
               PROVE  d \in Range(room'.annotations)
    BY <1>2 DEF AnswersAreStored
  <2>1. Range(Append(room.annotations, c)) = Range(room.annotations) \cup {c}
    BY <1>3, Appended
  <2>2. CASE d = c
    BY <2>1, <2>2, <1>1
  <2>3. CASE d # c
    <3>1. d \in Range(room.annotations)
      BY <2>3, <1>1 DEF RoomInv, AnswersAreStored
    <3> QED
      BY <3>1, <2>1, <1>1
  <2> QED
    BY <2>2, <2>3
<1>9. StreamsFollow'
  <2> SUFFICES ASSUME NEW k \in Clients, room.life = 1
               PROVE  Embeds(shown[k] \o queue'[k], room'.annotations)
    BY <1>1, <1>2 DEF StreamsFollow, Events
  <2>1. Embeds(shown[k] \o queue[k], room.annotations)
    BY <1>1 DEF RoomInv, StreamsFollow, Events
  <2>2. shown[k] \in Seq(Calls) /\ queue[k] \in Seq(Calls)
    BY DEF RoomInv, RoomTypeOK
  <2>3. CASE queue'[k] = queue[k]
    <3>1. CASE call[c].kind = "annotate"
      BY <2>1, <2>3, <3>1, <1>1, <1>3, EmbedsLonger
    <3>2. CASE call[c].kind # "annotate"
      BY <2>1, <2>3, <3>2, <1>1
    <3> QED
      BY <3>1, <3>2
  <2>4. CASE call[c].kind = "annotate" /\ queue'[k] = Append(queue[k], c)
    <3> DEFINE e == shown[k] \o queue[k]
    <3>1. shown[k] \o Append(queue[k], c) = Append(e, c)
      <4> DEFINE sh == shown[k]
                 q == queue[k]
      <4>1. sh \in Seq(Calls) /\ q \in Seq(Calls)
        BY <2>2
      <4> HIDE DEF sh, q
      <4>2. sh \o Append(q, c) = Append(sh \o q, c)
        BY <4>1, AppendToBoth
      <4> QED
        BY <4>2 DEF sh, q
    <3>2. e \in Seq(Calls) /\ Embeds(e, room.annotations)
      BY <2>1, <2>2
    <3> HIDE DEF e
    <3>3. Embeds(Append(e, c), Append(room.annotations, c))
      BY <3>2, <1>3, EmbedsBoth, Zenon
    <3>4. room'.annotations = Append(room.annotations, c)
      BY <2>4, <1>1
    <3> QED
      BY <2>4, <3>1, <3>3, <3>4, Zenon
  <2> QED
    BY <2>3, <2>4
<1> QED
  BY <1>4, <1>5, <1>6, <1>7, <1>8, <1>9 DEF RoomInv

LEMMA ReplaceStep == ASSUME RoomInv, NEW c \in Calls, Replace(c) PROVE RoomInv'
<1>1. RoomTypeOK
  BY DEF RoomInv
<1>2. /\ stage[c] = "replace" /\ EtagMatches(c) /\ room' = Updated(c) /\ Answer(c, "ok")
      /\ UNCHANGED <<call, attempt, at, shown>>
  BY DEF Replace
<1>3. /\ stage'[c] = "done" /\ reply'[c] = "ok" /\ seen'[c] = None
      /\ \A d \in Calls \ {c} :
            stage'[d] = stage[d] /\ reply'[d] = reply[d] /\ seen'[d] = seen[d]
      /\ stage' \in [Calls -> Stage] /\ seen' \in [Calls -> Room \cup {None}]
      /\ reply' \in [Calls -> {"none", "ok", "error"}]
  BY <1>1, <1>2, AnswerChanges
<1>4. /\ queue' \in [Clients -> Seq(Calls)]
      /\ \A k \in Clients : \/ queue'[k] = queue[k]
                            \/ call[c].kind = "annotate" /\ queue'[k] = Append(queue[k], c)
  <2>1. CASE call[c].kind = "annotate"
    <3>1. queue' = [k \in Clients |-> IF at[k] = call[c].on /\ Len(queue[k]) < QueueSize
                                      THEN Append(queue[k], c) ELSE queue[k]]
      BY <2>1 DEF Replace, Broadcast
    <3>2. \A k \in Clients : queue[k] \in Seq(Calls) /\ Append(queue[k], c) \in Seq(Calls)
      BY <1>1 DEF RoomTypeOK
    <3> QED
      BY <2>1, <3>1, <3>2
  <2>2. CASE call[c].kind # "annotate"
    BY <1>1, <2>2 DEF Replace, RoomTypeOK
  <2> QED
    BY <2>1, <2>2
<1>5. room' \in Room
  BY <1>2, WriteFacts
<1>6. RoomTypeOK'
  BY <1>1, <1>2, <1>3, <1>4, <1>5 DEF RoomTypeOK
<1> QED
  BY <1>2, <1>3, <1>4, <1>6, WriteStep

LEMMA ReplaceUnheardStep ==
    ASSUME RoomInv, NEW c \in Calls, ReplaceUnheard(c) PROVE RoomInv'
<1>1. RoomTypeOK
  BY DEF RoomInv
<1>2. /\ stage[c] = "replace" /\ EtagMatches(c) /\ room' = Updated(c) /\ NotReplaced(c)
      /\ UNCHANGED <<call, at, shown>>
  BY DEF ReplaceUnheard
<1>3. /\ queue' = queue
      /\ stage'[c] \in {"reread", "read", "done"}
      /\ stage'[c] = "reread" => call[c].kind = "join"
      /\ seen'[c] \in {None, seen[c]}
      /\ \A d \in Calls \ {c} :
            stage'[d] = stage[d] /\ reply'[d] = reply[d] /\ seen'[d] = seen[d]
      /\ stage' \in [Calls -> Stage] /\ seen' \in [Calls -> Room \cup {None}]
      /\ reply' \in [Calls -> {"none", "ok", "error"}]
      /\ attempt' \in [Calls -> 0 .. 1]
  BY <1>1, <1>2, NotReplacedChanges
<1>4. room' \in Room
  BY <1>2, WriteFacts
<1>5. RoomTypeOK'
  BY <1>1, <1>2, <1>3, <1>4 DEF RoomTypeOK
<1> QED
  BY <1>2, <1>3, <1>5, WriteStep

(* The document is created, or created anew: nothing is known of what was  *)
(* in it, but its life goes on counting.                                   *)
LEMMA CreateStep == ASSUME RoomInv, NEW c \in Calls, Create(c) PROVE RoomInv'
<1>1. RoomTypeOK
  BY DEF RoomInv
<1>2. /\ stage[c] = "create" /\ Goto(c, "replace") /\ seen' = [seen EXCEPT ![c] = room']
      /\ UNCHANGED <<call, attempt, reply, at, queue, shown>>
      /\ room' = [participants |-> <<>>, annotations |-> <<>>, handoff |-> None,
                  life |-> IF room = None THEN 1 ELSE room.life + 1,
                  etag |-> IF room = None THEN 1 ELSE room.etag + 1]
  BY DEF Create
<1>3. room # None => room.etag \in Nat /\ room.life \in Nat /\ room.life >= 1
  BY DEF RoomInv, Alive, RoomTypeOK, Room
<1>4. /\ room'.participants = <<>> /\ room'.annotations = <<>>
      /\ room'.life \in Nat /\ room'.etag \in Nat /\ room' \in Room
      /\ room # None => room'.etag = room.etag + 1 /\ room'.life > 1
      /\ room'.life >= 1
  BY <1>2, <1>3 DEF Room
<1>5. room' # None
  BY <1>4, NoRoom
<1>6. /\ stage'[c] = "replace" /\ stage' \in [Calls -> Stage]
      /\ \A d \in Calls \ {c} : stage'[d] = stage[d]
  BY <1>1, <1>2, GotoChanges DEF Stage
<1>7. /\ seen'[c] = room' /\ \A d \in Calls \ {c} : seen'[d] = seen[d]
      /\ seen' \in [Calls -> Room \cup {None}]
  BY <1>1, <1>2, <1>4 DEF RoomTypeOK
<1>8. RoomTypeOK'
  BY <1>1, <1>2, <1>4, <1>6, <1>7 DEF RoomTypeOK
<1>9. CopiesAreOfRoom'
  <2> SUFFICES ASSUME NEW d \in Calls \ {c}, seen[d] # None
               PROVE  seen[d].etag <= room'.etag /\ seen[d].etag # room'.etag
    BY <1>4, <1>5, <1>7 DEF CopiesAreOfRoom
  <2>1. room # None /\ seen[d].etag <= room.etag /\ seen[d].etag \in Nat
    BY DEF RoomInv, CopiesAreOfRoom, RoomTypeOK, Room
  <2> QED
    BY <2>1, <1>3, <1>4
<1>10. WritersHold'
  <2>1. Range(<<>>) = {}
    BY DEF Range
  <2> QED
    BY <2>1, <1>2, <1>4, <1>5, <1>6, <1>7 DEF RoomInv, WritersHold
<1>11. Callers'
  BY <1>2, <1>6 DEF RoomInv, Callers
<1>12. Alive'
  BY <1>4 DEF Alive
<1>13. ParticipantsUnique'
  BY <1>4 DEF ParticipantsUnique, IsInjective
<1>14. AnswersAreStored'
  BY <1>2, <1>4, <1>5 DEF RoomInv, AnswersAreStored
<1>15. StreamsFollow'
  <2>1. ASSUME NEW k \in Clients, room'.life = 1
        PROVE  Embeds(shown[k] \o queue[k], <<>>)
    <3>1. shown[k] \o queue[k] = <<>>
      BY <2>1, <1>4 DEF RoomInv, StreamsFollow, Events
    <3> QED
      BY <3>1, EmptyEmbeds
  <2> QED
    BY <2>1, <1>2, <1>4, <1>5 DEF StreamsFollow, Events
<1> QED
  BY <1>8, <1>9, <1>10, <1>11, <1>12, <1>13, <1>14, <1>15 DEF RoomInv

-----------------------------------------------------------------------------
(* Streams come, go and are served, and the room does not notice.          *)
LEMMA StreamStep ==
    ASSUME RoomInv, RoomTypeOK', UNCHANGED <<room, callVars>>,
           \A k \in Clients : Events(k)' = Events(k) \/ Events(k)' = <<>>
    PROVE  RoomInv'
<1>1. CopiesAreOfRoom' /\ WritersHold' /\ Callers' /\ Alive' /\ ParticipantsUnique'
      /\ AnswersAreStored'
  BY DEF callVars, RoomInv, CopiesAreOfRoom, WritersHold, Callers, Alive, ParticipantsUnique,
         AnswersAreStored
<1>2. StreamsFollow'
  <2> SUFFICES ASSUME NEW k \in Clients
               PROVE  /\ room = None => Events(k)' = <<>>
                      /\ room # None /\ room.life = 1 => Embeds(Events(k)', room.annotations)
    BY DEF StreamsFollow, Embeds
  <2>1. /\ room = None => Events(k) = <<>>
        /\ room # None /\ room.life = 1 => Embeds(Events(k), room.annotations)
    BY DEF RoomInv, StreamsFollow
  <2> QED
    BY <2>1, EmptyEmbeds
<1> QED
  BY <1>1, <1>2 DEF RoomInv

LEMMA ConnectStep == ASSUME RoomInv, NEW k \in Clients, Connect(k) PROVE RoomInv'
<1>1. /\ at' \in [Clients -> Workers \cup {None}] /\ UNCHANGED <<room, callVars, queue, shown>>
  BY DEF Connect, RoomInv, RoomTypeOK
<1>2. RoomTypeOK'
  BY <1>1 DEF RoomInv, RoomTypeOK, callVars
<1> QED
  BY <1>1, <1>2, StreamStep DEF Events

LEMMA PushStep == ASSUME RoomInv, NEW k \in Clients, Push(k) PROVE RoomInv'
<1>1. /\ queue[k] # <<>> /\ queue[k] \in Seq(Calls) /\ shown[k] \in Seq(Calls)
      /\ UNCHANGED <<room, callVars, at>>
  BY DEF Push, RoomInv, RoomTypeOK
<1>2. /\ queue'[k] = Tail(queue[k]) /\ shown'[k] = Append(shown[k], Head(queue[k]))
      /\ \A j \in Clients \ {k} : queue'[j] = queue[j] /\ shown'[j] = shown[j]
  BY DEF Push, RoomInv, RoomTypeOK
<1>3. Tail(queue[k]) \in Seq(Calls) /\ Append(shown[k], Head(queue[k])) \in Seq(Calls)
  BY <1>1
<1>4. queue' \in [Clients -> Seq(Calls)] /\ shown' \in [Clients -> Seq(Calls)]
  BY <1>3 DEF Push, RoomInv, RoomTypeOK
<1>5. RoomTypeOK'
  BY <1>1, <1>4 DEF RoomInv, RoomTypeOK, callVars
<1>6. Events(k)' = Events(k)
  BY <1>1, <1>2, HeadMoves DEF Events
<1>7. \A j \in Clients \ {k} : Events(j)' = Events(j)
  BY <1>2 DEF Events
<1> QED
  BY <1>1, <1>5, <1>6, <1>7, StreamStep

LEMMA DisconnectStep == ASSUME RoomInv, NEW k \in Clients, Disconnect(k) PROVE RoomInv'
<1>1. UNCHANGED <<room, callVars>>
  BY DEF Disconnect
<1>2. /\ queue'[k] = <<>> /\ shown'[k] = <<>>
      /\ \A j \in Clients \ {k} : queue'[j] = queue[j] /\ shown'[j] = shown[j]
      /\ queue' \in [Clients -> Seq(Calls)] /\ shown' \in [Clients -> Seq(Calls)]
      /\ at' \in [Clients -> Workers \cup {None}]
  BY DEF Disconnect, RoomInv, RoomTypeOK
<1>3. RoomTypeOK'
  BY <1>1, <1>2 DEF RoomInv, RoomTypeOK, callVars
<1>4. \A j \in Clients : Events(j)' = Events(j) \/ Events(j)' = <<>>
  <2>1. \A j \in Clients \ {k} : Events(j)' = Events(j)
    BY <1>2 DEF Events
  <2>2. Events(k)' = <<>>
    BY <1>2, NothingAndNothing DEF Events
  <2> QED
    BY <2>1, <2>2
<1> QED
  BY <1>1, <1>3, <1>4, StreamStep

LEMMA CrashStep == ASSUME RoomInv, NEW w \in Workers, Crash(w) PROVE RoomInv'
<1>1. /\ stage' = [c \in Calls |-> IF Running(c) /\ call[c].on = w THEN "dead" ELSE stage[c]]
      /\ seen' = [c \in Calls |-> IF call[c].on = w THEN None ELSE seen[c]]
      /\ at' = [k \in Clients |-> IF at[k] = w THEN None ELSE at[k]]
      /\ queue' = [k \in Clients |-> IF at[k] = w THEN <<>> ELSE queue[k]]
      /\ shown' = [k \in Clients |-> IF at[k] = w THEN <<>> ELSE shown[k]]
      /\ UNCHANGED <<room, call, attempt, reply>>
  BY DEF Crash
<1>2. RoomTypeOK'
  <2>1. stage' \in [Calls -> Stage] /\ seen' \in [Calls -> Room \cup {None}]
    BY <1>1 DEF RoomInv, RoomTypeOK, Stage
  <2>2. at' \in [Clients -> Workers \cup {None}] /\ queue' \in [Clients -> Seq(Calls)]
        /\ shown' \in [Clients -> Seq(Calls)]
    BY <1>1 DEF RoomInv, RoomTypeOK
  <2> QED
    BY <1>1, <2>1, <2>2 DEF RoomInv, RoomTypeOK
<1>3. CopiesAreOfRoom' /\ Callers' /\ Alive' /\ ParticipantsUnique' /\ AnswersAreStored'
  BY <1>1 DEF RoomInv, CopiesAreOfRoom, Callers, Alive, ParticipantsUnique, AnswersAreStored
<1>4. WritersHold'
  BY <1>1 DEF RoomInv, WritersHold, Running
<1>5. StreamsFollow'
  <2> SUFFICES ASSUME NEW k \in Clients
               PROVE  /\ room = None => Events(k)' = <<>>
                      /\ room # None /\ room.life = 1 => Embeds(Events(k)', room.annotations)
    BY <1>1 DEF StreamsFollow, Embeds
  <2>1. Events(k)' = Events(k) \/ Events(k)' = <<>>
    <3>1. CASE at[k] = w
      BY <3>1, <1>1, NothingAndNothing DEF Events
    <3>2. CASE at[k] # w
      BY <3>2, <1>1 DEF Events
    <3> QED
      BY <3>1, <3>2
  <2>2. /\ room = None => Events(k) = <<>>
        /\ room # None /\ room.life = 1 => Embeds(Events(k), room.annotations)
    BY DEF RoomInv, StreamsFollow
  <2> QED
    BY <2>1, <2>2, EmptyEmbeds
<1> QED
  BY <1>2, <1>3, <1>4, <1>5 DEF RoomInv

LEMMA RoomStep == RoomInv /\ [RoomNext]_wvars => RoomInv'
<1> SUFFICES ASSUME RoomInv, [RoomNext]_wvars PROVE RoomInv'
  OBVIOUS
<1>1. CASE UNCHANGED wvars
  <2>1. UNCHANGED <<room, callVars, at, queue, shown>>
    BY <1>1 DEF wvars
  <2>2. RoomTypeOK' /\ \A k \in Clients : Events(k)' = Events(k)
    BY <2>1 DEF callVars, RoomInv, RoomTypeOK, Events
  <2> QED
    BY <2>1, <2>2, StreamStep
<1>2. ASSUME NEW c \in Calls,
             Start(c) \/ ReadMissing(c) \/ ReadFound(c) \/ Create(c) \/ Replace(c)
               \/ ReplaceFails(c) \/ ReplaceUnheard(c) \/ Reread(c) \/ Fails(c)
      PROVE  RoomInv'
  BY <1>2, StartStep, ReadMissingStep, ReadFoundStep, CreateStep, ReplaceStep,
     ReplaceFailsStep, ReplaceUnheardStep, RereadStep, FailsStep
<1>3. ASSUME NEW k \in Clients, Connect(k) \/ Push(k) \/ Disconnect(k)
      PROVE  RoomInv'
  BY <1>3, ConnectStep, PushStep, DisconnectStep
<1>4. ASSUME NEW w \in Workers, Crash(w)
      PROVE  RoomInv'
  BY <1>4, CrashStep
<1> QED
  BY <1>1, <1>2, <1>3, <1>4 DEF RoomNext

THEOREM RoomInvariant == RoomSpec => []RoomInv
  BY RoomInitInv, RoomStep, PTL DEF RoomSpec

(* The room, the requests and the streams stay within their types.         *)
THEOREM RoomTypeCorrect == RoomSpec => []RoomTypeOK
<1>1. RoomInv => RoomTypeOK
  BY DEF RoomInv
<1> QED
  BY <1>1, RoomInvariant, PTL

(* No operator is listed twice.                                            *)
THEOREM NoDuplicateParticipants == RoomSpec => []ParticipantsUnique
<1>1. RoomInv => ParticipantsUnique
  BY DEF RoomInv
<1> QED
  BY <1>1, RoomInvariant, PTL

(* What was answered ok is in the room, until it is created anew.          *)
THEOREM AnswersStay == RoomSpec => []AnsweredIsStored
<1>1. RoomInv => AnsweredIsStored
  BY DEF RoomInv, AnswersAreStored, AnsweredIsStored
<1> QED
  BY <1>1, RoomInvariant, PTL

(* The streams show annotations of the room in the room's order.           *)
THEOREM StreamsAreInOrder == RoomSpec => []StreamFollowsRoom
<1>1. RoomInv => StreamFollowsRoom
  BY DEF RoomInv, StreamsFollow, StreamFollowsRoom, Events, Embeds
<1> QED
  BY <1>1, RoomInvariant, PTL

(* Within a life both lists only grow.                                     *)
RoomOnlyGrows ==
    [][room # None /\ room'.life = room.life =>
          /\ IsPrefix(room.participants, room'.participants)
          /\ IsPrefix(room.annotations, room'.annotations)]_wvars

(* No write drops what another has stored.                                 *)
THEOREM ListsOnlyGrow == RoomSpec => RoomOnlyGrows
<1>1. ASSUME RoomInv, [RoomNext]_wvars, room # None, room'.life = room.life
      PROVE  /\ IsPrefix(room.participants, room'.participants)
             /\ IsPrefix(room.annotations, room'.annotations)
  <2>1. /\ room.participants \in Seq(Operators) /\ room.annotations \in Seq(Calls)
        /\ room.life \in Nat
    BY <1>1 DEF RoomInv, RoomTypeOK, Room
  <2>2. CASE room' = room
    BY <2>1, <2>2, SamePrefix
  <2>3. ASSUME NEW c \in Calls, Create(c)
        PROVE  FALSE
    BY <1>1, <2>1, <2>3 DEF Create
  <2>4. ASSUME NEW c \in Calls, Replace(c) \/ ReplaceUnheard(c)
        PROVE  /\ IsPrefix(room.participants, room'.participants)
               /\ IsPrefix(room.annotations, room'.annotations)
    <3>1. stage[c] = "replace" /\ EtagMatches(c) /\ room' = Updated(c)
      BY <2>4 DEF Replace, ReplaceUnheard
    <3>2. /\ room'.participants = room.participants
             \/ (call[c].by \in Operators
                   /\ room'.participants = Append(room.participants, call[c].by))
          /\ room'.annotations = room.annotations
             \/ room'.annotations = Append(room.annotations, c)
      BY <1>1, <3>1, WriteFacts
    <3>3. IsPrefix(room.participants, room'.participants)
      <4>1. CASE room'.participants = room.participants
        BY <2>1, <4>1, SamePrefix
      <4>2. CASE /\ call[c].by \in Operators
                 /\ room'.participants = Append(room.participants, call[c].by)
        <5> DEFINE p == room.participants
                   o == call[c].by
        <5>1. p \in Seq(Operators) /\ o \in Operators /\ room'.participants = Append(p, o)
          BY <2>1, <4>2
        <5> HIDE DEF p, o
        <5>2. IsPrefix(p, Append(p, o))
          BY <5>1, Appended
        <5>3. IsPrefix(p, room'.participants)
          BY <5>1, <5>2
        <5> QED
          BY <5>3 DEF p
      <4> QED
        BY <3>2, <4>1, <4>2
    <3>4. IsPrefix(room.annotations, room'.annotations)
      BY <2>1, <3>2, Appended, SamePrefix, Zenon
    <3> QED
      BY <3>3, <3>4
  <2>5. room' = room \/ \E c \in Calls : Create(c) \/ Replace(c) \/ ReplaceUnheard(c)
    BY <1>1 DEF RoomNext, wvars, Start, ReadMissing, ReadFound, ReplaceFails, Reread, Fails,
                Connect, Push, Disconnect, Crash
  <2> QED
    BY <2>2, <2>3, <2>4, <2>5
<1>2. RoomInv /\ [RoomNext]_wvars =>
          [room # None /\ room'.life = room.life =>
              /\ IsPrefix(room.participants, room'.participants)
              /\ IsPrefix(room.annotations, room'.annotations)]_wvars
  BY <1>1
<1> QED
  BY <1>2, RoomInvariant, PTL DEF RoomSpec, RoomOnlyGrows

-----------------------------------------------------------------------------
(* No first join is between its read, which found no room, and its create. *)
NoFirstJoin == \A c \in Calls : stage[c] # "create"

LEMMA NoFirstJoinStays ==
    ASSUME RoomInv, [RoomNext]_wvars, room # None, NoFirstJoin
    PROVE  room' # None /\ room'.life = room.life /\ NoFirstJoin'
<1> USE DEF RoomInv, RoomTypeOK
<1>1. ASSUME NEW c \in Calls, NEW s \in Stage \ {"create"}, Goto(c, s)
      PROVE  NoFirstJoin'
  BY <1>1 DEF Goto, NoFirstJoin
<1>2. ASSUME NEW c \in Calls,
             \/ Start(c) \/ ReadMissing(c) \/ ReadFound(c) \/ Create(c)
             \/ ReplaceFails(c) \/ Reread(c) \/ Fails(c)
      PROVE  room' = room /\ NoFirstJoin'
  <2>1. ~Create(c) /\ ~ReadMissing(c)
    BY DEF Create, ReadMissing, NoFirstJoin
  <2>2. room' = room
    BY <1>2, <2>1 DEF Start, ReadFound, ReplaceFails, Reread, Fails
  <2>3. ASSUME ReplaceFails(c)
        PROVE  NoFirstJoin'
    BY <1>1, <2>3 DEF ReplaceFails, NotReplaced, Answer, Stage
  <2>4. ASSUME Start(c) \/ ReadFound(c) \/ Reread(c) \/ Fails(c)
        PROVE  NoFirstJoin'
    BY <1>1, <2>4 DEF Start, ReadFound, Reread, Fails, Answer, Stage
  <2> QED
    BY <1>2, <2>1, <2>2, <2>3, <2>4
<1>3. ASSUME NEW c \in Calls, Replace(c) \/ ReplaceUnheard(c)
      PROVE  room' # None /\ room'.life = room.life /\ NoFirstJoin'
  <2>1. stage[c] = "replace" /\ EtagMatches(c) /\ room' = Updated(c)
    BY <1>3 DEF Replace, ReplaceUnheard
  <2>2. room' # None /\ room'.life = room.life
    BY <2>1, WriteFacts, NoRoom
  <2>3. NoFirstJoin'
    BY <1>1, <1>3 DEF Replace, ReplaceUnheard, NotReplaced, Answer, Stage
  <2> QED
    BY <2>2, <2>3
<1>4. ASSUME NEW k \in Clients, Connect(k) \/ Push(k) \/ Disconnect(k)
      PROVE  room' = room /\ NoFirstJoin'
  BY <1>4 DEF Connect, Push, Disconnect, callVars, NoFirstJoin
<1>5. ASSUME NEW w \in Workers, Crash(w)
      PROVE  room' = room /\ NoFirstJoin'
  BY <1>5 DEF Crash, NoFirstJoin
<1>6. CASE UNCHANGED wvars
  BY <1>6 DEF wvars, callVars, NoFirstJoin
<1> QED
  BY <1>2, <1>3, <1>4, <1>5, <1>6 DEF RoomNext

(* The room is created anew only by a join that did not find it yet: from   *)
(* the moment it is there and no such join is on its way, it lives for      *)
(* good, and its lists only grow.                                           *)
THEOREM RoomLivesOn ==
    ASSUME NEW n \in Nat
    PROVE  RoomSpec => [](room # None /\ room.life = n /\ NoFirstJoin
                            => [](room # None /\ room.life = n))
<1>1. RoomInv /\ room # None /\ room.life = n /\ NoFirstJoin /\ [RoomNext]_wvars
        => (room # None /\ room.life = n /\ NoFirstJoin)'
  BY NoFirstJoinStays
<1> QED
  BY <1>1, RoomInvariant, PTL DEF RoomSpec

-----------------------------------------------------------------------------
(* The refinement of RoomLog.                                              *)

(* A call that creates is a join, and none is answered before it is done.  *)
Askers ==
    \A c \in Calls :
        /\ stage[c] = "idle" => call[c].kind = "none"
        /\ stage[c] = "create" => call[c].kind = "join"
        /\ stage[c] # "done" => reply[c] = "none"

(* The step is the one of c, if it is one of a call.                       *)
OnlyOf(c) ==
    \A d \in Calls \ {c} :
        stage'[d] = stage[d] /\ reply'[d] = reply[d] /\ call'[d] = call[d]

(* A call that is not over steps, and may be over with that.               *)
LEMMA OneEnds ==
    ASSUME NEW c \in Calls, OnlyOf(c), stage[c] \notin {"done", "dead"}
    PROVE  c \notin Over /\ Over' = IF stage'[c] \in {"done", "dead"} THEN Over \cup {c} ELSE Over
  BY DEF OnlyOf, Over

LEMMA NoneIsTold ==
    ASSUME NEW c \in Calls, OnlyOf(c), reply[c] = "none",
           call'[c].kind = "annotate" => reply'[c] # "ok"
    PROVE  Stored' = Stored
  BY DEF OnlyOf, Stored

LEMMA SameRoom == ASSUME room' = room PROVE Held' = Held
  BY DEF Held

LEMMA SameCalls == ASSUME call' = call PROVE Asked' = Asked
  BY DEF Asked

(* A step that writes nothing and tells nobody that a note is stored.      *)
LEMMA QuietStep ==
    ASSUME Askers, NEW c \in Calls, OnlyOf(c), Running(c), UNCHANGED <<room, call>>,
           call[c].kind = "annotate" => reply'[c] # "ok"
    PROVE  Promised!End
  <1>1. stage[c] \notin {"done", "dead"} /\ reply[c] = "none"
    BY DEF Running, Askers
  <1>2. Over \subseteq Over' /\ Over' \in SUBSET Calls
    BY <1>1, OneEnds DEF Over
  <1>3. Stored' = Stored
    BY <1>1, NoneIsTold
  <1> QED
    BY <1>2, <1>3, SameRoom, SameCalls DEF Promised!End

LEMMA AskStep ==
    ASSUME RoomInv, Askers, NEW c \in Calls, Start(c)
    PROVE  Promised!Ask(c) /\ Askers'
  <1>1. RoomTypeOK
    BY DEF RoomInv
  <1>2. PICK k \in Kind, w \in Workers, o \in Operators \cup {None} :
            /\ call' = [call EXCEPT ![c] = [kind |-> k, by |-> o, on |-> w]]
            /\ k = "join" => o \in Operators
    BY DEF Start
  <1>3. stage[c] = "idle" /\ Goto(c, "read") /\ UNCHANGED <<room, reply>>
    BY DEF Start
  <1>4. /\ call'[c].kind = k /\ call'[c].by = o
        /\ \A d \in Calls \ {c} : call'[d] = call[d]
    BY <1>1, <1>2 DEF RoomTypeOK
  <1>5. stage'[c] = "read" /\ \A d \in Calls \ {c} : stage'[d] = stage[d]
    BY <1>1, <1>3, GotoChanges DEF Stage
  <1>6. OnlyOf(c) /\ reply[c] = "none" /\ reply'[c] = "none" /\ call[c].kind = "none"
    BY <1>3, <1>4, <1>5 DEF OnlyOf, Askers
  <1>7. Asked' = [Asked EXCEPT ![c] = [kind |-> k, by |-> o]] /\ Asked[c].kind = "none"
    BY <1>4, <1>6 DEF Asked
  <1>8. Over' = Over /\ c \notin Over
    BY <1>3, <1>5, <1>6, OneEnds
  <1>9. Stored' = Stored
    BY <1>6, NoneIsTold
  <1>10. Promised!Ask(c)
    BY <1>2, <1>3, <1>7, <1>8, <1>9, SameRoom DEF Promised!Ask, Promised!Kinds, Kind
  <1>11. Askers'
    BY <1>5, <1>6 DEF Askers, OnlyOf
  <1> QED
    BY <1>10, <1>11

LEMMA RoomOpens ==
    ASSUME RoomInv, Askers, NEW c \in Calls, Create(c)
    PROVE  Promised!Open(c) /\ Askers'
  <1>1. RoomTypeOK
    BY DEF RoomInv
  <1>2. /\ stage[c] = "create" /\ Goto(c, "replace") /\ UNCHANGED <<call, reply>>
        /\ room' = [participants |-> <<>>, annotations |-> <<>>, handoff |-> None,
                    life |-> IF room = None THEN 1 ELSE room.life + 1,
                    etag |-> IF room = None THEN 1 ELSE room.etag + 1]
    BY DEF Create
  <1>3. stage'[c] = "replace" /\ \A d \in Calls \ {c} : stage'[d] = stage[d]
    BY <1>1, <1>2, GotoChanges DEF Stage
  <1>4. OnlyOf(c) /\ reply[c] = "none" /\ reply'[c] = "none"
    BY <1>2, <1>3 DEF OnlyOf, Askers
  <1>5. room' \in Room /\ room' # None
    <2>1. room # None => room.life \in Nat /\ room.etag \in Nat
      BY <1>1 DEF RoomTypeOK, Room
    <2>2. room' \in Room
      BY <1>2, <2>1 DEF Room
    <2> QED
      BY <2>2, NoRoom
  <1>6. /\ Held'.participants = <<>> /\ Held'.annotations = <<>> /\ Held'.handoff = None
        /\ Held'.life = Held.life + 1
    BY <1>2, <1>5 DEF Held
  <1>7. Asked' = Asked /\ Asked[c].kind = "join"
    BY <1>2 DEF Asked, Askers
  <1>8. Over' = Over /\ c \notin Over
    BY <1>2, <1>3, <1>4, OneEnds
  <1>9. Stored' = Stored
    BY <1>4, NoneIsTold
  <1>10. Promised!Open(c)
    BY <1>6, <1>7, <1>8, <1>9 DEF Promised!Open
  <1>11. Askers'
    BY <1>3, <1>4 DEF Askers, OnlyOf
  <1> QED
    BY <1>10, <1>11

(* A write is the one change its call asked for, made to the room as it is. *)
LEMMA WriteTakesEffect ==
    ASSUME RoomInv, Askers, NEW c \in Calls, stage[c] = "replace", EtagMatches(c),
           room' = Updated(c), call' = call, OnlyOf(c),
           call[c].kind = "annotate" => (reply'[c] = "ok" => stage'[c] = "done")
    PROVE  Promised!Enter(c) \/ Promised!Note(c) \/ Promised!HandOver(c) \/ Promised!End
  <1>1. /\ seen[c] = room /\ room # None /\ room \in Room /\ room' \in Room
        /\ room'.life = room.life
        /\ room'.participants = IF call[c].kind = "join"
                                THEN Append(room.participants, call[c].by)
                                ELSE room.participants
        /\ room'.annotations = IF call[c].kind = "annotate"
                               THEN Append(room.annotations, c) ELSE room.annotations
        /\ call[c].kind = "join" =>
              call[c].by \in Operators /\ call[c].by \notin Range(room.participants)
    BY WriteFacts
  <1>2. room'.handoff = IF call[c].kind = "handoff" THEN c ELSE room.handoff
    BY <1>1 DEF Updated
  <1>3. room.life > 0 /\ Held = room /\ Held' = room'
    BY <1>1, NoRoom DEF RoomInv, Alive, Held, Room
  <1>4. /\ c \notin Over
        /\ Over' = IF stage'[c] \in {"done", "dead"} THEN Over \cup {c} ELSE Over
    BY OneEnds
  <1>5. Asked' = Asked /\ Asked[c].kind = call[c].kind /\ Asked[c].by = call[c].by
    BY SameCalls DEF Asked
  <1>6. reply[c] = "none"
    BY DEF Askers
  <1>7. call[c].kind # "annotate" => Stored' = Stored
    BY <1>6, NoneIsTold
  <1> DEFINE k == call[c].kind
  <1>8. CASE k = "join"
    <2>1. \A i \in DOMAIN room.participants : room.participants[i] # call[c].by
      BY <1>1, <1>8 DEF Range
    <2> QED
      BY <1>1, <1>2, <1>3, <1>4, <1>5, <1>7, <1>8, <2>1 DEF Promised!Enter, Promised!Effect
  <1>9. CASE k = "annotate"
    <2>1. \/ Stored' = Stored
          \/ Stored' = Stored \cup {c} /\ c \in Over'
      <3>1. CASE reply'[c] # "ok"
        BY <1>6, <3>1, NoneIsTold
      <3>2. CASE reply'[c] = "ok"
        BY <1>4, <1>9, <3>2 DEF OnlyOf, Stored
      <3> QED
        BY <3>1, <3>2
    <2> QED
      BY <1>1, <1>2, <1>3, <1>4, <1>5, <1>9, <2>1 DEF Promised!Note, Promised!Effect
  <1>10. CASE k = "handoff"
    BY <1>1, <1>2, <1>3, <1>4, <1>5, <1>7, <1>10 DEF Promised!HandOver, Promised!Effect
  <1>11. CASE k \notin {"join", "annotate", "handoff"}
    <2>1. Over' \in SUBSET Calls /\ Over \subseteq Over'
      BY <1>4 DEF Over
    <2> QED
      BY <1>1, <1>2, <1>3, <1>5, <1>7, <1>11, <2>1 DEF Promised!End
  <1> QED
    BY <1>8, <1>9, <1>10, <1>11

(* Every step is a promised one, or shows in nothing.                      *)
LEMMA LogStep ==
    ASSUME RoomInv, Askers, [RoomNext]_wvars
    PROVE  [Promised!LogNext]_(Promised!log) /\ Askers'
  <1>0. RoomTypeOK
    BY DEF RoomInv
  <1>1. ASSUME NEW c \in Calls, Start(c) \/ Create(c)
        PROVE  Promised!LogNext /\ Askers'
    BY <1>1, AskStep, RoomOpens DEF Promised!LogNext
  <1>2. ASSUME NEW c \in Calls, OnlyOf(c), call' = call, Running(c),
               stage'[c] \notin {"idle", "dead"},
               stage'[c] = "create" => call[c].kind = "join",
               stage'[c] # "done" => reply'[c] = reply[c]
        PROVE  Askers'
    BY <1>2 DEF Askers, OnlyOf, Running
  <1>3. ASSUME NEW c \in Calls, NEW a \in {"ok", "error"}, Answer(c, a), call' = call,
               Running(c)
        PROVE  OnlyOf(c) /\ Askers' /\ reply'[c] = a /\ stage'[c] = "done"
    <2>1. /\ stage'[c] = "done" /\ reply'[c] = a
          /\ \A d \in Calls \ {c} : stage'[d] = stage[d] /\ reply'[d] = reply[d]
      BY <1>0, <1>3, AnswerChanges
    <2>2. OnlyOf(c)
      BY <1>3, <2>1 DEF OnlyOf
    <2> QED
      BY <1>2, <1>3, <2>1, <2>2
  <1>4. ASSUME NEW c \in Calls, NEW s \in {"create", "replace"}, Goto(c, s),
               UNCHANGED <<call, reply>>, Running(c),
               s = "create" => call[c].kind = "join"
        PROVE  OnlyOf(c) /\ Askers' /\ reply'[c] = reply[c]
    <2>1. stage'[c] = s /\ \A d \in Calls \ {c} : stage'[d] = stage[d]
      BY <1>0, <1>4, GotoChanges DEF Stage
    <2>2. OnlyOf(c)
      BY <1>4, <2>1 DEF OnlyOf
    <2> QED
      BY <1>2, <1>4, <2>1, <2>2
  <1>5. ASSUME NEW c \in Calls, NotReplaced(c), call' = call, stage[c] = "replace"
        PROVE  /\ OnlyOf(c) /\ Askers'
               /\ call[c].kind = "annotate" => reply'[c] # "ok"
    <2>1. /\ stage'[c] \in {"reread", "read", "done"}
          /\ reply'[c] = reply[c] \/ reply'[c] = "error" \/ call[c].kind # "annotate"
          /\ \A d \in Calls \ {c} : stage'[d] = stage[d] /\ reply'[d] = reply[d]
      BY <1>0, <1>5, NotReplacedChanges
    <2>2. reply[c] = "none" /\ Running(c)
      BY <1>5 DEF Askers, Running
    <2>3. OnlyOf(c)
      BY <1>5, <2>1 DEF OnlyOf
    <2>4. stage'[c] # "done" => reply'[c] = reply[c]
      BY <1>0, <1>5 DEF NotReplaced, Answer, Goto, RoomTypeOK
    <2> QED
      BY <1>2, <1>5, <2>1, <2>2, <2>3, <2>4
  <1>6. ASSUME NEW c \in Calls,
               ReadMissing(c) \/ ReadFound(c) \/ Reread(c) \/ Fails(c)
        PROVE  Promised!End /\ Askers'
    <2>1. UNCHANGED <<room, call>> /\ Running(c) /\ reply[c] = "none"
      BY <1>6 DEF ReadMissing, ReadFound, Reread, Fails, Running, Askers
    <2>2. \/ \E a \in {"ok", "error"} :
                Answer(c, a) /\ (a = "ok" => call[c].kind # "annotate")
          \/ \E s \in {"create", "replace"} :
                Goto(c, s) /\ reply' = reply /\ (s = "create" => call[c].kind = "join")
      <3>1. Reread(c) => call[c].kind = "join"
        BY DEF Reread, RoomInv, WritersHold
      <3> QED
        BY <1>6, <3>1 DEF ReadMissing, ReadFound, Reread, Fails
    <2>3. OnlyOf(c) /\ Askers' /\ (call[c].kind = "annotate" => reply'[c] # "ok")
      BY <1>3, <1>4, <2>1, <2>2
    <2> QED
      BY <2>1, <2>3, QuietStep
  <1>7. ASSUME NEW c \in Calls, ReplaceFails(c)
        PROVE  Promised!End /\ Askers'
    <2>1. NotReplaced(c) /\ UNCHANGED <<room, call>> /\ stage[c] = "replace" /\ Running(c)
      BY <1>7 DEF ReplaceFails, Running
    <2> QED
      BY <1>5, <2>1, QuietStep
  <1>8. ASSUME NEW c \in Calls, Replace(c) \/ ReplaceUnheard(c)
        PROVE  Promised!LogNext /\ Askers'
    <2>1. /\ stage[c] = "replace" /\ EtagMatches(c) /\ room' = Updated(c) /\ call' = call
          /\ Running(c) /\ (Answer(c, "ok") \/ NotReplaced(c))
      BY <1>8 DEF Replace, ReplaceUnheard, Running
    <2>2. /\ OnlyOf(c) /\ Askers'
          /\ call[c].kind = "annotate" => (reply'[c] = "ok" => stage'[c] = "done")
      BY <1>3, <1>5, <2>1
    <2> QED
      BY <2>1, <2>2, WriteTakesEffect DEF Promised!LogNext
  <1>9. ASSUME NEW w \in Workers, Crash(w)
        PROVE  Promised!End /\ Askers'
    <2>1. /\ UNCHANGED <<room, call, reply>>
          /\ \A c \in Calls : \/ stage'[c] = stage[c]
                              \/ Running(c) /\ stage'[c] = "dead"
      BY <1>9 DEF Crash
    <2>2. Over' \in SUBSET Calls /\ Over \subseteq Over'
      BY <2>1 DEF Over, Running
    <2>3. Stored' = Stored
      BY <2>1 DEF Stored
    <2>4. Askers'
      BY <2>1 DEF Askers, Running
    <2> QED
      BY <2>1, <2>2, <2>3, <2>4, SameRoom, SameCalls DEF Promised!End
  <1>10. ASSUME UNCHANGED <<room, call, stage, reply>>
         PROVE  UNCHANGED Promised!log /\ Askers'
    <2>1. Over' = Over /\ Stored' = Stored /\ Askers'
      BY <1>10 DEF Over, Stored, Askers
    <2> QED
      BY <1>10, <2>1, SameRoom, SameCalls DEF Promised!log
  <1>11. ASSUME (\E k \in Clients : Connect(k) \/ Push(k) \/ Disconnect(k)) \/ UNCHANGED wvars
         PROVE  UNCHANGED <<room, call, stage, reply>>
    BY <1>11 DEF Connect, Push, Disconnect, wvars, callVars
  <1> QED
    BY <1>1, <1>6, <1>7, <1>8, <1>9, <1>10, <1>11 DEF RoomNext, Promised!LogNext

(* The calls of all workers take effect one after the other on the room    *)
(* they share, as RoomLog promises, for any number of each.                *)
THEOREM LogKept == RoomSpec => KeepsLog
  <1>1. RoomInit => Promised!Vacant /\ Askers
    BY DEF RoomInit, Promised!Vacant, Askers, Held, Asked, Over, Stored
  <1>2. RoomInv /\ Askers /\ [RoomNext]_wvars =>
          [Promised!LogNext]_(Promised!log) /\ Askers'
    BY LogStep
  <1> QED
    BY <1>1, <1>2, RoomInvariant, PTL DEF RoomSpec, KeepsLog, Promised!Log

=============================================================================
