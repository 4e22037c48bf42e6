--------------------------- MODULE IncidentsProofs ---------------------------
(***************************************************************************)
(* Proofs about Incidents: the optimistic concurrency of the deduplication *)
(* and of the alert life cycle loses no join, takes no status back and     *)
(* opens no incident beside one that was open when the alert came in, for  *)
(* any number of deliveries, transitions, alerts, resources and rounds.    *)
(***************************************************************************)
EXTENDS Incidents, FiniteSetTheorems, TLAPS

Deduping == {"idle", "layer1", "layer2", "join", "reread", "create"}

(* A document has the id of its place, and nothing in it before it exists.  *)
Places ==
    \A a \in Alerts :
        /\ incident[a].id = a
        /\ ~Exists(a) => /\ incident[a].duplicates = 0
                         /\ incident[a].correlated = {}
                         /\ incident[a].etag = 0

(* What a call has read is the record as it was: while the etag is the same *)
(* it is the record as it is.                                               *)
Copy(c) ==
    /\ seen[c] \in Document
    /\ Exists(seen[c].id)
    /\ seen[c].etag <= incident[seen[c].id].etag
    /\ EtagMatches(c) => seen[c] = incident[seen[c].id]

Copies == \A c \in Calls : stage[c] \in {"join", "reread", "move"} => Copy(c)

(* A delivery writes at most once, with rounds left, and knows its layer.   *)
Writes ==
    \A r \in Requests :
        /\ stage[r] \in Deduping => wrote[r] = "nothing" /\ attempt[r] < MaxRetries
        /\ stage[r] \in {"join", "reread"} => layer[r] \in {"layer1", "layer2"}

(* A transition that passed the validation is valid for the copy it holds.  *)
Valid ==
    \A t \in Moves :
        stage[t] = "move" => target[t] \in VALID_TRANSITIONS[seen[t].status]

(* The records that were open when a delivery came in still exist, on its   *)
(* resource, and both layers missed only if all of them have been closed.   *)
Opened ==
    \A r \in Requests :
        /\ stage[r] = "idle" => opened[r] = {}
        /\ stage[r] \in Deduping \ {"idle"} => post[r] \in Alerts
        /\ stage[r] \in Deduping \ {"idle"} =>
              opened[r] \subseteq OnResource(ResourceOf[post[r]])
        /\ \A b \in opened[r] : Exists(b)
        /\ stage[r] = "create" =>
              \A b \in opened[r] : incident[b].status = "closed"

IncidentInv ==
    /\ IncidentTypeOK /\ Places /\ Copies /\ Writes /\ Valid /\ Opened
    /\ JoinsAreKept /\ HistoryIsLegal /\ NoRedundantIncident

-----------------------------------------------------------------------------
(* Lemmas on the documents that the writes produce.                        *)

(* VALID_TRANSITIONS relates statuses, and nothing follows "closed".        *)
LEMMA Transitions ==
    ASSUME NEW s \in Status, NEW t \in VALID_TRANSITIONS[s]
    PROVE  t \in Status /\ s # "closed"
  BY DEF VALID_TRANSITIONS, Status

(* A record opened by create_incident_record is a document.                 *)
LEMMA NewRecordType ==
    ASSUME IncidentTypeOK, NEW a \in Alerts
    PROVE  NewRecord(a) \in Document
  <1>1. IsFiniteSet({b \in Alerts : Exists(b)})
    BY AlertAssumption, FS_Subset
  <1>2. Records \in Nat
    BY <1>1, FS_CardinalityType DEF Records
  <1>3. <<"new">> \in Seq(Status)
    BY DEF Status
  <1> QED
    BY <1>2, <1>3 DEF NewRecord, Document, Status

(* The copy of a delivery with the delivery added is a document.            *)
LEMMA JoinedType ==
    ASSUME NEW r \in Requests, seen[r] \in Document
    PROVE  /\ Joined(r) \in Document
           /\ Joined(r).id = seen[r].id
           /\ Joined(r).status = seen[r].status
           /\ Joined(r).history = seen[r].history
           /\ Joined(r).etag = seen[r].etag + 1
  BY DEF Joined, Document

(* The copy of a transition in its new status is a document.                *)
LEMMA MovedType ==
    ASSUME NEW t \in Moves, seen[t] \in Document, target[t] \in Status
    PROVE  /\ Moved(t) \in Document
           /\ Moved(t).id = seen[t].id
           /\ Moved(t).status = target[t]
           /\ Moved(t).history = Append(seen[t].history, target[t])
           /\ Moved(t).duplicates = seen[t].duplicates
           /\ Moved(t).correlated = seen[t].correlated
           /\ Moved(t).etag = seen[t].etag + 1
  BY DEF Moved, Document

-----------------------------------------------------------------------------
(* Each step, seen from the container: at most one document is replaced,    *)
(* by one with a higher etag.                                               *)

(* A join replaces the document it read, which was unchanged.               *)
LEMMA ApplyEffect ==
    ASSUME IncidentInv, NEW r \in Requests, stage[r] = "join", Apply(r)
    PROVE  /\ seen[r] = incident[seen[r].id]
           /\ seen[r] \in Document
           /\ Exists(seen[r].id)
           /\ incident' = [incident EXCEPT ![seen[r].id] = Joined(r)]
           /\ Joined(r) \in Document
  <1>1. Copy(r)
    BY DEF IncidentInv, Copies, Calls
  <1> QED
    BY <1>1, JoinedType DEF Apply, Copy

(* So does a status transition.                                             *)
LEMMA MoveEffect ==
    ASSUME IncidentInv, NEW t \in Moves, Move(t)
    PROVE  /\ seen[t] = incident[seen[t].id]
           /\ seen[t] \in Document
           /\ Exists(seen[t].id)
           /\ incident' = [incident EXCEPT ![seen[t].id] = Moved(t)]
           /\ Moved(t) \in Document
           /\ target[t] \in VALID_TRANSITIONS[seen[t].status]
           /\ target[t] \in Status
           /\ seen[t].status \in Status
  <1>1. Copy(t) /\ stage[t] = "move"
    BY DEF IncidentInv, Copies, Calls, Move
  <1>2. target[t] \in VALID_TRANSITIONS[seen[t].status] /\ target[t] \in Status
    BY <1>1 DEF IncidentInv, Valid, IncidentTypeOK
  <1>3. seen[t] = incident[seen[t].id] /\ seen[t] \in Document /\ Exists(seen[t].id)
    BY <1>1 DEF Copy, Move
  <1>4. seen[t].status \in Status
    BY <1>3 DEF Document, Exists
  <1> QED
    BY <1>1, <1>2, <1>3, <1>4, MovedType DEF Move

(* The steps that write to the container.                                   *)
Writing(r) == Join(r) \/ JoinUnheard(r)

Opening(r) == Create(r) /\ ~Exists(post[r])

(* All other steps leave the container, and who wrote to it, alone.         *)
LEMMA OtherwiseUnchanged ==
    ASSUME [IncidentNext]_ivars,
           ~\E r \in Requests : Writing(r) \/ Opening(r),
           ~\E t \in Moves : Move(t)
    PROVE  UNCHANGED <<incident, into, wrote>>
  <1>1. CASE UNCHANGED ivars
    BY <1>1 DEF ivars
  <1>2. ASSUME NEW r \in Requests, Post(r) \/ Handle(r)
        PROVE  UNCHANGED <<incident, into, wrote>>
    BY <1>2 DEF Post, Handle, Layer1, Layer2, Hit, Miss, Writing, Conflict, Reread,
       Opening, Create, DedupFails, Dispatch, dedupVars
  <1>3. ASSUME NEW t \in Moves, Transition(t) PROVE UNCHANGED <<incident, into, wrote>>
    BY <1>3 DEF Transition, Ask, MoveFails, dedupVars
  <1>4. ASSUME NEW a \in Alerts, Age(a) PROVE UNCHANGED <<incident, into, wrote>>
    BY <1>4 DEF Age, dedupVars
  <1>5. ASSUME NEW c \in Calls, Crash(c) PROVE UNCHANGED <<incident, into, wrote>>
    BY <1>5 DEF Crash, dedupVars
  <1> QED
    BY <1>1, <1>2, <1>3, <1>4, <1>5 DEF IncidentNext

(* What every step does to a record: it keeps its id, stays as it is or     *)
(* gets a higher etag, does not vanish, and stays closed once it is.        *)
Advance(a) ==
    /\ incident'[a].id = a
    /\ Exists(a) => Exists(a)'
    /\ ~Exists(a)' => incident'[a] = incident[a]
    /\ incident[a].etag <= incident'[a].etag
    /\ incident'[a].etag = incident[a].etag => incident'[a] = incident[a]
    /\ incident[a].status = "closed" => incident'[a].status = "closed"

(* Every record advances.                                                   *)
LEMMA RecordStep ==
    ASSUME IncidentInv, [IncidentNext]_ivars
    PROVE  /\ incident' \in [Alerts -> Document]
           /\ \A a \in Alerts : Advance(a)
  <1> USE DEF IncidentInv, Advance
  <1>0. incident \in [Alerts -> Document] /\ Places
    BY DEF IncidentTypeOK
  <1>1. CASE UNCHANGED incident
    BY <1>0, <1>1 DEF Document, Places, Exists
  <1>2. ASSUME NEW r \in Requests, Writing(r)
        PROVE  /\ incident' \in [Alerts -> Document]
               /\ \A a \in Alerts : Advance(a)
    <2>1. stage[r] = "join" /\ Apply(r)
      BY <1>2 DEF Writing, Join, JoinUnheard
    <2>2. /\ seen[r] = incident[seen[r].id]
          /\ seen[r] \in Document
          /\ Exists(seen[r].id)
          /\ incident' = [incident EXCEPT ![seen[r].id] = Joined(r)]
          /\ Joined(r) \in Document
      BY <2>1, ApplyEffect
    <2>3. /\ Joined(r).id = seen[r].id
          /\ Joined(r).status = seen[r].status
          /\ Joined(r).etag = seen[r].etag + 1
      BY <2>2, JoinedType
    <2> QED
      BY <1>0, <2>2, <2>3 DEF Places, Exists, Document
  <1>3. ASSUME NEW r \in Requests, Opening(r)
        PROVE  /\ incident' \in [Alerts -> Document]
               /\ \A a \in Alerts : Advance(a)
    <2>1. post[r] \in Alerts
      BY <1>3 DEF Opening, Create, Opened, Deduping
    <2>2. incident' = [incident EXCEPT ![post[r]] = NewRecord(post[r])]
      BY <1>3 DEF Opening, Create
    <2>3. NewRecord(post[r]) \in Document
      BY <2>1, NewRecordType
    <2>4. incident[post[r]].etag = 0
      BY <1>3, <2>1 DEF Opening, Places
    <2>5. PICK d \in Document : d = NewRecord(post[r])
      BY <2>3
    <2>6. d.id = post[r] /\ d.status = "new" /\ d.etag = 1
      BY <2>5 DEF NewRecord
    <2>7. PICK x \in Alerts : x = post[r]
      BY <2>1
    <2>8. incident' = [incident EXCEPT ![x] = d]
      BY <2>2, <2>5, <2>7
    <2>9. incident[x].etag = 0 /\ incident[x].status = "absent"
      BY <1>3, <2>4, <2>7 DEF Opening, Exists
    <2>10. \A a \in Alerts : a # x => incident'[a] = incident[a] /\ incident[a] \in Document
      BY <1>0, <2>8
    <2>11. incident'[x] = d
      BY <1>0, <2>8
    <2>12. incident' \in [Alerts -> Document]
      BY <1>0, <2>8
    <2>13. Advance(x)
      BY <2>6, <2>7, <2>9, <2>11 DEF Exists
    <2>14. ASSUME NEW a \in Alerts, a # x PROVE Advance(a)
      <3>1. incident'[a] = incident[a] /\ incident[a].id = a /\ incident[a].etag \in Nat
        BY <1>0, <2>10, <2>14 DEF Places, Document
      <3> QED
        BY <3>1 DEF Exists
    <2> QED
      BY <2>12, <2>13, <2>14
  <1>4. ASSUME NEW t \in Moves, Move(t)
        PROVE  /\ incident' \in [Alerts -> Document]
               /\ \A a \in Alerts : Advance(a)
    <2>1. /\ seen[t] = incident[seen[t].id]
          /\ seen[t] \in Document
          /\ incident' = [incident EXCEPT ![seen[t].id] = Moved(t)]
          /\ Moved(t) \in Document
          /\ target[t] \in Status
          /\ seen[t].status # "closed"
      BY <1>4, MoveEffect, Transitions
    <2>2. /\ Moved(t).id = seen[t].id
          /\ Moved(t).status = target[t]
          /\ Moved(t).etag = seen[t].etag + 1
      BY <2>1, MovedType
    <2> QED
      BY <1>0, <2>1, <2>2 DEF Places, Exists, Document, Status
  <1> QED
    BY <1>1, <1>2, <1>3, <1>4, OtherwiseUnchanged

-----------------------------------------------------------------------------
(* The inductive invariant, one lemma per part that needs more than the     *)
(* effect on the container.                                                 *)

(* The variables other than the container keep their types.                 *)
LEMMA TypeStep ==
    ASSUME IncidentInv, [IncidentNext]_ivars
    PROVE  IncidentTypeOK'
  <1>0. IncidentTypeOK /\ incident' \in [Alerts -> Document]
    BY RecordStep DEF IncidentInv
  <1> USE DEF IncidentTypeOK, Goto, Finish, Calls
  <1>1. CASE UNCHANGED ivars
    BY <1>0, <1>1 DEF ivars
  <1>2. ASSUME NEW r \in Requests, Post(r) PROVE IncidentTypeOK'
    BY <1>0, <1>2 DEF Post, OpenOn, OnResource, Stage
  <1>3. ASSUME NEW r \in Requests, Layer1(r) \/ Layer2(r) PROVE IncidentTypeOK'
    <2>1. Layer1Hits(r) \subseteq Alerts /\ Layer2Hits(r) \subseteq Alerts
      BY DEF Layer1Hits, Layer2Hits, OpenOn, OnResource
    <2>2. ASSUME NEW S \in SUBSET Alerts, NEW l \in {"layer1", "layer2"}, Hit(r, S, l)
          PROVE  IncidentTypeOK'
      BY <1>0, <2>2 DEF Hit, Newest, Stage
    <2>3. ASSUME NEW S, NEW n \in {"layer2", "create"}, Miss(r, S, n)
          PROVE  IncidentTypeOK'
      BY <1>0, <2>3 DEF Miss, dedupVars, Stage
    <2> QED
      BY <1>3, <2>1, <2>2, <2>3 DEF Layer1, Layer2
  <1>4. ASSUME NEW r \in Requests, Writing(r) PROVE IncidentTypeOK'
    <2>1. stage[r] = "join" /\ Apply(r)
      BY <1>4 DEF Writing, Join, JoinUnheard
    <2>2. Copy(r) /\ layer[r] \in {"layer1", "layer2"}
      BY <2>1 DEF IncidentInv, Copies, Writes
    <2>3. seen[r].id \in Alerts
      BY <2>2 DEF Copy, Document
    <2> QED
      BY <1>0, <1>4, <2>1, <2>2, <2>3 DEF Writing, Join, JoinUnheard, Apply, Stage
  <1>5. ASSUME NEW r \in Requests, Conflict(r) PROVE IncidentTypeOK'
    <2>1. attempt[r] < MaxRetries
      BY <1>5 DEF Conflict, IncidentInv, Writes, Deduping
    <2>2. attempt[r] + 1 \in 0 .. MaxRetries
      BY <1>0, <2>1, RetriesAssumption
    <2> QED
      BY <1>0, <1>5, <2>2 DEF Conflict, Stage
  <1>6. ASSUME NEW r \in Requests, Reread(r) PROVE IncidentTypeOK'
    <2>1. seen[r].id \in Alerts
      BY <1>6 DEF IncidentInv, Copies, Copy, Document, Reread
    <2> QED
      BY <1>0, <1>6, <2>1 DEF Reread, dedupVars, Stage
  <1>7. ASSUME NEW r \in Requests, Create(r) PROVE IncidentTypeOK'
    <2>1. post[r] \in Alerts
      BY <1>7 DEF Create, IncidentInv, Opened, Deduping
    <2> QED
      BY <1>0, <1>7, <2>1 DEF Create, Stage
  <1>8. ASSUME NEW r \in Requests, DedupFails(r) \/ Dispatch(r) PROVE IncidentTypeOK'
    BY <1>0, <1>8 DEF DedupFails, Dispatch, dedupVars, Stage
  <1>9. ASSUME NEW t \in Moves, Transition(t) PROVE IncidentTypeOK'
    BY <1>0, <1>9 DEF Transition, Ask, Move, MoveFails, dedupVars, Stage
  <1>10. ASSUME NEW a \in Alerts, Age(a) PROVE IncidentTypeOK'
    BY <1>0, <1>10 DEF Age, dedupVars
  <1>11. ASSUME NEW c \in Calls, Crash(c) PROVE IncidentTypeOK'
    BY <1>0, <1>11 DEF Crash, dedupVars, Stage
  <1> QED
    BY <1>1, <1>2, <1>3, <1>4, <1>5, <1>6, <1>7, <1>8, <1>9, <1>10, <1>11
       DEF IncidentNext, Handle, Writing

(* Only the call that steps changes its copy; a step of another call leaves *)
(* a copy behind the record, never ahead of it.                             *)
LEMMA CopiesStep ==
    ASSUME IncidentInv, [IncidentNext]_ivars
    PROVE  Copies'
  <1>0. /\ IncidentTypeOK /\ Copies /\ Places
        /\ incident \in [Alerts -> Document]
        /\ incident' \in [Alerts -> Document]
    BY RecordStep DEF IncidentInv, IncidentTypeOK
  <1>1. ASSUME NEW c \in Calls, Copy(c), seen'[c] = seen[c]
        PROVE  Copy(c)'
    <2>1. seen[c] \in Document /\ seen[c].id \in Alerts
      BY <1>1 DEF Copy, Document
    <2>2. PICK a \in Alerts : a = seen[c].id
      BY <2>1
    <2>3. /\ Exists(a) => Exists(a)'
          /\ incident[a].etag <= incident'[a].etag
          /\ incident'[a].etag = incident[a].etag => incident'[a] = incident[a]
      BY RecordStep DEF Advance
    <2>4. incident[a].etag \in Nat /\ incident'[a].etag \in Nat /\ seen[c].etag \in Nat
      BY <1>0, <2>1 DEF Document
    <2>5. /\ Exists(a) /\ seen[c].etag <= incident[a].etag
          /\ incident[a].etag = seen[c].etag => seen[c] = incident[a]
      BY <1>1, <2>2 DEF Copy, EtagMatches
    <2>6. /\ Exists(a)' /\ seen[c].etag <= incident'[a].etag
          /\ incident'[a].etag = seen[c].etag => seen[c] = incident'[a]
      BY <2>3, <2>4, <2>5
    <2> QED
      BY <1>1, <2>1, <2>2, <2>6 DEF Copy, EtagMatches, Exists
  <1>2. ASSUME NEW c \in Calls, NEW a \in Alerts, Exists(a),
               seen'[c] = incident[a], UNCHANGED incident
        PROVE  Copy(c)'
    BY <1>0, <1>2 DEF Copy, EtagMatches, Exists, Places, Document
  <1>3. ASSUME NEW c \in Calls, stage'[c] \in {"join", "reread", "move"}
        PROVE  Copy(c)'
    <2> DEFINE Held == stage[c] \in {"join", "reread", "move"} /\ seen'[c] = seen[c]
               Taken == \E a \in Alerts : Exists(a) /\ seen'[c] = incident[a]
                                            /\ UNCHANGED incident
    <2> USE DEF Goto, Finish, Calls, dedupVars
    <2> SUFFICES Held \/ Taken
      BY <1>0, <1>1, <1>2 DEF Copies
    <2>1. CASE UNCHANGED ivars
      BY <1>3, <2>1 DEF ivars
    <2>2. ASSUME NEW r \in Requests, Post(r) PROVE Held \/ Taken
      BY <1>0, <1>3, <2>2 DEF Post, IncidentTypeOK
    <2>3. ASSUME NEW r \in Requests, Layer1(r) \/ Layer2(r) PROVE Held \/ Taken
      <3>1. ASSUME NEW S, NEW l, NEW n \in {"layer2", "create"},
                   S \subseteq {a \in Alerts : Exists(a)},
                   Hit(r, S, l) \/ Miss(r, S, n)
            PROVE  Held \/ Taken
        BY <1>0, <1>3, <3>1 DEF Hit, Miss, Newest, IncidentTypeOK
      <3>2. /\ Layer1Hits(r) \subseteq {a \in Alerts : Exists(a)}
            /\ Layer2Hits(r) \subseteq {a \in Alerts : Exists(a)}
        BY DEF Layer1Hits, Layer2Hits, OpenOn, OnResource
      <3> QED
        BY <2>3, <3>1, <3>2 DEF Layer1, Layer2
    <2>4. ASSUME NEW r \in Requests, Writing(r) PROVE Held \/ Taken
      BY <1>0, <1>3, <2>4 DEF Writing, Join, JoinUnheard, IncidentTypeOK
    <2>5. ASSUME NEW r \in Requests, Conflict(r) PROVE Held \/ Taken
      BY <1>0, <1>3, <2>5 DEF Conflict, IncidentTypeOK
    <2>6. ASSUME NEW r \in Requests, Reread(r) PROVE Held \/ Taken
      <3>1. Copy(r)
        BY <1>0, <2>6 DEF Copies, Reread
      <3>2. seen[r].id \in Alerts /\ Exists(seen[r].id)
        BY <3>1 DEF Copy, Document
      <3> QED
        BY <1>0, <1>3, <2>6, <3>2 DEF Reread, IncidentTypeOK
    <2>7. ASSUME NEW r \in Requests, Create(r) PROVE Held \/ Taken
      BY <1>0, <1>3, <2>7 DEF Create, IncidentTypeOK
    <2>8. ASSUME NEW r \in Requests, DedupFails(r) \/ Dispatch(r) PROVE Held \/ Taken
      BY <1>0, <1>3, <2>8 DEF DedupFails, Dispatch, IncidentTypeOK
    <2>9. ASSUME NEW t \in Moves, Transition(t) PROVE Held \/ Taken
      BY <1>0, <1>3, <2>9 DEF Transition, Ask, Move, MoveFails, IncidentTypeOK
    <2>10. ASSUME NEW a \in Alerts, Age(a) PROVE Held \/ Taken
      BY <1>3, <2>10 DEF Age
    <2>11. ASSUME NEW d \in Calls, Crash(d) PROVE Held \/ Taken
      BY <1>0, <1>3, <2>11 DEF Crash, IncidentTypeOK
    <2> QED
      BY <2>1, <2>2, <2>3, <2>4, <2>5, <2>6, <2>7, <2>8, <2>9, <2>10, <2>11
         DEF IncidentNext, Handle, Writing
  <1> QED
    BY <1>3 DEF Copies, Calls

(* Documents stay in their places, and empty until they exist.              *)
LEMMA PlacesStep ==
    ASSUME IncidentInv, [IncidentNext]_ivars
    PROVE  Places'
  BY RecordStep DEF Places, Exists, IncidentInv, Advance

(* No join is lost, none is counted twice.                                  *)
LEMMA JoinsStep ==
    ASSUME IncidentInv, [IncidentNext]_ivars
    PROVE  JoinsAreKept'
  <1> DEFINE Counted(a) == {r \in Requests : into[r] = a /\ wrote[r] = "layer1"}
             Listed(a) == {r \in Requests : into[r] = a /\ wrote[r] = "layer2"}
  <1>0. /\ IncidentTypeOK /\ Places /\ Writes
        /\ \A a \in Alerts : /\ incident[a].duplicates = Cardinality(Counted(a))
                             /\ incident[a].correlated = Listed(a)
    BY DEF IncidentInv, JoinsAreKept
  <1>1. CASE UNCHANGED <<incident, into, wrote>>
    BY <1>0, <1>1 DEF JoinsAreKept
  <1>2. ASSUME NEW r \in Requests, Writing(r) PROVE JoinsAreKept'
    <2>1. stage[r] = "join" /\ Apply(r) /\ wrote[r] = "nothing"
          /\ layer[r] \in {"layer1", "layer2"}
      BY <1>0, <1>2 DEF Writing, Join, JoinUnheard, Writes, Deduping
    <2>2. /\ seen[r] = incident[seen[r].id]
          /\ seen[r] \in Document
          /\ incident' = [incident EXCEPT ![seen[r].id] = Joined(r)]
      BY <2>1, ApplyEffect
    <2>3. PICK x \in Alerts : x = seen[r].id
      BY <2>2 DEF Document
    <2>4. /\ into' = [into EXCEPT ![r] = x]
          /\ wrote' = [wrote EXCEPT ![r] = layer[r]]
      BY <2>1, <2>3 DEF Apply
    <2>5. /\ incident'[x] = Joined(r)
          /\ \A a \in Alerts : a # x => incident'[a] = incident[a]
      BY <1>0, <2>2, <2>3 DEF IncidentTypeOK
    <2>6. ASSUME NEW a \in Alerts, a # x
          PROVE  /\ incident'[a].duplicates = Cardinality(Counted(a)')
                 /\ incident'[a].correlated = Listed(a)'
      <3>1. Counted(a)' = Counted(a) /\ Listed(a)' = Listed(a)
        BY <1>0, <2>1, <2>4, <2>6 DEF IncidentTypeOK
      <3> QED
        BY <1>0, <2>5, <2>6, <3>1
    <2>7. CASE layer[r] = "layer1"
      <3>1. Counted(x)' = Counted(x) \cup {r} /\ Listed(x)' = Listed(x)
        BY <1>0, <2>1, <2>4, <2>7 DEF IncidentTypeOK
      <3>2. r \notin Counted(x) /\ IsFiniteSet(Counted(x))
        BY <2>1, CallAssumption, FS_Subset
      <3>3. Cardinality(Counted(x)') = Cardinality(Counted(x)) + 1
        BY <3>1, <3>2, FS_AddElement
      <3>4. /\ Joined(r).duplicates = incident[x].duplicates + 1
            /\ Joined(r).correlated = incident[x].correlated
        BY <2>2, <2>3, <2>7 DEF Joined, Document
      <3>5. /\ incident'[x].duplicates = Cardinality(Counted(x)')
            /\ incident'[x].correlated = Listed(x)'
        BY <1>0, <2>5, <3>1, <3>3, <3>4
      <3> QED
        BY <2>6, <3>5 DEF JoinsAreKept
    <2>8. CASE layer[r] = "layer2"
      <3>1. Counted(x)' = Counted(x) /\ Listed(x)' = Listed(x) \cup {r}
        BY <1>0, <2>1, <2>4, <2>8 DEF IncidentTypeOK
      <3>2. /\ Joined(r).duplicates = incident[x].duplicates
            /\ Joined(r).correlated = incident[x].correlated \cup {r}
        BY <2>2, <2>3, <2>8 DEF Joined, Document
      <3>3. /\ incident'[x].duplicates = Cardinality(Counted(x)')
            /\ incident'[x].correlated = Listed(x)'
        BY <1>0, <2>5, <3>1, <3>2
      <3> QED
        BY <2>6, <3>3 DEF JoinsAreKept
    <2> QED
      BY <2>1, <2>7, <2>8
  <1>3. ASSUME NEW r \in Requests, Opening(r) PROVE JoinsAreKept'
    <2>1. PICK x \in Alerts : x = post[r]
      BY <1>3 DEF Opening, Create, IncidentInv, Opened, Deduping
    <2>2. wrote[r] = "nothing"
      BY <1>0, <1>3 DEF Opening, Create, Writes, Deduping
    <2>3. /\ incident' = [incident EXCEPT ![x] = NewRecord(x)]
          /\ wrote' = [wrote EXCEPT ![r] = "created"]
          /\ into' = [into EXCEPT ![r] = x]
      BY <1>3, <2>1 DEF Opening, Create
    <2>4. \A a \in Alerts : Counted(a)' = Counted(a) /\ Listed(a)' = Listed(a)
      BY <1>0, <2>2, <2>3 DEF IncidentTypeOK
    <2>5. /\ NewRecord(x).duplicates = incident[x].duplicates
          /\ NewRecord(x).correlated = incident[x].correlated
      BY <1>0, <1>3, <2>1 DEF Opening, Places, NewRecord
    <2>6. \A a \in Alerts : /\ incident'[a].duplicates = incident[a].duplicates
                            /\ incident'[a].correlated = incident[a].correlated
      BY <1>0, <2>3, <2>5 DEF IncidentTypeOK
    <2>7. ASSUME NEW a \in Alerts
          PROVE  /\ incident'[a].duplicates = Cardinality(Counted(a)')
                 /\ incident'[a].correlated = Listed(a)'
      <3>1. Counted(a)' = Counted(a) /\ Listed(a)' = Listed(a)
        BY <2>4
      <3> HIDE DEF Counted, Listed
      <3> QED
        BY <1>0, <2>6, <3>1
    <2> QED
      BY <2>7 DEF JoinsAreKept
  <1>4. ASSUME NEW t \in Moves, Move(t) PROVE JoinsAreKept'
    <2>1. /\ seen[t] = incident[seen[t].id]
          /\ seen[t] \in Document
          /\ incident' = [incident EXCEPT ![seen[t].id] = Moved(t)]
          /\ Moved(t).duplicates = seen[t].duplicates
          /\ Moved(t).correlated = seen[t].correlated
      BY <1>4, MoveEffect, MovedType
    <2>2. UNCHANGED <<into, wrote>>
      BY <1>4 DEF Move, dedupVars
    <2>3. \A a \in Alerts : /\ incident'[a].duplicates = incident[a].duplicates
                            /\ incident'[a].correlated = incident[a].correlated
      BY <1>0, <2>1 DEF IncidentTypeOK
    <2>4. ASSUME NEW a \in Alerts
          PROVE  /\ incident'[a].duplicates = Cardinality(Counted(a)')
                 /\ incident'[a].correlated = Listed(a)'
      <3>1. Counted(a)' = Counted(a) /\ Listed(a)' = Listed(a)
        BY <2>2
      <3> HIDE DEF Counted, Listed
      <3> QED
        BY <1>0, <2>3, <3>1
    <2> QED
      BY <2>4 DEF JoinsAreKept
  <1> QED
    BY <1>1, <1>2, <1>3, <1>4, OtherwiseUnchanged

(* status_history is extended by valid transitions only.                    *)
LEMMA HistoryStep ==
    ASSUME IncidentInv, [IncidentNext]_ivars
    PROVE  HistoryIsLegal'
  <1> DEFINE Legal(d) ==
               /\ d.history # << >>
               /\ d.history[1] = "new"
               /\ d.history[Len(d.history)] = d.status
               /\ \A i \in 1 .. Len(d.history) - 1 :
                     d.history[i + 1] \in VALID_TRANSITIONS[d.history[i]]
  <1>0. /\ IncidentTypeOK /\ \A a \in Alerts : Exists(a) => Legal(incident[a])
    BY DEF IncidentInv, HistoryIsLegal
  <1>1. SUFFICES \A a \in Alerts : Exists(a)' => Legal(incident'[a])
    BY DEF HistoryIsLegal
  <1>2. CASE UNCHANGED incident
    BY <1>0, <1>2 DEF Exists
  <1>3. ASSUME NEW r \in Requests, Writing(r)
        PROVE  \A a \in Alerts : Exists(a)' => Legal(incident'[a])
    <2>1. /\ seen[r] = incident[seen[r].id]
          /\ seen[r] \in Document
          /\ Exists(seen[r].id)
          /\ incident' = [incident EXCEPT ![seen[r].id] = Joined(r)]
      BY <1>3, ApplyEffect DEF Writing, Join, JoinUnheard
    <2>2. Joined(r).status = seen[r].status /\ Joined(r).history = seen[r].history
      BY <2>1, JoinedType
    <2>3. \A a \in Alerts : /\ incident'[a].status = incident[a].status
                            /\ incident'[a].history = incident[a].history
      BY <1>0, <2>1, <2>2 DEF IncidentTypeOK
    <2> QED
      BY <1>0, <2>3 DEF Exists
  <1>4. ASSUME NEW r \in Requests, Opening(r)
        PROVE  \A a \in Alerts : Exists(a)' => Legal(incident'[a])
    <2>1. incident' = [incident EXCEPT ![post[r]] = NewRecord(post[r])]
      BY <1>4 DEF Opening, Create
    <2>2. Legal(NewRecord(post[r]))
      BY DEF NewRecord
    <2> QED
      BY <1>0, <2>1, <2>2 DEF Exists, IncidentTypeOK
  <1>5. ASSUME NEW t \in Moves, Move(t)
        PROVE  \A a \in Alerts : Exists(a)' => Legal(incident'[a])
    <2>1. /\ seen[t] = incident[seen[t].id]
          /\ seen[t] \in Document
          /\ Exists(seen[t].id)
          /\ incident' = [incident EXCEPT ![seen[t].id] = Moved(t)]
          /\ target[t] \in VALID_TRANSITIONS[seen[t].status]
          /\ Moved(t).status = target[t]
          /\ Moved(t).history = Append(seen[t].history, target[t])
          /\ target[t] \in Status
      BY <1>5, MoveEffect, MovedType
    <2>2. PICK h \in Seq(Status) : h = seen[t].history
      BY <2>1 DEF Document
    <2>3. Legal(seen[t])
      BY <1>0, <2>1 DEF Document
    <2>4. /\ h # << >> /\ h[1] = "new" /\ h[Len(h)] = seen[t].status
          /\ \A i \in 1 .. Len(h) - 1 : h[i + 1] \in VALID_TRANSITIONS[h[i]]
      BY <2>2, <2>3
    <2>5. PICK g \in Seq(Status) : g = Append(h, target[t])
      <3>1. PICK s \in Status : s = target[t]
        BY <2>1
      <3>2. Append(h, s) \in Seq(Status)
        OBVIOUS
      <3> QED
        BY <3>1, <3>2
    <2>6. /\ Len(h) \in Nat \ {0} /\ Len(g) = Len(h) + 1
          /\ g[Len(h) + 1] = target[t]
          /\ \A i \in 1 .. Len(h) : g[i] = h[i]
      BY <2>1, <2>4, <2>5
    <2>7. /\ g # << >> /\ g[1] = "new" /\ g[Len(g)] = target[t]
      BY <2>4, <2>5, <2>6
    <2>8. ASSUME NEW i \in 1 .. Len(g) - 1
          PROVE  g[i + 1] \in VALID_TRANSITIONS[g[i]]
      <3>1. CASE i = Len(h)
        BY <2>1, <2>4, <2>6, <3>1
      <3>2. CASE i # Len(h)
        BY <2>4, <2>6, <3>2
      <3> QED
        BY <3>1, <3>2
    <2>9. Legal(Moved(t))
      BY <2>1, <2>2, <2>5, <2>7, <2>8
    <2> HIDE DEF Legal
    <2> QED
      BY <1>0, <2>1, <2>9 DEF Exists, IncidentTypeOK
  <1> QED
    BY <1>2, <1>3, <1>4, <1>5, OtherwiseUnchanged

(* The guards of the handler's stages.                                      *)
LEMMA WritesStep ==
    ASSUME IncidentInv, [IncidentNext]_ivars
    PROVE  Writes'
  <1>0. IncidentTypeOK /\ Writes
    BY DEF IncidentInv
  <1> USE DEF Goto, Finish, Calls, Writes, Deduping, IncidentTypeOK
  <1>1. CASE UNCHANGED ivars
    BY <1>0, <1>1 DEF ivars
  <1>2. ASSUME NEW r \in Requests, Post(r) PROVE Writes'
    BY <1>0, <1>2 DEF Post
  <1>3. ASSUME NEW r \in Requests, Layer1(r) \/ Layer2(r) PROVE Writes'
    <2>1. ASSUME NEW S, NEW l \in {"layer1", "layer2"}, Hit(r, S, l),
                 stage[r] \in {"layer1", "layer2"}
          PROVE  Writes'
      BY <1>0, <2>1 DEF Hit
    <2>2. ASSUME NEW S, NEW n \in {"layer2", "create"}, Miss(r, S, n),
                 stage[r] \in {"layer1", "layer2"}
          PROVE  Writes'
      BY <1>0, <2>2 DEF Miss, dedupVars
    <2> QED
      BY <1>3, <2>1, <2>2 DEF Layer1, Layer2
  <1>4. ASSUME NEW r \in Requests, Writing(r) PROVE Writes'
    BY <1>0, <1>4 DEF Writing, Join, JoinUnheard, Apply
  <1>5. ASSUME NEW r \in Requests, Conflict(r) PROVE Writes'
    BY <1>0, <1>5, RetriesAssumption DEF Conflict
  <1>6. ASSUME NEW r \in Requests, Reread(r) PROVE Writes'
    BY <1>0, <1>6 DEF Reread, dedupVars
  <1>7. ASSUME NEW r \in Requests, Create(r) PROVE Writes'
    BY <1>0, <1>7 DEF Create
  <1>8. ASSUME NEW r \in Requests, DedupFails(r) \/ Dispatch(r) PROVE Writes'
    BY <1>0, <1>8 DEF DedupFails, Dispatch, dedupVars
  <1>9. ASSUME NEW t \in Moves, Transition(t) PROVE Writes'
    BY <1>0, <1>9, CallAssumption DEF Transition, Ask, Move, MoveFails, dedupVars
  <1>10. ASSUME NEW a \in Alerts, Age(a) PROVE Writes'
    BY <1>0, <1>10 DEF Age, dedupVars
  <1>11. ASSUME NEW c \in Calls, Crash(c) PROVE Writes'
    BY <1>0, <1>11 DEF Crash, dedupVars
  <1> QED
    BY <1>1, <1>2, <1>3, <1>4, <1>5, <1>6, <1>7, <1>8, <1>9, <1>10, <1>11
       DEF IncidentNext, Handle, Writing

(* A transition keeps the copy it was validated against.                    *)
LEMMA ValidStep ==
    ASSUME IncidentInv, [IncidentNext]_ivars
    PROVE  Valid'
  <1>0. IncidentTypeOK /\ Valid
    BY DEF IncidentInv
  <1> USE DEF Goto, Finish, Calls, Valid, IncidentTypeOK
  <1>1. CASE UNCHANGED ivars
    BY <1>0, <1>1 DEF ivars
  <1>2. ASSUME NEW r \in Requests, Post(r) \/ Handle(r) PROVE Valid'
    <2>1. \A t \in Moves : stage'[t] = stage[t] /\ seen'[t] = seen[t]
      <3>1. CASE Post(r)
        BY <1>0, <3>1, CallAssumption DEF Post
      <3>2. CASE Layer1(r) \/ Layer2(r)
        BY <1>0, <3>2, CallAssumption DEF Layer1, Layer2, Hit, Miss
      <3>3. CASE Writing(r) \/ Conflict(r) \/ Reread(r)
        BY <1>0, <3>3, CallAssumption DEF Writing, Join, JoinUnheard, Conflict, Reread
      <3>4. CASE Create(r) \/ DedupFails(r) \/ Dispatch(r)
        BY <1>0, <3>4, CallAssumption DEF Create, DedupFails, Dispatch
      <3> QED
        BY <1>2, <3>1, <3>2, <3>3, <3>4 DEF Handle, Writing
    <2>2. UNCHANGED target
      BY <1>2 DEF Post, Handle, Layer1, Layer2, Hit, Miss, Join, JoinUnheard, Conflict,
         Reread, Create, DedupFails, Dispatch
    <2> QED
      BY <1>0, <2>1, <2>2
  <1>3. ASSUME NEW t \in Moves, Transition(t) PROVE Valid'
    BY <1>0, <1>3 DEF Transition, Ask, Move, MoveFails
  <1>4. ASSUME NEW a \in Alerts, Age(a) PROVE Valid'
    BY <1>0, <1>4 DEF Age
  <1>5. ASSUME NEW c \in Calls, Crash(c) PROVE Valid'
    BY <1>0, <1>5 DEF Crash
  <1> QED
    BY <1>1, <1>2, <1>3, <1>4, <1>5 DEF IncidentNext

(* What a step does to one delivery: it stays or goes on with what it knew, *)
(* it comes in, or both layers missed.                                      *)
GoesOn(q) ==
    /\ opened'[q] = opened[q] /\ post'[q] = post[q]
    /\ \/ stage'[q] = stage[q]
       \/ stage'[q] \notin Deduping
       \/ /\ stage[q] \in Deduping \ {"idle"}
          /\ stage'[q] \in {"layer2", "join", "reread"}

ComesIn(q) ==
    /\ stage'[q] = "layer1" /\ post'[q] \in Alerts
    /\ opened'[q] = OpenOn(ResourceOf[post'[q]])
    /\ wrote[q] = "nothing" /\ UNCHANGED <<incident, wrote>>

BothMiss(q) ==
    /\ stage[q] = "layer2" /\ stage'[q] = "create"
    /\ opened'[q] = opened[q] /\ post'[q] = post[q]
    /\ Layer2Hits(q) = {} /\ UNCHANGED <<incident, wrote>>

LEMMA DeliveryStep ==
    ASSUME IncidentInv, [IncidentNext]_ivars, NEW q \in Requests
    PROVE  GoesOn(q) \/ ComesIn(q) \/ BothMiss(q)
  <1>0. IncidentTypeOK /\ Writes
    BY DEF IncidentInv
  <1> USE DEF Goto, Finish, Calls, Deduping, IncidentTypeOK, GoesOn
  <1>1. CASE UNCHANGED ivars
    BY <1>0, <1>1 DEF ivars
  <1>2. ASSUME NEW r \in Requests, Post(r) PROVE GoesOn(q) \/ ComesIn(q)
    BY <1>0, <1>2 DEF Post, ComesIn, Writes
  <1>3. ASSUME NEW r \in Requests, Layer1(r) \/ Layer2(r)
        PROVE  GoesOn(q) \/ BothMiss(q)
    <2>1. ASSUME NEW S, NEW l, Hit(r, S, l), stage[r] \in {"layer1", "layer2"}
          PROVE  GoesOn(q)
      BY <1>0, <2>1 DEF Hit
    <2>2. ASSUME stage[r] = "layer1", Miss(r, Layer1Hits(r), "layer2") PROVE GoesOn(q)
      BY <1>0, <2>2 DEF Miss, dedupVars
    <2>3. ASSUME stage[r] = "layer2", Miss(r, Layer2Hits(r), "create")
          PROVE  GoesOn(q) \/ BothMiss(q)
      BY <1>0, <2>3 DEF Miss, dedupVars, BothMiss
    <2> QED
      BY <1>3, <2>1, <2>2, <2>3 DEF Layer1, Layer2
  <1>4. ASSUME NEW r \in Requests, Writing(r) \/ Conflict(r) PROVE GoesOn(q)
    BY <1>0, <1>4 DEF Writing, Join, JoinUnheard, Conflict
  <1>5. ASSUME NEW r \in Requests, Reread(r) PROVE GoesOn(q)
    BY <1>0, <1>5 DEF Reread, dedupVars
  <1>6. ASSUME NEW r \in Requests, Create(r) PROVE GoesOn(q)
    BY <1>0, <1>6 DEF Create
  <1>7. ASSUME NEW r \in Requests, DedupFails(r) \/ Dispatch(r) PROVE GoesOn(q)
    BY <1>0, <1>7 DEF DedupFails, Dispatch, dedupVars
  <1>8. ASSUME NEW t \in Moves, Transition(t) PROVE GoesOn(q)
    BY <1>0, <1>8, CallAssumption DEF Transition, Ask, Move, MoveFails, dedupVars
  <1>9. ASSUME NEW a \in Alerts, Age(a) PROVE GoesOn(q)
    BY <1>0, <1>9 DEF Age, dedupVars
  <1>10. ASSUME NEW c \in Calls, Crash(c) PROVE GoesOn(q)
    BY <1>0, <1>10 DEF Crash, dedupVars
  <1> QED
    BY <1>1, <1>2, <1>3, <1>4, <1>5, <1>6, <1>7, <1>8, <1>9, <1>10
       DEF IncidentNext, Handle, Writing

(* Records that were open when a delivery came in stay on its resource; if  *)
(* both layers miss, the open ones among them are none.                     *)
LEMMA OpenedStep ==
    ASSUME IncidentInv, [IncidentNext]_ivars
    PROVE  Opened'
  <1>0. /\ IncidentTypeOK /\ Opened /\ IncidentTypeOK'
        /\ \A a \in Alerts : /\ Exists(a) => Exists(a)'
                             /\ incident[a].status = "closed" =>
                                   incident'[a].status = "closed"
    BY RecordStep, TypeStep DEF IncidentInv, Advance
  <1> SUFFICES ASSUME NEW q \in Requests
               PROVE  /\ stage'[q] = "idle" => opened'[q] = {}
                      /\ stage'[q] \in Deduping \ {"idle"} => post'[q] \in Alerts
                      /\ stage'[q] \in Deduping \ {"idle"} =>
                            opened'[q] \subseteq OnResource(ResourceOf[post[q]])'
                      /\ \A b \in opened'[q] : Exists(b)'
                      /\ stage'[q] = "create" =>
                            \A b \in opened'[q] : incident'[b].status = "closed"
    BY DEF Opened
  <1>1. opened[q] \subseteq Alerts /\ opened'[q] \subseteq Alerts
    BY <1>0 DEF IncidentTypeOK
  <1>2. CASE GoesOn(q)
    <2>1. \A b \in opened'[q] : Exists(b)'
      BY <1>0, <1>1, <1>2 DEF GoesOn, Opened
    <2>2. ASSUME stage'[q] \in Deduping \ {"idle"}
          PROVE  /\ post'[q] \in Alerts
                 /\ opened'[q] \subseteq OnResource(ResourceOf[post[q]])'
      <3>1. stage[q] \in Deduping \ {"idle"}
        BY <1>2, <2>2 DEF GoesOn
      <3>2. /\ post[q] \in Alerts /\ post'[q] = post[q] /\ opened'[q] = opened[q]
            /\ opened[q] \subseteq OnResource(ResourceOf[post[q]])
        BY <1>0, <1>2, <3>1 DEF GoesOn, Opened
      <3> QED
        BY <1>0, <2>1, <3>2 DEF OnResource
    <2>3. stage'[q] = "create" => stage[q] = "create"
      BY <1>2 DEF GoesOn, Deduping
    <2>4. stage'[q] = "idle" => stage[q] = "idle"
      BY <1>2 DEF GoesOn, Deduping
    <2> QED
      BY <1>0, <1>1, <1>2, <2>1, <2>2, <2>3, <2>4 DEF GoesOn, Opened
  <1>3. CASE ComesIn(q)
    <2>1. /\ opened'[q] = OpenOn(ResourceOf[post'[q]]) /\ UNCHANGED incident
          /\ stage'[q] = "layer1" /\ post'[q] \in Alerts
      BY <1>3 DEF ComesIn
    <2>2. opened'[q] \subseteq OnResource(ResourceOf[post[q]])'
      BY <2>1 DEF OpenOn, OnResource, Exists
    <2> QED
      BY <2>1, <2>2 DEF OnResource
  <1>4. CASE BothMiss(q)
    <2>1. /\ stage[q] = "layer2" /\ stage'[q] = "create" /\ UNCHANGED incident
          /\ opened'[q] = opened[q] /\ post'[q] = post[q]
          /\ OpenOn(ResourceOf[post[q]]) = {}
      BY <1>4 DEF BothMiss, Layer2Hits
    <2>2. /\ post[q] \in Alerts /\ opened[q] \subseteq OnResource(ResourceOf[post[q]])
          /\ \A b \in opened[q] : Exists(b)
      BY <1>0, <2>1 DEF Opened, Deduping
    <2>3. \A b \in opened[q] : ~Open(b)
      BY <2>1, <2>2 DEF OpenOn
    <2>4. \A b \in opened[q] : incident[b].status = "closed"
      BY <1>0, <1>1, <2>2, <2>3 DEF Open, Exists, IncidentTypeOK, Document, Status
    <2> QED
      BY <2>1, <2>2, <2>4 DEF OnResource, Exists
  <1> QED
    BY <1>2, <1>3, <1>4, DeliveryStep

(* A record is opened only beside closed ones.                              *)
LEMMA RedundantStep ==
    ASSUME IncidentInv, [IncidentNext]_ivars
    PROVE  NoRedundantIncident'
  <1>0. /\ IncidentTypeOK /\ Opened /\ Writes /\ NoRedundantIncident
        /\ \A a \in Alerts : incident[a].status = "closed" =>
                                incident'[a].status = "closed"
    BY RecordStep DEF IncidentInv, Advance
  <1> SUFFICES ASSUME NEW q \in Requests, wrote'[q] = "created"
               PROVE  \A b \in opened'[q] : incident'[b].status = "closed"
    BY DEF NoRedundantIncident
  <1>1. opened[q] \subseteq Alerts
    BY <1>0 DEF IncidentTypeOK
  <1>2. \/ wrote[q] = "created"
        \/ \A b \in opened[q] : incident[b].status = "closed"
    <2>1. CASE UNCHANGED <<incident, into, wrote>>
      BY <2>1
    <2>2. ASSUME NEW r \in Requests, Writing(r) PROVE wrote[q] = "created"
      <3>1. stage[r] = "join" /\ wrote' = [wrote EXCEPT ![r] = layer[r]]
        BY <2>2 DEF Writing, Join, JoinUnheard, Apply
      <3>2. layer[r] # "created"
        BY <1>0, <3>1 DEF Writes
      <3> QED
        BY <1>0, <3>1, <3>2 DEF IncidentTypeOK
    <2>3. ASSUME NEW r \in Requests, Opening(r)
          PROVE  wrote[q] = "created"
                 \/ \A b \in opened[q] : incident[b].status = "closed"
      BY <1>0, <2>3 DEF Opening, Create, Opened, IncidentTypeOK
    <2>4. ASSUME NEW t \in Moves, Move(t) PROVE wrote[q] = "created"
      BY <2>4 DEF Move, dedupVars
    <2> QED
      BY <2>1, <2>2, <2>3, <2>4, OtherwiseUnchanged
  <1>3. CASE opened'[q] = opened[q]
    BY <1>0, <1>1, <1>2, <1>3 DEF NoRedundantIncident
  <1>4. CASE ComesIn(q)
    BY <1>4 DEF ComesIn
  <1> QED
    BY <1>3, <1>4, DeliveryStep DEF GoesOn, BothMiss

-----------------------------------------------------------------------------
(* The theorems.                                                           *)

(* IncidentInv holds in every reachable state.                              *)
THEOREM IncidentInvariant == IncidentSpec => []IncidentInv
  <1>1. IncidentInit => IncidentInv
    <2> SUFFICES ASSUME IncidentInit PROVE IncidentInv
      OBVIOUS
    <2>1. IncidentTypeOK
      <3>1. << >> \in Seq(Status)
        OBVIOUS
      <3> QED
        BY <3>1, RetriesAssumption DEF IncidentInit, IncidentTypeOK, Document, Calls,
           Stage, Status
    <2>2. Places /\ Copies /\ Writes /\ Valid /\ Opened
      BY RetriesAssumption DEF IncidentInit, Places, Copies, Writes, Valid, Opened, Exists,
         Deduping, Calls
    <2>3. JoinsAreKept
      <3>1. \A a \in Alerts : /\ {r \in Requests : into[r] = a /\ wrote[r] = "layer1"} = {}
                              /\ {r \in Requests : into[r] = a /\ wrote[r] = "layer2"} = {}
        BY DEF IncidentInit
      <3> QED
        BY <3>1, FS_EmptySet DEF IncidentInit, JoinsAreKept
    <2>4. HistoryIsLegal /\ NoRedundantIncident
      BY DEF IncidentInit, HistoryIsLegal, NoRedundantIncident, Exists
    <2> QED
      BY <2>1, <2>2, <2>3, <2>4 DEF IncidentInv
  <1>2. IncidentInv /\ [IncidentNext]_ivars => IncidentInv'
    BY TypeStep, PlacesStep, CopiesStep, WritesStep, ValidStep, OpenedStep, JoinsStep,
       HistoryStep, RedundantStep DEF IncidentInv
  <1> QED
    BY <1>1, <1>2, PTL DEF IncidentSpec

(* Type correctness of the incidents container and of the handlers.         *)
THEOREM IncidentTypes == IncidentSpec => []IncidentTypeOK
  BY IncidentInvariant, PTL DEF IncidentInv

(* duplicate_count and correlated_alerts are exactly the joins that went    *)
(* through, for any number of concurrent deliveries and transitions.        *)
THEOREM NoJoinLost == IncidentSpec => []JoinsAreKept
  BY IncidentInvariant, PTL DEF IncidentInv

(* status_history tells the truth and obeys VALID_TRANSITIONS.              *)
THEOREM HistoryTrue == IncidentSpec => []HistoryIsLegal
  BY IncidentInvariant, PTL DEF IncidentInv

(* No second incident beside one that was open when the alert came in.      *)
THEOREM OneIncidentAtATime == IncidentSpec => []NoRedundantIncident
  BY IncidentInvariant, PTL DEF IncidentInv

(* "closed is terminal" (alert_state.py:10): no write, not even one of a    *)
(* copy read before the record was closed, opens it again.                  *)
ClosedStaysClosed ==
    [][\A a \in Alerts : incident[a].status = "closed" =>
                             incident'[a].status = "closed"]_ivars

(* A closed incident is never opened again.                                 *)
THEOREM ClosedForGood == IncidentSpec => ClosedStaysClosed
  <1>1. IncidentInv /\ [IncidentNext]_ivars =>
          [\A a \in Alerts : incident[a].status = "closed" =>
                               incident'[a].status = "closed"]_ivars
    BY RecordStep DEF Advance
  <1> QED
    BY <1>1, IncidentInvariant, PTL DEF IncidentSpec, ClosedStaysClosed

-----------------------------------------------------------------------------
(* A delivery is answered as joined only when it has written to a record.   *)
JoinersWrote ==
    \A r \in Requests : stage[r] = "joined" =>
        wrote[r] \in {"layer1", "layer2"} /\ into[r] \in Alerts

LEMMA JoinersStep ==
    ASSUME IncidentInv, JoinersWrote, [IncidentNext]_ivars
    PROVE  JoinersWrote'
  <1>0. IncidentTypeOK
    BY DEF IncidentInv
  <1> USE DEF Goto, Finish, Calls, JoinersWrote, IncidentTypeOK
  <1>1. CASE UNCHANGED ivars
    BY <1>1 DEF ivars
  <1>2. ASSUME NEW r \in Requests, Post(r) PROVE JoinersWrote'
    BY <1>0, <1>2 DEF Post
  <1>3. ASSUME NEW r \in Requests, Layer1(r) \/ Layer2(r) PROVE JoinersWrote'
    <2>1. ASSUME NEW S, NEW l, Hit(r, S, l) PROVE JoinersWrote'
      BY <1>0, <2>1 DEF Hit
    <2>2. ASSUME NEW S, NEW n \in {"layer2", "create"}, Miss(r, S, n) PROVE JoinersWrote'
      BY <1>0, <2>2 DEF Miss, dedupVars
    <2> QED
      BY <1>3, <2>1, <2>2 DEF Layer1, Layer2
  <1>4. ASSUME NEW r \in Requests, Writing(r) PROVE JoinersWrote'
    <2>1. stage[r] = "join" /\ Apply(r)
      BY <1>4 DEF Writing, Join, JoinUnheard
    <2>2. seen[r].id \in Alerts
      BY <2>1, ApplyEffect DEF Document
    <2>3. layer[r] \in {"layer1", "layer2"}
      BY <2>1 DEF IncidentInv, Writes
    <2>4. /\ wrote'[r] \in {"layer1", "layer2"} /\ into'[r] \in Alerts
          /\ \A q \in Requests \ {r} : wrote'[q] = wrote[q] /\ into'[q] = into[q]
      BY <1>0, <2>1, <2>2, <2>3 DEF Apply
    <2>5. \A q \in Requests \ {r} : stage'[q] = stage[q]
      BY <1>0, <1>4 DEF Writing, Join, JoinUnheard
    <2> QED
      BY <2>4, <2>5
  <1>5. ASSUME NEW r \in Requests, Conflict(r) PROVE JoinersWrote'
    BY <1>0, <1>5 DEF Conflict
  <1>6. ASSUME NEW r \in Requests, Reread(r) PROVE JoinersWrote'
    BY <1>0, <1>6 DEF Reread, dedupVars
  <1>7. ASSUME NEW r \in Requests, Create(r) PROVE JoinersWrote'
    BY <1>0, <1>7 DEF Create
  <1>8. ASSUME NEW r \in Requests, DedupFails(r) \/ Dispatch(r) PROVE JoinersWrote'
    BY <1>0, <1>8 DEF DedupFails, Dispatch, dedupVars
  <1>9. ASSUME NEW t \in Moves, Transition(t) PROVE JoinersWrote'
    BY <1>0, <1>9, CallAssumption DEF Transition, Ask, Move, MoveFails, dedupVars
  <1>10. ASSUME NEW a \in Alerts, Age(a) PROVE JoinersWrote'
    BY <1>0, <1>10 DEF Age, dedupVars
  <1>11. ASSUME NEW c \in Calls, Crash(c) PROVE JoinersWrote'
    BY <1>0, <1>11 DEF Crash, dedupVars
  <1> QED
    BY <1>1, <1>2, <1>3, <1>4, <1>5, <1>6, <1>7, <1>8, <1>9, <1>10, <1>11
       DEF IncidentNext, Handle, Writing

(* The dispatch is left out only for a delivery that a record did take.     *)
LEMMA JoinersAreRecorded ==
    ASSUME IncidentInv, JoinersWrote PROVE JoinedIsRecorded
  <1> SUFFICES ASSUME NEW r \in Requests, stage[r] = "joined"
               PROVE  \E a \in Alerts : \/ r \in incident[a].correlated
                                        \/ /\ into[r] = a /\ wrote[r] = "layer1"
                                           /\ incident[a].duplicates > 0
    BY DEF JoinedIsRecorded
  <1>1. into[r] \in Alerts /\ wrote[r] \in {"layer1", "layer2"}
    BY DEF JoinersWrote
  <1> DEFINE J == {q \in Requests : into[q] = into[r] /\ wrote[q] = "layer1"}
  <1>2. incident[into[r]].duplicates = Cardinality(J)
        /\ incident[into[r]].correlated =
             {q \in Requests : into[q] = into[r] /\ wrote[q] = "layer2"}
    BY <1>1 DEF IncidentInv, JoinsAreKept
  <1>3. CASE wrote[r] = "layer2"
    BY <1>1, <1>2, <1>3
  <1>4. CASE wrote[r] = "layer1"
    <2>1. IsFiniteSet(J) /\ J # {}
      BY <1>4, CallAssumption, FS_Subset
    <2>2. Cardinality(J) \in Nat /\ Cardinality(J) # 0
      BY <2>1, FS_CardinalityType, FS_EmptySet
    <2> HIDE DEF J
    <2>3. incident[into[r]].duplicates > 0
      BY <1>2, <2>2
    <2> QED
      BY <1>1, <1>4, <2>3
  <1> QED
    BY <1>1, <1>3, <1>4

(* No alert is swallowed, for any number of rounds and of other deliveries. *)
THEOREM NoAlertSwallowed == IncidentSpec => []JoinedIsRecorded
  <1>1. IncidentInit => JoinersWrote
    BY DEF IncidentInit, JoinersWrote, Calls
  <1>2. IncidentInv /\ JoinersWrote /\ [IncidentNext]_ivars => JoinersWrote'
    BY JoinersStep
  <1>3. IncidentInv /\ JoinersWrote => JoinedIsRecorded
    BY JoinersAreRecorded
  <1> QED
    BY <1>1, <1>2, <1>3, IncidentInvariant, PTL DEF IncidentSpec
-----------------------------------------------------------------------------
(* What a delivery is about to write belongs to its resource, and to its    *)
(* rule if the first layer found it; only a retry can hold a closed record. *)
Own(q) ==
    /\ stage[q] \in {"join", "reread"} =>
          /\ ResourceOf[seen[q].id] = ResourceOf[post[q]]
          /\ layer[q] = "layer1" => RuleOf[seen[q].id] = RuleOf[post[q]]
    /\ stage[q] = "reread" => attempt[q] > 0
    /\ stage[q] = "join" /\ attempt[q] = 0 => seen[q].status # "closed"

CopiesAreOwn == \A q \in Requests : Own(q)

(* The steps of a delivery leave the others where they are.                 *)
Beside(q) ==
    /\ stage'[q] = stage[q] /\ seen'[q] = seen[q] /\ wrote'[q] = wrote[q]
    /\ layer'[q] = layer[q] /\ attempt'[q] = attempt[q] /\ post'[q] = post[q]

LEMMA OthersStay ==
    ASSUME IncidentTypeOK, NEW r \in Requests, Post(r) \/ Handle(r)
    PROVE  \A q \in Requests \ {r} : Beside(q)
  <1>1. TAKE q \in Requests \ {r}
  <1> USE DEF Goto, Finish, Calls, IncidentTypeOK, Beside
  <1>2. CASE Post(r)
    BY <1>2 DEF Post
  <1>3. CASE Layer1(r) \/ Layer2(r)
    BY <1>3 DEF Layer1, Layer2, Hit, Miss, dedupVars
  <1>4. CASE Writing(r)
    BY <1>4 DEF Writing, Join, JoinUnheard, Apply
  <1>5. CASE Conflict(r)
    BY <1>5 DEF Conflict
  <1>6. CASE Reread(r)
    BY <1>6 DEF Reread, dedupVars
  <1>7. CASE Create(r)
    BY <1>7 DEF Create
  <1>8. CASE DedupFails(r) \/ Dispatch(r)
    BY <1>8 DEF DedupFails, Dispatch, dedupVars
  <1> QED
    BY <1>2, <1>3, <1>4, <1>5, <1>6, <1>7, <1>8 DEF Handle, Writing

(* The steps of a transition and of the environment leave them all, but for *)
(* one that dies with its worker.                                           *)
LEMMA NoneMoves ==
    ASSUME IncidentTypeOK,
           \/ \E t \in Moves : Transition(t)
           \/ \E a \in Alerts : Age(a)
           \/ UNCHANGED ivars
    PROVE  \A q \in Requests : Beside(q)
  <1> USE CallAssumption DEF Goto, Finish, Calls, IncidentTypeOK, Beside
  <1>1. ASSUME NEW t \in Moves, Transition(t) PROVE \A q \in Requests : Beside(q)
    BY <1>1 DEF Transition, Ask, Move, MoveFails, dedupVars
  <1>2. ASSUME NEW a \in Alerts, Age(a) PROVE \A q \in Requests : Beside(q)
    BY <1>2 DEF Age, dedupVars
  <1>3. CASE UNCHANGED ivars
    BY <1>3 DEF ivars
  <1> QED
    BY <1>1, <1>2, <1>3

LEMMA OwnStep ==
    ASSUME IncidentInv, CopiesAreOwn, [IncidentNext]_ivars
    PROVE  CopiesAreOwn'
  <1>0. IncidentTypeOK /\ Places /\ \A c \in Calls : stage[c] \in Stage
    BY DEF IncidentInv, IncidentTypeOK
  <1>1. ASSUME NEW q \in Requests, Beside(q) PROVE Own(q)'
    BY <1>1 DEF CopiesAreOwn, Own, Beside
  <1>2. ASSUME NEW q \in Requests, stage'[q] \notin {"join", "reread"} PROVE Own(q)'
    BY <1>2 DEF Own
  <1>3. ASSUME NEW r \in Requests, NEW S, NEW l, Hit(r, S, l),
               (S = Layer1Hits(r) /\ l = "layer1") \/ (S = Layer2Hits(r) /\ l = "layer2")
        PROVE  Own(r)'
    <2>1. PICK a \in S : seen' = [seen EXCEPT ![r] = incident[a]]
      BY <1>3 DEF Hit, Newest
    <2>2. /\ a \in Alerts /\ ResourceOf[a] = ResourceOf[post[r]]
          /\ l = "layer1" => RuleOf[a] = RuleOf[post[r]]
          /\ incident[a].status # "closed"
      BY <1>3, <2>1 DEF Layer1Hits, Layer2Hits, OpenOn, OnResource, Open
    <2>3. /\ seen'[r] = incident[a] /\ layer'[r] = l /\ stage'[r] = "join"
          /\ post' = post
      BY <1>0, <1>3, <2>1 DEF Hit, Goto, Calls, IncidentTypeOK
    <2>4. incident[a].id = a
      BY <1>0, <2>2 DEF Places
    <2> QED
      BY <2>2, <2>3, <2>4 DEF Own
  <1>4. ASSUME NEW r \in Requests, Conflict(r) PROVE Own(r)'
    <2>1. CASE attempt[r] + 1 < MaxRetries
      <3>1. /\ stage[r] = "join" /\ stage'[r] = "reread" /\ seen' = seen
            /\ attempt'[r] = attempt[r] + 1 /\ layer' = layer /\ post' = post
            /\ attempt[r] \in Nat
        BY <1>0, <1>4, <2>1 DEF Conflict, Goto, Calls, IncidentTypeOK
      <3> QED
        BY <3>1 DEF CopiesAreOwn, Own
    <2>2. CASE ~(attempt[r] + 1 < MaxRetries)
      <3>1. stage'[r] = "dispatch"
        BY <1>0, <1>4, <2>2 DEF Conflict, Finish, Goto, Calls, IncidentTypeOK
      <3> QED
        BY <1>2, <3>1
    <2> QED
      BY <2>1, <2>2
  <1>5. ASSUME NEW r \in Requests, Reread(r) PROVE Own(r)'
    <2>1. /\ stage[r] = "reread" /\ stage'[r] = "join"
          /\ seen'[r] = incident[seen[r].id]
          /\ attempt' = attempt /\ layer' = layer /\ post' = post
      BY <1>0, <1>5 DEF Reread, Goto, Calls, IncidentTypeOK, dedupVars
    <2>2. seen[r].id \in Alerts
      BY <2>1 DEF IncidentInv, Copies, Copy, Calls, Document
    <2>3. seen'[r].id = seen[r].id
      BY <1>0, <2>1, <2>2 DEF Places
    <2> QED
      BY <2>1, <2>3 DEF CopiesAreOwn, Own
  <1>6. ASSUME NEW r \in Requests,
               Post(r) \/ Writing(r) \/ Create(r) \/ DedupFails(r) \/ Dispatch(r)
        PROVE  Own(r)'
    <2>1. stage'[r] \notin {"join", "reread"}
      BY <1>0, <1>6 DEF Post, Writing, Join, JoinUnheard, Create, DedupFails, Dispatch,
                        Goto, Finish, Calls, IncidentTypeOK
    <2> QED
      BY <1>2, <2>1
  <1>7. ASSUME NEW r \in Requests, Layer1(r) \/ Layer2(r) PROVE Own(r)'
    <2>1. ASSUME NEW S, NEW n \in {"layer2", "create"}, Miss(r, S, n) PROVE Own(r)'
      <3>1. stage'[r] \notin {"join", "reread"}
        BY <1>0, <2>1 DEF Miss, Goto, Calls, IncidentTypeOK
      <3> QED
        BY <1>2, <3>1
    <2>2. Hit(r, Layer1Hits(r), "layer1") => Own(r)'
      BY <1>3
    <2>3. Hit(r, Layer2Hits(r), "layer2") => Own(r)'
      BY <1>3
    <2> QED
      BY <1>7, <2>1, <2>2, <2>3 DEF Layer1, Layer2
  <1>8. ASSUME NEW r \in Requests, Post(r) \/ Handle(r) PROVE CopiesAreOwn'
    <2>1. Own(r)'
      BY <1>4, <1>5, <1>6, <1>7, <1>8 DEF Handle, Writing
    <2>2. \A q \in Requests \ {r} : Own(q)'
      BY <1>0, <1>1, <1>8, OthersStay
    <2> QED
      BY <2>1, <2>2 DEF CopiesAreOwn
  <1>9. ASSUME NEW c \in Calls, Crash(c) PROVE CopiesAreOwn'
    <2>1. \A q \in Requests : q # c => Beside(q)
      BY <1>0, <1>9 DEF Crash, Finish, Goto, Calls, IncidentTypeOK, dedupVars, Beside
    <2>2. stage'[c] = "lost"
      BY <1>0, <1>9 DEF Crash, Finish, Goto, IncidentTypeOK
    <2> QED
      BY <1>1, <1>2, <2>1, <2>2 DEF CopiesAreOwn
  <1>10. ASSUME \A q \in Requests : Beside(q) PROVE CopiesAreOwn'
    BY <1>1, <1>10 DEF CopiesAreOwn
  <1> QED
    BY <1>0, <1>8, <1>9, <1>10, NoneMoves DEF IncidentNext

(* It holds in every reachable state.                                       *)
LEMMA OwnAlways == IncidentSpec => []CopiesAreOwn
  <1>1. IncidentInit => CopiesAreOwn
    BY DEF IncidentInit, CopiesAreOwn, Own, Calls
  <1> QED
    BY <1>1, OwnStep, IncidentInvariant, PTL DEF IncidentSpec

(* A closed record takes an alert only from a retry: the query that found   *)
(* it, and the write that goes through at once, see the record open         *)
(* (dedup.py:96-101, 135-140, 164-193).                                     *)
JoinsClosedOnlyOnRetry ==
    [][\A a \in Alerts : incident[a].status = "closed" =>
          \/ /\ incident'[a].duplicates = incident[a].duplicates
             /\ incident'[a].correlated = incident[a].correlated
          \/ \E r \in Requests : stage[r] = "join" /\ attempt[r] > 0 /\ seen[r].id = a]_ivars

(* So the retry is all that keeps JoinsOpenIncident from holding.           *)
THEOREM OnlyRetriesJoinClosed == IncidentSpec => JoinsClosedOnlyOnRetry
  <1>1. ASSUME IncidentInv, CopiesAreOwn, [IncidentNext]_ivars, NEW a \in Alerts,
               incident[a].status = "closed",
               ~\E r \in Requests : stage[r] = "join" /\ attempt[r] > 0 /\ seen[r].id = a
        PROVE  /\ incident'[a].duplicates = incident[a].duplicates
               /\ incident'[a].correlated = incident[a].correlated
    <2>0. incident \in [Alerts -> Document] /\ attempt \in [Requests -> 0 .. MaxRetries]
      BY <1>1 DEF IncidentInv, IncidentTypeOK
    <2>1. ASSUME NEW r \in Requests, Writing(r) PROVE incident'[a] = incident[a]
      <3>1. stage[r] = "join" /\ Apply(r)
        BY <2>1 DEF Writing, Join, JoinUnheard
      <3>2. /\ seen[r] = incident[seen[r].id]
            /\ incident' = [incident EXCEPT ![seen[r].id] = Joined(r)]
        BY <1>1, <3>1, ApplyEffect
      <3>3. attempt[r] = 0 => seen[r].status # "closed"
        BY <1>1, <3>1 DEF CopiesAreOwn, Own
      <3>4. seen[r].id # a
        BY <1>1, <2>0, <3>1, <3>2, <3>3
      <3> QED
        BY <2>0, <3>2, <3>4
    <2>2. ASSUME NEW r \in Requests, Opening(r) PROVE incident'[a] = incident[a]
      BY <1>1, <2>0, <2>2 DEF Opening, Create, Exists
    <2>3. ASSUME NEW t \in Moves, Move(t) PROVE incident'[a] = incident[a]
      <3>1. /\ seen[t] = incident[seen[t].id]
            /\ incident' = [incident EXCEPT ![seen[t].id] = Moved(t)]
            /\ seen[t].status # "closed"
        BY <1>1, <2>3, MoveEffect, Transitions
      <3> QED
        BY <1>1, <2>0, <3>1
    <2> QED
      BY <1>1, <2>1, <2>2, <2>3, OtherwiseUnchanged
  <1>2. IncidentInv /\ CopiesAreOwn /\ [IncidentNext]_ivars =>
          [\A a \in Alerts : incident[a].status = "closed" =>
              \/ /\ incident'[a].duplicates = incident[a].duplicates
                 /\ incident'[a].correlated = incident[a].correlated
              \/ \E r \in Requests :
                    stage[r] = "join" /\ attempt[r] > 0 /\ seen[r].id = a]_ivars
    BY <1>1
  <1> QED
    BY <1>2, OwnAlways, IncidentInvariant, PTL DEF IncidentSpec, JoinsClosedOnlyOnRetry

-----------------------------------------------------------------------------
(* The refinement of AlertLifecycle.                                        *)

(* Fates move with the call that steps, records with the container.         *)
LEMMA FateMoves ==
    ASSUME NEW r \in Requests, \A q \in Requests \ {r} : Beside(q), NEW f, Fate(r)' = f
    PROVE  Fates' = [Fates EXCEPT ![r] = f]
  <1>1. \A q \in Requests \ {r} : Fate(q)' = Fate(q)
    BY DEF Beside, Fate
  <1> QED
    BY <1>1 DEF Fates

LEMMA FatesStay ==
    ASSUME \A q \in Requests : Beside(q)
    PROVE  Fates' = Fates
  <1>1. \A q \in Requests : Fate(q)' = Fate(q)
    BY DEF Beside, Fate
  <1> QED
    BY <1>1 DEF Fates

LEMMA KeptStays == ASSUME UNCHANGED incident PROVE Kept' = Kept
  BY DEF Kept

LEMMA KeptChanges ==
    ASSUME IncidentTypeOK, NEW a \in Alerts, NEW d, incident' = [incident EXCEPT ![a] = d]
    PROVE  Kept' = [Kept EXCEPT ![a] = [status |-> d.status, duplicates |-> d.duplicates,
                                        correlated |-> d.correlated]]
  <1>1. incident'[a] = d /\ \A b \in Alerts \ {a} : incident'[b] = incident[b]
    BY DEF IncidentTypeOK
  <1> QED
    BY <1>1 DEF Kept

(* A delivery that has not been written, or that is to be dispatched.       *)
LEMMA FateOfStage ==
    ASSUME IncidentInv, NEW r \in Requests
    PROVE  /\ stage[r] = "idle" => Fates[r] = "out"
           /\ stage[r] \in {"layer1", "layer2", "join", "reread", "create"} =>
                 Fates[r] = "waiting"
           /\ stage[r] = "dispatch" => Fates[r] \in {"waiting", "taken", "opened"}
  <1>1. Fates[r] = Fate(r)
    BY DEF Fates
  <1>2. stage[r] \in Deduping => wrote[r] = "nothing"
    BY DEF IncidentInv, Writes
  <1> QED
    BY <1>1, <1>2 DEF Fate, Deduping

(* A write of the copy with the delivery in it: the record takes it.        *)
LEMMA TakeStep ==
    ASSUME IncidentInv, CopiesAreOwn, NEW r \in Requests, Writing(r)
    PROVE  \E a \in Alerts : Ledger!Take(r, a)
  <1>0. IncidentTypeOK
    BY DEF IncidentInv
  <1>1. stage[r] = "join" /\ Apply(r)
    BY DEF Writing, Join, JoinUnheard
  <1> DEFINE a == seen[r].id
             d == Joined(r)
             flat == [status |-> d.status, duplicates |-> d.duplicates,
                      correlated |-> d.correlated]
  <1>2. /\ incident[a] = seen[r] /\ seen[r] \in Document /\ Exists(a)
        /\ incident' = [incident EXCEPT ![a] = d]
    BY <1>1, ApplyEffect
  <1>3. a \in Alerts
    BY <1>2 DEF Document
  <1>4. /\ ResourceOf[a] = ResourceOf[post[r]]
        /\ layer[r] = "layer1" => RuleOf[a] = RuleOf[post[r]]
        /\ layer[r] \in {"layer1", "layer2"}
    BY <1>1 DEF CopiesAreOwn, Own, IncidentInv, Writes
  <1>5. Kept[a] = [status |-> seen[r].status, duplicates |-> seen[r].duplicates,
                   correlated |-> seen[r].correlated]
    BY <1>2, <1>3 DEF Kept
  <1>6. Kept' = [Kept EXCEPT ![a] = flat]
    <2> HIDE DEF d, a
    <2> QED
      BY <1>0, <1>2, <1>3, KeptChanges
  <1>7. /\ d.status = seen[r].status
        /\ layer[r] = "layer1" => /\ d.duplicates = seen[r].duplicates + 1
                                  /\ d.correlated = seen[r].correlated
        /\ layer[r] = "layer2" => /\ d.duplicates = seen[r].duplicates
                                  /\ d.correlated = seen[r].correlated \cup {r}
    BY <1>2 DEF Joined, Document
  <1>8. \/ layer[r] = "layer1" /\ flat = [Kept[a] EXCEPT !.duplicates = @ + 1]
        \/ layer[r] = "layer2" /\ flat = [Kept[a] EXCEPT !.correlated = @ \cup {r}]
    <2> HIDE DEF d, a
    <2> QED
      BY <1>4, <1>5, <1>7
  <1>9. Fates[r] = "waiting"
    BY <1>1, FateOfStage
  <1>10. \E f \in {"taken", "joined"} : Fates' = [Fates EXCEPT ![r] = f]
    <2>1. stage'[r] \in {"joined", "dispatch"} /\ wrote'[r] = layer[r]
      BY <1>0, <1>1 DEF Writing, Join, JoinUnheard, Finish, Goto, Apply, Calls, IncidentTypeOK
    <2>2. Fate(r)' \in {"taken", "joined"}
      BY <1>4, <2>1 DEF Fate
    <2>3. \A q \in Requests \ {r} : Beside(q)
      BY <1>0, OthersStay DEF Handle, Writing
    <2> QED
      BY <2>2, <2>3, FateMoves
  <1>11. Kept[a].status # "absent" /\ UNCHANGED <<post, opened>>
    BY <1>2, <1>5 DEF Exists, Writing, Join, JoinUnheard
  <1>12. \/ RuleOf[a] = RuleOf[post[r]] /\ Kept' = [Kept EXCEPT ![a].duplicates = @ + 1]
         \/ Kept' = [Kept EXCEPT ![a].correlated = @ \cup {r}]
    <2> HIDE DEF flat, a
    <2> QED
      BY <1>4, <1>6, <1>8
  <1> HIDE DEF a
  <1>13. Ledger!Take(r, a)
    BY <1>3, <1>4, <1>9, <1>10, <1>11, <1>12 DEF Ledger!Take, Ledger!SameResource
  <1> QED
    BY <1>3, <1>13

(* Both layers missed and there is no record of the alert.                  *)
LEMMA OpenStep ==
    ASSUME IncidentInv, NEW r \in Requests, Opening(r)
    PROVE  Ledger!OpenRecord(r)
  <1>0. IncidentTypeOK
    BY DEF IncidentInv
  <1>1. /\ stage[r] = "create" /\ ~Exists(post[r])
        /\ incident' = [incident EXCEPT ![post[r]] = NewRecord(post[r])]
        /\ wrote' = [wrote EXCEPT ![r] = "created"] /\ Goto(r, "dispatch")
        /\ UNCHANGED <<post, opened>>
    BY DEF Opening, Create
  <1>2. post[r] \in Alerts /\ \A b \in opened[r] : incident[b].status = "closed"
    BY <1>1 DEF IncidentInv, Opened, Deduping
  <1>3. opened[r] \subseteq Alerts
    BY <1>0 DEF IncidentTypeOK
  <1> DEFINE a == post[r]
             d == NewRecord(a)
             flat == [status |-> d.status, duplicates |-> d.duplicates,
                      correlated |-> d.correlated]
  <1>4. Kept[a] = [status |-> "absent", duplicates |-> 0, correlated |-> {}]
    BY <1>1, <1>2 DEF IncidentInv, Places, Exists, Kept
  <1>5. Kept' = [Kept EXCEPT ![a] = flat]
    <2> HIDE DEF d
    <2> QED
      BY <1>0, <1>1, <1>2, KeptChanges DEF d
  <1>6. flat = [status |-> "new", duplicates |-> 0, correlated |-> {}]
    BY DEF NewRecord
  <1>7. Kept' = [Kept EXCEPT ![a].status = "new"]
    <2> HIDE DEF flat, a
    <2>1. flat = [Kept[a] EXCEPT !.status = "new"]
      BY <1>4, <1>6
    <2> QED
      BY <1>5, <2>1
  <1>8. \A b \in opened[r] : Kept[b].status = "closed"
    BY <1>2, <1>3 DEF Kept
  <1>9. Fates[r] = "waiting"
    BY <1>1, FateOfStage
  <1>10. Fates' = [Fates EXCEPT ![r] = "opened"]
    <2>1. stage'[r] = "dispatch" /\ wrote'[r] = "created"
      BY <1>0, <1>1 DEF Goto, Calls, IncidentTypeOK
    <2>2. Fate(r)' = "opened"
      BY <2>1 DEF Fate
    <2>3. \A q \in Requests \ {r} : Beside(q)
      BY <1>0, OthersStay DEF Handle, Opening
    <2> QED
      BY <2>2, <2>3, FateMoves
  <1> HIDE DEF flat, d
  <1> QED
    BY <1>1, <1>4, <1>7, <1>8, <1>9, <1>10 DEF Ledger!OpenRecord

(* A delivery comes in: what is open on its resource stands.                *)
LEMMA ComeInStep ==
    ASSUME IncidentInv, NEW r \in Requests, Post(r)
    PROVE  Ledger!ComeIn(r)
  <1>0. IncidentTypeOK
    BY DEF IncidentInv
  <1>1. PICK a \in Alerts : /\ post' = [post EXCEPT ![r] = a]
                            /\ opened' = [opened EXCEPT ![r] = OpenOn(ResourceOf[a])]
    BY DEF Post
  <1>2. stage[r] = "idle" /\ Goto(r, "layer1") /\ UNCHANGED <<incident, wrote>>
    BY DEF Post
  <1>3. wrote[r] = "nothing"
    BY <1>2 DEF IncidentInv, Writes, Deduping
  <1>4. Fates[r] = "out"
    BY <1>2, FateOfStage
  <1>5. Fates' = [Fates EXCEPT ![r] = "waiting"]
    <2>1. stage'[r] = "layer1" /\ wrote'[r] = "nothing"
      BY <1>0, <1>2, <1>3 DEF Goto, Calls, IncidentTypeOK
    <2>2. Fate(r)' = "waiting"
      BY <2>1 DEF Fate
    <2> QED
      BY <1>0, <2>2, OthersStay, FateMoves
  <1>6. Kept' = Kept
    BY <1>2, KeptStays
  <1>7. OpenOn(ResourceOf[a]) =
          {b \in Ledger!SameResource(a) : Kept[b].status \in {"new", "acknowledged"}}
    <2>1. \A b \in Alerts : Kept[b].status = incident[b].status
      BY DEF Kept
    <2> QED
      BY <2>1 DEF OpenOn, OnResource, Open, Exists, Ledger!SameResource
  <1> QED
    BY <1>1, <1>4, <1>5, <1>6, <1>7 DEF Ledger!ComeIn

(* A status moves along a transition.                                       *)
LEMMA MoveStep ==
    ASSUME IncidentInv, NEW t \in Moves, Move(t)
    PROVE  \E a \in Alerts : Ledger!Move(a)
  <1>0. IncidentTypeOK
    BY DEF IncidentInv
  <1> DEFINE a == seen[t].id
             d == Moved(t)
             flat == [status |-> d.status, duplicates |-> d.duplicates,
                      correlated |-> d.correlated]
  <1>1. /\ seen[t] = incident[a] /\ seen[t] \in Document
        /\ incident' = [incident EXCEPT ![a] = d]
        /\ target[t] \in VALID_TRANSITIONS[seen[t].status]
        /\ seen[t].status \in Status /\ target[t] \in Status
    BY MoveEffect
  <1>2. a \in Alerts
    BY <1>1 DEF Document
  <1>3. /\ d.status = target[t] /\ d.duplicates = seen[t].duplicates
        /\ d.correlated = seen[t].correlated
    BY <1>1, MovedType
  <1>4. Kept[a] = [status |-> seen[t].status, duplicates |-> seen[t].duplicates,
                   correlated |-> seen[t].correlated]
    BY <1>1, <1>2 DEF Kept
  <1>5. Kept' = [Kept EXCEPT ![a] = flat]
    <2> HIDE DEF d, a
    <2> QED
      BY <1>0, <1>1, <1>2, KeptChanges
  <1>6. Kept' = [Kept EXCEPT ![a].status = target[t]]
    <2> HIDE DEF d, a
    <2>1. flat = [Kept[a] EXCEPT !.status = target[t]]
      BY <1>3, <1>4
    <2> HIDE DEF flat
    <2> QED
      BY <1>5, <2>1
  <1>7. target[t] \in Ledger!Follow[Kept[a].status]
    BY <1>1, <1>4 DEF VALID_TRANSITIONS, Status, Ledger!Follow
  <1>8. Fates' = Fates
    BY <1>0, NoneMoves, FatesStay DEF Transition
  <1>9. UNCHANGED <<post, opened>>
    BY DEF Move, dedupVars
  <1> HIDE DEF a
  <1>10. Ledger!Move(a)
    BY <1>6, <1>7, <1>8, <1>9 DEF Ledger!Move
  <1> QED
    BY <1>2, <1>10

(* The last step of a delivery, or its worker's.                            *)
LEMMA LeaveStep ==
    ASSUME IncidentInv, NEW r \in Requests, Dispatch(r) \/ Crash(r)
    PROVE  Ledger!Leave(r)
  <1>0. IncidentTypeOK /\ CallAssumption
    BY CallAssumption DEF IncidentInv
  <1>1. /\ Fates[r] \in {"waiting", "taken", "opened"}
        /\ UNCHANGED <<incident, post, opened>>
    <2>1. stage[r] \in {"layer1", "layer2", "join", "reread", "create", "dispatch", "move"}
      BY DEF Dispatch, Crash, InHandler
    <2>2. stage[r] # "move" => Fates[r] \in {"waiting", "taken", "opened"}
      BY <2>1, FateOfStage
    <2>3. stage[r] = "move" => Fate(r) \in {"waiting", "taken", "opened"}
      BY DEF Fate
    <2> QED
      BY <2>2, <2>3 DEF Dispatch, Crash, dedupVars, Fates
  <1>2. Kept' = Kept
    BY <1>1, KeptStays
  <1>3. stage'[r] \in {"dispatched", "error", "lost"}
    BY <1>0 DEF Dispatch, Crash, Finish, Goto, Calls, IncidentTypeOK
  <1>4. Fate(r)' \in {"dispatched", "lost"}
    BY <1>3 DEF Fate
  <1>5. \A q \in Requests \ {r} : Beside(q)
    <2>1. CASE Dispatch(r)
      BY <1>0, <2>1, OthersStay DEF Handle
    <2>2. CASE Crash(r)
      BY <1>0, <2>2 DEF Crash, Finish, Goto, Calls, IncidentTypeOK, dedupVars, Beside
    <2> QED
      BY <2>1, <2>2
  <1>6. \E f \in {"dispatched", "lost"} : Fates' = [Fates EXCEPT ![r] = f]
    BY <1>4, <1>5, FateMoves
  <1> QED
    BY <1>1, <1>2, <1>6 DEF Ledger!Leave

(* Whatever else a delivery does shows in nothing that is promised.         *)
LEMMA HiddenStep ==
    ASSUME IncidentInv, NEW r \in Requests,
           \/ Layer1(r) \/ Layer2(r) \/ Conflict(r) \/ Reread(r) \/ DedupFails(r)
           \/ Create(r) /\ Exists(post[r])
    PROVE  UNCHANGED Ledger!ledger
  <1>0. IncidentTypeOK
    BY DEF IncidentInv
  <1>1. /\ stage[r] \in {"layer1", "layer2", "join", "reread", "create"}
        /\ UNCHANGED <<incident, post, opened>> /\ wrote'[r] = wrote[r]
    BY DEF Layer1, Layer2, Hit, Miss, Conflict, Reread, DedupFails, Create, dedupVars
  <1>2. stage'[r] \in {"layer1", "layer2", "join", "reread", "create", "dispatch"}
    BY <1>0 DEF Layer1, Layer2, Hit, Miss, Conflict, Reread, DedupFails, Create, Finish,
                Goto, Calls, IncidentTypeOK
  <1>3. wrote[r] = "nothing" /\ Fates[r] = "waiting"
    BY <1>1, FateOfStage DEF IncidentInv, Writes, Deduping
  <1>4. Fate(r)' = "waiting"
    BY <1>1, <1>2, <1>3 DEF Fate
  <1>5. Fates' = [Fates EXCEPT ![r] = "waiting"]
    BY <1>0, <1>4, OthersStay, FateMoves DEF Handle
  <1>6. Fates' = Fates
    BY <1>3, <1>5 DEF Fates
  <1> QED
    BY <1>1, <1>6, KeptStays DEF Ledger!ledger

(* Every step is a promised one, or shows in nothing.                       *)
LEMMA LedgerStep ==
    ASSUME IncidentInv, CopiesAreOwn, [IncidentNext]_ivars
    PROVE  [Ledger!LifecycleNext]_(Ledger!ledger)
  <1>0. IncidentTypeOK /\ CallAssumption
    BY CallAssumption DEF IncidentInv
  <1>1. ASSUME \A q \in Requests : Beside(q), UNCHANGED <<incident, post, opened>>
        PROVE  UNCHANGED Ledger!ledger
    BY <1>1, FatesStay, KeptStays DEF Ledger!ledger
  <1>2. ASSUME NEW r \in Requests, Post(r) \/ Handle(r)
        PROVE  [Ledger!LifecycleNext]_(Ledger!ledger)
    <2>1. CASE Post(r)
      BY <2>1, ComeInStep DEF Ledger!LifecycleNext
    <2>2. CASE Writing(r)
      BY <2>2, TakeStep DEF Ledger!LifecycleNext
    <2>3. CASE Opening(r)
      BY <2>3, OpenStep DEF Ledger!LifecycleNext
    <2>4. CASE Dispatch(r)
      BY <2>4, LeaveStep DEF Ledger!LifecycleNext
    <2>5. CASE \/ Layer1(r) \/ Layer2(r) \/ Conflict(r) \/ Reread(r) \/ DedupFails(r)
               \/ Create(r) /\ Exists(post[r])
      BY <2>5, HiddenStep
    <2> QED
      BY <1>2, <2>1, <2>2, <2>3, <2>4, <2>5 DEF Handle, Writing, Opening
  <1>3. ASSUME NEW t \in Moves, Transition(t)
        PROVE  [Ledger!LifecycleNext]_(Ledger!ledger)
    <2>1. CASE Move(t)
      BY <2>1, MoveStep DEF Ledger!LifecycleNext
    <2>2. CASE Ask(t) \/ MoveFails(t)
      <3>1. UNCHANGED <<incident, post, opened>>
        BY <2>2 DEF Ask, MoveFails, dedupVars
      <3>2. \A q \in Requests : Beside(q)
        BY <1>0, <1>3, NoneMoves
      <3> QED
        BY <1>1, <3>1, <3>2
    <2> QED
      BY <1>3, <2>1, <2>2 DEF Transition
  <1>4. ASSUME NEW c \in Calls, Crash(c)
        PROVE  [Ledger!LifecycleNext]_(Ledger!ledger)
    <2>1. CASE c \in Requests
      BY <1>4, <2>1, LeaveStep DEF Ledger!LifecycleNext
    <2>2. CASE c \notin Requests
      <3>1. UNCHANGED <<incident, post, opened>>
        BY <1>4 DEF Crash, dedupVars
      <3>2. \A q \in Requests : Beside(q)
        BY <1>0, <1>4, <2>2 DEF Crash, Finish, Goto, Calls, IncidentTypeOK, dedupVars, Beside
      <3> QED
        BY <1>1, <3>1, <3>2
    <2> QED
      BY <2>1, <2>2
  <1>5. ASSUME (\E a \in Alerts : Age(a)) \/ UNCHANGED ivars
        PROVE  UNCHANGED Ledger!ledger
    <2>1. UNCHANGED <<incident, post, opened>>
      BY <1>5 DEF Age, dedupVars, ivars
    <2>2. \A q \in Requests : Beside(q)
      BY <1>0, <1>5, NoneMoves
    <2> QED
      BY <1>1, <2>1, <2>2
  <1> QED
    BY <1>2, <1>3, <1>4, <1>5 DEF IncidentNext

(* Deduplication and life cycle implement AlertLifecycle, for any number of *)
(* deliveries, transitions, alerts, resources and rounds.                   *)
THEOREM LifecycleKept == IncidentSpec => KeepsLifecycle
  <1>1. IncidentInit => Ledger!Blank
    BY DEF IncidentInit, Ledger!Blank, Kept, Fates, Fate, Calls
  <1>2. IncidentInv /\ CopiesAreOwn /\ [IncidentNext]_ivars =>
          [Ledger!LifecycleNext]_(Ledger!ledger)
    BY LedgerStep
  <1> QED
    BY <1>1, <1>2, OwnAlways, IncidentInvariant, PTL
       DEF IncidentSpec, KeepsLifecycle, Ledger!Lifecycle

=============================================================================
