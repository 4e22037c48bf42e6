------------------------- MODULE FoundryThreadProofs -------------------------
(***************************************************************************)
(* Proofs about FoundryThread, for any number of approvals, verification   *)
(* results and chat messages of an incident.                               *)
(***************************************************************************)
EXTENDS FoundryThread, TLAPS

OneActive ==
    \A a, b \in Activities : run[a] \in Active /\ run[b] \in Active => a = b

(* No run sees what is not there yet, and while one is active nobody can   *)
(* have written past it.                                                   *)
SinceIsPast == \A a \in Activities : since[a] <= Len(messages)

ActiveSeesAll ==
    \A a \in Activities, i \in DOMAIN messages :
        run[a] \in Active /\ messages[i].role = "user" => i <= since[a]

(* Whoever has asked for a cancellation waits for it to take effect.       *)
CancellersWait ==
    ~faulted => \A a \in Activities : run[a] = "cancelling" =>
        \E v \in Injections : stage[v] \in {"cancel", "sleep"} /\ a \in cancelled[v]

(* Activities that are going to start a run, or to find the thread busy.   *)
Pending(a) ==
    \/ stage[a] \in {"sleep", "post", "run"}
    \/ a \in Injections /\ stage[a] = "cancel" /\ cancelled[a] # {}

ReadOrPending ==
    ~faulted => \A i \in DOMAIN messages : messages[i].role = "user" =>
        \/ \E a \in Activities : Kept(a) /\ i <= since[a]
        \/ \E a \in Activities : Pending(a)

(* A chat answers once, when its own run is over.                          *)
AnswersAfterRun ==
    \A c \in Chats :
        /\ stage[c] = "answer" \/ reply[c] # None => run[c] = "completed"
        /\ reply[c] # None => stage[c] = "done"

ThreadInv ==
    /\ ThreadTypeOK
    /\ OneActive /\ SinceIsPast /\ ActiveSeesAll /\ CancellersWait /\ ReadOrPending
    /\ AnswersAfterRun /\ ReplyIsFresh

-----------------------------------------------------------------------------
LEMMA Kinds ==
    /\ Injections \subseteq Activities /\ Chats \subseteq Activities
    /\ Responses \subseteq Activities /\ Dispatch \in Activities
    /\ Dispatch \notin Injections /\ Dispatch \notin Chats /\ Injections \cap Chats = {}
    /\ None \notin Activities
  BY ActivitiesAssumption DEF Activities

LEMMA GotoChanges ==
    ASSUME ThreadTypeOK, NEW x \in Activities, NEW s \in Stage, Goto(x, s)
    PROVE  /\ stage'[x] = s /\ \A y \in Activities \ {x} : stage'[y] = stage[y]
           /\ stage' \in [Activities -> Stage]
  BY DEF Goto, ThreadTypeOK

LEMMA ForgetChanges ==
    ASSUME ThreadTypeOK, NEW x, Forget(x)
    PROVE  /\ listed' \in [Injections -> SUBSET Activities]
           /\ cancelled' \in [Injections -> SUBSET Activities]
           /\ \A v \in Injections : v # x => cancelled'[v] = cancelled[v]
  BY DEF Forget, ThreadTypeOK

LEMMA ThreadInitInv == ThreadInit => ThreadInv
<1> SUFFICES ASSUME ThreadInit PROVE ThreadInv
  OBVIOUS
<1> USE DEF ThreadInit
<1>1. ThreadTypeOK
  <2>1. messages \in Seq(Message)
    BY Kinds DEF Message
  <2>2. run \in [Activities -> Active \cup {"none", "completed", "failed", "cancelled"}]
        /\ since \in [Activities -> Nat] /\ stage \in [Activities -> Stage]
    BY DEF Active, Stage
  <2>3. listed \in [Injections -> SUBSET Activities] /\ cancelled \in [Injections -> SUBSET Activities]
        /\ reply \in [Chats -> Activities \cup {None}] /\ faulted \in BOOLEAN
    OBVIOUS
  <2>4. count \in 0 .. MaxCount
    BY CountAssumption
  <2> QED
    BY <2>1, <2>2, <2>3, <2>4 DEF ThreadTypeOK
<1>2. /\ Len(messages) = 1 /\ DOMAIN messages = {1}
      /\ messages[1] = [by |-> Dispatch, role |-> "user"]
  OBVIOUS
<1>3. OneActive
  BY DEF OneActive, Active
<1>4. SinceIsPast /\ ActiveSeesAll
  BY <1>2 DEF SinceIsPast, ActiveSeesAll, Active
<1>5. CancellersWait
  BY DEF CancellersWait
<1>6. ReadOrPending
  <2>1. Dispatch \in Activities /\ Kept(Dispatch) /\ 1 <= since[Dispatch]
    BY Kinds DEF Kept
  <2> QED
    BY <1>2, <2>1 DEF ReadOrPending
<1>7. AnswersAfterRun
  BY Kinds DEF AnswersAfterRun
<1>8. ReplyIsFresh
  BY DEF ReplyIsFresh
<1> QED
  BY <1>1, <1>3, <1>4, <1>5, <1>6, <1>7, <1>8 DEF ThreadInv

-----------------------------------------------------------------------------
(* An activity moves on and the thread stays as it is.                     *)
LEMMA MovesOn ==
    ASSUME ThreadInv, ThreadTypeOK', NEW x \in Activities, NEW s \in Stage, Goto(x, s),
           UNCHANGED <<messages, run, since, reply, faulted>>,
           stage[x] # "done",
           Pending(x) => Pending(x)',
           \A v \in Injections : v # x => cancelled'[v] = cancelled[v],
           \A a \in Activities :
               /\ ~faulted /\ run[a] = "cancelling"
               /\ x \in Injections /\ stage[x] \in {"cancel", "sleep"} /\ a \in cancelled[x]
               => s \in {"cancel", "sleep"} /\ a \in cancelled'[x],
           s = "answer" => run[x] = "completed"
    PROVE  ThreadInv'
<1>1. stage'[x] = s /\ \A y \in Activities \ {x} : stage'[y] = stage[y]
  BY GotoChanges DEF ThreadInv
<1>2. OneActive' /\ SinceIsPast' /\ ActiveSeesAll' /\ ReplyIsFresh'
  BY DEF ThreadInv, OneActive, SinceIsPast, ActiveSeesAll, ReplyIsFresh
<1>3. CancellersWait'
  <2> SUFFICES ASSUME ~faulted, NEW a \in Activities, run[a] = "cancelling"
               PROVE  \E v \in Injections : stage'[v] \in {"cancel", "sleep"} /\ a \in cancelled'[v]
    BY DEF CancellersWait
  <2>1. PICK v \in Injections : stage[v] \in {"cancel", "sleep"} /\ a \in cancelled[v]
    BY DEF ThreadInv, CancellersWait
  <2>2. CASE v = x
    BY <2>1, <2>2, <1>1
  <2>3. CASE v # x
    BY <2>1, <2>3, <1>1, Kinds
  <2> QED
    BY <2>2, <2>3
<1>4. \A a \in Activities : Pending(a) => Pending(a)'
  BY <1>1 DEF Pending
<1>5. ReadOrPending'
  BY <1>4 DEF ThreadInv, ReadOrPending, Kept
<1>6. AnswersAfterRun'
  BY <1>1, Kinds DEF ThreadInv, AnswersAfterRun
<1> QED
  BY <1>2, <1>3, <1>5, <1>6 DEF ThreadInv

(* A call fails, or a worker dies: what is said of messages and            *)
(* cancellations is then no longer promised.                               *)
LEMMA Faults ==
    ASSUME ThreadInv, ThreadTypeOK', faulted' = TRUE, NEW x \in Activities,
           UNCHANGED <<messages, run, since, reply>>, stage[x] # "done",
           stage'[x] # "answer" \/ stage'[x] = stage[x],
           \A y \in Activities \ {x} : stage'[y] = stage[y]
    PROVE  ThreadInv'
<1>1. OneActive' /\ SinceIsPast' /\ ActiveSeesAll' /\ ReplyIsFresh'
  BY DEF ThreadInv, OneActive, SinceIsPast, ActiveSeesAll, ReplyIsFresh
<1>2. CancellersWait' /\ ReadOrPending'
  BY DEF CancellersWait, ReadOrPending
<1>3. AnswersAfterRun'
  BY Kinds DEF ThreadInv, AnswersAfterRun
<1> QED
  BY <1>1, <1>2, <1>3 DEF ThreadInv

LEMMA QuietSteps ==
    ASSUME ThreadInv, NEW x \in Activities,
           \/ /\ x \in Injections
              /\ ReadCount(x) \/ ReadFails(x) \/ ListRuns(x) \/ Count(x)
           \/ x \in Chats /\ (Poll(x) \/ GiveUp(x))
           \/ Begin(x)
    PROVE  ThreadInv'
<1>1. ThreadTypeOK
  BY DEF ThreadInv
<1>2. /\ stage[x] \in {"new", "list", "count", "poll"}
      /\ UNCHANGED <<messages, run, since, reply, faulted, cancelled>>
  BY DEF ReadCount, ReadFails, ListRuns, Count, Poll, GiveUp, Begin
<1>3. PICK s \in Stage : Goto(x, s) /\ (s = "answer" => run[x] = "completed")
  <2>1. CASE ReadCount(x)
    BY <2>1 DEF ReadCount, Stage
  <2>2. CASE ListRuns(x)
    BY <2>2 DEF ListRuns, Stage
  <2>3. CASE Count(x)
    BY <2>3 DEF Count, Stage
  <2>4. CASE Poll(x)
    BY <2>4 DEF Poll, Stage
  <2>5. CASE GiveUp(x)
    BY <2>5 DEF GiveUp, Stage
  <2>6. CASE Begin(x)
    BY <2>6 DEF Begin, Stage
  <2>7. CASE ReadFails(x)
    BY <2>7 DEF ReadFails, Stage
  <2> QED
    BY <2>1, <2>2, <2>3, <2>4, <2>5, <2>6, <2>7
<1>4. stage' \in [Activities -> Stage]
  BY <1>1, <1>3, GotoChanges
<1>5. listed' \in [Injections -> SUBSET Activities] /\ count' \in 0 .. MaxCount
  <2>1. CASE ListRuns(x)
    BY <1>1, <2>1 DEF ListRuns, ActiveRuns, ThreadTypeOK
  <2>2. CASE Count(x)
    <3>1. count \in 0 .. MaxCount /\ MaxCount \in Nat /\ listed' = listed
      BY <1>1, <2>2, CountAssumption DEF Count, ThreadTypeOK
    <3>2. Incremented \in 0 .. MaxCount
      BY <3>1 DEF Incremented
    <3> QED
      BY <1>1, <2>2, <3>1, <3>2 DEF Count, ThreadTypeOK
  <2>3. CASE ReadCount(x) \/ ReadFails(x) \/ Poll(x) \/ GiveUp(x) \/ Begin(x)
    BY <1>1, <2>3 DEF ReadCount, ReadFails, Poll, GiveUp, Begin, ThreadTypeOK
  <2> QED
    BY <2>1, <2>2, <2>3
<1>u. unread' \subseteq Injections
  BY <1>1 DEF ReadCount, ReadFails, ListRuns, Count, Poll, GiveUp, Begin,
     ThreadTypeOK
<1>6. ThreadTypeOK'
  BY <1>1, <1>2, <1>4, <1>5, <1>u DEF ThreadTypeOK
<1>7. ~Pending(x)
  BY <1>2 DEF Pending
<1> QED
  BY <1>2, <1>3, <1>6, <1>7, MovesOn

LEMMA CancelDoneStep == ASSUME ThreadInv, NEW v \in Injections, CancelDone(v) PROVE ThreadInv'
<1>1. ThreadTypeOK /\ v \in Activities
  BY Kinds DEF ThreadInv
<1>2. /\ stage[v] = "cancel" /\ Goto(v, AfterCancel(cancelled[v]))
      /\ UNCHANGED <<messages, run, since, listed, cancelled, count, reply, faulted, unread>>
  BY DEF CancelDone
<1>3. AfterCancel(cancelled[v]) \in Stage
  BY DEF AfterCancel, Stage
<1>4. stage' \in [Activities -> Stage] /\ stage'[v] = AfterCancel(cancelled[v])
  BY <1>1, <1>2, <1>3, GotoChanges
<1>5. ThreadTypeOK'
  BY <1>1, <1>2, <1>4 DEF ThreadTypeOK
<1>6. Pending(v)'
  BY <1>4 DEF Pending, AfterCancel
<1>7. AfterCancel(cancelled[v]) # "answer"
      /\ (cancelled[v] # {} => AfterCancel(cancelled[v]) = "sleep")
  BY DEF AfterCancel
<1> QED
  BY <1>1, <1>2, <1>3, <1>5, <1>6, <1>7, MovesOn

LEMMA WakeStep == ASSUME ThreadInv, NEW v \in Injections, Wake(v) PROVE ThreadInv'
<1>1. ThreadTypeOK /\ v \in Activities
  BY Kinds DEF ThreadInv
<1>2. /\ stage[v] = "sleep" /\ \A a \in cancelled[v] : run[a] \notin Active
      /\ Goto(v, "post") /\ Forget(v) /\ "post" \in Stage
      /\ UNCHANGED <<messages, run, since, count, reply, faulted, unread>>
  BY DEF Wake, Stage
<1>3. stage' \in [Activities -> Stage] /\ stage'[v] = "post"
  BY <1>1, <1>2, GotoChanges
<1>4. /\ listed' \in [Injections -> SUBSET Activities]
      /\ cancelled' \in [Injections -> SUBSET Activities]
      /\ \A w \in Injections : w # v => cancelled'[w] = cancelled[w]
  BY <1>1, <1>2, ForgetChanges
<1>5. ThreadTypeOK'
  BY <1>1, <1>2, <1>3, <1>4 DEF ThreadTypeOK
<1>6. Pending(v)'
  BY <1>3 DEF Pending
<1>7. \A a \in Activities : a \in cancelled[v] => run[a] # "cancelling"
  BY <1>2 DEF Active
<1> QED
  BY <1>1, <1>2, <1>4, <1>5, <1>6, <1>7, MovesOn

(* A run is made to stop: its messages now wait for the one who stops it.  *)
LEMMA CancelRunStep == ASSUME ThreadInv, NEW v \in Injections, CancelRun(v) PROVE ThreadInv'
<1>1. ThreadTypeOK /\ v \in Activities
  BY Kinds DEF ThreadInv
<1>2. PICK a \in listed[v] :
          /\ listed' = [listed EXCEPT ![v] = @ \ {a}]
          /\ \/ /\ run[a] \in Active /\ run' = [run EXCEPT ![a] = "cancelling"]
                /\ cancelled' = [cancelled EXCEPT ![v] = @ \cup {a}]
             \/ run[a] # "running" /\ UNCHANGED <<run, cancelled>>
  BY DEF CancelRun
<1>3. stage[v] = "cancel" /\ UNCHANGED <<messages, since, stage, count, reply, faulted, unread>>
  BY DEF CancelRun
<1>4. a \in Activities /\ listed' \in [Injections -> SUBSET Activities]
  BY <1>1, <1>2 DEF ThreadTypeOK
<1>5. CASE UNCHANGED <<run, cancelled>>
  <2>1. ThreadTypeOK'
    BY <1>1, <1>3, <1>4, <1>5 DEF ThreadTypeOK
  <2>2. OneActive' /\ SinceIsPast' /\ ActiveSeesAll' /\ ReplyIsFresh'
    BY <1>3, <1>5 DEF ThreadInv, OneActive, SinceIsPast, ActiveSeesAll, ReplyIsFresh
  <2>3. CancellersWait' /\ ReadOrPending' /\ AnswersAfterRun'
    BY <1>3, <1>5 DEF ThreadInv, CancellersWait, ReadOrPending, AnswersAfterRun, Pending, Kept
  <2> QED
    BY <2>1, <2>2, <2>3 DEF ThreadInv
<1>6. CASE /\ run[a] \in Active /\ run' = [run EXCEPT ![a] = "cancelling"]
           /\ cancelled' = [cancelled EXCEPT ![v] = @ \cup {a}]
  <2>1. run'[a] = "cancelling" /\ \A b \in Activities \ {a} : run'[b] = run[b]
    BY <1>1, <1>4, <1>6 DEF ThreadTypeOK
  <2>2. a \in cancelled'[v] /\ \A w \in Injections : cancelled[w] \subseteq cancelled'[w]
    BY <1>1, <1>6 DEF ThreadTypeOK
  <2>3. ThreadTypeOK'
    <3>1. run' \in [Activities -> Active \cup {"none", "completed", "failed", "cancelled"}]
          /\ cancelled' \in [Injections -> SUBSET Activities]
      BY <1>1, <1>4, <1>6 DEF ThreadTypeOK, Active
    <3> QED
      BY <1>1, <1>3, <1>4, <3>1 DEF ThreadTypeOK
  <2>4. \A b \in Activities : run'[b] \in Active <=> run[b] \in Active
    BY <1>6, <2>1 DEF Active
  <2>5. OneActive' /\ SinceIsPast' /\ ActiveSeesAll' /\ ReplyIsFresh'
    BY <1>3, <2>4 DEF ThreadInv, OneActive, SinceIsPast, ActiveSeesAll, ReplyIsFresh
  <2>6. CancellersWait'
    BY <1>3, <2>1, <2>2 DEF ThreadInv, CancellersWait
  <2>7. Pending(v)'
    BY <1>3, <2>2 DEF Pending
  <2>8. ReadOrPending'
    BY <1>1, <2>7 DEF ReadOrPending
  <2>9. AnswersAfterRun'
    BY <1>3, <1>6, <2>1, Kinds DEF ThreadInv, AnswersAfterRun, Active
  <2> QED
    BY <2>3, <2>5, <2>6, <2>8, <2>9 DEF ThreadInv
<1> QED
  BY <1>2, <1>5, <1>6

LEMMA FaultSteps ==
    ASSUME ThreadInv, NEW x \in Activities,
           \/ x \in Injections /\ (ListFails(x) \/ CancelFails(x) \/ WakeEarly(x))
           \/ FailsOrDies(x)
    PROVE  ThreadInv'
<1>1. ThreadTypeOK
  BY DEF ThreadInv
<1>2. faulted' = TRUE /\ UNCHANGED <<messages, run, since, count, reply, unread>> /\ stage[x] # "done"
  BY DEF ListFails, CancelFails, WakeEarly, FailsOrDies
<1>3. CASE CancelFails(x) /\ x \in Injections
  <2>1. stage' = stage /\ cancelled' = cancelled /\ listed' \in [Injections -> SUBSET Activities]
    BY <1>1, <1>3 DEF CancelFails, ThreadTypeOK
  <2>2. ThreadTypeOK'
    BY <1>1, <1>2, <2>1 DEF ThreadTypeOK
  <2> QED
    BY <1>2, <2>1, <2>2, Faults
<1>4. CASE (x \in Injections /\ (ListFails(x) \/ WakeEarly(x))) \/ FailsOrDies(x)
  <2>1. PICK s \in {"post", "done"} : Goto(x, s)
    BY <1>4 DEF ListFails, WakeEarly, FailsOrDies
  <2>2. stage' \in [Activities -> Stage] /\ stage'[x] # "answer"
        /\ \A y \in Activities \ {x} : stage'[y] = stage[y]
    BY <1>1, <2>1, GotoChanges DEF Stage
  <2>3. /\ listed' \in [Injections -> SUBSET Activities]
        /\ cancelled' \in [Injections -> SUBSET Activities]
    <3>1. Forget(x) \/ UNCHANGED <<listed, cancelled>>
      BY <1>4 DEF ListFails, WakeEarly, FailsOrDies
    <3> QED
      BY <1>1, <3>1, ForgetChanges DEF ThreadTypeOK
  <2>4. ThreadTypeOK'
    BY <1>1, <1>2, <2>2, <2>3 DEF ThreadTypeOK
  <2> QED
    BY <1>2, <2>2, <2>4, Faults
<1> QED
  BY <1>3, <1>4

(* Refused, because some run is active: either it keeps going and has seen *)
(* everything, or the one who cancels it is still on its way.              *)
LEMMA RefusedStep == ASSUME ThreadInv, NEW x \in Activities, Refused(x) PROVE ThreadInv'
<1>1. ThreadTypeOK
  BY DEF ThreadInv
<1>2. /\ stage[x] \in {"post", "run"} /\ Goto(x, "done") /\ "done" \in Stage
      /\ UNCHANGED <<messages, run, since, listed, cancelled, count, reply, faulted, unread>>
  BY DEF Refused, Stage
<1>3. PICK b \in Activities : run[b] \in Active
  BY DEF Refused, Busy
<1>4. /\ stage'[x] = "done" /\ \A y \in Activities \ {x} : stage'[y] = stage[y]
      /\ stage' \in [Activities -> Stage]
  BY <1>1, <1>2, GotoChanges
<1>5. ThreadTypeOK'
  BY <1>1, <1>2, <1>4 DEF ThreadTypeOK
<1>6. OneActive' /\ SinceIsPast' /\ ActiveSeesAll' /\ ReplyIsFresh'
  BY <1>2 DEF ThreadInv, OneActive, SinceIsPast, ActiveSeesAll, ReplyIsFresh
<1>7. CancellersWait'
  <2> SUFFICES ASSUME ~faulted, NEW a \in Activities, run[a] = "cancelling"
               PROVE  \E v \in Injections : stage'[v] \in {"cancel", "sleep"} /\ a \in cancelled[v]
    BY <1>2 DEF CancellersWait
  <2>1. PICK v \in Injections : stage[v] \in {"cancel", "sleep"} /\ a \in cancelled[v]
    BY DEF ThreadInv, CancellersWait
  <2> QED
    BY <2>1, <1>2, <1>4, Kinds
<1>8. ReadOrPending'
  <2> SUFFICES ASSUME ~faulted, NEW i \in DOMAIN messages, messages[i].role = "user"
               PROVE  \/ \E a \in Activities : Kept(a)' /\ i <= since[a]
                      \/ \E a \in Activities : Pending(a)'
    BY <1>2 DEF ReadOrPending
  <2>1. CASE run[b] = "running"
    <3>1. i <= since[b]
      BY <1>3 DEF ThreadInv, ActiveSeesAll
    <3> QED
      BY <2>1, <3>1, <1>2 DEF Kept
  <2>2. CASE run[b] = "cancelling"
    <3>1. PICK v \in Injections : stage[v] \in {"cancel", "sleep"} /\ b \in cancelled[v]
      BY <2>2 DEF ThreadInv, CancellersWait
    <3>2. v \in Activities /\ Pending(v)'
      BY <3>1, <1>2, <1>4, Kinds DEF Pending
    <3> QED
      BY <3>2
  <2> QED
    BY <2>1, <2>2, <1>3 DEF Active
<1>9. AnswersAfterRun'
  BY <1>2, <1>4, Kinds DEF ThreadInv, AnswersAfterRun
<1> QED
  BY <1>5, <1>6, <1>7, <1>8, <1>9 DEF ThreadInv

-----------------------------------------------------------------------------
LEMMA AppendChanges ==
    ASSUME NEW q \in Seq(Message), NEW e \in Message
    PROVE  /\ Append(q, e) \in Seq(Message)
           /\ Len(q) \in Nat /\ Len(Append(q, e)) = Len(q) + 1
           /\ \A i \in DOMAIN Append(q, e) : i \in Nat /\ (i \in DOMAIN q \/ i = Len(q) + 1)
           /\ \A i \in DOMAIN q : /\ i \in Nat /\ i <= Len(q) /\ Append(q, e)[i] = q[i]
                                  /\ i \in DOMAIN Append(q, e)
           /\ Append(q, e)[Len(q) + 1] = e
  OBVIOUS

(* No message can come while a run is active, and its author is going to   *)
(* start one.                                                              *)
LEMMA PostStep == ASSUME ThreadInv, NEW x \in Activities, Post(x) PROVE ThreadInv'
<1> DEFINE e == [by |-> x, role |-> "user"]
           n == Len(messages) + 1
<1>1. ThreadTypeOK
  BY DEF ThreadInv
<1>2. /\ stage[x] = "post" /\ ~Busy /\ Goto(x, "run") /\ "run" \in Stage
      /\ messages' = Append(messages, e)
      /\ UNCHANGED <<run, since, listed, cancelled, count, reply, faulted, unread>>
  BY DEF Post, Stage
<1>3. e \in Message /\ messages \in Seq(Message) /\ e.role = "user"
  BY <1>1 DEF ThreadTypeOK, Message
<1> HIDE DEF e
<1>4. /\ messages' \in Seq(Message) /\ Len(messages) \in Nat /\ Len(messages') = n
      /\ \A i \in DOMAIN messages' : i \in DOMAIN messages \/ i = n
      /\ \A i \in DOMAIN messages : /\ i \in Nat /\ i <= Len(messages)
                                    /\ messages'[i] = messages[i]
      /\ messages'[n] = e
  BY <1>2, <1>3, AppendChanges
<1>5. /\ stage'[x] = "run" /\ \A y \in Activities \ {x} : stage'[y] = stage[y]
      /\ stage' \in [Activities -> Stage]
  BY <1>1, <1>2, GotoChanges
<1>6. ThreadTypeOK'
  BY <1>1, <1>2, <1>4, <1>5 DEF ThreadTypeOK
<1>7. \A a \in Activities : run[a] \notin Active
  BY <1>2 DEF Busy
<1>8. OneActive' /\ ActiveSeesAll'
  BY <1>2, <1>7 DEF OneActive, ActiveSeesAll
<1>9. SinceIsPast'
  <2> SUFFICES ASSUME NEW a \in Activities PROVE since[a] <= n
    BY <1>2, <1>4 DEF SinceIsPast
  <2>1. since[a] <= Len(messages) /\ since[a] \in Nat
    BY <1>1 DEF ThreadInv, SinceIsPast, ThreadTypeOK
  <2> QED
    BY <2>1, <1>4
<1>10. CancellersWait'
  BY <1>2, <1>7 DEF CancellersWait, Active
<1>11. ReadOrPending'
  BY <1>5 DEF ReadOrPending, Pending
<1>12. AnswersAfterRun'
  BY <1>2, <1>5, Kinds DEF ThreadInv, AnswersAfterRun
<1>13. ReplyIsFresh'
  <2> SUFFICES ASSUME NEW c \in Chats, NEW i \in DOMAIN messages', reply[c] # None,
                      messages'[i] = [by |-> c, role |-> "assistant"]
               PROVE  \E j \in i .. n : messages'[j] = [by |-> reply[c], role |-> "assistant"]
    BY <1>2, <1>4 DEF ReplyIsFresh
  <2>1. i \in DOMAIN messages /\ messages[i] = [by |-> c, role |-> "assistant"]
    <3>1. [by |-> c, role |-> "assistant"].role # "user"
      OBVIOUS
    <3> QED
      BY <3>1, <1>3, <1>4
  <2>2. PICK j \in i .. Len(messages) : messages[j] = [by |-> reply[c], role |-> "assistant"]
    BY <2>1 DEF ThreadInv, ReplyIsFresh
  <2>3. j \in DOMAIN messages /\ j \in i .. n
    <3>1. i \in Nat /\ i <= Len(messages) /\ Len(messages) \in Nat
      BY <2>1, <1>4
    <3>2. i >= 1
      BY <2>1, <1>3
    <3> QED
      BY <1>3, <2>2, <3>1, <3>2
  <2>4. messages'[j] = messages[j]
    BY <2>3, <1>4
  <2> QED
    BY <2>2, <2>3, <2>4
<1> QED
  BY <1>6, <1>8, <1>9, <1>10, <1>11, <1>12, <1>13 DEF ThreadInv

(* A run that starts sees every message.                                   *)
LEMMA StartRunStep == ASSUME ThreadInv, NEW x \in Activities, StartRun(x) PROVE ThreadInv'
<1>1. ThreadTypeOK
  BY DEF ThreadInv
<1>2. /\ stage[x] = "run" /\ ~Busy /\ Goto(x, AfterRun(x))
      /\ run' = [run EXCEPT ![x] = "running"]
      /\ since' = [since EXCEPT ![x] = Len(messages)]
      /\ UNCHANGED <<messages, listed, cancelled, count, reply, faulted, unread>>
  BY DEF StartRun
<1>3. AfterRun(x) \in Stage /\ AfterRun(x) # "answer"
  BY DEF AfterRun, Stage
<1>4. /\ stage'[x] = AfterRun(x) /\ \A y \in Activities \ {x} : stage'[y] = stage[y]
      /\ stage' \in [Activities -> Stage]
  BY <1>1, <1>2, <1>3, GotoChanges
<1>5. /\ run'[x] = "running" /\ since'[x] = Len(messages) /\ Len(messages) \in Nat
      /\ \A y \in Activities \ {x} : run'[y] = run[y] /\ since'[y] = since[y]
  BY <1>1, <1>2 DEF ThreadTypeOK
<1>6. \A a \in Activities : run[a] \notin Active
  BY <1>2 DEF Busy
<1>7. \A i \in DOMAIN messages : i <= Len(messages)
  BY <1>1 DEF ThreadTypeOK
<1>8. ThreadTypeOK'
  <2>1. run' \in [Activities -> Active \cup {"none", "completed", "failed", "cancelled"}]
        /\ since' \in [Activities -> Nat]
    BY <1>1, <1>2, <1>5 DEF ThreadTypeOK, Active
  <2> QED
    BY <1>1, <1>2, <1>4, <2>1 DEF ThreadTypeOK
<1>9. OneActive'
  BY <1>5, <1>6 DEF OneActive
<1>10. SinceIsPast'
  BY <1>2, <1>5 DEF ThreadInv, SinceIsPast
<1>11. ActiveSeesAll'
  BY <1>2, <1>5, <1>6, <1>7 DEF ActiveSeesAll
<1>12. CancellersWait'
  BY <1>5, <1>6 DEF CancellersWait, Active
<1>13. ReadOrPending'
  BY <1>2, <1>5, <1>7 DEF ReadOrPending, Kept
<1>14. AnswersAfterRun'
  BY <1>2, <1>3, <1>4, <1>5, Kinds DEF ThreadInv, AnswersAfterRun
<1>15. ReplyIsFresh'
  BY <1>2 DEF ThreadInv, ReplyIsFresh
<1> QED
  BY <1>8, <1>9, <1>10, <1>11, <1>12, <1>13, <1>14, <1>15 DEF ThreadInv

LEMMA ReturnAnswerStep ==
    ASSUME ThreadInv, NEW x \in Chats, ReturnAnswer(x) PROVE ThreadInv'
<1>1. ThreadTypeOK /\ x \in Activities
  BY Kinds DEF ThreadInv
<1>2. /\ stage[x] = "answer" /\ Goto(x, "done") /\ "done" \in Stage
      /\ UNCHANGED <<messages, run, since, listed, cancelled, count, faulted, unread>>
  BY DEF ReturnAnswer, Stage
<1>3. /\ stage'[x] = "done" /\ \A y \in Activities \ {x} : stage'[y] = stage[y]
      /\ stage' \in [Activities -> Stage]
  BY <1>1, <1>2, GotoChanges
<1>4. \A j \in Answers : /\ j \in DOMAIN messages /\ messages[j] \in Message
                         /\ messages[j].role = "assistant" /\ j \in 1 .. Len(messages)
  BY <1>1 DEF Answers, ThreadTypeOK
<1>5. CASE reply' = reply
  <2>1. ThreadTypeOK'
    BY <1>1, <1>2, <1>3, <1>5 DEF ThreadTypeOK
  <2>2. AnswersAfterRun'
    BY <1>2, <1>3, <1>5, Kinds DEF ThreadInv, AnswersAfterRun
  <2>3. ReplyIsFresh'
    BY <1>2, <1>5 DEF ThreadInv, ReplyIsFresh
  <2>4. OneActive' /\ SinceIsPast' /\ ActiveSeesAll'
    BY <1>2 DEF ThreadInv, OneActive, SinceIsPast, ActiveSeesAll
  <2>5. CancellersWait' /\ ReadOrPending'
    BY <1>2, <1>3, Kinds DEF ThreadInv, CancellersWait, ReadOrPending, Pending, Kept
  <2> QED
    BY <2>1, <2>2, <2>3, <2>4, <2>5 DEF ThreadInv
<1>6. CASE \E a \in LatestAnswer : reply' = [reply EXCEPT ![x] = a]
  <2>1. PICK j \in Answers : /\ \A k \in Answers : k <= j
                             /\ reply' = [reply EXCEPT ![x] = messages[j].by]
    BY <1>6 DEF LatestAnswer
  <2>2. messages[j] = [by |-> messages[j].by, role |-> "assistant"]
        /\ messages[j].by \in Activities /\ j \in 1 .. Len(messages)
    BY <1>4 DEF Message
  <2>3. /\ reply'[x] = messages[j].by /\ \A c \in Chats \ {x} : reply'[c] = reply[c]
        /\ reply' \in [Chats -> Activities \cup {None}]
    BY <1>1, <2>1, <2>2 DEF ThreadTypeOK
  <2>4. ThreadTypeOK'
    BY <1>1, <1>2, <1>3, <2>3 DEF ThreadTypeOK
  <2>5. AnswersAfterRun'
    BY <1>2, <1>3, <2>3, Kinds DEF ThreadInv, AnswersAfterRun
  <2>6. ReplyIsFresh'
    <3> SUFFICES ASSUME NEW c \in Chats, NEW i \in DOMAIN messages, reply'[c] # None,
                        messages[i] = [by |-> c, role |-> "assistant"]
                 PROVE  \E k \in i .. Len(messages) :
                            messages[k] = [by |-> reply'[c], role |-> "assistant"]
      BY <1>2 DEF ReplyIsFresh
    <3>1. CASE c = x
      <4>1. i \in Answers /\ i <= j
        BY <2>1 DEF Answers
      <4>2. j \in i .. Len(messages)
        BY <4>1, <2>2, <1>4
      <4> QED
        BY <3>1, <4>2, <2>2, <2>3
    <3>2. CASE c # x
      BY <3>2, <2>3 DEF ThreadInv, ReplyIsFresh
    <3> QED
      BY <3>1, <3>2
  <2>7. OneActive' /\ SinceIsPast' /\ ActiveSeesAll'
    BY <1>2 DEF ThreadInv, OneActive, SinceIsPast, ActiveSeesAll
  <2>8. CancellersWait' /\ ReadOrPending'
    BY <1>2, <1>3, Kinds DEF ThreadInv, CancellersWait, ReadOrPending, Pending, Kept
  <2> QED
    BY <2>4, <2>5, <2>6, <2>7, <2>8 DEF ThreadInv
<1> QED
  BY <1>5, <1>6 DEF ReturnAnswer

(* A run ends with an answer: no chat that has replied can be its author,  *)
(* for its own run had ended before.                                       *)
LEMMA CompleteStep == ASSUME ThreadInv, NEW x \in Activities, Complete(x) PROVE ThreadInv'
<1> DEFINE e == [by |-> x, role |-> "assistant"]
<1>1. ThreadTypeOK
  BY DEF ThreadInv
<1>2. /\ run[x] \in Active /\ run' = [run EXCEPT ![x] = "completed"]
      /\ UNCHANGED <<since, stage, listed, cancelled, count, reply, faulted, unread>>
      /\ messages' = Append(messages, e) \/ messages' = messages
  BY DEF Complete
<1>3. e \in Message /\ messages \in Seq(Message) /\ e.role = "assistant" /\ e.by = x
  BY <1>1 DEF ThreadTypeOK, Message
<1> HIDE DEF e
<1>4. /\ messages' \in Seq(Message) /\ Len(messages) \in Nat
      /\ Len(messages') \in Nat /\ Len(messages) <= Len(messages')
      /\ \A i \in DOMAIN messages' : \/ i \in DOMAIN messages
                                     \/ messages'[i] = e
      /\ \A i \in DOMAIN messages : /\ i \in Nat /\ i <= Len(messages)
                                    /\ messages'[i] = messages[i]
  <2>1. CASE messages' = Append(messages, e)
    BY <1>3, <2>1, AppendChanges
  <2>2. CASE messages' = messages
    BY <1>3, <2>2
  <2> QED
    BY <1>2, <2>1, <2>2
<1>5. run'[x] = "completed" /\ \A y \in Activities \ {x} : run'[y] = run[y]
  BY <1>1, <1>2 DEF ThreadTypeOK
<1>6. ThreadTypeOK'
  <2>1. run' \in [Activities -> Active \cup {"none", "completed", "failed", "cancelled"}]
    BY <1>1, <1>2 DEF ThreadTypeOK
  <2> QED
    BY <1>1, <1>2, <1>4, <2>1 DEF ThreadTypeOK
<1>7. \A a \in Activities : run'[a] \in Active => run[a] \in Active
  BY <1>5 DEF Active
<1>8. OneActive'
  BY <1>7 DEF ThreadInv, OneActive
<1>9. SinceIsPast'
  <2> SUFFICES ASSUME NEW a \in Activities PROVE since[a] <= Len(messages')
    BY <1>2 DEF SinceIsPast
  <2>1. since[a] <= Len(messages) /\ since[a] \in Nat
    BY <1>1 DEF ThreadInv, SinceIsPast, ThreadTypeOK
  <2> QED
    BY <2>1, <1>4
<1>10. ActiveSeesAll'
  <2> SUFFICES ASSUME NEW a \in Activities, NEW i \in DOMAIN messages',
                      run'[a] \in Active, messages'[i].role = "user"
               PROVE  i <= since[a]
    BY <1>2 DEF ActiveSeesAll
  <2>1. i \in DOMAIN messages /\ messages[i].role = "user"
    BY <1>3, <1>4
  <2> QED
    BY <2>1, <1>7 DEF ThreadInv, ActiveSeesAll
<1>11. CancellersWait'
  BY <1>2, <1>5 DEF ThreadInv, CancellersWait
<1>12. ReadOrPending'
  <2> SUFFICES ASSUME ~faulted, NEW i \in DOMAIN messages', messages'[i].role = "user"
               PROVE  \/ \E a \in Activities : Kept(a)' /\ i <= since[a]
                      \/ \E a \in Activities : Pending(a)'
    BY <1>2 DEF ReadOrPending
  <2>1. i \in DOMAIN messages /\ messages[i].role = "user"
    BY <1>3, <1>4
  <2>2. \A a \in Activities : (Kept(a) => Kept(a)') /\ (Pending(a) => Pending(a)')
    BY <1>2, <1>5 DEF Kept, Pending
  <2> QED
    BY <2>1, <2>2 DEF ThreadInv, ReadOrPending
<1>13. AnswersAfterRun'
  BY <1>2, <1>5, Kinds DEF ThreadInv, AnswersAfterRun
<1>14. ReplyIsFresh'
  <2> SUFFICES ASSUME NEW c \in Chats, NEW i \in DOMAIN messages', reply[c] # None,
                      messages'[i] = [by |-> c, role |-> "assistant"]
               PROVE  \E j \in i .. Len(messages') :
                          messages'[j] = [by |-> reply[c], role |-> "assistant"]
    BY <1>2 DEF ReplyIsFresh
  <2>1. run[c] = "completed" /\ c # x
    BY <1>2 DEF ThreadInv, AnswersAfterRun, Active
  <2>2. i \in DOMAIN messages /\ messages[i] = [by |-> c, role |-> "assistant"]
    BY <2>1, <1>3, <1>4
  <2>3. PICK j \in i .. Len(messages) : messages[j] = [by |-> reply[c], role |-> "assistant"]
    BY <2>2 DEF ThreadInv, ReplyIsFresh
  <2>4. i \in Nat /\ i >= 1 /\ DOMAIN messages = 1 .. Len(messages)
    BY <1>3, <2>2
  <2>5. j \in DOMAIN messages /\ j \in i .. Len(messages')
    BY <2>3, <2>4, <1>4
  <2> QED
    BY <2>3, <2>5, <1>4
<1> QED
  BY <1>6, <1>8, <1>9, <1>10, <1>11, <1>12, <1>13, <1>14 DEF ThreadInv

(* A run ends without an answer.                                           *)
LEMMA EndStep ==
    ASSUME ThreadInv, NEW x \in Activities, Fail(x) \/ Cancelled(x) PROVE ThreadInv'
<1>1. ThreadTypeOK
  BY DEF ThreadInv
<1>2. /\ run[x] \in Active
      /\ UNCHANGED <<messages, since, stage, listed, cancelled, count, reply, faulted, unread>>
  BY DEF Fail, Cancelled, Active
<1>3. PICK s \in {"failed", "cancelled"} :
          /\ run' = [run EXCEPT ![x] = s]
          /\ s = "failed" => run[x] = "running"
          /\ s = "cancelled" => run[x] = "cancelling"
  BY DEF Fail, Cancelled
<1>4. run'[x] = s /\ \A y \in Activities \ {x} : run'[y] = run[y]
  BY <1>1, <1>3 DEF ThreadTypeOK
<1>5. ThreadTypeOK'
  <2>1. run' \in [Activities -> Active \cup {"none", "completed", "failed", "cancelled"}]
    BY <1>1, <1>3 DEF ThreadTypeOK
  <2> QED
    BY <1>1, <1>2, <2>1 DEF ThreadTypeOK
<1>6. \A a \in Activities : run'[a] \in Active => run[a] \in Active
  BY <1>4 DEF Active
<1>7. OneActive' /\ SinceIsPast' /\ ActiveSeesAll' /\ ReplyIsFresh'
  BY <1>2, <1>6 DEF ThreadInv, OneActive, SinceIsPast, ActiveSeesAll, ReplyIsFresh
<1>8. CancellersWait'
  BY <1>2, <1>4 DEF ThreadInv, CancellersWait
<1>9. ReadOrPending'
  <2>1. \A a \in Activities : Pending(a) => Pending(a)'
    BY <1>2 DEF Pending
  <2>2. CASE s = "failed"
    <3>1. \A a \in Activities : Kept(a) => Kept(a)'
      BY <1>4, <2>2 DEF Kept
    <3> QED
      BY <1>2, <2>1, <3>1 DEF ThreadInv, ReadOrPending
  <2>3. CASE s = "cancelled"
    <3>1. \A a \in Activities : Kept(a) => Kept(a)'
      BY <1>3, <1>4, <2>3 DEF Kept
    <3> QED
      BY <1>2, <2>1, <3>1 DEF ThreadInv, ReadOrPending
  <2> QED
    BY <2>2, <2>3
<1>10. AnswersAfterRun'
  BY <1>2, <1>4, Kinds DEF ThreadInv, AnswersAfterRun, Active
<1> QED
  BY <1>5, <1>7, <1>8, <1>9, <1>10 DEF ThreadInv

-----------------------------------------------------------------------------
LEMMA ThreadStep == ThreadInv /\ [ThreadNext]_threadVars => ThreadInv'
<1> SUFFICES ASSUME ThreadInv, [ThreadNext]_threadVars PROVE ThreadInv'
  OBVIOUS
<1>1. ASSUME NEW v \in Injections,
             \/ ReadCount(v) \/ ReadFails(v) \/ ListRuns(v) \/ ListFails(v)
             \/ CancelRun(v) \/ CancelFails(v) \/ CancelDone(v) \/ Wake(v)
             \/ WakeEarly(v) \/ Count(v)
      PROVE  ThreadInv'
  BY <1>1, Kinds, QuietSteps, FaultSteps, CancelRunStep, CancelDoneStep, WakeStep
<1>2. ASSUME NEW c \in Chats, Poll(c) \/ GiveUp(c) \/ ReturnAnswer(c)
      PROVE  ThreadInv'
  BY <1>2, Kinds, QuietSteps, ReturnAnswerStep
<1>3. ASSUME NEW a \in Activities,
             \/ Begin(a) \/ Post(a) \/ StartRun(a) \/ Refused(a) \/ FailsOrDies(a)
             \/ Complete(a) \/ Fail(a) \/ Cancelled(a)
      PROVE  ThreadInv'
  BY <1>3, QuietSteps, PostStep, StartRunStep, RefusedStep, FaultSteps, CompleteStep, EndStep
<1>4. CASE UNCHANGED threadVars
  <2> USE <1>4 DEF threadVars
  <2>1. ThreadTypeOK'
    BY DEF ThreadInv, ThreadTypeOK
  <2>2. OneActive' /\ SinceIsPast' /\ ActiveSeesAll' /\ ReplyIsFresh'
    BY DEF ThreadInv, OneActive, SinceIsPast, ActiveSeesAll, ReplyIsFresh
  <2>3. CancellersWait' /\ ReadOrPending' /\ AnswersAfterRun'
    BY DEF ThreadInv, CancellersWait, ReadOrPending, AnswersAfterRun, Pending, Kept
  <2> QED
    BY <2>1, <2>2, <2>3 DEF ThreadInv
<1> QED
  BY <1>1, <1>2, <1>3, <1>4 DEF ThreadNext

(* What is true of every thread between any two calls.                     *)
THEOREM ThreadInvariant == ThreadSpec => []ThreadInv
<1> QED
  BY ThreadInitInv, ThreadStep, PTL DEF ThreadSpec

(* The thread, its runs and the count stay what they are declared to be.   *)
THEOREM ThreadTypeCorrect == ThreadSpec => []ThreadTypeOK
<1>1. ThreadInv => ThreadTypeOK
  BY DEF ThreadInv
<1> QED
  BY <1>1, ThreadInvariant, PTL

(* Whatever is posted to the thread is seen by a run that is not           *)
(* cancelled, however many verification results cancel one another's runs  *)
(* and are refused (remediation_executor.py:416-452).                      *)
THEOREM MessagesAreRead == ThreadSpec => []NoMessageUnread
<1>1. ThreadInv => NoMessageUnread
  BY DEF ThreadInv, ReadOrPending, NoMessageUnread, Pending
<1> QED
  BY <1>1, ThreadInvariant, PTL

(* A chat whose run wrote an answer returns that answer or a later one     *)
(* (foundry.py:462-477).                                                   *)
THEOREM RepliesAreFresh == ThreadSpec => []ReplyIsFresh
<1>1. ThreadInv => ReplyIsFresh
  BY DEF ThreadInv
<1> QED
  BY <1>1, ThreadInvariant, PTL

-----------------------------------------------------------------------------
(* What the counter of re-diagnoses is good for.                           *)

(* An activity that has not got to runs.create has no run.                 *)
NotYetRun ==
    \A a \in Activities :
        stage[a] \in {"new", "list", "cancel", "sleep", "post", "run"} => run[a] = "none"

LEMMA NotYetRunStep ==
    ASSUME ThreadInv, NotYetRun, [ThreadNext]_threadVars
    PROVE  NotYetRun'
<1> USE DEF ThreadInv, ThreadTypeOK
<1>1. CASE UNCHANGED threadVars
  BY <1>1 DEF threadVars, NotYetRun
<1>2. ASSUME NEW x \in Activities, UNCHANGED run, stage[x] # "done",
             \/ \E s \in {"list", "cancel", "sleep", "post", "run"} : Goto(x, s) /\ run[x] = "none"
             \/ \E s \in {"count", "poll", "answer", "done"} : Goto(x, s)
      PROVE  NotYetRun'
  BY <1>2 DEF Goto, NotYetRun
<1>3. ASSUME NEW v \in Injections,
             \/ ReadCount(v) \/ ReadFails(v) \/ ListRuns(v) \/ ListFails(v)
             \/ CancelDone(v) \/ Wake(v) \/ WakeEarly(v) \/ Count(v)
      PROVE  NotYetRun'
  <2>1. v \in Activities /\ run' = run /\ stage[v] # "done"
    BY <1>3, Kinds DEF ReadCount, ReadFails, ListRuns, ListFails, CancelDone, Wake,
       WakeEarly, Count
  <2>2. \/ run[v] = "none" /\ \E s \in {"list", "cancel", "sleep", "post", "run"} : Goto(v, s)
        \/ \E s \in {"count", "poll", "answer", "done"} : Goto(v, s)
    BY <1>3, <2>1 DEF NotYetRun, ReadCount, ReadFails, ListRuns, ListFails, CancelDone,
       AfterCancel, Wake, WakeEarly, Count
  <2> QED
    BY <1>2, <2>1, <2>2
<1>4. ASSUME NEW v \in Injections, CancelRun(v) \/ CancelFails(v)
      PROVE  NotYetRun'
  <2>1. stage' = stage
    BY <1>4 DEF CancelRun, CancelFails
  <2>2. run' = run \/ \E a \in Activities : run[a] \in Active /\ run' = [run EXCEPT ![a] = "cancelling"]
    BY <1>4 DEF CancelRun, CancelFails
  <2> QED
    BY <2>1, <2>2 DEF NotYetRun, Active
<1>5. ASSUME NEW c \in Chats, Poll(c) \/ GiveUp(c) \/ ReturnAnswer(c)
      PROVE  NotYetRun'
  <2>1. c \in Activities /\ run' = run /\ stage[c] # "done"
        /\ \E s \in {"count", "poll", "answer", "done"} : Goto(c, s)
    BY <1>5, Kinds DEF Poll, GiveUp, ReturnAnswer
  <2> QED
    BY <1>2, <2>1
<1>6. ASSUME NEW x \in Activities, Begin(x) \/ Post(x) \/ Refused(x) \/ FailsOrDies(x)
      PROVE  NotYetRun'
  <2>1. run' = run /\ stage[x] # "done"
        /\ (\/ run[x] = "none" /\ \E s \in {"list", "cancel", "sleep", "post", "run"} : Goto(x, s)
            \/ \E s \in {"count", "poll", "answer", "done"} : Goto(x, s))
    BY <1>6 DEF NotYetRun, Begin, Post, Refused, FailsOrDies
  <2> QED
    BY <1>2, <2>1
<1>7. ASSUME NEW x \in Activities, StartRun(x)
      PROVE  NotYetRun'
  <2>1. AfterRun(x) \in {"count", "poll", "done"}
    BY DEF AfterRun
  <2> QED
    BY <1>7, <2>1 DEF StartRun, Goto, NotYetRun
<1>8. ASSUME NEW x \in Activities, Complete(x) \/ Fail(x) \/ Cancelled(x)
      PROVE  NotYetRun'
  <2>1. /\ stage' = stage /\ run[x] \in Active
        /\ \E s \in {"completed", "failed", "cancelled"} : run' = [run EXCEPT ![x] = s]
    BY <1>8 DEF Complete, Fail, Cancelled, Active
  <2> QED
    BY <2>1 DEF NotYetRun, Active
<1> QED
  BY <1>1, <1>3, <1>4, <1>5, <1>6, <1>7, <1>8 DEF ThreadNext

(* The counter moves in one step only, and never past the limit.           *)
LEMMA CountStep ==
    ASSUME [ThreadNext]_threadVars
    PROVE  count' = count \/ count' = Incremented
BY DEF ThreadNext, threadVars, ReadCount, ReadFails, ListRuns, ListFails, CancelRun,
     CancelFails, CancelDone, Wake, WakeEarly, Count, Poll, GiveUp, ReturnAnswer, Begin, Post,
     StartRun, Refused, FailsOrDies, Complete, Fail, Cancelled

(* What is known of a read that failed is never forgotten.                 *)
LEMMA UnreadGrows ==
    ASSUME [ThreadNext]_threadVars
    PROVE  unread \subseteq unread'
BY DEF ThreadNext, threadVars, ReadCount, ReadFails, ListRuns, ListFails, CancelRun,
     CancelFails, CancelDone, Wake, WakeEarly, Count, Poll, GiveUp, ReturnAnswer, Begin,
     Post, StartRun, Refused, FailsOrDies, Complete, Fail, Cancelled

(* An injection that has not begun when the limit is reached, or that was  *)
(* dropped because of it.                                                  *)
Dropped(v) == count = MaxCount /\ run[v] = "none" /\ stage[v] \in {"new", "done"}

LEMMA DroppedStays ==
    ASSUME ThreadInv, [ThreadNext]_threadVars, NEW v \in Injections, Dropped(v),
           v \notin unread'
    PROVE  Dropped(v)'
<1> USE DEF ThreadInv, ThreadTypeOK
<1>0. v \in Activities /\ v \notin Chats /\ v \notin Responses
  BY Kinds, ActivitiesAssumption
<1>1. count' = MaxCount
  BY CountStep DEF Dropped, Incremented
<1>2. CASE UNCHANGED threadVars
  BY <1>2 DEF threadVars, Dropped
<1>3. ASSUME NEW w \in Injections, ReadCount(w)
      PROVE  Dropped(v)'
  BY <1>0, <1>1, <1>3, CountAssumption DEF ReadCount, Goto, Dropped
<1>4. ASSUME NEW x \in Activities \ {v}, NEW s \in Stage, Goto(x, s), run' = run
      PROVE  Dropped(v)'
  BY <1>0, <1>1, <1>4 DEF Goto, Dropped
<1>5. ASSUME NEW w \in Injections,
             \/ ReadFails(w) \/ ListRuns(w) \/ ListFails(w) \/ CancelDone(w)
             \/ Wake(w) \/ WakeEarly(w) \/ Count(w)
      PROVE  Dropped(v)'
  <2>1. w \in Activities \ {v} /\ run' = run /\ \E s \in Stage : Goto(w, s)
    BY <1>5, Kinds DEF Dropped, ReadFails, ListRuns, ListFails, CancelDone, AfterCancel, Wake,
         WakeEarly, Count, Stage
  <2> QED
    BY <1>4, <2>1
<1>6. ASSUME NEW w \in Injections, CancelRun(w) \/ CancelFails(w)
      PROVE  Dropped(v)'
  <2>1. stage' = stage
    BY <1>6 DEF CancelRun, CancelFails
  <2>2. run' = run \/ \E a \in Activities : run[a] \in Active /\ run' = [run EXCEPT ![a] = "cancelling"]
    BY <1>6 DEF CancelRun, CancelFails
  <2> QED
    BY <1>0, <1>1, <2>1, <2>2 DEF Dropped, Active
<1>7. ASSUME NEW c \in Chats, Poll(c) \/ GiveUp(c) \/ ReturnAnswer(c)
      PROVE  Dropped(v)'
  <2>1. c \in Activities \ {v} /\ run' = run /\ \E s \in Stage : Goto(c, s)
    BY <1>0, <1>7, Kinds DEF Poll, GiveUp, ReturnAnswer, Stage
  <2> QED
    BY <1>4, <2>1
<1>8. ASSUME NEW x \in Activities, Begin(x) \/ Post(x) \/ Refused(x) \/ FailsOrDies(x)
      PROVE  Dropped(v)'
  <2>1. x # v /\ run' = run /\ \E s \in Stage : Goto(x, s)
    BY <1>0, <1>8 DEF Dropped, Begin, Post, Refused, FailsOrDies, Stage
  <2> QED
    BY <1>4, <2>1
<1>9. ASSUME NEW x \in Activities, StartRun(x)
      PROVE  Dropped(v)'
  BY <1>0, <1>1, <1>9 DEF StartRun, Goto, Dropped
<1>10. ASSUME NEW x \in Activities, Complete(x) \/ Fail(x) \/ Cancelled(x)
       PROVE  Dropped(v)'
  <2>1. /\ stage' = stage /\ run[x] \in Active
        /\ \E s \in {"completed", "failed", "cancelled"} : run' = [run EXCEPT ![x] = s]
    BY <1>10 DEF Complete, Fail, Cancelled, Active
  <2> QED
    BY <1>0, <1>1, <2>1 DEF Dropped, Active
<1> QED
  BY <1>2, <1>3, <1>5, <1>6, <1>7, <1>8, <1>9, <1>10 DEF ThreadNext

(* Once the counter has reached the limit, a verification result that comes *)
(* afterwards starts no re-diagnosis unless it could not read the counter,  *)
(* which it then takes for 0 (remediation_executor.py:382-403): past the    *)
(* cap go those that had read it before, and those that fail to.            *)
THEOREM LateResultsDropped ==
    ASSUME NEW v \in Injections
    PROVE  ThreadSpec => [](count = MaxCount /\ stage[v] = "new"
                                => [](run[v] # "none" => v \in unread))
<1>1. ThreadInit => NotYetRun
  BY DEF ThreadInit, NotYetRun
<1>2. ThreadInv /\ NotYetRun /\ [ThreadNext]_threadVars => NotYetRun'
  BY NotYetRunStep
<1>3. NotYetRun /\ count = MaxCount /\ stage[v] = "new" => Dropped(v)
  BY Kinds DEF NotYetRun, Dropped
<1>4. /\ ThreadInv /\ (Dropped(v) \/ v \in unread) /\ [ThreadNext]_threadVars
      => (Dropped(v) \/ v \in unread)'
  BY DroppedStays, UnreadGrows
<1>5. Dropped(v) \/ v \in unread => (run[v] # "none" => v \in unread)
  BY DEF Dropped
<1> QED
  BY <1>1, <1>2, <1>3, <1>4, <1>5, ThreadInvariant, PTL DEF ThreadSpec

(* In the container as it is deployed the counter never moves, however many *)
(* re-diagnoses there are.                                                  *)
THEOREM NothingCounted == CountedBy = "resource_id" => (ThreadSpec => [](count = 0))
<1> SUFFICES ASSUME CountedBy = "resource_id" PROVE ThreadSpec => [](count = 0)
  OBVIOUS
<1>1. ThreadInit => count = 0
  BY DEF ThreadInit
<1>2. count = 0 /\ [ThreadNext]_threadVars => (count = 0)'
  BY CountStep DEF Incremented
<1> QED
  BY <1>1, <1>2, PTL DEF ThreadSpec

=============================================================================
