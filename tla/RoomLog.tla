------------------------------- MODULE RoomLog -------------------------------
(***************************************************************************)
(* What a war room promises to those in it, with no word of copies, etags, *)
(* retries or workers: the calls take effect one after the other, each on  *)
(* the room as the one before has left it, on behalf of what was asked and *)
(* not after the call is over.  An operator enters once, a note goes to    *)
(* the end of the notes, and who is told that it is stored is told so by   *)
(* the step that stores it.  Not promised: that a note is stored only once *)
(* (a retry may repeat it), that a call that is over took effect (a join   *)
(* is answered ok all the same), and that the room is opened only once.    *)
(***************************************************************************)
EXTENDS Naturals, Sequences

CONSTANTS Calls, Operators, None

VARIABLES
    people,    \* the operators in the room, in the order they came
    notes,     \* by the calls that made them, in order
    summary,   \* the call whose hand-off summary is stored
    life,      \* how often the room has been opened
    asked,     \* what each call is about: its kind, and who joins
    over,      \* the calls that are answered or dead
    stored     \* the calls that were told that their note is stored

log == <<people, notes, summary, life, asked, over, stored>>

Kinds == {"join", "annotate", "heartbeat", "handoff"}

Vacant ==
    /\ people = << >> /\ notes = << >> /\ summary = None /\ life = 0
    /\ asked = [c \in Calls |-> [kind |-> "none", by |-> None]]
    /\ over = {} /\ stored = {}

Ask(c) ==
    /\ asked[c].kind = "none"
    /\ c \notin over
    /\ \E k \in Kinds, o \in Operators \cup {None} :
          /\ k = "join" => o \in Operators
          /\ asked' = [asked EXCEPT ![c] = [kind |-> k, by |-> o]]
    /\ UNCHANGED <<people, notes, summary, life, over, stored>>

(* A first join; another one may open the room again and empty it.         *)
Open(c) ==
    /\ asked[c].kind = "join"
    /\ c \notin over
    /\ people' = << >> /\ notes' = << >> /\ summary' = None
    /\ life' = life + 1
    /\ UNCHANGED <<asked, over, stored>>

(* The call takes effect, and may be over with that.                       *)
Effect(c, kind) ==
    /\ asked[c].kind = kind
    /\ c \notin over
    /\ life > 0
    /\ over' \in {over, over \cup {c}}
    /\ UNCHANGED <<life, asked>>

Enter(c) ==
    /\ Effect(c, "join")
    /\ asked[c].by \in Operators /\ \A i \in DOMAIN people : people[i] # asked[c].by
    /\ people' = Append(people, asked[c].by)
    /\ UNCHANGED <<notes, summary, stored>>

Note(c) ==
    /\ Effect(c, "annotate")
    /\ notes' = Append(notes, c)
    /\ stored' = stored \/ (c \in over' /\ stored' = stored \cup {c})
    /\ UNCHANGED <<people, summary>>

HandOver(c) ==
    /\ Effect(c, "handoff")
    /\ summary' = c
    /\ UNCHANGED <<people, notes, stored>>

(* Calls end without effect, or some time after it: answered, or dead with *)
(* their worker.                                                           *)
End ==
    /\ over' \in SUBSET Calls /\ over \subseteq over'
    /\ UNCHANGED <<people, notes, summary, life, asked, stored>>

LogNext ==
    \/ \E c \in Calls : Ask(c) \/ Open(c) \/ Enter(c) \/ Note(c) \/ HandOver(c)
    \/ End

Log == Vacant /\ [][LogNext]_log

=============================================================================
