--------------------------- MODULE AlertLifecycle ---------------------------
(***************************************************************************)
(* What deduplication and life cycle promise of alerts and their records,  *)
(* with no word of queries, copies, etags, rounds or workers.  A delivery  *)
(* is counted by at most one record, once, and only by one of its own      *)
(* resource; it opens a record of its own only when every record that was  *)
(* open as it came in is closed; it is kept from the orchestrator only if  *)
(* a record has it; a status moves along the transitions and never back.   *)
(* That the record which takes a delivery is open is not promised: a retry *)
(* may find it closed.                                                     *)
(***************************************************************************)
EXTENDS Naturals

CONSTANTS Requests, Alerts, RuleOf, ResourceOf, None

VARIABLES
    record,     \* per alert: the status of its record, and what it counts
    alert,      \* what each delivery brings
    standing,   \* the records open on the resource as it came in
    fate        \* what has become of the delivery

ledger == <<record, alert, standing, fate>>

Follow == [absent |-> {}, new |-> {"acknowledged", "closed"},
           acknowledged |-> {"closed"}, closed |-> {}]

Blank ==
    /\ record = [a \in Alerts |-> [status |-> "absent", duplicates |-> 0, correlated |-> {}]]
    /\ alert = [r \in Requests |-> None]
    /\ standing = [r \in Requests |-> {}]
    /\ fate = [r \in Requests |-> "out"]

SameResource(a) == {b \in Alerts : ResourceOf[b] = ResourceOf[a]}

ComeIn(r) ==
    /\ fate[r] = "out"
    /\ fate' = [fate EXCEPT ![r] = "waiting"]
    /\ \E a \in Alerts :
          /\ alert' = [alert EXCEPT ![r] = a]
          /\ standing' = [standing EXCEPT ![r] =
                {b \in SameResource(a) : record[b].status \in {"new", "acknowledged"}}]
    /\ UNCHANGED record

(* A record takes the delivery; the one who delivered may be told so, then *)
(* the orchestrator is not.                                                *)
Take(r, a) ==
    /\ fate[r] = "waiting"
    /\ a \in SameResource(alert[r]) /\ record[a].status # "absent"
    /\ \/ /\ RuleOf[a] = RuleOf[alert[r]]
          /\ record' = [record EXCEPT ![a].duplicates = @ + 1]
       \/ record' = [record EXCEPT ![a].correlated = @ \cup {r}]
    /\ \E f \in {"taken", "joined"} : fate' = [fate EXCEPT ![r] = f]
    /\ UNCHANGED <<alert, standing>>

OpenRecord(r) ==
    /\ fate[r] = "waiting"
    /\ record[alert[r]].status = "absent"
    /\ \A b \in standing[r] : record[b].status = "closed"
    /\ record' = [record EXCEPT ![alert[r]].status = "new"]
    /\ fate' = [fate EXCEPT ![r] = "opened"]
    /\ UNCHANGED <<alert, standing>>

(* The orchestrator is told of the delivery, or an error ends it.          *)
Leave(r) ==
    /\ fate[r] \in {"waiting", "taken", "opened"}
    /\ \E f \in {"dispatched", "lost"} : fate' = [fate EXCEPT ![r] = f]
    /\ UNCHANGED <<record, alert, standing>>

Move(a) ==
    /\ \E s \in Follow[record[a].status] : record' = [record EXCEPT ![a].status = s]
    /\ UNCHANGED <<alert, standing, fate>>

LifecycleNext ==
    \/ \E r \in Requests : ComeIn(r) \/ OpenRecord(r) \/ Leave(r)
    \/ \E r \in Requests, a \in Alerts : Take(r, a)
    \/ \E a \in Alerts : Move(a)

Lifecycle == Blank /\ [][LifecycleNext]_ledger

=============================================================================
