---------------------------- MODULE TopologySync ----------------------------
(***************************************************************************)
(* How the topology graph follows Azure (services/api-gateway/topology.py: *)
(* bootstrap, sync_incremental, run_topology_sync_loop).  Every worker of  *)
(* every gateway replica loads the whole graph when it starts and then     *)
(* sleeps for an interval, asks Resource Graph what has changed within a   *)
(* window, fetches those resources and replaces their documents one by one *)
(* in the container all workers share.  There is no etag: a worker that    *)
(* fetched early and writes late puts back what another has just replaced. *)
(***************************************************************************)
EXTENDS Integers

CONSTANTS
    Worker,
    Resource,
    Interval,      \* TOPOLOGY_SYNC_INTERVAL_SECONDS
    Window,        \* interval_minutes of the query for changes
    MaxDuration,   \* bound on the time a synchronisation takes
    MaxTime,       \* bound on the clock
    MaxFaults      \* bound on failing calls and restarts

(* What the window has to be for the loop to miss nothing: the next query  *)
(* comes an interval after the end of the last synchronisation, not after  *)
(* its own query.  The code has 15 and 16 minutes.                         *)
ASSUME WindowAssumption ==
    /\ Interval \in Nat /\ Window \in Nat /\ MaxDuration \in Nat
    /\ Window > Interval + MaxDuration
ASSUME WorkerAssumption == Worker # {}
ASSUME BoundAssumption == MaxTime \in Nat /\ MaxFaults \in Nat

VARIABLES
    now,
    azure,    \* when each resource was changed last
    graph,    \* of which change its document is
    stage,    \* of each worker: "sleep", "fetch" or "upsert"
    alarm,    \* when its synchronisation begins, or began
    listed,   \* the changed_ids it has got
    rows,     \* the resource_rows it has got and not yet written
    failed,   \* resources whose last change a fault may have lost
    faults

syncVars == <<now, azure, graph, stage, alarm, listed, rows, failed, faults>>

SyncTypeOK ==
    /\ now \in 0 .. MaxTime
    /\ azure \in [Resource -> 0 .. MaxTime]
    /\ graph \in [Resource -> 0 .. MaxTime]
    /\ stage \in [Worker -> {"sleep", "fetch", "upsert"}]
    /\ alarm \in [Worker -> 0 .. MaxTime + Interval]
    /\ listed \in [Worker -> SUBSET Resource]
    /\ \A w \in Worker : stage[w] # "fetch" => listed[w] = {}
    /\ \A w \in Worker : \E s \in SUBSET Resource : rows[w] \in [s -> 0 .. MaxTime]
    /\ \A w \in Worker : stage[w] # "upsert" => DOMAIN rows[w] = {}
    /\ failed \in SUBSET Resource
    /\ faults \in 0 .. MaxFaults

(* All workers have loaded the graph, at different times before.           *)
SyncInit ==
    /\ now = 0
    /\ azure = [r \in Resource |-> 0]
    /\ graph = [r \in Resource |-> 0]
    /\ stage = [w \in Worker |-> "sleep"]
    /\ alarm \in [Worker -> 0 .. Interval]
    /\ listed = [w \in Worker |-> {}]
    /\ rows = [w \in Worker |-> [r \in {} |-> 0]]
    /\ failed = {}
    /\ faults = 0

-----------------------------------------------------------------------------
Rows(s) == [r \in s |-> azure[r]]

Without(f, r) == [q \in DOMAIN f \ {r} |-> f[q]]

Stale == {r \in Resource : graph[r] # azure[r]}

Fault ==
    /\ faults < MaxFaults
    /\ faults' = faults + 1

(* Mutant: a window no longer than the interval.                           *)
ChangedSinceInterval == {r \in Resource : azure[r] > now - Interval}

(* timestamp > ago(16m)                                                    *)
Changed == {r \in Resource : azure[r] > now - Window}

(* A resource is changed, once per unit of time at most.                   *)
Change(r) ==
    /\ azure[r] < now
    /\ azure' = [azure EXCEPT ![r] = now]
    /\ failed' = failed \ {r}
    /\ UNCHANGED <<now, graph, stage, alarm, listed, rows, faults>>

(* Mutant: what was listed is not forgotten.                               *)
SleepRemembering(w) ==
    /\ stage' = [stage EXCEPT ![w] = "sleep"]
    /\ alarm' = [alarm EXCEPT ![w] = now + Interval]
    /\ rows' = [rows EXCEPT ![w] = Rows({})]
    /\ UNCHANGED listed

(* Nothing is kept from one synchronisation to the next.                   *)
Sleep(w) ==
    /\ stage' = [stage EXCEPT ![w] = "sleep"]
    /\ alarm' = [alarm EXCEPT ![w] = now + Interval]
    /\ listed' = [listed EXCEPT ![w] = {}]
    /\ rows' = [rows EXCEPT ![w] = Rows({})]

(* The interval is over: which resources have changed?                     *)
Query(w) ==
    /\ stage[w] = "sleep" /\ alarm[w] = now
    /\ IF Changed = {}
       THEN Sleep(w)
       ELSE /\ stage' = [stage EXCEPT ![w] = "fetch"]
            /\ listed' = [listed EXCEPT ![w] = Changed]
            /\ UNCHANGED <<alarm, rows>>
    /\ UNCHANGED <<now, azure, graph, failed, faults>>

Fetch(w) ==
    /\ stage[w] = "fetch"
    /\ stage' = [stage EXCEPT ![w] = "upsert"]
    /\ rows' = [rows EXCEPT ![w] = Rows(listed[w])]
    /\ listed' = [listed EXCEPT ![w] = {}]
    /\ UNCHANGED <<now, azure, graph, alarm, failed, faults>>

(* One of the two queries fails: nothing is done before the next interval. *)
QueryFails(w) ==
    /\ \/ stage[w] = "sleep" /\ alarm[w] = now
       \/ stage[w] = "fetch"
    /\ Fault
    /\ Sleep(w)
    /\ failed' = failed \cup Stale
    /\ UNCHANGED <<now, azure, graph>>

Upsert(w) ==
    /\ stage[w] = "upsert"
    /\ \E r \in DOMAIN rows[w] :
          /\ graph' = [graph EXCEPT ![r] = rows[w][r]]
          /\ rows' = [rows EXCEPT ![w] = Without(@, r)]
          /\ failed' = IF rows[w][r] = azure[r] THEN failed \ {r} ELSE failed
    /\ UNCHANGED <<now, azure, stage, alarm, listed, faults>>

(* A document that cannot be written is counted, and that is all.          *)
UpsertFails(w) ==
    /\ stage[w] = "upsert"
    /\ Fault
    /\ \E r \in DOMAIN rows[w] :
          /\ rows' = [rows EXCEPT ![w] = Without(@, r)]
          /\ failed' = failed \cup ({r} \cap Stale)
    /\ UNCHANGED <<now, azure, graph, stage, alarm, listed>>

Finish(w) ==
    /\ stage[w] = "upsert" /\ DOMAIN rows[w] = {}
    /\ Sleep(w)
    /\ UNCHANGED <<now, azure, graph, failed, faults>>

(* A worker dies and another takes its place: its bootstrap fetches all.   *)
Restart(w) ==
    /\ Fault
    /\ stage' = [stage EXCEPT ![w] = "upsert"]
    /\ alarm' = [alarm EXCEPT ![w] = now]
    /\ listed' = [listed EXCEPT ![w] = {}]
    /\ rows' = [rows EXCEPT ![w] = Rows(Resource)]
    /\ failed' = failed \cup Stale
    /\ UNCHANGED <<now, azure, graph>>

(* Time passes, but for no worker beyond its alarm or its duration.        *)
Tick ==
    /\ now < MaxTime
    /\ \A w \in Worker :
          now < alarm[w] + (IF stage[w] = "sleep" THEN 0 ELSE MaxDuration)
    /\ now' = now + 1
    /\ UNCHANGED <<azure, graph, stage, alarm, listed, rows, failed, faults>>

SyncNext ==
    \/ \E r \in Resource : Change(r)
    \/ \E w \in Worker :
          \/ Query(w) \/ Fetch(w) \/ QueryFails(w)
          \/ Upsert(w) \/ UpsertFails(w) \/ Finish(w) \/ Restart(w)
    \/ Tick

SyncSpec == SyncInit /\ [][SyncNext]_syncVars

-----------------------------------------------------------------------------
(* The last change of a resource is in the graph no later than an interval *)
(* and two synchronisations after it happened, whichever worker writes     *)
(* last, unless a failing call or a restart came between and no worker has *)
(* brought it since (the sync loop's promise of main.py:568, with the time *)
(* its synchronisations take).                                             *)
GraphCatchesUp ==
    \A r \in Resource \ failed :
        now > azure[r] + Interval + 2 * MaxDuration => graph[r] = azure[r]

=============================================================================
