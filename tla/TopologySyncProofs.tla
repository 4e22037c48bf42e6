-------------------------- MODULE TopologySyncProofs --------------------------
(***************************************************************************)
(* Proofs about TopologySync, for any number of workers and resources, any *)
(* interval and duration, and any window that is long enough for them.     *)
(***************************************************************************)
EXTENDS TopologySync, TLAPS

Deadline(r) == azure[r] + Interval + MaxDuration

RowsAreRows == rows = [w \in Worker |-> rows[w]]

(* A worker sleeps no longer than an interval, and no synchronisation runs *)
(* longer than its duration.                                               *)
OnTime ==
    \A w \in Worker :
        /\ stage[w] = "sleep" => now <= alarm[w] /\ alarm[w] <= now + Interval
        /\ stage[w] # "sleep" => alarm[w] <= now /\ now <= alarm[w] + MaxDuration

(* A row that is out of date belongs to a synchronisation that began no    *)
(* later than the change it does not have.                                 *)
OldRowsBeganBefore ==
    \A w \in Worker : \A r \in DOMAIN rows[w] :
        rows[w][r] # azure[r] => alarm[w] <= azure[r]

(* Worker w is to bring the last change of r, and in time: its next query  *)
(* will list it, it has listed it or holds it, or it is still in a         *)
(* synchronisation that began before and will list it in the next.         *)
Brings(w, r) ==
    /\ alarm[w] <= Deadline(r)
    /\ \/ stage[w] = "sleep"
       \/ stage[w] = "fetch" /\ r \in listed[w]
       \/ stage[w] = "upsert" /\ r \in DOMAIN rows[w] /\ rows[w][r] = azure[r]
       \/ stage[w] # "sleep" /\ alarm[w] <= azure[r]

SomeoneBrings ==
    \A r \in Resource \ failed : graph[r] = azure[r] \/ \E w \in Worker : Brings(w, r)

SyncInv ==
    SyncTypeOK /\ RowsAreRows /\ OnTime /\ OldRowsBeganBefore /\ SomeoneBrings

Types ==
    /\ now \in Nat
    /\ azure \in [Resource -> Nat] /\ graph \in [Resource -> Nat]
    /\ stage \in [Worker -> {"sleep", "fetch", "upsert"}]
    /\ alarm \in [Worker -> Nat]
    /\ listed \in [Worker -> SUBSET Resource]
    /\ RowsAreRows
    /\ \A w \in Worker : DOMAIN rows[w] \subseteq Resource
    /\ \A w \in Worker : stage[w] # "fetch" => listed[w] = {}
    /\ \A w \in Worker : stage[w] # "upsert" => DOMAIN rows[w] = {}
    /\ Interval \in Nat /\ MaxDuration \in Nat /\ Window \in Nat
    /\ Window > Interval + MaxDuration

-----------------------------------------------------------------------------
LEMMA TypesOf == SyncInv => Types
  BY WindowAssumption, BoundAssumption DEF SyncInv, SyncTypeOK, Types

LEMMA NoRows == Rows({}) \in [{} -> 0 .. MaxTime] /\ DOMAIN Rows({}) = {}
  BY DEF Rows

LEMMA RowsWithout ==
    ASSUME NEW f, NEW s \in SUBSET Resource, f \in [s -> 0 .. MaxTime], NEW r
    PROVE  /\ Without(f, r) \in [s \ {r} -> 0 .. MaxTime]
           /\ DOMAIN Without(f, r) = DOMAIN f \ {r}
           /\ \A q \in DOMAIN f \ {r} : Without(f, r)[q] = f[q]
  BY DEF Without

LEMMA SyncInitInv == SyncInit => SyncInv
<1> SUFFICES ASSUME SyncInit PROVE SyncInv
  OBVIOUS
<1> USE DEF SyncInit
<1>1. SyncTypeOK
  <2>1. \A w \in Worker : rows[w] \in [{} -> 0 .. MaxTime] /\ DOMAIN rows[w] = {}
    OBVIOUS
  <2>2. alarm \in [Worker -> 0 .. MaxTime + Interval]
    BY WindowAssumption, BoundAssumption
  <2>3. \A w \in Worker : \E s \in SUBSET Resource : rows[w] \in [s -> 0 .. MaxTime]
    <3>1. {} \in SUBSET Resource
      OBVIOUS
    <3> QED
      BY <2>1, <3>1
  <2>4. now \in 0 .. MaxTime /\ faults \in 0 .. MaxFaults /\ failed \in SUBSET Resource
        /\ azure \in [Resource -> 0 .. MaxTime] /\ graph \in [Resource -> 0 .. MaxTime]
    BY BoundAssumption
  <2>5. stage \in [Worker -> {"sleep", "fetch", "upsert"}]
        /\ listed \in [Worker -> SUBSET Resource]
        /\ \A w \in Worker : (stage[w] # "fetch" => listed[w] = {})
                             /\ (stage[w] # "upsert" => DOMAIN rows[w] = {})
    BY <2>1
  <2> HIDE DEF SyncInit
  <2> QED
    BY <2>2, <2>3, <2>4, <2>5 DEF SyncTypeOK
<1>2. RowsAreRows /\ OldRowsBeganBefore /\ SomeoneBrings
  BY DEF RowsAreRows, OldRowsBeganBefore, SomeoneBrings
<1>3. OnTime
  <2> SUFFICES ASSUME NEW w \in Worker
               PROVE  stage[w] = "sleep" /\ now <= alarm[w] /\ alarm[w] <= now + Interval
    BY DEF OnTime
  <2>1. stage[w] = "sleep" /\ alarm[w] \in 0 .. Interval /\ now = 0
    OBVIOUS
  <2> HIDE DEF SyncInit
  <2> QED
    BY <2>1, WindowAssumption
<1> QED
  BY <1>1, <1>2, <1>3 DEF SyncInv

(* A step of w that leaves the documents and the changes as they are.      *)
LEMMA OthersBring ==
    ASSUME NEW w \in Worker, Types, azure' = azure,
           \A v \in Worker \ {w} :
               /\ stage'[v] = stage[v] /\ alarm'[v] = alarm[v]
               /\ listed'[v] = listed[v] /\ rows'[v] = rows[v]
    PROVE  \A v \in Worker \ {w}, r \in Resource : Brings(v, r) => Brings(v, r)'
  BY DEF Brings, Deadline

LEMMA ChangeStep == ASSUME SyncInv, NEW r \in Resource, Change(r) PROVE SyncInv'
<1>1. Types
  BY TypesOf
<1>2. /\ azure[r] < now /\ azure' = [azure EXCEPT ![r] = now] /\ failed' = failed \ {r}
      /\ UNCHANGED <<now, graph, stage, alarm, listed, rows, faults>>
  BY DEF Change
<1>3. SyncTypeOK' /\ RowsAreRows'
  BY <1>2 DEF SyncInv, SyncTypeOK, RowsAreRows
<1>4. OnTime'
  BY <1>2 DEF SyncInv, OnTime
<1>5. OldRowsBeganBefore'
  <2> SUFFICES ASSUME NEW w \in Worker, NEW q \in DOMAIN rows[w], rows[w][q] # azure'[q]
               PROVE  alarm[w] <= azure'[q]
    BY <1>2 DEF OldRowsBeganBefore
  <2>1. CASE q = r
    <3>1. stage[w] = "upsert"
      BY <1>1 DEF Types
    <3> QED
      BY <2>1, <3>1, <1>1, <1>2 DEF SyncInv, OnTime, Types
  <2>2. CASE q # r
    BY <2>2, <1>1, <1>2 DEF SyncInv, OldRowsBeganBefore, Types
  <2> QED
    BY <2>1, <2>2
<1>6. SomeoneBrings'
  <2> SUFFICES ASSUME NEW q \in Resource \ failed', graph[q] # azure'[q]
               PROVE  \E w \in Worker : Brings(w, q)'
    BY <1>2 DEF SomeoneBrings
  <2>1. CASE q = r
    <3>1. azure'[q] = now
      BY <2>1, <1>1, <1>2 DEF Types
    <3>2. PICK w \in Worker : TRUE
      BY WorkerAssumption
    <3>3. CASE stage[w] = "sleep"
      BY <3>1, <3>3, <1>1, <1>2 DEF SyncInv, OnTime, Brings, Deadline, Types
    <3>4. CASE stage[w] # "sleep"
      BY <3>1, <3>4, <1>1, <1>2 DEF SyncInv, OnTime, Brings, Deadline, Types
    <3> QED
      BY <3>3, <3>4
  <2>2. CASE q # r
    <3>1. azure'[q] = azure[q] /\ q \in Resource \ failed
      BY <2>2, <1>1, <1>2 DEF Types
    <3>2. PICK w \in Worker : Brings(w, q)
      BY <3>1 DEF SyncInv, SomeoneBrings
    <3>3. Brings(w, q)'
      BY <3>1, <3>2, <1>2 DEF Brings, Deadline
    <3> QED
      BY <3>3
  <2> QED
    BY <2>1, <2>2
<1> QED
  BY <1>3, <1>4, <1>5, <1>6 DEF SyncInv

(* Going to sleep when a synchronisation is over, or when a fault ends it. *)
LEMMA SleepTypes ==
    ASSUME SyncInv, NEW w \in Worker, Sleep(w), UNCHANGED <<now, azure, graph>>,
           failed' \in SUBSET Resource, faults' \in 0 .. MaxFaults
    PROVE  /\ SyncTypeOK' /\ RowsAreRows' /\ OnTime' /\ OldRowsBeganBefore'
           /\ stage'[w] = "sleep" /\ alarm'[w] = now + Interval
           /\ \A v \in Worker \ {w} :
                 /\ stage'[v] = stage[v] /\ alarm'[v] = alarm[v]
                 /\ listed'[v] = listed[v] /\ rows'[v] = rows[v]
<1>1. Types
  BY TypesOf
<1>2. /\ stage'[w] = "sleep" /\ alarm'[w] = now + Interval
      /\ listed'[w] = {} /\ rows'[w] = Rows({})
  BY <1>1 DEF Sleep, Types, RowsAreRows
<1>3. \A v \in Worker \ {w} :
          /\ stage'[v] = stage[v] /\ alarm'[v] = alarm[v]
          /\ listed'[v] = listed[v] /\ rows'[v] = rows[v]
  BY <1>1 DEF Sleep, Types, RowsAreRows
<1>4. RowsAreRows'
  BY <1>1 DEF Sleep, Types, RowsAreRows
<1>5. SyncTypeOK'
  <2>1. alarm' \in [Worker -> 0 .. MaxTime + Interval]
    <3>1. alarm \in [Worker -> 0 .. MaxTime + Interval] /\ now \in 0 .. MaxTime
      BY DEF SyncInv, SyncTypeOK
    <3>2. now + Interval \in 0 .. MaxTime + Interval
      BY <3>1, WindowAssumption, BoundAssumption
    <3> QED
      BY <3>1, <3>2 DEF Sleep
  <2>2. stage' \in [Worker -> {"sleep", "fetch", "upsert"}]
        /\ listed' \in [Worker -> SUBSET Resource]
    BY DEF SyncInv, SyncTypeOK, Sleep
  <2>3. \A v \in Worker : \E s \in SUBSET Resource : rows'[v] \in [s -> 0 .. MaxTime]
    <3>1. rows'[w] \in [{} -> 0 .. MaxTime] /\ {} \in SUBSET Resource
      BY <1>2, NoRows
    <3>2. \A v \in Worker \ {w} : \E s \in SUBSET Resource : rows'[v] \in [s -> 0 .. MaxTime]
      BY <1>3 DEF SyncInv, SyncTypeOK
    <3> QED
      BY <3>1, <3>2
  <2>4. \A v \in Worker : (stage'[v] # "fetch" => listed'[v] = {})
                          /\ (stage'[v] # "upsert" => DOMAIN rows'[v] = {})
    BY <1>2, <1>3, NoRows DEF SyncInv, SyncTypeOK
  <2> QED
    BY <2>1, <2>2, <2>3, <2>4 DEF SyncInv, SyncTypeOK
<1>6. OnTime'
  BY <1>1, <1>2, <1>3 DEF SyncInv, OnTime, Types
<1>7. OldRowsBeganBefore'
  BY <1>2, <1>3, NoRows DEF SyncInv, OldRowsBeganBefore
<1> QED
  BY <1>2, <1>3, <1>4, <1>5, <1>6, <1>7

(* What is stale becomes failed, whatever else a step does.                *)
LEMMA FaultsAreFailed ==
    ASSUME failed' = failed \cup Stale, UNCHANGED <<azure, graph>>
    PROVE  SomeoneBrings'
  BY DEF Stale, SomeoneBrings

LEMMA QueryStep == ASSUME SyncInv, NEW w \in Worker, Query(w) PROVE SyncInv'
<1>1. Types
  BY TypesOf
<1>2. stage[w] = "sleep" /\ alarm[w] = now /\ UNCHANGED <<now, azure, graph, failed, faults>>
  BY DEF Query
(* Whatever it is to bring it now lists.                                   *)
<1>3. \A r \in Resource : Brings(w, r) => r \in Changed
  BY <1>1, <1>2 DEF Brings, Deadline, Changed, Types
<1>4. CASE Changed = {}
  <2>1. Sleep(w)
    BY <1>4 DEF Query
  <2>2. failed' \in SUBSET Resource /\ faults' \in 0 .. MaxFaults
    BY <1>2 DEF SyncInv, SyncTypeOK
  <2>3. /\ SyncTypeOK' /\ RowsAreRows' /\ OnTime' /\ OldRowsBeganBefore'
        /\ \A v \in Worker \ {w} :
              /\ stage'[v] = stage[v] /\ alarm'[v] = alarm[v]
              /\ listed'[v] = listed[v] /\ rows'[v] = rows[v]
    BY <1>2, <2>1, <2>2, SleepTypes
  <2>4. \A v \in Worker \ {w}, r \in Resource : Brings(v, r) => Brings(v, r)'
    BY <1>1, <1>2, <2>3, OthersBring
  <2>5. SomeoneBrings'
    BY <1>2, <1>3, <1>4, <2>4 DEF SyncInv, SomeoneBrings
  <2> QED
    BY <2>3, <2>5 DEF SyncInv
<1>5. CASE Changed # {}
  <2>1. /\ stage' = [stage EXCEPT ![w] = "fetch"]
        /\ listed' = [listed EXCEPT ![w] = Changed]
        /\ UNCHANGED <<alarm, rows>>
    BY <1>5 DEF Query
  <2>2. Changed \in SUBSET Resource
    BY DEF Changed
  <2>3. SyncTypeOK' /\ RowsAreRows'
    BY <1>2, <2>1, <2>2 DEF SyncInv, SyncTypeOK, RowsAreRows
  <2>4. OnTime'
    BY <1>1, <1>2, <2>1 DEF SyncInv, OnTime, Types
  <2>5. OldRowsBeganBefore'
    BY <1>2, <2>1 DEF SyncInv, OldRowsBeganBefore
  <2>6. SomeoneBrings'
    <3>1. \A v \in Worker \ {w}, r \in Resource : Brings(v, r) => Brings(v, r)'
      BY <1>1, <1>2, <2>1, OthersBring DEF Types
    <3>2. \A r \in Resource : Brings(w, r) => Brings(w, r)'
      BY <1>1, <1>2, <1>3, <2>1 DEF Brings, Deadline, Types
    <3> QED
      BY <1>2, <3>1, <3>2 DEF SyncInv, SomeoneBrings
  <2> QED
    BY <2>3, <2>4, <2>5, <2>6 DEF SyncInv
<1> QED
  BY <1>4, <1>5

LEMMA FetchStep == ASSUME SyncInv, NEW w \in Worker, Fetch(w) PROVE SyncInv'
<1>1. Types
  BY TypesOf
<1>2. /\ stage[w] = "fetch" /\ UNCHANGED <<now, azure, graph, alarm, failed, faults>>
      /\ stage' = [stage EXCEPT ![w] = "upsert"]
      /\ rows' = [rows EXCEPT ![w] = Rows(listed[w])]
      /\ listed' = [listed EXCEPT ![w] = {}]
  BY DEF Fetch
<1>3. /\ stage'[w] = "upsert" /\ listed'[w] = {} /\ rows'[w] = Rows(listed[w])
      /\ \A v \in Worker \ {w} :
            /\ stage'[v] = stage[v] /\ alarm'[v] = alarm[v]
            /\ listed'[v] = listed[v] /\ rows'[v] = rows[v]
  BY <1>1, <1>2 DEF Types, RowsAreRows
<1>4. listed[w] \in SUBSET Resource /\ DOMAIN Rows(listed[w]) = listed[w]
      /\ \A r \in listed[w] : Rows(listed[w])[r] = azure[r]
  BY <1>1 DEF Types, Rows
<1>5. RowsAreRows'
  BY <1>1, <1>2 DEF Types, RowsAreRows
<1>6. SyncTypeOK'
  <2>1. Rows(listed[w]) \in [listed[w] -> 0 .. MaxTime]
    BY <1>4 DEF Rows, SyncInv, SyncTypeOK
  <2>2. \A v \in Worker : \E s \in SUBSET Resource : rows'[v] \in [s -> 0 .. MaxTime]
    <3> TAKE v \in Worker
    <3>1. CASE v = w
      BY <1>3, <1>4, <2>1, <3>1
    <3>2. CASE v # w
      <4>1. \E s \in SUBSET Resource : rows[v] \in [s -> 0 .. MaxTime]
        BY Zenon DEF SyncInv, SyncTypeOK
      <4>2. rows'[v] = rows[v]
        BY <1>3, <3>2
      <4> QED BY <4>1, <4>2, Zenon
    <3> QED BY <3>1, <3>2
  <2>3. stage' \in [Worker -> {"sleep", "fetch", "upsert"}]
        /\ listed' \in [Worker -> SUBSET Resource]
    BY <1>2 DEF SyncInv, SyncTypeOK
  <2>4. \A v \in Worker : (stage'[v] # "fetch" => listed'[v] = {})
                          /\ (stage'[v] # "upsert" => DOMAIN rows'[v] = {})
    BY <1>3 DEF SyncInv, SyncTypeOK
  <2> QED
    BY <1>2, <2>2, <2>3, <2>4 DEF SyncInv, SyncTypeOK
<1>7. OnTime'
  BY <1>2, <1>3 DEF SyncInv, OnTime
<1>8. OldRowsBeganBefore'
  BY <1>2, <1>3, <1>4 DEF SyncInv, OldRowsBeganBefore
<1>9. SomeoneBrings'
  <2>1. \A v \in Worker \ {w}, r \in Resource : Brings(v, r) => Brings(v, r)'
    BY <1>1, <1>2, <1>3, OthersBring
  <2>2. \A r \in Resource : Brings(w, r) => Brings(w, r)'
    BY <1>2, <1>3, <1>4 DEF Brings, Deadline
  <2> QED
    BY <1>2, <2>1, <2>2 DEF SyncInv, SomeoneBrings
<1> QED
  BY <1>5, <1>6, <1>7, <1>8, <1>9 DEF SyncInv

LEMMA QueryFailsStep == ASSUME SyncInv, NEW w \in Worker, QueryFails(w) PROVE SyncInv'
<1>1. Sleep(w) /\ failed' = failed \cup Stale /\ UNCHANGED <<now, azure, graph>>
      /\ faults < MaxFaults /\ faults' = faults + 1
  BY DEF QueryFails, Fault
<1>2. failed' \in SUBSET Resource /\ faults' \in 0 .. MaxFaults
  BY <1>1, BoundAssumption DEF Stale, SyncInv, SyncTypeOK
<1> QED
  BY <1>1, <1>2, SleepTypes, FaultsAreFailed DEF SyncInv

(* A row is taken from those of w; what it carried is written, or lost.    *)
LEMMA RowTaken ==
    ASSUME SyncInv, NEW w \in Worker, stage[w] = "upsert", NEW r \in DOMAIN rows[w],
           rows' = [rows EXCEPT ![w] = Without(@, r)],
           UNCHANGED <<now, azure, stage, alarm, listed>>,
           graph' \in [Resource -> 0 .. MaxTime],
           failed' \in SUBSET Resource, faults' \in 0 .. MaxFaults
    PROVE  /\ SyncTypeOK' /\ RowsAreRows' /\ OnTime' /\ OldRowsBeganBefore'
           /\ \A v \in Worker, q \in Resource \ {r} : Brings(v, q) => Brings(v, q)'
<1>1. Types
  BY TypesOf
<1>2. PICK s \in SUBSET Resource : rows[w] \in [s -> 0 .. MaxTime]
  BY DEF SyncInv, SyncTypeOK
<1>3. /\ rows'[w] = Without(rows[w], r)
      /\ \A v \in Worker \ {w} : rows'[v] = rows[v]
  BY <1>1 DEF Types, RowsAreRows
<1>4. /\ rows'[w] \in [s \ {r} -> 0 .. MaxTime] /\ s \ {r} \in SUBSET Resource
      /\ DOMAIN rows'[w] = DOMAIN rows[w] \ {r}
      /\ \A q \in DOMAIN rows[w] \ {r} : rows'[w][q] = rows[w][q]
  <2> DEFINE f == rows[w]
  <2>1. f \in [s -> 0 .. MaxTime]
    BY <1>2
  <2> HIDE DEF f
  <2>2. /\ Without(f, r) \in [s \ {r} -> 0 .. MaxTime]
        /\ DOMAIN Without(f, r) = DOMAIN f \ {r}
        /\ \A q \in DOMAIN f \ {r} : Without(f, r)[q] = f[q]
    BY <2>1, RowsWithout
  <2> QED
    BY <1>3, <2>2 DEF f
<1>5. RowsAreRows'
  BY <1>1 DEF Types, RowsAreRows
<1>6. SyncTypeOK'
  <2>1. \A v \in Worker : \E t \in SUBSET Resource : rows'[v] \in [t -> 0 .. MaxTime]
    BY <1>3, <1>4 DEF SyncInv, SyncTypeOK
  <2>2. \A v \in Worker : stage[v] # "upsert" => DOMAIN rows'[v] = {}
    BY <1>3 DEF SyncInv, SyncTypeOK
  <2> QED
    BY <2>1, <2>2 DEF SyncInv, SyncTypeOK
<1>7. OnTime'
  BY DEF SyncInv, OnTime
<1>8. OldRowsBeganBefore'
  BY <1>3, <1>4 DEF SyncInv, OldRowsBeganBefore
<1>9. \A v \in Worker, q \in Resource \ {r} : Brings(v, q) => Brings(v, q)'
  BY <1>3, <1>4 DEF Brings, Deadline
<1> QED
  BY <1>5, <1>6, <1>7, <1>8, <1>9

LEMMA UpsertStep == ASSUME SyncInv, NEW w \in Worker, Upsert(w) PROVE SyncInv'
<1>1. Types
  BY TypesOf
<1>2. PICK r \in DOMAIN rows[w] :
          /\ graph' = [graph EXCEPT ![r] = rows[w][r]]
          /\ rows' = [rows EXCEPT ![w] = Without(@, r)]
          /\ failed' = IF rows[w][r] = azure[r] THEN failed \ {r} ELSE failed
  BY DEF Upsert
<1>3. stage[w] = "upsert" /\ UNCHANGED <<now, azure, stage, alarm, listed, faults>>
  BY DEF Upsert
<1>4. r \in Resource /\ rows[w][r] \in 0 .. MaxTime
  BY <1>1 DEF Types, SyncInv, SyncTypeOK
<1>5. graph' \in [Resource -> 0 .. MaxTime] /\ failed' \in SUBSET Resource
      /\ faults' \in 0 .. MaxFaults
  BY <1>2, <1>3, <1>4 DEF SyncInv, SyncTypeOK
<1>6. /\ SyncTypeOK' /\ RowsAreRows' /\ OnTime' /\ OldRowsBeganBefore'
      /\ \A v \in Worker, q \in Resource \ {r} : Brings(v, q) => Brings(v, q)'
  BY <1>2, <1>3, <1>5, RowTaken
<1>7. SomeoneBrings'
  <2> SUFFICES ASSUME NEW q \in Resource \ failed'
               PROVE  graph'[q] = azure[q] \/ \E v \in Worker : Brings(v, q)'
    BY <1>3 DEF SomeoneBrings
  <2>1. CASE q # r
    <3>1. graph'[q] = graph[q] /\ q \notin failed
      BY <2>1, <1>1, <1>2 DEF Types
    <3> QED
      BY <2>1, <3>1, <1>6 DEF SyncInv, SomeoneBrings
  <2>2. CASE q = r /\ rows[w][r] = azure[r]
    BY <2>2, <1>1, <1>2, <1>4 DEF Types
  (* An old row: w began before the change and will come back for it.      *)
  <2>3. CASE q = r /\ rows[w][r] # azure[r]
    <3>1. alarm[w] <= azure[r]
      BY <2>3 DEF SyncInv, OldRowsBeganBefore
    <3>2. Brings(w, r)'
      BY <3>1, <1>1, <1>3, <1>4 DEF Brings, Deadline, Types
    <3> QED
      BY <2>3, <3>2
  <2> QED
    BY <2>1, <2>2, <2>3
<1> QED
  BY <1>6, <1>7 DEF SyncInv

LEMMA UpsertFailsStep == ASSUME SyncInv, NEW w \in Worker, UpsertFails(w) PROVE SyncInv'
<1>1. Types
  BY TypesOf
<1>2. PICK r \in DOMAIN rows[w] :
          /\ rows' = [rows EXCEPT ![w] = Without(@, r)]
          /\ failed' = failed \cup ({r} \cap Stale)
  BY DEF UpsertFails
<1>3. stage[w] = "upsert" /\ UNCHANGED <<now, azure, graph, stage, alarm, listed>>
      /\ faults < MaxFaults /\ faults' = faults + 1
  BY DEF UpsertFails, Fault
<1>4. graph' \in [Resource -> 0 .. MaxTime] /\ failed' \in SUBSET Resource
      /\ faults' \in 0 .. MaxFaults
  BY <1>2, <1>3, BoundAssumption DEF SyncInv, SyncTypeOK, Stale
<1>5. /\ SyncTypeOK' /\ RowsAreRows' /\ OnTime' /\ OldRowsBeganBefore'
      /\ \A v \in Worker, q \in Resource \ {r} : Brings(v, q) => Brings(v, q)'
  BY <1>2, <1>3, <1>4, RowTaken
<1>6. SomeoneBrings'
  BY <1>2, <1>3, <1>5 DEF SyncInv, SomeoneBrings, Stale
<1> QED
  BY <1>5, <1>6 DEF SyncInv

LEMMA FinishStep == ASSUME SyncInv, NEW w \in Worker, Finish(w) PROVE SyncInv'
<1>1. Types
  BY TypesOf
<1>2. /\ stage[w] = "upsert" /\ DOMAIN rows[w] = {} /\ Sleep(w)
      /\ UNCHANGED <<now, azure, graph, failed, faults>>
  BY DEF Finish
<1>3. failed' \in SUBSET Resource /\ faults' \in 0 .. MaxFaults
  BY <1>2 DEF SyncInv, SyncTypeOK
<1>4. /\ SyncTypeOK' /\ RowsAreRows' /\ OnTime' /\ OldRowsBeganBefore'
      /\ stage'[w] = "sleep" /\ alarm'[w] = now + Interval
      /\ \A v \in Worker \ {w} :
            /\ stage'[v] = stage[v] /\ alarm'[v] = alarm[v]
            /\ listed'[v] = listed[v] /\ rows'[v] = rows[v]
  BY <1>2, <1>3, SleepTypes
<1>5. \A v \in Worker \ {w}, r \in Resource : Brings(v, r) => Brings(v, r)'
  BY <1>1, <1>2, <1>4, OthersBring
<1>6. \A r \in Resource : Brings(w, r) => Brings(w, r)'
  <2> SUFFICES ASSUME NEW r \in Resource, Brings(w, r) PROVE Brings(w, r)'
    OBVIOUS
  <2>1. alarm[w] <= azure[r]
    BY <1>2 DEF Brings
  <2>2. now <= alarm[w] + MaxDuration
    BY <1>2 DEF SyncInv, OnTime
  <2>3. alarm'[w] <= azure[r] + Interval + MaxDuration
    BY <2>1, <2>2, <1>1, <1>4 DEF Types
  <2> QED
    BY <2>3, <1>2, <1>4 DEF Brings, Deadline
<1>7. SomeoneBrings'
  BY <1>2, <1>5, <1>6 DEF SyncInv, SomeoneBrings
<1> QED
  BY <1>4, <1>7 DEF SyncInv

LEMMA RestartStep == ASSUME SyncInv, NEW w \in Worker, Restart(w) PROVE SyncInv'
<1>1. Types
  BY TypesOf
<1>2. /\ stage' = [stage EXCEPT ![w] = "upsert"] /\ alarm' = [alarm EXCEPT ![w] = now]
      /\ listed' = [listed EXCEPT ![w] = {}] /\ rows' = [rows EXCEPT ![w] = Rows(Resource)]
      /\ failed' = failed \cup Stale /\ UNCHANGED <<now, azure, graph>>
      /\ faults < MaxFaults /\ faults' = faults + 1
  BY DEF Restart, Fault
<1>3. /\ stage'[w] = "upsert" /\ alarm'[w] = now /\ listed'[w] = {} /\ rows'[w] = Rows(Resource)
      /\ \A v \in Worker \ {w} :
            /\ stage'[v] = stage[v] /\ alarm'[v] = alarm[v]
            /\ listed'[v] = listed[v] /\ rows'[v] = rows[v]
  BY <1>1, <1>2 DEF Types, RowsAreRows
<1>4. /\ Rows(Resource) \in [Resource -> 0 .. MaxTime]
      /\ \A r \in Resource : Rows(Resource)[r] = azure[r]
  BY DEF Rows, SyncInv, SyncTypeOK
<1>5. RowsAreRows'
  BY <1>1, <1>2 DEF Types, RowsAreRows
<1>6. SyncTypeOK'
  <2>1. \A v \in Worker : \E s \in SUBSET Resource : rows'[v] \in [s -> 0 .. MaxTime]
    <3>1. rows'[w] \in [Resource -> 0 .. MaxTime] /\ Resource \in SUBSET Resource
      BY <1>3, <1>4
    <3>2. \A v \in Worker \ {w} : \E s \in SUBSET Resource : rows'[v] \in [s -> 0 .. MaxTime]
      BY <1>3 DEF SyncInv, SyncTypeOK
    <3> QED
      BY <3>1, <3>2
  <2>2. stage' \in [Worker -> {"sleep", "fetch", "upsert"}]
        /\ listed' \in [Worker -> SUBSET Resource]
    BY <1>2 DEF SyncInv, SyncTypeOK
  <2>3. \A v \in Worker : (stage'[v] # "fetch" => listed'[v] = {})
                          /\ (stage'[v] # "upsert" => DOMAIN rows'[v] = {})
    BY <1>3 DEF SyncInv, SyncTypeOK
  <2>4. alarm' \in [Worker -> 0 .. MaxTime + Interval]
    BY <1>2, WindowAssumption, BoundAssumption DEF SyncInv, SyncTypeOK
  <2>5. failed' \in SUBSET Resource /\ faults' \in 0 .. MaxFaults
    BY <1>2, BoundAssumption DEF SyncInv, SyncTypeOK, Stale
  <2> QED
    BY <1>2, <2>1, <2>2, <2>3, <2>4, <2>5 DEF SyncInv, SyncTypeOK
<1>7. OnTime'
  BY <1>1, <1>2, <1>3 DEF SyncInv, OnTime, Types
<1>8. OldRowsBeganBefore'
  BY <1>2, <1>3, <1>4 DEF SyncInv, OldRowsBeganBefore
<1>9. SomeoneBrings'
  BY <1>2, FaultsAreFailed
<1> QED
  BY <1>5, <1>6, <1>7, <1>8, <1>9 DEF SyncInv

LEMMA TickStep == SyncInv /\ Tick => SyncInv'
<1> SUFFICES ASSUME SyncInv, Tick PROVE SyncInv'
  OBVIOUS
<1>1. Types
  BY TypesOf
<1>2. /\ now < MaxTime /\ now' = now + 1
      /\ UNCHANGED <<azure, graph, stage, alarm, listed, rows, failed, faults>>
  BY DEF Tick
<1>3. \A w \in Worker : /\ stage[w] = "sleep" => now < alarm[w]
                        /\ stage[w] # "sleep" => now < alarm[w] + MaxDuration
  BY <1>1 DEF Tick, Types
<1>4. SyncTypeOK' /\ RowsAreRows'
  BY <1>2, BoundAssumption DEF SyncInv, SyncTypeOK, RowsAreRows
<1>5. OnTime'
  BY <1>1, <1>2, <1>3 DEF SyncInv, OnTime, Types
<1>6. OldRowsBeganBefore'
  BY <1>2 DEF SyncInv, OldRowsBeganBefore
<1>7. SomeoneBrings'
  BY <1>2 DEF SyncInv, SomeoneBrings, Brings, Deadline
<1> QED
  BY <1>4, <1>5, <1>6, <1>7 DEF SyncInv

-----------------------------------------------------------------------------
LEMMA SyncStep == SyncInv /\ [SyncNext]_syncVars => SyncInv'
<1> SUFFICES ASSUME SyncInv, [SyncNext]_syncVars PROVE SyncInv'
  OBVIOUS
<1>1. CASE UNCHANGED syncVars
  BY <1>1 DEF syncVars, SyncInv, SyncTypeOK, RowsAreRows, OnTime, OldRowsBeganBefore,
              SomeoneBrings, Brings, Deadline
<1>2. ASSUME NEW r \in Resource, Change(r)
      PROVE  SyncInv'
  BY <1>2, ChangeStep
<1>3. ASSUME NEW w \in Worker,
             Query(w) \/ Fetch(w) \/ QueryFails(w) \/ Upsert(w) \/ UpsertFails(w)
               \/ Finish(w) \/ Restart(w)
      PROVE  SyncInv'
  BY <1>3, QueryStep, FetchStep, QueryFailsStep, UpsertStep, UpsertFailsStep, FinishStep,
     RestartStep
<1>4. CASE Tick
  BY <1>4, TickStep
<1> QED
  BY <1>1, <1>2, <1>3, <1>4 DEF SyncNext

THEOREM SyncInvariant == SyncSpec => []SyncInv
  BY SyncInitInv, SyncStep, PTL DEF SyncSpec

(* Clocks, documents and rows stay within their types.                     *)
THEOREM SyncTypeCorrect == SyncSpec => []SyncTypeOK
<1>1. SyncInv => SyncTypeOK
  BY DEF SyncInv
<1> QED
  BY <1>1, SyncInvariant, PTL

(* With a window longer than an interval and a synchronisation, the graph  *)
(* has every change in time that no fault has lost.                        *)
THEOREM GraphIsUpToDate == SyncSpec => []GraphCatchesUp
<1>1. SyncInv => GraphCatchesUp
  <2> SUFFICES ASSUME SyncInv, NEW r \in Resource \ failed,
                      now > azure[r] + Interval + 2 * MaxDuration, graph[r] # azure[r]
               PROVE  FALSE
    BY DEF GraphCatchesUp
  <2>1. Types
    BY TypesOf
  <2>2. PICK w \in Worker : Brings(w, r)
    BY DEF SyncInv, SomeoneBrings
  <2>3. alarm[w] <= azure[r] + Interval + MaxDuration /\ now <= alarm[w] + MaxDuration
    BY <2>1, <2>2 DEF Brings, Deadline, SyncInv, OnTime, Types
  <2> QED
    BY <2>1, <2>3 DEF Types
<1> QED
  BY <1>1, SyncInvariant, PTL

=============================================================================
