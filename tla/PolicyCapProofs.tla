--------------------------- MODULE PolicyCapProofs ---------------------------
(***************************************************************************)
(* Proofs about PolicyCap, for every finite set of proposals, every set of *)
(* policies and caps and any number of days.                               *)
(***************************************************************************)
EXTENDS PolicyCap, FiniteSetTheorems, TLAPS

(* What counts, or will count, on the current day: records of the day, and *)
(* proposals that have passed the cap.                                     *)
Load(p) == Recorded(p, day) \cup InFlight(p)

(* The same of any day: its records, and what is stamped with it.          *)
Counted(p, d) ==
    {r \in Proposals :
        /\ policy[r] = p /\ ran[r] = d
        /\ stage[r] = "stamped" \/ (stage[r] = "sent" /\ r \in logged)}

PeakIsPeak == \A p \in Policies : Cardinality(InFlight(p)) <= peak[p]

LoadIsCapped ==
    \A p \in Policies : Cardinality(Load(p)) <= MaxDaily[p] + peak[p] - 1

DaysAreCapped ==
    \A p \in Policies, d \in 0 .. MaxDay :
        Cardinality(Counted(p, d)) <= MaxDaily[p] + peak[p] - 1

StampsArePast == \A r \in Proposals : ran[r] <= day

(* CapHolds speaks of executions; the induction needs what is under way,   *)
(* because a proposal takes its place in the count when it passes the cap  *)
(* and not when it is recorded.                                            *)
PolicyInv ==
    PolicyTypeOK /\ PeakIsPeak /\ LoadIsCapped /\ DaysAreCapped /\ StampsArePast

-----------------------------------------------------------------------------
(* All these sets are finite, and a part of one is no larger.              *)
LEMMA Smaller ==
    ASSUME NEW S \in SUBSET Proposals, NEW T \in SUBSET Proposals, S \subseteq T
    PROVE  /\ IsFiniteSet(S) /\ Cardinality(S) \in Nat /\ Cardinality(T) \in Nat
           /\ Cardinality(S) <= Cardinality(T)
<1>1. IsFiniteSet(S) /\ IsFiniteSet(T)
  BY FiniteAssumption, FS_Subset
<1> QED
  BY <1>1, FS_Subset, FS_CardinalityType

LEMMA SetsOfProposals ==
    /\ \A p : InFlight(p) \in SUBSET Proposals /\ Load(p) \in SUBSET Proposals
    /\ \A p, d : /\ Executions(p, d) \in SUBSET Proposals
                 /\ Recorded(p, d) \in SUBSET Proposals
                 /\ Counted(p, d) \in SUBSET Proposals
  BY DEF InFlight, Load, Executions, Recorded, Counted

LEMMA SetsOfProposalsNext ==
    /\ \A p : InFlight(p)' \in SUBSET Proposals /\ Load(p)' \in SUBSET Proposals
    /\ \A p, d : Counted(p, d)' \in SUBSET Proposals
  BY DEF InFlight, Load, Executions, Recorded, Counted

LEMMA PolicyInitInv == PolicyInit => PolicyInv
<1> SUFFICES ASSUME PolicyInit PROVE PolicyInv
  OBVIOUS
<1>1. PolicyTypeOK /\ StampsArePast
  BY DayAssumption DEF PolicyInit, PolicyTypeOK, Stage, StampsArePast
<1>2. /\ \A p : InFlight(p) = {} /\ Load(p) = {}
      /\ \A p, d : Counted(p, d) = {}
  BY DEF PolicyInit, InFlight, Load, Executions, Recorded, Counted
<1>3. Cardinality({}) = 0
  BY FS_EmptySet
<1>4. \A p \in Policies : peak[p] = 0 /\ MaxDaily[p] \in Nat /\ MaxDaily[p] >= 1
  BY CapAssumption DEF PolicyInit
<1>5. PeakIsPeak
  BY <1>2, <1>3, <1>4 DEF PeakIsPeak
<1>6. LoadIsCapped
  BY <1>2, <1>3, <1>4 DEF LoadIsCapped
<1>7. DaysAreCapped
  BY <1>2, <1>3, <1>4 DEF DaysAreCapped
<1> QED
  BY <1>1, <1>5, <1>6, <1>7 DEF PolicyInv

(* A step of a day on which nothing passes a cap: what is in flight is     *)
(* recorded, or leaves.                                                    *)
LEMMA NoneEnters ==
    ASSUME PolicyInv, PolicyTypeOK', day' = day, peak' = peak,
           \A p \in Policies : InFlight(p)' \subseteq InFlight(p),
           \A p \in Policies : Load(p)' \subseteq Load(p),
           \A p \in Policies, d \in 0 .. MaxDay :
               d # day => Counted(p, d)' \subseteq Counted(p, d)
    PROVE  PeakIsPeak' /\ LoadIsCapped' /\ DaysAreCapped'
<1>1. \A p \in Policies : peak[p] \in Nat /\ MaxDaily[p] \in Nat
  BY CapAssumption DEF PolicyInv, PolicyTypeOK
<1>2. ASSUME NEW p \in Policies
      PROVE  Cardinality(InFlight(p)') <= peak[p]
  <2>1. Cardinality(InFlight(p)') <= Cardinality(InFlight(p))
        /\ Cardinality(InFlight(p)') \in Nat /\ Cardinality(InFlight(p)) \in Nat
    BY SetsOfProposals, SetsOfProposalsNext, Smaller
  <2> QED
    BY <2>1, <1>1 DEF PolicyInv, PeakIsPeak
<1>3. ASSUME NEW p \in Policies
      PROVE  Cardinality(Load(p)') <= MaxDaily[p] + peak[p] - 1
  <2>1. Cardinality(Load(p)') <= Cardinality(Load(p))
        /\ Cardinality(Load(p)') \in Nat /\ Cardinality(Load(p)) \in Nat
    BY SetsOfProposals, SetsOfProposalsNext, Smaller
  <2> QED
    BY <2>1, <1>1 DEF PolicyInv, LoadIsCapped
<1>4. ASSUME NEW p \in Policies, NEW d \in 0 .. MaxDay
      PROVE  Cardinality(Counted(p, d)') <= MaxDaily[p] + peak[p] - 1
  <2>1. CASE d = day
    <3>1. Counted(p, d)' \subseteq Load(p)'
      BY <2>1 DEF Counted, Load, Recorded, Executions, InFlight
    <3>2. Cardinality(Counted(p, d)') <= Cardinality(Load(p)')
          /\ Cardinality(Counted(p, d)') \in Nat /\ Cardinality(Load(p)') \in Nat
      BY <3>1, SetsOfProposalsNext, Smaller
    <3> QED
      BY <3>2, <1>1, <1>3
  <2>2. CASE d # day
    <3>1. Cardinality(Counted(p, d)') <= Cardinality(Counted(p, d))
          /\ Cardinality(Counted(p, d)') \in Nat /\ Cardinality(Counted(p, d)) \in Nat
      BY <2>2, SetsOfProposals, SetsOfProposalsNext, Smaller
    <3> QED
      BY <3>1, <1>1 DEF PolicyInv, DaysAreCapped
  <2> QED
    BY <2>1, <2>2
<1> QED
  BY <1>2, <1>3, <1>4 DEF PeakIsPeak, LoadIsCapped, DaysAreCapped

(* A proposal that moves on within a day, and not through the cap.         *)
LEMMA MovesOn ==
    ASSUME PolicyInv, NEW r \in Proposals,
           PolicyTypeOK', day' = day, peak' = peak,
           \A q \in Proposals : q # r =>
               /\ stage'[q] = stage[q] /\ policy'[q] = policy[q] /\ ran'[q] = ran[q]
               /\ q \in logged' => q \in logged,
           stage'[r] \in {"health", "preflight", "stamped", "sent"} =>
               /\ stage[r] \in {"health", "preflight", "stamped"} /\ policy'[r] = policy[r],
           stage'[r] = "stamped" => ran'[r] = day,
           stage'[r] = "sent" => stage[r] = "stamped" /\ ran'[r] = ran[r]
    PROVE  PeakIsPeak' /\ LoadIsCapped' /\ DaysAreCapped'
<1>1. ASSUME NEW p \in Policies
      PROVE  InFlight(p)' \subseteq InFlight(p)
  BY DEF InFlight
<1>2. ASSUME NEW p \in Policies
      PROVE  Load(p)' \subseteq Load(p)
  BY DEF Load, Recorded, Executions, InFlight
<1>3. ASSUME NEW p \in Policies, NEW d \in 0 .. MaxDay, d # day
      PROVE  Counted(p, d)' \subseteq Counted(p, d)
  BY <1>3 DEF Counted
<1> QED
  BY <1>1, <1>2, <1>3, NoneEnters

LEMMA ProposalSteps ==
    ASSUME PolicyInv, NEW r \in Proposals,
           Fetch(r) \/ FailGuards(r) \/ NoPolicy(r) \/ Healthy(r) \/ Unhealthy(r)
             \/ Abort(r) \/ Stamp(r) \/ Execute(r) \/ Die(r)
    PROVE  PolicyInv'
<1>1. PolicyTypeOK
  BY DEF PolicyInv
<1>2. PolicyTypeOK' /\ StampsArePast'
  <2>1. CASE Fetch(r)
    BY <1>1, <2>1 DEF Fetch, Goto, PolicyInv, PolicyTypeOK, Stage, StampsArePast
  <2>2. CASE FailGuards(r)
    BY <1>1, <2>2 DEF FailGuards, PolicyInv, PolicyTypeOK, Stage, StampsArePast
  <2>3. CASE NoPolicy(r) \/ Healthy(r) \/ Abort(r) \/ Die(r)
    BY <1>1, <2>3 DEF NoPolicy, Healthy, Abort, Die, Goto, PolicyInv, PolicyTypeOK, Stage,
                      StampsArePast
  <2>4. CASE Unhealthy(r)
    BY <1>1, <2>4 DEF Unhealthy, Goto, PolicyInv, PolicyTypeOK, Stage, StampsArePast
  <2>5. CASE Stamp(r)
    BY <1>1, <2>5, DayAssumption DEF Stamp, Stamped, Goto, PolicyInv, PolicyTypeOK, Stage,
                                     StampsArePast
  <2>6. CASE Execute(r)
    BY <1>1, <2>6 DEF Execute, Goto, PolicyInv, PolicyTypeOK, Stage, StampsArePast
  <2> QED
    BY <2>1, <2>2, <2>3, <2>4, <2>5, <2>6
<1>3. /\ day' = day /\ peak' = peak
      /\ \A q \in Proposals : q # r =>
            /\ stage'[q] = stage[q] /\ policy'[q] = policy[q] /\ ran'[q] = ran[q]
            /\ q \in logged' => q \in logged
  BY <1>1 DEF PolicyTypeOK, Fetch, FailGuards, NoPolicy, Healthy, Unhealthy, Abort, Stamp,
              Stamped, Execute, Die, Goto
<1>4. /\ stage'[r] \in {"health", "preflight", "stamped", "sent"} =>
            stage[r] \in {"health", "preflight", "stamped"} /\ policy'[r] = policy[r]
      /\ stage'[r] = "stamped" => ran'[r] = day
      /\ stage'[r] = "sent" => stage[r] = "stamped" /\ ran'[r] = ran[r]
  <2>1. CASE Fetch(r) \/ FailGuards(r) \/ NoPolicy(r) \/ Unhealthy(r) \/ Abort(r) \/ Die(r)
    BY <1>1, <2>1 DEF PolicyTypeOK, Fetch, FailGuards, NoPolicy, Unhealthy, Abort, Die, Goto
  <2>2. CASE Healthy(r)
    BY <1>1, <2>2 DEF PolicyTypeOK, Healthy, Goto
  <2>3. CASE Stamp(r)
    BY <1>1, <2>3 DEF PolicyTypeOK, Stamp, Stamped, Goto
  <2>4. CASE Execute(r)
    BY <1>1, <2>4 DEF PolicyTypeOK, Execute, Goto
  <2> QED
    BY <2>1, <2>2, <2>3, <2>4
<1>5. PeakIsPeak' /\ LoadIsCapped' /\ DaysAreCapped'
  BY <1>2, <1>3, <1>4, MovesOn
<1> QED
  BY <1>2, <1>5 DEF PolicyInv

(* A proposal passes the cap of p: there were fewer records than it allows *)
(* and all the others on their way are within the peak.                    *)
LEMMA PassGuardsStep ==
    ASSUME PolicyInv, NEW r \in Proposals, PassGuards(r)
    PROVE  PolicyInv'
<1>1. PICK p \in left[r] :
          /\ stage[r] = "guards" /\ UnderCap(p)
          /\ policy' = [policy EXCEPT ![r] = p]
          /\ left' = [left EXCEPT ![r] = @ \ {p}]
          /\ peak' = [peak EXCEPT ![p] = IF Cardinality(InFlight(p)) + 1 > @
                                         THEN Cardinality(InFlight(p)) + 1 ELSE @]
          /\ stage' = [stage EXCEPT ![r] = "health"]
          /\ UNCHANGED <<day, enabled, ran, logged>>
  BY DEF PassGuards, Goto
<1>2. p \in Policies /\ PolicyTypeOK
  BY <1>1 DEF PolicyInv, PolicyTypeOK
<1>3. IsFiniteSet(InFlight(p)) /\ Cardinality(InFlight(p)) \in Nat
  BY SetsOfProposals, Smaller
<1>4. /\ peak'[p] \in Nat /\ peak[p] <= peak'[p] /\ Cardinality(InFlight(p)) + 1 <= peak'[p]
      /\ \A q \in Policies : q # p => peak'[q] = peak[q]
      /\ peak' \in [Policies -> Nat]
  BY <1>1, <1>2, <1>3 DEF PolicyTypeOK
<1>5. PolicyTypeOK' /\ StampsArePast'
  BY <1>1, <1>2, <1>4 DEF PolicyInv, PolicyTypeOK, Stage, StampsArePast
<1>6. /\ stage'[r] = "health" /\ policy'[r] = p
      /\ \A q \in Proposals : q # r => stage'[q] = stage[q] /\ policy'[q] = policy[q]
  BY <1>1, <1>2 DEF PolicyTypeOK
<1>7. /\ \A q \in Policies : q # p => InFlight(q)' \subseteq InFlight(q)
      /\ InFlight(p)' = InFlight(p) \cup {r}
      /\ \A q \in Policies : Recorded(q, day)' \subseteq Recorded(q, day)
      /\ \A q \in Policies, d \in 0 .. MaxDay : Counted(q, d)' \subseteq Counted(q, d)
  BY <1>1, <1>6 DEF InFlight, Recorded, Executions, Counted
<1>8. Cardinality(InFlight(p)') <= Cardinality(InFlight(p)) + 1
      /\ Cardinality(InFlight(p)') \in Nat /\ IsFiniteSet(InFlight(p)')
  <2>1. /\ IsFiniteSet(InFlight(p) \cup {r})
        /\ Cardinality(InFlight(p) \cup {r})
             = IF r \in InFlight(p) THEN Cardinality(InFlight(p))
               ELSE Cardinality(InFlight(p)) + 1
    BY <1>3, FS_AddElement, Zenon
  <2> DEFINE I == InFlight(p) \cup {r}
             c == Cardinality(InFlight(p))
  <2>2. IsFiniteSet(I) /\ (Cardinality(I) = c \/ Cardinality(I) = c + 1) /\ c \in Nat
    BY <2>1, <1>3
  <2>3. InFlight(p)' = I
    BY <1>7
  <2> HIDE DEF I, c
  <2>4. Cardinality(I) <= c + 1 /\ Cardinality(I) \in Nat
    BY <2>2
  <2> QED
    BY <2>2, <2>3, <2>4 DEF c
<1>9. \A q \in Policies : peak[q] \in Nat /\ peak'[q] \in Nat /\ peak[q] <= peak'[q]
                            /\ MaxDaily[q] \in Nat
  BY <1>2, <1>4, CapAssumption DEF PolicyTypeOK
<1>10. ASSUME NEW q \in Policies
       PROVE  Cardinality(InFlight(q)') <= peak'[q]
  <2>1. CASE q = p
    BY <2>1, <1>3, <1>4, <1>8
  <2>2. CASE q # p
    <3>1. Cardinality(InFlight(q)') <= Cardinality(InFlight(q))
          /\ Cardinality(InFlight(q)') \in Nat /\ Cardinality(InFlight(q)) \in Nat
      BY <2>2, <1>7, SetsOfProposals, SetsOfProposalsNext, Smaller
    <3> QED
      BY <3>1, <1>9 DEF PolicyInv, PeakIsPeak
  <2> QED
    BY <2>1, <2>2
<1>11. ASSUME NEW q \in Policies
       PROVE  Cardinality(Load(q)') <= MaxDaily[q] + peak'[q] - 1
  <2>1. CASE q = p
    <3>1. Cardinality(Recorded(p, day)) < MaxDaily[p]
      BY <1>1 DEF UnderCap
    <3>2. Load(p)' \subseteq Recorded(p, day) \cup InFlight(p)'
      BY <1>1, <1>2, <1>7 DEF Load
    <3>3. IsFiniteSet(Recorded(p, day)) /\ Cardinality(Recorded(p, day)) \in Nat
      BY SetsOfProposals, Smaller
    <3>4. Cardinality(Recorded(p, day) \cup InFlight(p)')
            <= Cardinality(Recorded(p, day)) + Cardinality(InFlight(p)')
      <4>1. /\ Cardinality(Recorded(p, day) \cup InFlight(p)')
                 = Cardinality(Recorded(p, day)) + Cardinality(InFlight(p)')
                     - Cardinality(Recorded(p, day) \cap InFlight(p)')
        BY <1>8, <3>3, FS_Union
      <4>2. Cardinality(Recorded(p, day) \cap InFlight(p)') \in Nat
        BY <3>3, FS_Intersection, FS_CardinalityType
      <4> QED
        BY <4>1, <4>2, <1>8, <3>3
    <3>5. Cardinality(Load(p)') <= Cardinality(Recorded(p, day) \cup InFlight(p)')
          /\ Cardinality(Load(p)') \in Nat
          /\ Cardinality(Recorded(p, day) \cup InFlight(p)') \in Nat
      BY <3>2, SetsOfProposals, SetsOfProposalsNext, Smaller
    <3> QED
      BY <2>1, <3>1, <3>3, <3>4, <3>5, <1>8, <1>9, <1>10
  <2>2. CASE q # p
    <3>1. Load(q)' \subseteq Load(q)
      BY <2>2, <1>1, <1>7 DEF Load
    <3>2. Cardinality(Load(q)') <= Cardinality(Load(q))
          /\ Cardinality(Load(q)') \in Nat /\ Cardinality(Load(q)) \in Nat
      BY <3>1, SetsOfProposals, SetsOfProposalsNext, Smaller
    <3>3. Cardinality(Load(q)) <= MaxDaily[q] + peak[q] - 1
      BY DEF PolicyInv, LoadIsCapped
    <3> QED
      BY <3>2, <3>3, <1>9
  <2> QED
    BY <2>1, <2>2
<1>12. ASSUME NEW q \in Policies, NEW d \in 0 .. MaxDay
       PROVE  Cardinality(Counted(q, d)') <= MaxDaily[q] + peak'[q] - 1
  <2>1. Cardinality(Counted(q, d)') <= Cardinality(Counted(q, d))
        /\ Cardinality(Counted(q, d)') \in Nat /\ Cardinality(Counted(q, d)) \in Nat
    BY <1>7, SetsOfProposals, SetsOfProposalsNext, Smaller
  <2>2. Cardinality(Counted(q, d)) <= MaxDaily[q] + peak[q] - 1
    BY DEF PolicyInv, DaysAreCapped
  <2> QED
    BY <2>1, <2>2, <1>9
<1> QED
  BY <1>5, <1>10, <1>11, <1>12 DEF PolicyInv, PeakIsPeak, LoadIsCapped, DaysAreCapped

(* A new day has no records, and takes on what is in flight.               *)
LEMMA MidnightStep == PolicyInv /\ Midnight => PolicyInv'
<1> SUFFICES ASSUME PolicyInv, Midnight PROVE PolicyInv'
  OBVIOUS
<1>1. /\ day < MaxDay /\ day' = day + 1
      /\ UNCHANGED <<enabled, stage, left, policy, ran, logged, peak>>
  BY DEF Midnight
<1>2. PolicyTypeOK /\ day \in Nat
  BY DEF PolicyInv, PolicyTypeOK
<1>3. PolicyTypeOK' /\ StampsArePast'
  BY <1>1, <1>2, DayAssumption DEF PolicyInv, PolicyTypeOK, StampsArePast
<1>4. /\ \A p : InFlight(p)' = InFlight(p)
      /\ \A p, d : Counted(p, d)' = Counted(p, d)
  BY <1>1 DEF InFlight, Counted
<1>5. \A p \in Policies : Load(p)' = InFlight(p)
  <2>1. \A r \in Proposals : ran[r] # day'
    BY <1>1, <1>2 DEF PolicyInv, PolicyTypeOK, StampsArePast
  <2>2. \A p \in Policies : Recorded(p, day)' = {}
    BY <1>1, <2>1 DEF Recorded, Executions
  <2> QED
    BY <2>2, <1>4 DEF Load
<1>6. \A p \in Policies : peak[p] \in Nat /\ MaxDaily[p] \in Nat /\ MaxDaily[p] >= 1
  BY <1>2, CapAssumption DEF PolicyTypeOK
<1>7. \A p \in Policies : Cardinality(InFlight(p)) \in Nat /\ Cardinality(InFlight(p)) <= peak[p]
  BY SetsOfProposals, Smaller DEF PolicyInv, PeakIsPeak
<1>8. LoadIsCapped'
  BY <1>1, <1>5, <1>6, <1>7 DEF LoadIsCapped
<1>9. PeakIsPeak' /\ DaysAreCapped'
  BY <1>1, <1>4 DEF PolicyInv, PeakIsPeak, DaysAreCapped
<1> QED
  BY <1>3, <1>8, <1>9 DEF PolicyInv

LEMMA Unmoved ==
    ASSUME PolicyInv, PolicyTypeOK',
           UNCHANGED <<day, stage, policy, ran, logged, peak>>
    PROVE  PolicyInv'
  BY DEF PolicyInv, StampsArePast, PeakIsPeak, LoadIsCapped, DaysAreCapped, Load, Recorded,
         Executions, InFlight, Counted

LEMMA PolicyStep == PolicyInv /\ [PolicyNext]_policyVars => PolicyInv'
<1> SUFFICES ASSUME PolicyInv, [PolicyNext]_policyVars PROVE PolicyInv'
  OBVIOUS
<1>1. CASE UNCHANGED policyVars
  <2>1. PolicyTypeOK' /\ UNCHANGED <<day, stage, policy, ran, logged, peak>>
    BY <1>1 DEF policyVars, PolicyInv, PolicyTypeOK
  <2> QED
    BY <2>1, Unmoved
<1>2. CASE Administer
  <2>1. PolicyTypeOK' /\ UNCHANGED <<day, stage, policy, ran, logged, peak>>
    BY <1>2 DEF Administer, PolicyInv, PolicyTypeOK
  <2> QED
    BY <2>1, Unmoved
<1>3. CASE Midnight
  BY <1>3, MidnightStep
<1>4. ASSUME NEW r \in Proposals, PassGuards(r)
      PROVE  PolicyInv'
  BY <1>4, PassGuardsStep
<1>5. ASSUME NEW r \in Proposals,
             Fetch(r) \/ FailGuards(r) \/ NoPolicy(r) \/ Healthy(r) \/ Unhealthy(r)
               \/ Abort(r) \/ Stamp(r) \/ Execute(r) \/ Die(r)
      PROVE  PolicyInv'
  BY <1>5, ProposalSteps
<1> QED
  BY <1>1, <1>2, <1>3, <1>4, <1>5 DEF PolicyNext

THEOREM PolicyInvariant == PolicySpec => []PolicyInv
  BY PolicyInitInv, PolicyStep, PTL DEF PolicySpec

(* The state of every proposal stays within its types.                     *)
THEOREM PolicyTypeCorrect == PolicySpec => []PolicyTypeOK
<1>1. PolicyInv => PolicyTypeOK
  BY DEF PolicyInv
<1> QED
  BY <1>1, PolicyInvariant, PTL

(* The daily cap of a policy is exceeded only by what ran concurrently or  *)
(* left no record.                                                         *)
THEOREM CapIsKept == PolicySpec => []CapHolds
<1>1. PolicyInv => CapHolds
  <2> SUFFICES ASSUME PolicyInv, NEW p \in Policies, NEW d \in 0 .. MaxDay
               PROVE  Cardinality(Executions(p, d))
                        <= MaxDaily[p] + (peak[p] - 1)
                             + Cardinality(Executions(p, d) \ logged)
    BY DEF CapHolds
  <2> DEFINE X == Executions(p, d)
  <2>1. X \in SUBSET Proposals /\ X \cap logged \in SUBSET Proposals
        /\ X \ logged \in SUBSET Proposals
    BY SetsOfProposals
  <2>2. IsFiniteSet(X) /\ Cardinality(X) \in Nat
        /\ Cardinality(X \cap logged) \in Nat /\ Cardinality(X \ logged) \in Nat
    BY <2>1, Smaller
  <2>3. Cardinality(X \ logged) = Cardinality(X) - Cardinality(X \cap logged)
    BY <2>2, FS_Difference
  <2>4. X \cap logged \subseteq Counted(p, d)
    BY DEF Executions, Counted
  <2>5. Cardinality(X \cap logged) <= Cardinality(Counted(p, d))
        /\ Cardinality(Counted(p, d)) \in Nat
    BY <2>1, <2>4, SetsOfProposals, Smaller
  <2>6. Cardinality(Counted(p, d)) <= MaxDaily[p] + peak[p] - 1
        /\ peak[p] \in Nat /\ MaxDaily[p] \in Nat
    BY CapAssumption DEF PolicyInv, DaysAreCapped, PolicyTypeOK
  <2> QED
    BY <2>2, <2>3, <2>5, <2>6
<1> QED
  BY <1>1, PolicyInvariant, PTL

-----------------------------------------------------------------------------
(* The day is over for a policy, or its cap is reached and nothing that     *)
(* passed the cap before is still under way.                                *)
Closed(p, d) ==
    \/ day > d
    \/ day = d /\ ~UnderCap(p) /\ InFlight(p) = {}

LEMMA ClosedStays ==
    ASSUME PolicyInv, PolicyInv', [PolicyNext]_policyVars,
           NEW p \in Policies, NEW d \in Nat, Closed(p, d)
    PROVE  Closed(p, d)'
<1> USE DEF PolicyInv, PolicyTypeOK
<1>0. day \in Nat /\ day' \in Nat /\ (day' = day \/ day' = day + 1)
  BY DayAssumption DEF PolicyNext, policyVars, Fetch, PassGuards, FailGuards, NoPolicy,
       Healthy, Unhealthy, Abort, Stamp, Execute, Die, Administer, Midnight
<1>1. CASE day' > d
  BY <1>1 DEF Closed
<1>2. CASE ~(day' > d)
  <2>0. /\ day = d /\ day' = day
        /\ ~UnderCap(p) /\ InFlight(p) = {}
    BY <1>0, <1>2 DEF Closed
  <2>1. Recorded(p, day) \subseteq Recorded(p, day)' /\ InFlight(p)' = {}
    <3>1. ASSUME NEW r \in Proposals, PassGuards(r)
          PROVE  Recorded(p, day) \subseteq Recorded(p, day)' /\ InFlight(p)' = {}
      <4>1. PICK q \in left[r] : UnderCap(q) /\ policy' = [policy EXCEPT ![r] = q]
        BY <3>1 DEF PassGuards
      <4>2. q # p /\ stage[r] = "guards" /\ stage' = [stage EXCEPT ![r] = "health"]
            /\ UNCHANGED <<day, ran, logged>>
        BY <2>0, <3>1, <4>1 DEF PassGuards, Goto
      <4> QED
        BY <2>0, <4>1, <4>2 DEF Recorded, Executions, InFlight
    <3>2. ASSUME NEW r \in Proposals, Fetch(r) \/ FailGuards(r) \/ NoPolicy(r)
          PROVE  Recorded(p, day) \subseteq Recorded(p, day)' /\ InFlight(p)' = {}
      <4>1. /\ stage[r] \in {"new", "guards"}
            /\ \E s \in {"guards", "pending"} : stage' = [stage EXCEPT ![r] = s]
            /\ UNCHANGED <<day, policy, ran, logged>>
        BY <3>2 DEF Fetch, FailGuards, NoPolicy, Goto
      <4> QED
        BY <2>0, <4>1 DEF Recorded, Executions, InFlight
    <3>3. ASSUME NEW r \in Proposals,
                 Healthy(r) \/ Unhealthy(r) \/ Abort(r) \/ Stamp(r) \/ Execute(r) \/ Die(r)
          PROVE  Recorded(p, day) \subseteq Recorded(p, day)' /\ InFlight(p)' = {}
      <4>1. policy[r] # p \/ stage[r] = "guards"
        BY <2>0, <3>3 DEF InFlight, Healthy, Unhealthy, Abort, Stamp, Execute, Die
      <4>2. /\ stage[r] # "sent" /\ UNCHANGED day
            /\ \E s \in Stage : stage' = [stage EXCEPT ![r] = s]
            /\ stage[r] = "guards" => stage'[r] = "dead"
            /\ policy' = policy \/ policy' = [policy EXCEPT ![r] = None]
            /\ \A x \in Proposals \ {r} : ran'[x] = ran[x]
            /\ logged \subseteq logged'
        BY <3>3 DEF Healthy, Unhealthy, Abort, Stamp, Stamped, Execute, Die, Goto, Stage
      <4>3. \A x \in Proposals \ {r} : stage'[x] = stage[x] /\ policy'[x] = policy[x]
        BY <4>2
      <4>4. r \notin InFlight(p)'
        BY <4>1, <4>2, NonePolicy DEF InFlight
      <4> QED
        BY <2>0, <4>2, <4>3, <4>4 DEF Recorded, Executions, InFlight
    <3>4. CASE Administer \/ Midnight \/ UNCHANGED policyVars
      BY <2>0, <3>4 DEF Administer, Midnight, policyVars, Recorded, Executions, InFlight
    <3> QED
      BY <3>1, <3>2, <3>3, <3>4 DEF PolicyNext
  <2>2. ~UnderCap(p)'
    <3>1. /\ Cardinality(Recorded(p, day)) <= Cardinality(Recorded(p, day)')
          /\ Cardinality(Recorded(p, day)) \in Nat /\ Cardinality(Recorded(p, day)') \in Nat
      <4> DEFINE S == Recorded(p, day)
                 T == Recorded(p, day)'
      <4>1. S \in SUBSET Proposals /\ T \in SUBSET Proposals /\ S \subseteq T
        BY <2>1 DEF Recorded, Executions
      <4> HIDE DEF S, T
      <4>2. /\ Cardinality(S) <= Cardinality(T)
            /\ Cardinality(S) \in Nat /\ Cardinality(T) \in Nat
        BY <4>1, Smaller
      <4> QED
        BY <4>2 DEF S, T
    <3>2. MaxDaily[p] \in Nat /\ ~(Cardinality(Recorded(p, day)) < MaxDaily[p])
      BY <2>0, CapAssumption DEF UnderCap
    <3>3. ~(Cardinality(Recorded(p, day)') < MaxDaily[p])
      BY <3>1, <3>2
    <3> QED
      BY <3>3 DEF UnderCap
  <2> QED
    BY <2>0, <2>1, <2>2 DEF Closed
<1> QED
  BY <1>1, <1>2

(* Once the records of a day have reached the cap and nothing is under way,  *)
(* the policy approves no proposal until midnight: only proposals that      *)
(* overlap, or records that fail, get past a cap.                           *)
THEOREM FullDayIsOver ==
    ASSUME NEW p \in Policies, NEW d \in Nat
    PROVE  PolicySpec => [](day = d /\ ~UnderCap(p) /\ InFlight(p) = {}
                              => [](day = d => InFlight(p) = {}))
<1>1. day = d /\ ~UnderCap(p) /\ InFlight(p) = {} => Closed(p, d)
  BY DEF Closed
<1>2. PolicyInv /\ PolicyInv' /\ Closed(p, d) /\ [PolicyNext]_policyVars => Closed(p, d)'
  BY ClosedStays
<1>3. PolicyInv /\ Closed(p, d) => (day = d => InFlight(p) = {})
  BY DEF PolicyInv, PolicyTypeOK, Closed
<1> QED
  BY <1>1, <1>2, <1>3, PolicyInvariant, PTL DEF PolicySpec

=============================================================================
