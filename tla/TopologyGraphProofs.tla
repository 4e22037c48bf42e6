------------------------ MODULE TopologyGraphProofs ------------------------
(***************************************************************************)
(* Proofs about TopologyGraph, for every finite set of resources, every    *)
(* graph and any number of documents replaced during the query.            *)
(***************************************************************************)
EXTENDS TopologyGraph, FiniteSetTheorems, WellFoundedInduction, TLAPS

(* The queue of the blast radius holds nodes that were counted and are not *)
(* at the last depth, nearest first, ...                                   *)
QueueOrdered ==
    query = "blast" =>
        /\ \A i \in DOMAIN queue :
              queue[i] \in DOMAIN hop /\ hop[queue[i]] < maxDepth
        /\ \A i, j \in DOMAIN queue : i <= j => hop[queue[i]] <= hop[queue[j]]

(* ... and nothing counted is more than a hop beyond the first of them.    *)
HeadIsNear ==
    query = "blast" =>
        \A m \in DOMAIN hop, i \in DOMAIN queue : hop[m] <= hop[queue[i]] + 1

(* A neighbour, over an edge that stayed, of a node that was read has been *)
(* counted, and at no more than one hop further, ...                       *)
Relaxed ==
    \A e \in steady :
        e[1] \in read => e[2] \in DOMAIN hop /\ hop[e[2]] <= hop[e[1]] + 1

(* ... and whatever was counted was referred to by a document that was     *)
(* read, one hop nearer.                                                   *)
HopsAreReal ==
    \A n \in DOMAIN hop \ {Origin} :
        \E m \in read : hop[n] = hop[m] + 1 /\ <<m, n>> \in seen

(* A walk over edges of E within D, no node of it twice.                   *)
Simple(p, D) ==
    /\ p \in Seq(Node) /\ p # <<>>
    /\ \A i \in DOMAIN p : p[i] \in D
    /\ \A i, j \in DOMAIN p : i # j => p[i] # p[j]

Forth(p, E) == \A i \in 1 .. Len(p) - 1 : <<p[i], p[i + 1]>> \in E

Back(p, E) == \A i \in 1 .. Len(p) - 1 : <<p[i + 1], p[i]>> \in E

(* What get_path keeps of each node is a path from the source, or to the   *)
(* target, through nodes of the same side.                                 *)
ForwardPaths ==
    \A n \in DOMAIN forward :
        /\ Simple(forward[n], DOMAIN forward) /\ Forth(forward[n], seen)
        /\ forward[n][1] = Origin /\ forward[n][Len(forward[n])] = n

BackwardPaths ==
    \A n \in DOMAIN backward :
        /\ Simple(backward[n], DOMAIN backward) /\ Back(backward[n], seen)
        /\ backward[n][1] = n /\ backward[n][Len(backward[n])] = Target

(* The sides have not met.                                                 *)
Apart == query = "path" => DOMAIN forward \cap DOMAIN backward = {}

Frontiers ==
    query = "path" =>
        LET here  == IF side = "forward" THEN DOMAIN forward ELSE DOMAIN backward
            there == IF side = "forward" THEN DOMAIN backward ELSE DOMAIN forward
        IN  /\ \A i \in DOMAIN queue : queue[i] \in here
            /\ \A i \in DOMAIN level : level[i] \in here
            /\ \A i \in DOMAIN other : other[i] \in there
            /\ round < Rounds

GraphInv ==
    /\ GraphTypeOK
    /\ Origin \in DOMAIN hop /\ read \subseteq DOMAIN hop
    /\ QueueOrdered /\ HeadIsNear /\ Relaxed /\ HopsAreReal
    /\ ForwardPaths /\ BackwardPaths /\ Apart /\ Frontiers
    /\ PathIsWalk

-----------------------------------------------------------------------------
(* New neighbours come as a sequence of them.                              *)
LEMMA OrdersAreSeqs ==
    ASSUME NEW S \in SUBSET Node, NEW s \in Orders(S)
    PROVE  s \in Seq(Node) /\ \A i \in DOMAIN s : s[i] \in S
<1>1. IsFiniteSet(S)
  BY NodeAssumption, FS_Subset
<1>2. Cardinality(S) \in Nat
  BY <1>1, FS_CardinalityType
<1>3. s \in [1 .. Cardinality(S) -> S]
  BY DEF Orders
<1> QED
  BY <1>2, <1>3

(* What is left of a queue.                                                *)
LEMMA TailOf ==
    ASSUME NEW q \in Seq(Node), q # <<>>
    PROVE  /\ Tail(q) \in Seq(Node)
           /\ Head(q) = q[1] /\ 1 \in DOMAIN q /\ q[1] \in Node
           /\ DOMAIN Tail(q) = 1 .. Len(q) - 1
           /\ \A i \in DOMAIN Tail(q) : i + 1 \in DOMAIN q /\ Tail(q)[i] = q[i + 1]
  OBVIOUS

LEMMA Concatenated ==
    ASSUME NEW a \in Seq(Node), NEW b \in Seq(Node)
    PROVE  /\ a \o b \in Seq(Node)
           /\ DOMAIN (a \o b) = 1 .. Len(a) + Len(b)
           /\ \A i \in DOMAIN a : (a \o b)[i] = a[i]
           /\ \A i \in DOMAIN (a \o b) :
                 i \notin DOMAIN a =>
                     i - Len(a) \in DOMAIN b /\ (a \o b)[i] = b[i - Len(a)]
  OBVIOUS

LEMMA GraphInitInv == GraphInit => GraphInv
<1> SUFFICES ASSUME GraphInit PROVE GraphInv
  OBVIOUS
<1> USE DEF GraphInit
<1>1. GraphTypeOK
  <2>1. stored \in [Node -> Links] /\ upserts \in 0 .. MaxUpserts
    BY DepthAssumption
  <2>2. steady \subseteq Edges(stored) /\ Edges(stored) \subseteq seen
        /\ seen \subseteq Node \X Node
    BY DEF Edges
  <2>3. \E s \in SUBSET Node : hop \in [s -> 0 .. maxDepth]
    <3>1. hop \in [{Origin} -> 0 .. maxDepth] /\ {Origin} \in SUBSET Node
      BY EndsAssumption, DepthAssumption
    <3> QED
      BY <3>1
  <2>4. queue \in Seq(Node) /\ level \in Seq(Node) /\ other \in Seq(Node)
        /\ path \in Seq(Node)
    BY EndsAssumption
  <2>5. (\E s \in SUBSET Node : forward \in [s -> Walks])
        /\ (\E s \in SUBSET Node : backward \in [s -> Walks])
    <3>1. forward \in [{Origin} -> Walks] /\ backward \in [{Target} -> Walks]
          /\ {Origin} \in SUBSET Node /\ {Target} \in SUBSET Node
      BY EndsAssumption DEF Walks
    <3> QED
      BY <3>1
  <2>6. maxDepth \in Depths /\ read \in SUBSET Node /\ round \in 0 .. Rounds
        /\ side \in {"forward", "backward"}
        /\ query \in {"blast", "path", "found", "missed"}
    BY DepthAssumption
  <2> QED
    BY <2>1, <2>2, <2>3, <2>4, <2>5, <2>6 DEF GraphTypeOK
<1>2. Origin \in DOMAIN hop /\ read \subseteq DOMAIN hop
  OBVIOUS
<1>3. QueueOrdered /\ HeadIsNear
  BY EndsAssumption, DepthAssumption DEF QueueOrdered, HeadIsNear
<1>4. Relaxed /\ HopsAreReal
  BY DEF Relaxed, HopsAreReal
<1>5. ForwardPaths /\ BackwardPaths
  BY EndsAssumption DEF ForwardPaths, BackwardPaths, Simple, Forth, Back
<1>6. Apart /\ Frontiers
  <2>1. DOMAIN forward = {Origin} /\ DOMAIN backward = {Target}
    OBVIOUS
  <2>2. Apart
    BY <2>1, EndsAssumption DEF Apart
  <2>3. 0 < Rounds
    BY DepthAssumption
  <2>4. Frontiers
    <3>1. \A i \in DOMAIN queue : queue[i] \in DOMAIN forward
      BY <2>1
    <3>2. \A i \in DOMAIN level : level[i] \in DOMAIN forward
      OBVIOUS
    <3>3. \A i \in DOMAIN other : other[i] \in DOMAIN backward
      BY <2>1
    <3>4. side = "forward" /\ round < Rounds
      BY <2>3
    <3> QED
      BY <3>1, <3>2, <3>3, <3>4, Zenon DEF Frontiers
  <2> QED
    BY <2>2, <2>4
<1>7. PathIsWalk
  BY DEF PathIsWalk
<1> QED
  BY <1>1, <1>2, <1>3, <1>4, <1>5, <1>6, <1>7 DEF GraphInv

-----------------------------------------------------------------------------
(* A document that is replaced can only take from the steady edges and add *)
(* to those seen.                                                          *)
LEMMA UpsertStep == GraphInv /\ Upsert => GraphInv'
<1> SUFFICES ASSUME GraphInv, Upsert PROVE GraphInv'
  OBVIOUS
<1> USE DEF Upsert, graph, blast, search
<1>1. stored' \in [Node -> Links] /\ upserts' \in 0 .. MaxUpserts
  BY DepthAssumption DEF GraphInv, GraphTypeOK
<1>2. steady' \subseteq steady /\ seen \subseteq seen'
  OBVIOUS
<1>3. GraphTypeOK'
  <2>1. Edges(stored') \subseteq Node \X Node
    BY DEF Edges
  <2>2. steady' \subseteq Edges(stored') /\ Edges(stored') \subseteq seen'
        /\ seen' \subseteq Node \X Node
    BY <2>1 DEF GraphInv, GraphTypeOK
  <2>3. Edges(stored)' = Edges(stored')
    BY DEF Edges
  <2> QED
    BY <1>1, <2>2, <2>3 DEF GraphInv, GraphTypeOK
<1>4. (Origin \in DOMAIN hop /\ read \subseteq DOMAIN hop)'
  BY DEF GraphInv
<1>5. QueueOrdered' /\ HeadIsNear' /\ Relaxed'
  BY <1>2 DEF GraphInv, QueueOrdered, HeadIsNear, Relaxed
<1>6. HopsAreReal'
  BY <1>2 DEF GraphInv, HopsAreReal
<1>7. ForwardPaths' /\ BackwardPaths'
  BY <1>2 DEF GraphInv, ForwardPaths, BackwardPaths, Simple, Forth, Back
<1>8. Apart' /\ Frontiers' /\ PathIsWalk'
  BY DEF GraphInv, Apart, Frontiers, PathIsWalk
<1> QED
  BY <1>3, <1>4, <1>5, <1>6, <1>7, <1>8 DEF GraphInv

(* Nothing of get_path changes while a blast radius is computed.           *)
LEMMA SearchUntouched ==
    ASSUME GraphInv, query = "blast", UNCHANGED <<graph, query, search>>
    PROVE  /\ ForwardPaths' /\ BackwardPaths' /\ Apart' /\ Frontiers' /\ PathIsWalk'
  BY DEF GraphInv, graph, search, ForwardPaths, BackwardPaths, Apart, Frontiers,
         PathIsWalk, Simple, Forth, Back

LEMMA ExpandStep == GraphInv /\ Expand => GraphInv'
<1> SUFFICES ASSUME GraphInv, Expand PROVE GraphInv'
  OBVIOUS
<1> DEFINE n == Head(queue)
           d == hop[n] + 1
           U == Unvisited(n)
<1>1. query = "blast" /\ queue # <<>> /\ queue \in Seq(Node)
  BY DEF Expand, GraphInv, GraphTypeOK
<1>2. n = queue[1] /\ 1 \in DOMAIN queue /\ n \in Node
  BY <1>1, TailOf
<1>3. PICK s \in SUBSET Node : hop \in [s -> 0 .. maxDepth]
  BY DEF GraphInv, GraphTypeOK
<1>4. n \in DOMAIN hop /\ hop[n] < maxDepth /\ maxDepth \in Nat
  BY <1>1, <1>2, DepthAssumption DEF GraphInv, GraphTypeOK, QueueOrdered
<1>5. d \in 1 .. maxDepth
  BY <1>3, <1>4
<1>6. U \in SUBSET Node /\ U \cap DOMAIN hop = {}
  BY <1>2, LinksAssumption DEF GraphInv, GraphTypeOK, Unvisited
<1>7. /\ DOMAIN hop' = DOMAIN hop \cup U
      /\ \A m \in DOMAIN hop : hop'[m] = hop[m]
      /\ \A m \in U : hop'[m] = d
      /\ hop' = [m \in DOMAIN hop \cup U |-> IF m \in DOMAIN hop THEN hop[m] ELSE d]
  BY <1>6 DEF Expand, Extended, HopsBelow
<1>8. read' = read \cup {n} /\ maxDepth' = maxDepth
      /\ UNCHANGED <<stored, upserts, steady, seen, query>>
      /\ UNCHANGED <<level, other, side, round, forward, backward, path>>
  BY DEF Expand, graph, search
<1>9. PICK new \in Orders(U) :
          queue' = IF d < maxDepth THEN Tail(queue) \o new ELSE Tail(queue)
  BY DEF Expand, WorthExpanding, Queued, HopsBelow
<1>10. new \in Seq(Node) /\ \A i \in DOMAIN new : new[i] \in U
  BY <1>6, OrdersAreSeqs
<1>11. Tail(queue) \in Seq(Node) /\ DOMAIN Tail(queue) = 1 .. Len(queue) - 1
       /\ \A i \in DOMAIN Tail(queue) :
              i + 1 \in DOMAIN queue /\ Tail(queue)[i] = queue[i + 1]
  BY <1>1, TailOf
<1>12. queue' \in Seq(Node)
  BY <1>9, <1>10, <1>11, Concatenated
<1>13. hop' \in [s \cup U -> 0 .. maxDepth] /\ s \cup U \in SUBSET Node
  BY <1>3, <1>5, <1>6, <1>7
<1>14. GraphTypeOK'
  BY <1>2, <1>8, <1>12, <1>13, <1>3 DEF GraphInv, GraphTypeOK, Edges
<1>15. (Origin \in DOMAIN hop /\ read \subseteq DOMAIN hop)'
  BY <1>4, <1>7, <1>8 DEF GraphInv
(* Each entry of the new queue was behind the head, or is a new neighbour. *)
<1>16. \A i \in DOMAIN queue' :
          \/ /\ i \in DOMAIN Tail(queue) /\ i + 1 \in DOMAIN queue
             /\ queue'[i] = queue[i + 1]
             /\ queue'[i] \in DOMAIN hop /\ hop'[queue'[i]] = hop[queue[i + 1]]
          \/ /\ i \notin DOMAIN Tail(queue) /\ d < maxDepth
             /\ queue'[i] \in U /\ hop'[queue'[i]] = d
  <2> SUFFICES ASSUME NEW i \in DOMAIN queue'
               PROVE  \/ /\ i \in DOMAIN Tail(queue) /\ i + 1 \in DOMAIN queue
                         /\ queue'[i] = queue[i + 1]
                         /\ queue'[i] \in DOMAIN hop /\ hop'[queue'[i]] = hop[queue[i + 1]]
                      \/ /\ i \notin DOMAIN Tail(queue) /\ d < maxDepth
                         /\ queue'[i] \in U /\ hop'[queue'[i]] = d
    OBVIOUS
  <2>1. CASE i \in DOMAIN Tail(queue)
    <3>1. queue'[i] = Tail(queue)[i]
      BY <2>1, <1>9, <1>10, <1>11, Concatenated
    <3>2. i + 1 \in DOMAIN queue /\ queue'[i] = queue[i + 1]
      BY <2>1, <3>1, <1>11
    <3>3. queue[i + 1] \in DOMAIN hop
      BY <3>2, <1>1 DEF GraphInv, QueueOrdered
    <3> QED
      BY <2>1, <3>2, <3>3, <1>7
  <2>2. CASE i \notin DOMAIN Tail(queue)
    <3>1. d < maxDepth /\ queue' = Tail(queue) \o new
      BY <2>2, <1>9
    <3>2. i - Len(Tail(queue)) \in DOMAIN new /\ queue'[i] = new[i - Len(Tail(queue))]
      BY <2>2, <3>1, <1>10, <1>11, Concatenated
    <3> QED
      BY <2>2, <3>1, <3>2, <1>10, <1>7
  <2> QED
    BY <2>1, <2>2
<1>17. \A m \in DOMAIN hop : hop[m] \in Nat /\ hop[m] <= d
  BY <1>1, <1>2, <1>3 DEF GraphInv, HeadIsNear
<1>18. \A i \in DOMAIN queue : queue[i] \in DOMAIN hop /\ hop[queue[i]] < maxDepth
                             /\ d - 1 <= hop[queue[i]]
  <2> SUFFICES ASSUME NEW i \in DOMAIN queue
               PROVE  queue[i] \in DOMAIN hop /\ hop[queue[i]] < maxDepth
                        /\ d - 1 <= hop[queue[i]]
    OBVIOUS
  <2>1. queue[i] \in DOMAIN hop /\ hop[queue[i]] < maxDepth
    BY <1>1 DEF GraphInv, QueueOrdered
  <2>2. 1 <= i
    BY <1>1
  <2>3. hop[n] <= hop[queue[i]]
    BY <1>1, <1>2, <2>2 DEF GraphInv, QueueOrdered
  <2> QED
    BY <2>1, <2>3, <1>3, <1>4
<1>19. QueueOrdered'
  <2>1. \A i \in DOMAIN queue' : queue'[i] \in DOMAIN hop' /\ hop'[queue'[i]] < maxDepth
    BY <1>16, <1>18, <1>7
  <2>2. ASSUME NEW i \in DOMAIN queue', NEW j \in DOMAIN queue', i <= j
        PROVE  hop'[queue'[i]] <= hop'[queue'[j]]
    <3>1. i \in Nat /\ j \in Nat
      BY <1>12
    <3>2. j \in DOMAIN Tail(queue) => i \in DOMAIN Tail(queue)
      BY <2>2, <3>1, <1>11, <1>12
    <3>3. CASE j \in DOMAIN Tail(queue)
      <4>1. hop'[queue'[i]] = hop[queue[i + 1]] /\ hop'[queue'[j]] = hop[queue[j + 1]]
            /\ i + 1 \in DOMAIN queue /\ j + 1 \in DOMAIN queue
        BY <3>2, <3>3, <1>16
      <4>2. i + 1 <= j + 1
        BY <2>2, <3>1
      <4> QED
        BY <4>1, <4>2, <1>1 DEF GraphInv, QueueOrdered
    <3>4. CASE j \notin DOMAIN Tail(queue)
      <4>1. hop'[queue'[j]] = d
        BY <3>4, <1>16
      <4>2. hop'[queue'[i]] <= d
        BY <1>16, <1>17, <1>18, <1>5
      <4> QED
        BY <4>1, <4>2
    <3> QED
      BY <3>3, <3>4
  <2> QED
    BY <2>1, <2>2, <1>8 DEF QueueOrdered
<1>20. HeadIsNear'
  <2> SUFFICES ASSUME NEW m \in DOMAIN hop', NEW i \in DOMAIN queue'
               PROVE  hop'[m] <= hop'[queue'[i]] + 1
    BY DEF HeadIsNear
  <2>1. hop'[m] \in Nat /\ hop'[m] <= d
    BY <1>5, <1>7, <1>17
  <2>2. hop'[queue'[i]] \in Nat /\ d - 1 <= hop'[queue'[i]]
    BY <1>16, <1>17, <1>18, <1>5
  <2> QED
    BY <2>1, <2>2, <1>5
<1>21. Relaxed'
  <2> SUFFICES ASSUME NEW e \in steady, e[1] \in read'
               PROVE  e[2] \in DOMAIN hop' /\ hop'[e[2]] <= hop'[e[1]] + 1
    BY <1>8 DEF Relaxed
  <2>1. CASE e[1] \in read
    BY <2>1, <1>7 DEF GraphInv, Relaxed
  <2>2. CASE e[1] = n
    <3>1. e[2] \in stored[n]
      BY <2>2 DEF GraphInv, GraphTypeOK, Edges
    <3>2. e[2] \in DOMAIN hop \/ e[2] \in U
      BY <3>1 DEF Unvisited
    <3> QED
      BY <2>2, <3>2, <1>4, <1>5, <1>7, <1>17
  <2> QED
    BY <2>1, <2>2, <1>8
<1>22. HopsAreReal'
  <2> SUFFICES ASSUME NEW m \in DOMAIN hop' \ {Origin}
               PROVE  \E k \in read' : hop'[m] = hop'[k] + 1 /\ <<k, m>> \in seen'
    BY DEF HopsAreReal
  <2>1. CASE m \in DOMAIN hop
    <3>1. PICK k \in read : hop[m] = hop[k] + 1 /\ <<k, m>> \in seen
      BY <2>1 DEF GraphInv, HopsAreReal
    <3> QED
      BY <2>1, <3>1, <1>7, <1>8 DEF GraphInv
  <2>2. CASE m \in U
    <3>1. <<n, m>> \in Edges(stored)
      BY <2>2, <1>2, <1>6 DEF Unvisited, Edges
    <3> QED
      BY <2>2, <3>1, <1>4, <1>7, <1>8 DEF GraphInv, GraphTypeOK
  <2> QED
    BY <2>1, <2>2, <1>7
<1>23. ForwardPaths' /\ BackwardPaths' /\ Apart' /\ Frontiers' /\ PathIsWalk'
  BY <1>1, SearchUntouched DEF Expand
<1> QED
  BY <1>14, <1>15, <1>19, <1>20, <1>21, <1>22, <1>23 DEF GraphInv

LEMMA PassOverStep == GraphInv /\ PassOver => GraphInv'
<1> SUFFICES ASSUME GraphInv, PassOver PROVE GraphInv'
  OBVIOUS
<1>1. query = "blast" /\ queue # <<>> /\ queue \in Seq(Node) /\ queue' = Tail(queue)
      /\ UNCHANGED <<graph, query, blast, search>>
  BY DEF PassOver, GraphInv, GraphTypeOK
<1>2. queue' \in Seq(Node) /\ DOMAIN queue' = 1 .. Len(queue) - 1
      /\ \A i \in DOMAIN queue' : i + 1 \in DOMAIN queue /\ queue'[i] = queue[i + 1]
  BY <1>1, TailOf
<1>3. GraphTypeOK' /\ (Origin \in DOMAIN hop /\ read \subseteq DOMAIN hop)'
  BY <1>1, <1>2 DEF GraphInv, GraphTypeOK, graph, blast, search, Edges
<1>4. QueueOrdered'
  <2>1. \A i \in DOMAIN queue' : queue'[i] \in DOMAIN hop /\ hop[queue'[i]] < maxDepth
    BY <1>1, <1>2 DEF GraphInv, QueueOrdered
  <2>2. ASSUME NEW i \in DOMAIN queue', NEW j \in DOMAIN queue', i <= j
        PROVE  hop[queue'[i]] <= hop[queue'[j]]
    <3>1. i + 1 <= j + 1
      BY <2>2, <1>2
    <3> QED
      BY <3>1, <1>1, <1>2 DEF GraphInv, QueueOrdered
  <2> QED
    BY <1>1, <2>1, <2>2 DEF QueueOrdered, blast
<1>5. HeadIsNear'
  BY <1>1, <1>2 DEF GraphInv, HeadIsNear, blast
<1>6. Relaxed' /\ HopsAreReal'
  BY <1>1 DEF GraphInv, Relaxed, HopsAreReal, graph, blast
<1>7. ForwardPaths' /\ BackwardPaths' /\ Apart' /\ Frontiers' /\ PathIsWalk'
  BY <1>1, SearchUntouched
<1> QED
  BY <1>3, <1>4, <1>5, <1>6, <1>7 DEF GraphInv

-----------------------------------------------------------------------------
(* Nothing of the blast radius changes while a path is sought.             *)
LEMMA BlastUntouched ==
    ASSUME GraphInv, query = "path", UNCHANGED <<graph, blast>>,
           query' \in {"path", "found", "missed"}
    PROVE  /\ Origin \in DOMAIN hop' /\ read' \subseteq DOMAIN hop'
           /\ QueueOrdered' /\ HeadIsNear' /\ Relaxed' /\ HopsAreReal'
  BY DEF GraphInv, graph, blast, QueueOrdered, HeadIsNear, Relaxed, HopsAreReal

(* A path and a node that is not on it.                                    *)
LEMMA PathExtended ==
    ASSUME NEW D \in SUBSET Node, NEW m \in Node \ D, NEW p, Simple(p, D)
    PROVE  /\ Simple(Append(p, m), D \cup {m}) /\ Simple(<<m>> \o p, D \cup {m})
           /\ Append(p, m)[1] = p[1] /\ (<<m>> \o p)[1] = m
           /\ Append(p, m)[Len(Append(p, m))] = m
           /\ (<<m>> \o p)[Len(<<m>> \o p)] = p[Len(p)]
           /\ \A E : Forth(p, E) /\ <<p[Len(p)], m>> \in E => Forth(Append(p, m), E)
           /\ \A E : Back(p, E) /\ <<p[1], m>> \in E => Back(<<m>> \o p, E)
<1> DEFINE a == Append(p, m)
           b == <<m>> \o p
<1>0. Len(p) \in Nat \ {0}
  BY DEF Simple
<1>1. p \in Seq(Node) /\ Len(p) \in Nat \ {0} /\ DOMAIN p = 1 .. Len(p)
  BY DEF Simple
<1>2. a \in Seq(Node) /\ Len(a) = Len(p) + 1 /\ DOMAIN a = 1 .. Len(p) + 1
      /\ a[Len(p) + 1] = m /\ \A i \in 1 .. Len(p) : a[i] = p[i]
  BY <1>1
<1>3. b \in Seq(Node) /\ Len(b) = Len(p) + 1 /\ DOMAIN b = 1 .. Len(p) + 1
      /\ b[1] = m /\ \A i \in 2 .. Len(p) + 1 : b[i] = p[i - 1]
  BY <1>1
<1>4. \A i \in DOMAIN p : p[i] \in D /\ p[i] # m
  BY DEF Simple
<1>5. Simple(a, D \cup {m})
  <2>1. \A i \in DOMAIN a : a[i] \in D \cup {m}
    BY <1>1, <1>2, <1>4
  <2>2. ASSUME NEW i \in DOMAIN a, NEW j \in DOMAIN a, i # j
        PROVE  a[i] # a[j]
    <3>1. \A k, l \in DOMAIN p : k # l => p[k] # p[l]
      BY DEF Simple
    <3> QED
      BY <2>2, <3>1, <1>1, <1>2, <1>4
  <2> QED
    BY <1>1, <1>2, <2>1, <2>2 DEF Simple
<1>6. Simple(b, D \cup {m})
  <2>1. \A i \in DOMAIN b : b[i] \in D \cup {m}
    <3> SUFFICES ASSUME NEW i \in DOMAIN b PROVE b[i] \in D \cup {m}
      OBVIOUS
    <3>1. CASE i = 1
      BY <3>1, <1>3
    <3>2. CASE i # 1
      <4>1. i \in 2 .. Len(p) + 1 /\ i - 1 \in DOMAIN p
        BY <3>2, <1>1, <1>3
      <4> QED
        BY <4>1, <1>3, <1>4
    <3> QED
      BY <3>1, <3>2
  <2>2. ASSUME NEW i \in DOMAIN b, NEW j \in DOMAIN b, i # j
        PROVE  b[i] # b[j]
    <3>1. \A k, l \in DOMAIN p : k # l => p[k] # p[l]
      BY DEF Simple
    <3>2. \A k \in DOMAIN b : k = 1 \/ (k \in 2 .. Len(p) + 1 /\ k - 1 \in DOMAIN p)
      BY <1>1, <1>3
    <3>3. CASE i = 1 \/ j = 1
      BY <2>2, <3>2, <3>3, <1>3, <1>4
    <3>4. CASE i # 1 /\ j # 1
      <4>1. i - 1 # j - 1
        BY <2>2, <1>3
      <4> QED
        BY <3>1, <3>2, <3>4, <4>1, <1>3
    <3> QED
      BY <3>3, <3>4
  <2> QED
    BY <1>3, <1>1, <2>1, <2>2 DEF Simple
<1>7. ASSUME NEW E, Forth(p, E), <<p[Len(p)], m>> \in E
      PROVE  Forth(a, E)
  <2> SUFFICES ASSUME NEW i \in 1 .. Len(p) PROVE <<a[i], a[i + 1]>> \in E
    BY <1>1, <1>2 DEF Forth
  <2>1. CASE i = Len(p)
    BY <2>1, <1>1, <1>2, <1>7
  <2>2. CASE i # Len(p)
    <3>1. i \in 1 .. Len(p) - 1 /\ i + 1 \in 1 .. Len(p)
      BY <2>2, <1>0
    <3>2. a[i] = p[i] /\ a[i + 1] = p[i + 1]
      BY <3>1, <1>2
    <3> QED
      BY <3>1, <3>2, <1>7 DEF Forth
  <2> QED
    BY <2>1, <2>2
<1>8. ASSUME NEW E, Back(p, E), <<p[1], m>> \in E
      PROVE  Back(b, E)
  <2> SUFFICES ASSUME NEW i \in 1 .. Len(p) PROVE <<b[i + 1], b[i]>> \in E
    BY <1>1, <1>3 DEF Back
  <2>1. CASE i = 1
    BY <2>1, <1>1, <1>3, <1>8
  <2>2. CASE i # 1
    <3>1. i - 1 \in 1 .. Len(p) - 1 /\ b[i] = p[i - 1] /\ b[i + 1] = p[(i - 1) + 1]
      BY <2>2, <1>1, <1>3
    <3> QED
      BY <3>1, <1>8 DEF Back
  <2> QED
    BY <2>1, <2>2
<1>9. a[1] = p[1] /\ a[Len(a)] = m /\ b[Len(b)] = p[Len(p)]
  BY <1>1, <1>2, <1>3
<1> QED
  BY <1>3, <1>5, <1>6, <1>7, <1>8, <1>9

(* What PathIsWalk says of the answer.                                     *)
Walk(w, E, first, last) ==
    /\ w \in Seq(Node) /\ w[1] = first /\ w[Len(w)] = last
    /\ \A i \in 1 .. Len(w) - 1 : <<w[i], w[i + 1]>> \in E \/ <<w[i + 1], w[i]>> \in E
    /\ \A i, j \in DOMAIN w : i # j => w[i] # w[j]

(* Two paths over different nodes, and an edge between them.               *)
LEMMA PathsJoined ==
    ASSUME NEW D, NEW B, D \cap B = {}, NEW p, NEW q, NEW E,
           Simple(p, D), Simple(q, B), Forth(p, E), Back(q, E),
           <<p[Len(p)], q[1]>> \in E \/ <<q[1], p[Len(p)]>> \in E
    PROVE  Walk(p \o q, E, p[1], q[Len(q)])
<1> DEFINE w == p \o q
<1>0. Len(p) \in Nat \ {0} /\ Len(q) \in Nat \ {0}
  BY DEF Simple
<1>1. p \in Seq(Node) /\ Len(p) \in Nat \ {0} /\ DOMAIN p = 1 .. Len(p)
      /\ q \in Seq(Node) /\ Len(q) \in Nat \ {0} /\ DOMAIN q = 1 .. Len(q)
  BY DEF Simple
<1>9. Len(w) = Len(p) + Len(q)
  BY <1>1
<1>2. w \in Seq(Node) /\ Len(w) = Len(p) + Len(q) /\ DOMAIN w = 1 .. Len(p) + Len(q)
  BY <1>1
<1>3. \A i \in DOMAIN p : i \in DOMAIN w /\ w[i] = p[i] /\ w[i] \in D
  BY <1>1 DEF Simple
<1>4. \A i \in DOMAIN w :
          i \notin DOMAIN p => i - Len(p) \in DOMAIN q /\ w[i] = q[i - Len(p)] /\ w[i] \in B
  BY <1>1 DEF Simple
<1>5. w[1] = p[1] /\ w[Len(w)] = q[Len(q)]
  BY <1>1, <1>2
<1>8. \A i \in 1 .. Len(q) : w[Len(p) + i] = q[i]
  BY <1>1
<1> HIDE DEF w
<1>6. ASSUME NEW i \in 1 .. Len(w) - 1
      PROVE  <<w[i], w[i + 1]>> \in E \/ <<w[i + 1], w[i]>> \in E
  <2>1. i \in 1 .. Len(p) + Len(q) - 1 /\ i \in Nat
    BY <1>0, <1>9
  <2>2. CASE i < Len(p)
    <3>1. i \in 1 .. Len(p) - 1 /\ i \in 1 .. Len(p) /\ i + 1 \in 1 .. Len(p)
      BY <2>1, <2>2, <1>0
    <3>2. w[i] = p[i] /\ w[i + 1] = p[i + 1]
      BY <3>1, <1>1, <1>3
    <3> QED
      BY <3>1, <3>2 DEF Forth
  <2>3. CASE i = Len(p)
    <3>1. w[i] = p[Len(p)] /\ w[i + 1] = q[1]
      BY <2>3, <1>1, <1>2, <1>3, <1>8
    <3> QED
      BY <3>1
  <2>4. CASE Len(p) < i
    <3>1. /\ i - Len(p) \in 1 .. Len(q) - 1
          /\ w[i] = q[i - Len(p)] /\ w[i + 1] = q[(i - Len(p)) + 1]
      <4>1. i - Len(p) \in 1 .. Len(q) - 1 /\ (i - Len(p)) + 1 \in 1 .. Len(q)
            /\ i = Len(p) + (i - Len(p)) /\ i + 1 = Len(p) + ((i - Len(p)) + 1)
        BY <2>1, <2>4, <1>0
      <4> QED
        BY <4>1, <1>8
    <3> QED
      BY <3>1 DEF Back
  <2> QED
    BY <2>1, <2>2, <2>3, <2>4, <1>0
<1>7. ASSUME NEW i \in DOMAIN w, NEW j \in DOMAIN w, i # j
      PROVE  w[i] # w[j]
  <2>1. CASE i \in DOMAIN p /\ j \in DOMAIN p
    BY <1>7, <2>1, <1>3 DEF Simple
  <2>2. CASE i \notin DOMAIN p /\ j \notin DOMAIN p
    <3>1. i - Len(p) # j - Len(p)
      BY <1>7, <1>0, <1>2, <1>9
    <3> QED
      BY <2>2, <3>1, <1>4 DEF Simple
  <2>3. CASE i \in DOMAIN p /\ j \notin DOMAIN p
    BY <2>3, <1>3, <1>4
  <2>4. CASE i \notin DOMAIN p /\ j \in DOMAIN p
    BY <2>4, <1>3, <1>4
  <2> QED
    BY <2>1, <2>2, <2>3, <2>4
<1> QED
  BY <1>2, <1>5, <1>6, <1>7 DEF w, Walk

LEMMA SpliceFront ==
    ASSUME NEW p \in Seq(Node), NEW q \in Seq(Node), q # <<>>, NEW m \in Node, q[1] = m
    PROVE  Append(p, m) \o Tail(q) = p \o q
<1> DEFINE a == Append(p, m) \o Tail(q)
           b == p \o q
<1>1. a \in Seq(Node) /\ b \in Seq(Node) /\ Len(a) = Len(b)
  OBVIOUS
<1>2. \A i \in 1 .. Len(b) : a[i] = b[i]
  OBVIOUS
<1> QED
  BY <1>1, <1>2

LEMMA TailOfCons ==
    ASSUME NEW q \in Seq(Node), NEW m \in Node
    PROVE  Tail(<<m>> \o q) = q
  OBVIOUS

LEMMA ForwardUntouched ==
    ASSUME ForwardPaths, forward' = forward, seen' = seen
    PROVE  ForwardPaths'
  BY DEF ForwardPaths, Simple, Forth

LEMMA BackwardUntouched ==
    ASSUME BackwardPaths, backward' = backward, seen' = seen
    PROVE  BackwardPaths'
  BY DEF BackwardPaths, Simple, Back

(* Sides that have grown.                                                  *)
LEMMA SimpleGrows ==
    ASSUME NEW D, NEW B, D \subseteq B, NEW p, Simple(p, D)
    PROVE  Simple(p, B)
  BY DEF Simple

(* What is known of the node in turn.                                      *)
LEMMA InTurn ==
    ASSUME GraphInv, Searching
    PROVE  /\ query = "path" /\ Head(queue) \in Node
           /\ stored[Head(queue)] \in SUBSET Node
           /\ \A m \in stored[Head(queue)] : <<Head(queue), m>> \in seen
           /\ side = "forward" => Head(queue) \in DOMAIN forward
           /\ side = "backward" => Head(queue) \in DOMAIN backward
           /\ DOMAIN forward \cap DOMAIN backward = {}
           /\ DOMAIN forward \in SUBSET Node /\ DOMAIN backward \in SUBSET Node
           /\ Tail(queue) \in Seq(Node)
           /\ \A i \in DOMAIN Tail(queue) : i + 1 \in DOMAIN queue /\ Tail(queue)[i] = queue[i + 1]
<1>1. query = "path" /\ queue # <<>> /\ queue \in Seq(Node) /\ GraphTypeOK
  BY DEF Searching, GraphInv, GraphTypeOK
<1>2. Head(queue) = queue[1] /\ 1 \in DOMAIN queue /\ queue[1] \in Node
      /\ Tail(queue) \in Seq(Node)
      /\ \A i \in DOMAIN Tail(queue) : i + 1 \in DOMAIN queue /\ Tail(queue)[i] = queue[i + 1]
  BY <1>1, TailOf
<1>3. stored[Head(queue)] \in SUBSET Node
  BY <1>1, <1>2, LinksAssumption DEF GraphTypeOK
<1>4. \A m \in stored[Head(queue)] : <<Head(queue), m>> \in Edges(stored)
  BY <1>2, <1>3 DEF Edges
<1>5. (side = "forward" => Head(queue) \in DOMAIN forward)
      /\ (side = "backward" => Head(queue) \in DOMAIN backward)
  BY <1>1, <1>2 DEF GraphInv, Frontiers
<1>6. DOMAIN forward \in SUBSET Node /\ DOMAIN backward \in SUBSET Node
  BY <1>1 DEF GraphTypeOK
<1>7. DOMAIN forward \cap DOMAIN backward = {}
  BY <1>1 DEF GraphInv, Apart
<1> QED
  BY <1>1, <1>2, <1>3, <1>4, <1>5, <1>6, <1>7 DEF GraphTypeOK

LEMMA MeetForwardStep == GraphInv /\ MeetForward => GraphInv'
<1> SUFFICES ASSUME GraphInv, MeetForward PROVE GraphInv'
  OBVIOUS
<1> DEFINE n == Head(queue)
<1>1. Searching /\ side = "forward" /\ query' = "found"
      /\ UNCHANGED <<graph, queue, blast, level, other, side, round, forward, backward>>
  BY DEF MeetForward
<1>2. PICK m \in stored[n] \cap DOMAIN backward :
          path' = Joined(IF m \in DOMAIN forward THEN forward[m] ELSE Append(forward[n], m),
                         backward[m])
  BY DEF MeetForward
<1>3. n \in DOMAIN forward /\ m \notin DOMAIN forward /\ m \in Node /\ <<n, m>> \in seen
      /\ DOMAIN forward \cap DOMAIN backward = {}
  BY <1>1, <1>2, InTurn
<1>4. Simple(forward[n], DOMAIN forward) /\ Forth(forward[n], seen)
      /\ forward[n][1] = Origin /\ forward[n][Len(forward[n])] = n
  BY <1>3 DEF GraphInv, ForwardPaths
<1>5. Simple(backward[m], DOMAIN backward) /\ Back(backward[m], seen)
      /\ backward[m][1] = m /\ backward[m][Len(backward[m])] = Target
  BY <1>2 DEF GraphInv, BackwardPaths
<1>6. path' = Append(forward[n], m) \o Tail(backward[m])
  BY <1>2, <1>3 DEF Joined
<1>7. path' = forward[n] \o backward[m]
  <2>1. forward[n] \in Seq(Node) /\ backward[m] \in Seq(Node) /\ backward[m] # <<>>
    BY <1>4, <1>5 DEF Simple
  <2> QED
    BY <2>1, <1>3, <1>5, <1>6, SpliceFront
<1>8. path' \in Seq(Node) /\ PathIsWalk'
  <2>1. <<forward[n][Len(forward[n])], backward[m][1]>> \in seen
    BY <1>3, <1>4, <1>5
  <2>2. seen' = seen
    BY <1>1 DEF graph
  <2>3. Walk(forward[n] \o backward[m], seen, forward[n][1], backward[m][Len(backward[m])])
    BY <1>3, <1>4, <1>5, <2>1, PathsJoined
  <2>4. Walk(path', seen, Origin, Target)
    BY <1>4, <1>5, <1>7, <2>3
  <2> QED
    BY <2>2, <2>4 DEF PathIsWalk, Walk
<1>9. GraphTypeOK'
  BY <1>1, <1>8 DEF GraphInv, GraphTypeOK, graph, blast, Edges
<1>10. ForwardPaths' /\ BackwardPaths'
  BY <1>1, ForwardUntouched, BackwardUntouched DEF GraphInv, graph
<1>11. Apart' /\ Frontiers'
  BY <1>1 DEF Apart, Frontiers
<1>12. query = "path"
  BY <1>1 DEF Searching
<1>13. /\ Origin \in DOMAIN hop' /\ read' \subseteq DOMAIN hop'
       /\ QueueOrdered' /\ HeadIsNear' /\ Relaxed' /\ HopsAreReal'
  BY <1>1, <1>12, BlastUntouched
<1> QED
  BY <1>8, <1>9, <1>10, <1>11, <1>13 DEF GraphInv

LEMMA MeetBackwardStep == GraphInv /\ MeetBackward => GraphInv'
<1> SUFFICES ASSUME GraphInv, MeetBackward PROVE GraphInv'
  OBVIOUS
<1> DEFINE n == Head(queue)
<1>1. Searching /\ side = "backward" /\ query' = "found"
      /\ UNCHANGED <<graph, queue, blast, level, other, side, round, forward, backward>>
  BY DEF MeetBackward
<1>2. PICK m \in stored[n] \cap DOMAIN forward :
          path' = Joined(forward[m],
                         IF m \in DOMAIN backward THEN backward[m] ELSE <<m>> \o backward[n])
  BY DEF MeetBackward
<1>3. n \in DOMAIN backward /\ m \notin DOMAIN backward /\ m \in Node /\ <<n, m>> \in seen
      /\ DOMAIN forward \cap DOMAIN backward = {}
  BY <1>1, <1>2, InTurn
<1>4. Simple(forward[m], DOMAIN forward) /\ Forth(forward[m], seen)
      /\ forward[m][1] = Origin /\ forward[m][Len(forward[m])] = m
  BY <1>2 DEF GraphInv, ForwardPaths
<1>5. Simple(backward[n], DOMAIN backward) /\ Back(backward[n], seen)
      /\ backward[n][1] = n /\ backward[n][Len(backward[n])] = Target
  BY <1>3 DEF GraphInv, BackwardPaths
<1>6. path' = forward[m] \o Tail(<<m>> \o backward[n])
  BY <1>2, <1>3 DEF Joined
<1>7. path' = forward[m] \o backward[n]
  <2>1. backward[n] \in Seq(Node)
    BY <1>5 DEF Simple
  <2>2. Tail(<<m>> \o backward[n]) = backward[n]
    BY <2>1, <1>3, TailOfCons
  <2> QED
    BY <2>2, <1>6
<1>8. path' \in Seq(Node) /\ PathIsWalk'
  <2>1. <<backward[n][1], forward[m][Len(forward[m])]>> \in seen
    BY <1>3, <1>4, <1>5
  <2>2. seen' = seen
    BY <1>1 DEF graph
  <2>3. Walk(forward[m] \o backward[n], seen, forward[m][1], backward[n][Len(backward[n])])
    BY <1>3, <1>4, <1>5, <2>1, PathsJoined
  <2>4. Walk(path', seen, Origin, Target)
    BY <1>4, <1>5, <1>7, <2>3
  <2> QED
    BY <2>2, <2>4 DEF PathIsWalk, Walk
<1>9. GraphTypeOK'
  BY <1>1, <1>8 DEF GraphInv, GraphTypeOK, graph, blast, Edges
<1>10. ForwardPaths' /\ BackwardPaths'
  BY <1>1, ForwardUntouched, BackwardUntouched DEF GraphInv, graph
<1>11. Apart' /\ Frontiers'
  BY <1>1 DEF Apart, Frontiers
<1>12. query = "path"
  BY <1>1 DEF Searching
<1>13. /\ Origin \in DOMAIN hop' /\ read' \subseteq DOMAIN hop'
       /\ QueueOrdered' /\ HeadIsNear' /\ Relaxed' /\ HopsAreReal'
  BY <1>1, <1>12, BlastUntouched
<1> QED
  BY <1>8, <1>9, <1>10, <1>11, <1>13 DEF GraphInv

LEMMA ExpandForwardStep == GraphInv /\ ExpandForward => GraphInv'
<1> SUFFICES ASSUME GraphInv, ExpandForward PROVE GraphInv'
  OBVIOUS
<1> DEFINE n == Head(queue)
           new == stored[n] \ DOMAIN forward
<1>1. Searching /\ side = "forward" /\ queue' = Tail(queue)
      /\ UNCHANGED <<graph, query, blast, other, side, round, backward, path>>
      /\ stored[n] \cap DOMAIN backward = {}
  BY DEF ExpandForward
<1>2. /\ query = "path" /\ n \in Node /\ n \in DOMAIN forward /\ new \in SUBSET Node
      /\ \A m \in new : <<n, m>> \in seen
      /\ DOMAIN forward \in SUBSET Node
      /\ DOMAIN forward \cap DOMAIN backward = {}
      /\ Tail(queue) \in Seq(Node)
      /\ \A i \in DOMAIN Tail(queue) : i + 1 \in DOMAIN queue /\ Tail(queue)[i] = queue[i + 1]
  BY <1>1, InTurn
<1>3. /\ DOMAIN forward' = DOMAIN forward \cup new
      /\ \A m \in DOMAIN forward : forward'[m] = forward[m]
      /\ \A m \in new : forward'[m] = Append(forward[n], m)
      /\ forward' = [m \in DOMAIN forward \cup new |->
                        IF m \in DOMAIN forward THEN forward[m] ELSE Append(forward[n], m)]
  BY DEF ExpandForward, Extended
<1>4. PICK s \in Orders(new) : level' = level \o s
  BY DEF ExpandForward
<1>5. s \in Seq(Node) /\ \A i \in DOMAIN s : s[i] \in new
  BY <1>2, <1>4, OrdersAreSeqs
<1>6. Simple(forward[n], DOMAIN forward) /\ Forth(forward[n], seen)
      /\ forward[n][1] = Origin /\ forward[n][Len(forward[n])] = n
  BY <1>2 DEF GraphInv, ForwardPaths
<1>7. ForwardPaths'
  <2> SUFFICES ASSUME NEW m \in DOMAIN forward'
               PROVE  /\ Simple(forward'[m], DOMAIN forward') /\ Forth(forward'[m], seen)
                      /\ forward'[m][1] = Origin
                      /\ forward'[m][Len(forward'[m])] = m
    BY <1>1 DEF ForwardPaths, graph, Simple, Forth
  <2>1. CASE m \in DOMAIN forward
    <3>1. Simple(forward[m], DOMAIN forward) /\ Forth(forward[m], seen)
          /\ forward[m][1] = Origin /\ forward[m][Len(forward[m])] = m
      BY <2>1 DEF GraphInv, ForwardPaths
    <3> QED
      BY <2>1, <3>1, <1>3, SimpleGrows
  <2>2. CASE m \in new
    <3> DEFINE p == Append(forward[n], m)
    <3>1. forward'[m] = p /\ m \in Node \ DOMAIN forward /\ <<n, m>> \in seen
      BY <2>2, <1>2, <1>3
    <3>2. <<forward[n][Len(forward[n])], m>> \in seen
      BY <1>6, <3>1
    <3>3. Simple(p, DOMAIN forward \cup {m}) /\ Forth(p, seen)
      BY <1>2, <1>6, <3>1, <3>2, PathExtended
    <3>4. p[1] = Origin /\ p[Len(p)] = m
      <4>1. forward[n] \in Seq(Node) /\ forward[n] # <<>> /\ m \in Node
        BY <1>6, <3>1 DEF Simple
      <4>2. p[1] = forward[n][1] /\ p[Len(p)] = m
        BY <4>1
      <4> QED
        BY <4>2, <1>6
    <3>5. Simple(p, DOMAIN forward')
      BY <2>2, <1>3, <3>3, SimpleGrows
    <3> HIDE DEF p
    <3> QED
      BY <3>1, <3>3, <3>4, <3>5
  <2> QED
    BY <2>1, <2>2, <1>3
<1>8. BackwardPaths'
  BY <1>1, BackwardUntouched DEF GraphInv, graph
<1>9. level' \in Seq(Node) /\ \A i \in DOMAIN level' : level'[i] \in DOMAIN forward'
  <2>1. level \in Seq(Node) /\ \A i \in DOMAIN level : level[i] \in DOMAIN forward
    BY <1>1, <1>2 DEF GraphInv, GraphTypeOK, Frontiers
  <2>2. level' \in Seq(Node) /\ \A i \in DOMAIN level' :
            level'[i] \in DOMAIN forward \/ level'[i] \in new
    BY <2>1, <1>4, <1>5, Concatenated
  <2> QED
    BY <2>2, <1>3
<1>10. Frontiers'
  <2>1. /\ \A i \in DOMAIN queue : queue[i] \in DOMAIN forward
        /\ \A i \in DOMAIN other : other[i] \in DOMAIN backward
        /\ round < Rounds
    BY <1>1, <1>2 DEF GraphInv, Frontiers
  <2>2. \A i \in DOMAIN queue' : queue'[i] \in DOMAIN forward'
    BY <2>1, <1>1, <1>2, <1>3
  <2> QED
    BY <2>1, <2>2, <1>1, <1>9 DEF Frontiers
<1>11. Apart'
  BY <1>1, <1>2, <1>3 DEF Apart
<1>12. GraphTypeOK'
  <2>1. \A m \in DOMAIN forward' : forward'[m] \in Walks
    BY <1>7 DEF ForwardPaths, Simple, Walks
  <2>2. DOMAIN forward' \in SUBSET Node /\ forward' \in [DOMAIN forward' -> Walks]
    BY <2>1, <1>2, <1>3
  <2> QED
    BY <2>2, <1>1, <1>2, <1>9 DEF GraphInv, GraphTypeOK, graph, blast, Edges
<1>13. PathIsWalk'
  BY <1>1, <1>2 DEF PathIsWalk
<1>14. /\ Origin \in DOMAIN hop' /\ read' \subseteq DOMAIN hop'
       /\ QueueOrdered' /\ HeadIsNear' /\ Relaxed' /\ HopsAreReal'
  BY <1>1, <1>2, BlastUntouched
<1> QED
  BY <1>7, <1>8, <1>10, <1>11, <1>12, <1>13, <1>14 DEF GraphInv

LEMMA ExpandBackwardStep == GraphInv /\ ExpandBackward => GraphInv'
<1> SUFFICES ASSUME GraphInv, ExpandBackward PROVE GraphInv'
  OBVIOUS
<1> DEFINE n == Head(queue)
           new == stored[n] \ DOMAIN backward
<1>1. Searching /\ side = "backward" /\ queue' = Tail(queue)
      /\ UNCHANGED <<graph, query, blast, other, side, round, forward, path>>
      /\ stored[n] \cap DOMAIN forward = {}
  BY DEF ExpandBackward
<1>2. /\ query = "path" /\ n \in Node /\ n \in DOMAIN backward /\ new \in SUBSET Node
      /\ \A m \in new : <<n, m>> \in seen
      /\ DOMAIN backward \in SUBSET Node
      /\ DOMAIN forward \cap DOMAIN backward = {}
      /\ Tail(queue) \in Seq(Node)
      /\ \A i \in DOMAIN Tail(queue) : i + 1 \in DOMAIN queue /\ Tail(queue)[i] = queue[i + 1]
  BY <1>1, InTurn
<1>3. /\ DOMAIN backward' = DOMAIN backward \cup new
      /\ \A m \in DOMAIN backward : backward'[m] = backward[m]
      /\ \A m \in new : backward'[m] = <<m>> \o backward[n]
      /\ backward' = [m \in DOMAIN backward \cup new |->
                        IF m \in DOMAIN backward THEN backward[m] ELSE <<m>> \o backward[n]]
  BY DEF ExpandBackward, Extended
<1>4. PICK s \in Orders(new) : level' = level \o s
  BY DEF ExpandBackward
<1>5. s \in Seq(Node) /\ \A i \in DOMAIN s : s[i] \in new
  BY <1>2, <1>4, OrdersAreSeqs
<1>6. Simple(backward[n], DOMAIN backward) /\ Back(backward[n], seen)
      /\ backward[n][1] = n /\ backward[n][Len(backward[n])] = Target
  BY <1>2 DEF GraphInv, BackwardPaths
<1>7. BackwardPaths'
  <2> SUFFICES ASSUME NEW m \in DOMAIN backward'
               PROVE  /\ Simple(backward'[m], DOMAIN backward') /\ Back(backward'[m], seen)
                      /\ backward'[m][1] = m
                      /\ backward'[m][Len(backward'[m])] = Target
    BY <1>1 DEF BackwardPaths, graph, Simple, Back
  <2>1. CASE m \in DOMAIN backward
    <3>1. Simple(backward[m], DOMAIN backward) /\ Back(backward[m], seen)
          /\ backward[m][1] = m /\ backward[m][Len(backward[m])] = Target
      BY <2>1 DEF GraphInv, BackwardPaths
    <3> QED
      BY <2>1, <3>1, <1>3, SimpleGrows
  <2>2. CASE m \in new
    <3> DEFINE p == <<m>> \o backward[n]
    <3>1. backward'[m] = p /\ m \in Node \ DOMAIN backward /\ <<n, m>> \in seen
      BY <2>2, <1>2, <1>3
    <3>2. <<backward[n][1], m>> \in seen
      BY <1>6, <3>1
    <3>3. Simple(p, DOMAIN backward \cup {m}) /\ Back(p, seen)
      BY <1>2, <1>6, <3>1, <3>2, PathExtended
    <3>4. p[1] = m /\ p[Len(p)] = Target
      <4>1. backward[n] \in Seq(Node) /\ backward[n] # <<>> /\ m \in Node
        BY <1>6, <3>1 DEF Simple
      <4>2. p[1] = m /\ p[Len(p)] = backward[n][Len(backward[n])]
        BY <4>1
      <4> QED
        BY <4>2, <1>6
    <3>5. Simple(p, DOMAIN backward')
      BY <2>2, <1>3, <3>3, SimpleGrows
    <3> HIDE DEF p
    <3> QED
      BY <3>1, <3>3, <3>4, <3>5
  <2> QED
    BY <2>1, <2>2, <1>3
<1>8. ForwardPaths'
  BY <1>1, ForwardUntouched DEF GraphInv, graph
<1>9. level' \in Seq(Node) /\ \A i \in DOMAIN level' : level'[i] \in DOMAIN backward'
  <2>1. level \in Seq(Node) /\ \A i \in DOMAIN level : level[i] \in DOMAIN backward
    BY <1>1, <1>2 DEF GraphInv, GraphTypeOK, Frontiers
  <2>2. level' \in Seq(Node) /\ \A i \in DOMAIN level' :
            level'[i] \in DOMAIN backward \/ level'[i] \in new
    BY <2>1, <1>4, <1>5, Concatenated
  <2> QED
    BY <2>2, <1>3
<1>10. Frontiers'
  <2>1. /\ \A i \in DOMAIN queue : queue[i] \in DOMAIN backward
        /\ \A i \in DOMAIN other : other[i] \in DOMAIN forward
        /\ round < Rounds
    BY <1>1, <1>2 DEF GraphInv, Frontiers
  <2>2. \A i \in DOMAIN queue' : queue'[i] \in DOMAIN backward'
    BY <2>1, <1>1, <1>2, <1>3
  <2> QED
    BY <2>1, <2>2, <1>1, <1>9 DEF Frontiers
<1>11. Apart'
  BY <1>1, <1>2, <1>3 DEF Apart
<1>12. GraphTypeOK'
  <2>1. \A m \in DOMAIN backward' : backward'[m] \in Walks
    BY <1>7 DEF BackwardPaths, Simple, Walks
  <2>2. DOMAIN backward' \in SUBSET Node /\ backward' \in [DOMAIN backward' -> Walks]
    BY <2>1, <1>2, <1>3
  <2> QED
    BY <2>2, <1>1, <1>2, <1>9 DEF GraphInv, GraphTypeOK, graph, blast, Edges
<1>13. PathIsWalk'
  BY <1>1, <1>2 DEF PathIsWalk
<1>14. /\ Origin \in DOMAIN hop' /\ read' \subseteq DOMAIN hop'
       /\ QueueOrdered' /\ HeadIsNear' /\ Relaxed' /\ HopsAreReal'
  BY <1>1, <1>2, BlastUntouched
<1> QED
  BY <1>7, <1>8, <1>10, <1>11, <1>12, <1>13, <1>14 DEF GraphInv

LEMMA NoNeighboursStep == GraphInv /\ NoNeighbours => GraphInv'
<1> SUFFICES ASSUME GraphInv, NoNeighbours PROVE GraphInv'
  OBVIOUS
<1>1. Searching /\ queue' = Tail(queue) /\ UNCHANGED <<graph, query, blast, search>>
  BY DEF NoNeighbours
<1>2. /\ query = "path" /\ Tail(queue) \in Seq(Node)
      /\ \A i \in DOMAIN Tail(queue) : i + 1 \in DOMAIN queue /\ Tail(queue)[i] = queue[i + 1]
  BY <1>1, InTurn
<1>3. GraphTypeOK'
  BY <1>1, <1>2 DEF GraphInv, GraphTypeOK, graph, blast, search, Edges
<1>4. ForwardPaths' /\ BackwardPaths' /\ Apart' /\ PathIsWalk'
  BY <1>1, <1>2, ForwardUntouched, BackwardUntouched
     DEF GraphInv, Apart, PathIsWalk, graph, search
<1>5. Frontiers'
  <2>1. \A i \in DOMAIN queue' : i + 1 \in DOMAIN queue /\ queue'[i] = queue[i + 1]
    BY <1>1, <1>2
  <2>2. UNCHANGED <<query, side, level, other, round, forward, backward>>
    BY <1>1 DEF search
  <2>3. CASE side = "forward"
    BY <2>1, <2>2, <2>3, <1>2 DEF GraphInv, Frontiers
  <2>4. CASE side # "forward"
    BY <2>1, <2>2, <2>4, <1>2 DEF GraphInv, Frontiers
  <2> QED
    BY <2>3, <2>4
<1>6. /\ Origin \in DOMAIN hop' /\ read' \subseteq DOMAIN hop'
      /\ QueueOrdered' /\ HeadIsNear' /\ Relaxed' /\ HopsAreReal'
  BY <1>1, <1>2, BlastUntouched
<1> QED
  BY <1>3, <1>4, <1>5, <1>6 DEF GraphInv

LEMMA NextLevelStep == GraphInv /\ NextLevel => GraphInv'
<1> SUFFICES ASSUME GraphInv, NextLevel PROVE GraphInv'
  OBVIOUS
<1>1. /\ query = "path" /\ queue' = other /\ other' = level /\ level' = <<>>
      /\ UNCHANGED <<graph, blast, forward, backward, path>>
  BY DEF NextLevel
<1>2. \/ side = "forward" /\ side' = "backward" /\ query' = query /\ round' = round
      \/ /\ side = "backward" /\ side' = "forward" /\ round' = round + 1
         /\ query' = IF round + 1 = Rounds THEN "missed" ELSE query
  BY DEF NextLevel, LastRound, GraphInv, GraphTypeOK
<1>3. round \in Nat /\ Rounds \in Nat /\ round < Rounds
  BY <1>1, DepthAssumption DEF GraphInv, GraphTypeOK, Frontiers
<1>4. GraphTypeOK'
  <2>1. round' \in 0 .. Rounds /\ query' \in {"path", "missed"}
        /\ side' \in {"forward", "backward"}
    BY <1>1, <1>2, <1>3
  <2> QED
    BY <1>1, <2>1 DEF GraphInv, GraphTypeOK, graph, blast, Edges
<1>5. ForwardPaths' /\ BackwardPaths' /\ Apart' /\ PathIsWalk'
  BY <1>1, <1>2 DEF GraphInv, ForwardPaths, BackwardPaths, Apart, PathIsWalk, graph,
                    Simple, Forth, Back
<1>6. Frontiers'
  <2>1. CASE side = "forward"
    <3>1. /\ \A i \in DOMAIN level : level[i] \in DOMAIN forward
          /\ \A i \in DOMAIN other : other[i] \in DOMAIN backward
      BY <2>1, <1>1 DEF GraphInv, Frontiers
    <3>2. side' = "backward" /\ round' = round
      BY <2>1, <1>2
    <3> QED
      BY <3>1, <3>2, <1>1, <1>3 DEF Frontiers
  <2>2. CASE side = "backward"
    <3>1. /\ \A i \in DOMAIN level : level[i] \in DOMAIN backward
          /\ \A i \in DOMAIN other : other[i] \in DOMAIN forward
      BY <2>2, <1>1 DEF GraphInv, Frontiers
    <3>2. side' = "forward" /\ (query' = "path" => round' < Rounds)
      BY <2>2, <1>1, <1>2, <1>3
    <3> QED
      BY <3>1, <3>2, <1>1 DEF Frontiers
  <2> QED
    BY <2>1, <2>2, <1>2
<1>7. /\ Origin \in DOMAIN hop' /\ read' \subseteq DOMAIN hop'
      /\ QueueOrdered' /\ HeadIsNear' /\ Relaxed' /\ HopsAreReal'
  BY <1>1, <1>2, BlastUntouched
<1> QED
  BY <1>4, <1>5, <1>6, <1>7 DEF GraphInv

-----------------------------------------------------------------------------
LEMMA GraphStep == GraphInv /\ [GraphNext]_graphVars => GraphInv'
<1> SUFFICES ASSUME GraphInv, [GraphNext]_graphVars PROVE GraphInv'
  OBVIOUS
<1>1. CASE UNCHANGED graphVars
  <2>1. UNCHANGED <<stored, upserts, steady, seen, query, maxDepth, hop, queue, read, level,
                    other, side, round, forward, backward, path>>
    BY <1>1 DEF graphVars, graph, blast, search
  <2>2. GraphTypeOK' /\ Origin \in DOMAIN hop' /\ read' \subseteq DOMAIN hop'
    BY <2>1 DEF GraphInv, GraphTypeOK, Edges
  <2>3. QueueOrdered' /\ HeadIsNear' /\ Relaxed' /\ HopsAreReal'
    BY <2>1 DEF GraphInv, QueueOrdered, HeadIsNear, Relaxed, HopsAreReal
  <2>4. ForwardPaths' /\ BackwardPaths' /\ Apart' /\ Frontiers' /\ PathIsWalk'
    BY <2>1, ForwardUntouched, BackwardUntouched
       DEF GraphInv, Apart, Frontiers, PathIsWalk
  <2> QED
    BY <2>2, <2>3, <2>4 DEF GraphInv
<1>2. CASE GraphNext
  BY <1>2, UpsertStep, ExpandStep, PassOverStep, MeetForwardStep, ExpandForwardStep,
     MeetBackwardStep, ExpandBackwardStep, NoNeighboursStep, NextLevelStep DEF GraphNext
<1> QED
  BY <1>1, <1>2

(* The invariant of both queries.                                          *)
THEOREM GraphInvariant == GraphSpec => []GraphInv
  BY GraphInitInv, GraphStep, PTL DEF GraphSpec

(* A query stays within its types: its queue, its paths, its rounds.       *)
THEOREM GraphTypeCorrect == GraphSpec => []GraphTypeOK
<1>1. GraphInv => GraphTypeOK
  BY DEF GraphInv
<1> QED
  BY <1>1, GraphInvariant, PTL

(* get_path returns a path, over any graph and while it changes.           *)
THEOREM AnswersArePaths == GraphSpec => []PathIsWalk
<1>1. GraphInv => PathIsWalk
  BY DEF GraphInv
<1> QED
  BY <1>1, GraphInvariant, PTL

-----------------------------------------------------------------------------
(* Distances.  Ball is recursive: what it says at every depth is proved by *)
(* induction, with a set for the predicate.                                *)

(* A set that has 0, and k + 1 with every k, has all numbers up to n.      *)
LEMMA SetInduction ==
    ASSUME NEW S, NEW n \in Nat, 0 \in S,
           \A k \in 0 .. n - 1 : k \in S => k + 1 \in S
    PROVE  \A k \in 0 .. n : k \in S
<1> DEFINE T == {k \in 0 .. n : k \notin S}
           R == OpToRel(<, Nat)
<1> SUFFICES ASSUME T # {} PROVE FALSE
  OBVIOUS
<1>1. IsWellFoundedOn(R, Nat)
  BY NatLessThanWellFounded
<1>2. \A x, y \in Nat : <<y, x>> \in R <=> y < x
  BY DEF OpToRel
<1>3. T \in SUBSET Nat
  OBVIOUS
<1> HIDE DEF R
<1>4. PICK m \in T : \A y \in T : ~ (<<y, m>> \in R)
  <2> HIDE DEF T
  <2> QED
    BY <1>1, <1>3, WFMin
<1>5. m \in 0 .. n /\ m \notin S /\ m # 0
  OBVIOUS
<1>6. m - 1 \in 0 .. n - 1 /\ m - 1 \in Nat /\ m \in Nat /\ m - 1 < m
  BY <1>5
<1>7. m - 1 \notin T
  BY <1>2, <1>4, <1>6
<1> QED
  BY <1>5, <1>6, <1>7

BallAt(E, f, k) == IF k = 0 THEN {Origin} ELSE Further(f[k - 1], E)

(* f is the function Ball computes, as far as d.                           *)
BallUpTo(E, f, d) == f = [k \in 0 .. d |-> BallAt(E, f, k)]

LEMMA BallExists ==
    ASSUME NEW E, NEW d \in Nat
    PROVE  \E f : BallUpTo(E, f, d)
<1> DEFINE S == {k \in Nat : \E f : BallUpTo(E, f, k)}
<1>1. 0 \in S
  <2>1. BallUpTo(E, [k \in 0 .. 0 |-> {Origin}], 0)
    BY DEF BallUpTo, BallAt
  <2> QED
    BY <2>1
<1>2. ASSUME NEW k \in 0 .. d - 1, k \in S
      PROVE  k + 1 \in S
  <2>1. PICK g : BallUpTo(E, g, k)
    BY <1>2
  <2> DEFINE f == [i \in 0 .. k + 1 |-> IF i <= k THEN g[i] ELSE Further(g[k], E)]
  <2>2. ASSUME NEW i \in 0 .. k + 1 PROVE f[i] = BallAt(E, f, i)
    <3>1. CASE i <= k
      <4>1. f[i] = g[i] /\ g[i] = BallAt(E, g, i)
        BY <2>1, <3>1 DEF BallUpTo
      <4>2. i # 0 => f[i - 1] = g[i - 1]
        BY <3>1
      <4> QED
        BY <4>1, <4>2 DEF BallAt
    <3>2. CASE i = k + 1
      <4>1. f[i] = Further(g[k], E) /\ f[i - 1] = g[k] /\ i # 0
        BY <3>2
      <4> QED
        BY <4>1 DEF BallAt
    <3> QED
      BY <3>1, <3>2
  <2>3. f = [i \in 0 .. k + 1 |-> BallAt(E, f, i)]
    <3>1. f = [i \in 0 .. k + 1 |-> f[i]]
      OBVIOUS
    <3> HIDE DEF f
    <3> QED
      BY <2>2, <3>1
  <2>4. BallUpTo(E, f, k + 1)
    BY <2>3 DEF BallUpTo
  <2> QED
    BY <2>4
<1>3. \A k \in 0 .. d : k \in S
  <2> HIDE DEF S
  <2> QED
    BY <1>1, <1>2, SetInduction
<1> QED
  BY <1>3

LEMMA BallUnfolds ==
    ASSUME NEW E, NEW d \in Nat
    PROVE  \E f : /\ Ball(E, d) = f[d] /\ f[0] = {Origin}
                  /\ \A k \in 0 .. d - 1 : f[k + 1] = Further(f[k], E)
<1> DEFINE f == CHOOSE g : BallUpTo(E, g, d)
<1>1. BallUpTo(E, f, d)
  BY BallExists
<1>2. Ball(E, d) = f[d]
  BY Zenon DEF Ball, BallUpTo, BallAt
<1> HIDE DEF f
<1>3. f[0] = {Origin}
  BY <1>1 DEF BallUpTo, BallAt
<1>4. ASSUME NEW k \in 0 .. d - 1 PROVE f[k + 1] = Further(f[k], E)
  <2>1. k + 1 \in 0 .. d /\ k + 1 # 0 /\ (k + 1) - 1 = k
    OBVIOUS
  <2> QED
    BY <1>1, <2>1 DEF BallUpTo, BallAt
<1> QED
  BY <1>2, <1>3, <1>4

(* Layers of nodes that take in every neighbour hold the ball, ...         *)
LEMMA BallWithin ==
    ASSUME NEW E, NEW d \in Nat, NEW w, Origin \in w[0],
           \A k \in 0 .. d - 1 : Further(w[k], E) \subseteq w[k + 1]
    PROVE  Ball(E, d) \subseteq w[d]
<1>1. PICK f : /\ Ball(E, d) = f[d] /\ f[0] = {Origin}
               /\ \A k \in 0 .. d - 1 : f[k + 1] = Further(f[k], E)
  BY BallUnfolds
<1> DEFINE S == {k \in Nat : f[k] \subseteq w[k]}
<1>2. 0 \in S
  BY <1>1
<1>3. ASSUME NEW k \in 0 .. d - 1, k \in S PROVE k + 1 \in S
  <2>1. Further(f[k], E) \subseteq Further(w[k], E)
    BY <1>3 DEF Further
  <2> QED
    BY <1>1, <2>1
<1>4. \A k \in 0 .. d : k \in S
  <2> HIDE DEF S
  <2> QED
    BY <1>2, <1>3, SetInduction
<1> QED
  BY <1>1, <1>4

(* ... and those that take in nothing else are within it.                  *)
LEMMA WithinBall ==
    ASSUME NEW E, NEW d \in Nat, NEW w, w[0] \subseteq {Origin},
           \A k \in 0 .. d - 1 : w[k + 1] \subseteq Further(w[k], E)
    PROVE  w[d] \subseteq Ball(E, d)
<1>1. PICK f : /\ Ball(E, d) = f[d] /\ f[0] = {Origin}
               /\ \A k \in 0 .. d - 1 : f[k + 1] = Further(f[k], E)
  BY BallUnfolds
<1> DEFINE S == {k \in Nat : w[k] \subseteq f[k]}
<1>2. 0 \in S
  BY <1>1
<1>3. ASSUME NEW k \in 0 .. d - 1, k \in S PROVE k + 1 \in S
  <2>1. Further(w[k], E) \subseteq Further(f[k], E)
    BY <1>3 DEF Further
  <2> QED
    BY <1>1, <2>1
<1>4. \A k \in 0 .. d : k \in S
  <2> HIDE DEF S
  <2> QED
    BY <1>2, <1>3, SetInduction
<1> QED
  BY <1>1, <1>4

-----------------------------------------------------------------------------
OriginAtZero == hop[Origin] = 0

(* What is counted with k or less.                                         *)
Within(k) == {n \in DOMAIN hop : hop[n] <= k}

LEMMA OriginStep == GraphInv /\ OriginAtZero /\ [GraphNext]_graphVars => OriginAtZero'
<1> SUFFICES ASSUME GraphInv, OriginAtZero, [GraphNext]_graphVars PROVE OriginAtZero'
  OBVIOUS
<1>1. CASE Expand
  <2>1. PICK g : hop' = Extended(hop, g)
    BY <1>1 DEF Expand
  <2> QED
    BY <2>1 DEF Extended, GraphInv, OriginAtZero
<1>2. CASE UNCHANGED hop
  BY <1>2 DEF OriginAtZero
<1> QED
  BY <1>1, <1>2 DEF GraphNext, Upsert, PassOver, MeetForward, ExpandForward, MeetBackward,
     ExpandBackward, NoNeighbours, NextLevel, graphVars, blast

(* Where Relaxed has something to say of the edges out of what is counted, *)
(* all that is near is counted.                                            *)
LEMMA NearIsCounted ==
    ASSUME GraphInv, OriginAtZero, NEW d \in Nat, NEW E,
           \A e \in E : e[1] \in DOMAIN hop /\ hop[e[1]] < d =>
               e \in steady /\ e[1] \in read
    PROVE  Ball(E, d) \subseteq Within(d)
<1> DEFINE w == [k \in 0 .. d |-> Within(k)]
<1>0. /\ 0 \in 0 .. d /\ d \in 0 .. d
      /\ \A k \in 0 .. d - 1 : k \in 0 .. d /\ k + 1 \in 0 .. d /\ k \in Nat
  OBVIOUS
<1>1. Origin \in w[0]
  BY <1>0 DEF Within, OriginAtZero, GraphInv
<1>2. ASSUME NEW k \in 0 .. d - 1 PROVE Further(w[k], E) \subseteq w[k + 1]
  <2>0. w[k] = Within(k) /\ w[k + 1] = Within(k + 1) /\ k \in Nat
    BY <1>0
  <2>1. \A n \in DOMAIN hop : hop[n] \in Nat
    <3>1. PICK s \in SUBSET Node : hop \in [s -> 0 .. maxDepth]
      BY DEF GraphInv, GraphTypeOK
    <3> QED
      BY <3>1
  <2>2. Within(k) \subseteq Within(k + 1)
    BY <2>0, <2>1 DEF Within
  <2>3. ASSUME NEW e \in E, e[1] \in Within(k) PROVE e[2] \in Within(k + 1)
    <3>1. e \in steady /\ e[1] \in read
      <4>1. e[1] \in DOMAIN hop /\ hop[e[1]] <= k
        BY <2>3 DEF Within
      <4>2. hop[e[1]] < d
        BY <2>0, <2>1, <4>1
      <4> QED
        BY <4>1, <4>2
    <3>2. e[2] \in DOMAIN hop /\ hop[e[2]] <= hop[e[1]] + 1
      BY <3>1 DEF GraphInv, Relaxed
    <3>3. e[1] \in DOMAIN hop /\ hop[e[1]] <= k
      BY <2>3 DEF Within
    <3>4. hop[e[2]] <= k + 1
      BY <2>0, <2>1, <3>2, <3>3
    <3> QED
      BY <3>2, <3>4 DEF Within
  <2> HIDE DEF w
  <2> QED
    BY <2>0, <2>2, <2>3 DEF Further
<1>3. w[d] = Within(d)
  BY <1>0
<1> HIDE DEF w
<1>4. Ball(E, d) \subseteq w[d]
  BY <1>1, <1>2, BallWithin
<1> QED
  BY <1>3, <1>4

(* Edges to what is counted.                                               *)
LEMMA CountedIsNear ==
    ASSUME GraphInv, OriginAtZero, NEW d \in Nat, NEW E,
           \A e \in seen : e[1] \in read => e \in E
    PROVE  Within(d) \subseteq Ball(E, d)
<1> DEFINE w == [k \in 0 .. d |-> Within(k)]
<1>0. /\ 0 \in 0 .. d /\ d \in 0 .. d
      /\ \A k \in 0 .. d - 1 : k \in 0 .. d /\ k + 1 \in 0 .. d /\ k \in Nat
  OBVIOUS
<1>1. \A n \in DOMAIN hop : hop[n] \in Nat
  <2>1. PICK s \in SUBSET Node : hop \in [s -> 0 .. maxDepth]
    BY DEF GraphInv, GraphTypeOK
  <2> QED
    BY <2>1
<1>2. \A n \in DOMAIN hop :
         n # Origin => \E m \in read : m \in DOMAIN hop /\ hop[n] = hop[m] + 1 /\ <<m, n>> \in seen
  BY DEF GraphInv, HopsAreReal
<1>3. w[0] \subseteq {Origin}
  <2>1. w[0] = Within(0)
    BY <1>0
  <2>2. ASSUME NEW n \in Within(0), n # Origin PROVE FALSE
    <3>1. n \in DOMAIN hop /\ hop[n] <= 0
      BY DEF Within
    <3>2. PICK m \in DOMAIN hop : hop[n] = hop[m] + 1
      BY <1>2, <2>2, <3>1
    <3>3. hop[m] \in Nat
      BY <1>1
    <3> QED
      BY <3>1, <3>2, <3>3
  <2> QED
    BY <2>1, <2>2
<1>4. ASSUME NEW k \in 0 .. d - 1 PROVE w[k + 1] \subseteq Further(w[k], E)
  <2>1. w[k] = Within(k) /\ w[k + 1] = Within(k + 1) /\ k \in Nat
    BY <1>0
  <2>2. ASSUME NEW n \in Within(k + 1) PROVE n \in Further(Within(k), E)
    <3>1. n \in DOMAIN hop /\ hop[n] <= k + 1
      BY DEF Within
    <3>2. CASE n = Origin
      <4>1. n \in Within(k)
        BY <2>1, <3>1, <3>2 DEF Within, OriginAtZero
      <4> QED
        BY <4>1 DEF Further
    <3>3. CASE n # Origin
      <4>1. PICK m \in read : m \in DOMAIN hop /\ hop[n] = hop[m] + 1 /\ <<m, n>> \in seen
        BY <1>2, <3>1, <3>3
      <4>2. m \in Within(k)
        <5>1. hop[m] \in Nat
          BY <1>1, <4>1
        <5>2. hop[m] <= k
          BY <2>1, <3>1, <4>1, <5>1
        <5> QED
          BY <4>1, <5>2 DEF Within
      <4>3. <<m, n>> \in E
        BY <4>1
      <4>4. <<m, n>> \in {f \in E : f[1] \in Within(k)} /\ <<m, n>>[2] = n
        BY <4>2, <4>3
      <4> QED
        BY <4>4 DEF Further
    <3> QED
      BY <3>2, <3>3
  <2> HIDE DEF w
  <2> QED
    BY <2>1, <2>2
<1>5. w[d] = Within(d)
  BY <1>0
<1> HIDE DEF w
<1>6. w[d] \subseteq Ball(E, d)
  BY <1>3, <1>4, WithinBall
<1> QED
  BY <1>5, <1>6

(* The hop counts of get_blast_radius are distances, over edges that were  *)
(* there all the time on the one side, at some time on the other, on every *)
(* finite graph and for every depth, whatever is replaced and whichever    *)
(* reads fail meanwhile.                                                   *)
THEOREM RadiusCorrect == GraphSpec => []RadiusIsDistance
<1>1. GraphInit => OriginAtZero
  BY DEF GraphInit, OriginAtZero
<1>2. GraphInv /\ OriginAtZero => RadiusIsDistance
  <2> SUFFICES ASSUME GraphInv, OriginAtZero, NEW d \in 0 .. maxDepth
               PROVE  /\ Ball({e \in steady : e[1] \in read}, d) \subseteq Within(d)
                      /\ Within(d) \subseteq Ball({e \in seen : e[1] \in read}, d)
    BY DEF RadiusIsDistance, Within
  <2>1. d \in Nat
    BY DEF GraphInv, GraphTypeOK
  <2> DEFINE old == {e \in steady : e[1] \in read}
             some == {e \in seen : e[1] \in read}
  <2>2. \A e \in old : e \in steady /\ e[1] \in read
    OBVIOUS
  <2>3. \A e \in seen : e[1] \in read => e \in some
    OBVIOUS
  <2> HIDE DEF old, some
  <2>4. Ball(old, d) \subseteq Within(d)
    BY <2>1, <2>2, NearIsCounted
  <2>5. Within(d) \subseteq Ball(some, d)
    BY <2>1, <2>3, CountedIsNear
  <2> QED
    BY <2>4, <2>5 DEF old, some
<1> QED
  BY <1>1, <1>2, OriginStep, GraphInvariant, PTL DEF GraphSpec

-----------------------------------------------------------------------------
(* When nothing is replaced and no read fails.                             *)
Unchanged == upserts = 0 => steady = Edges(stored) /\ seen = Edges(stored)

AllRead ==
    query = "blast" =>
        \A n \in DOMAIN hop : hop[n] < maxDepth =>
            n \in read \/ \E i \in 1 .. Len(queue) : queue[i] = n

LEMMA UnchangedStep == GraphInv /\ Unchanged /\ [GraphNext]_graphVars => Unchanged'
<1> SUFFICES ASSUME GraphInv, Unchanged, [GraphNext]_graphVars PROVE Unchanged'
  OBVIOUS
<1>1. CASE Upsert
  BY <1>1 DEF Upsert, Unchanged, GraphInv, GraphTypeOK
<1>2. CASE UNCHANGED graph
  BY <1>2 DEF Unchanged, graph, Edges
<1> QED
  BY <1>1, <1>2 DEF GraphNext, Expand, PassOver, MeetForward, ExpandForward, MeetBackward,
     ExpandBackward, NoNeighbours, NextLevel, graphVars

LEMMA AllReadExpand ==
    ASSUME GraphInv, AllRead, Expand
    PROVE  AllRead'
<1> DEFINE n == Head(queue)
           d == HopsBelow(n)
           rest == Tail(queue)
<1>1. /\ query = "blast" /\ query' = "blast" /\ queue # <<>> /\ maxDepth' = maxDepth
      /\ read' = read \cup {n}
      /\ hop' = Extended(hop, [m \in Unvisited(n) |-> d])
  BY DEF Expand
<1>2. PICK new \in Orders(Unvisited(n)) :
        queue' = IF WorthExpanding(d) THEN Queued(rest, new) ELSE rest
  BY DEF Expand
<1>3. /\ queue \in Seq(Node) /\ rest \in Seq(Node) /\ Len(queue) \in Nat
      /\ Len(rest) = Len(queue) - 1 /\ queue[1] = n
      /\ \A i \in 1 .. Len(rest) : rest[i] = queue[i + 1]
  BY <1>1 DEF GraphInv, GraphTypeOK
<1>4. new \in Seq(Node) /\ \A m \in Unvisited(n) : \E j \in 1 .. Len(new) : new[j] = m
  <2>1. n \in Node
    BY <1>1, <1>3
  <2>2. Unvisited(n) \in SUBSET Node
    BY <2>1, LinksAssumption DEF Unvisited, GraphInv, GraphTypeOK
  <2>3. new \in Seq(Node)
    BY <1>2, <2>2, OrdersAreSeqs
  <2>4. \A m \in Unvisited(n) : \E j \in DOMAIN new : new[j] = m
    BY <1>2 DEF Orders
  <2> QED
    BY <2>3, <2>4
<1>5. DOMAIN hop' = DOMAIN hop \cup Unvisited(n)
  BY <1>1 DEF Extended
<1> HIDE DEF n, rest
<1>6. \A m \in DOMAIN hop : hop'[m] = hop[m]
  BY <1>1 DEF Extended
<1>7. \A m \in Unvisited(n) : hop'[m] = d
  BY <1>1 DEF Extended, Unvisited
<1> HIDE DEF d
<1>8. \A i \in 1 .. Len(rest) : i \in 1 .. Len(queue') /\ queue'[i] = rest[i]
  <2>1. CASE WorthExpanding(d)
    <3>1. queue' = rest \o new
      BY <1>2, <2>1 DEF Queued
    <3> QED
      BY <1>3, <1>4, <3>1
  <2>2. CASE ~WorthExpanding(d)
    BY <1>2, <2>2
  <2> QED
    BY <2>1, <2>2
<1>9. ASSUME NEW m \in DOMAIN hop, hop[m] < maxDepth
      PROVE  m \in read' \/ \E i \in 1 .. Len(queue') : queue'[i] = m
  <2>1. CASE m \in read
    BY <1>1, <2>1
  <2>2. CASE \E i \in 1 .. Len(queue) : queue[i] = m
    <3>1. PICK i \in 1 .. Len(queue) : queue[i] = m
      BY <2>2
    <3>2. CASE i = 1
      BY <1>1, <1>3, <3>1, <3>2
    <3>3. CASE i # 1
      <4>1. i - 1 \in 1 .. Len(rest) /\ (i - 1) + 1 = i
        BY <1>3, <3>3
      <4>2. rest[i - 1] = m
        BY <1>3, <3>1, <4>1
      <4> QED
        BY <1>8, <4>1, <4>2
    <3> QED
      BY <3>2, <3>3
  <2> QED
    BY <1>1, <1>9, <2>1, <2>2 DEF AllRead
<1>10. ASSUME NEW m \in Unvisited(n), d < maxDepth
       PROVE  \E i \in 1 .. Len(queue') : queue'[i] = m
  <2>1. queue' = rest \o new
    BY <1>2, <1>10 DEF WorthExpanding, Queued
  <2>2. PICK j \in 1 .. Len(new) : new[j] = m
    BY <1>4
  <2>3. Len(rest) + j \in 1 .. Len(rest \o new) /\ (rest \o new)[Len(rest) + j] = m
    BY <1>3, <1>4, <2>2
  <2> QED
    BY <2>1, <2>3
<1> QED
  BY <1>1, <1>5, <1>6, <1>7, <1>9, <1>10 DEF AllRead

LEMMA AllReadStep ==
    GraphInv /\ AllRead /\ [GraphNext]_graphVars /\ [~PassOver]_graphVars => AllRead'
<1> SUFFICES ASSUME GraphInv, AllRead, [GraphNext]_graphVars, [~PassOver]_graphVars
             PROVE  AllRead'
  OBVIOUS
<1>1. CASE UNCHANGED <<query, maxDepth, hop, read, queue>>
  BY <1>1 DEF AllRead
<1>2. CASE Expand
  BY <1>2, AllReadExpand
<1>3. CASE query' # "blast"
  BY <1>3 DEF AllRead
<1>4. CASE PassOver
  <2>1. CASE UNCHANGED graphVars
    BY <1>1, <2>1 DEF graphVars, blast
  <2> QED
    BY <1>4, <2>1
<1> QED
  BY <1>1, <1>2, <1>3, <1>4
     DEF GraphNext, Upsert, MeetForward, ExpandForward, MeetBackward, ExpandBackward,
         NoNeighbours, NextLevel, Searching, graphVars, blast

(* The resources within each distance, when the search is over.            *)
RadiusIsExact ==
    query = "blast" /\ queue = <<>> /\ upserts = 0 =>
        \A d \in 0 .. maxDepth : Within(d) = Ball(Edges(stored), d)

(* If no read fails and nothing is replaced meanwhile, the hop counts are  *)
(* the distances in the graph: every resource within max_depth hops of the *)
(* origin is affected, with its distance, and no other.                    *)
THEOREM RadiusExact ==
    GraphSpec /\ [][~PassOver]_graphVars => []RadiusIsExact
<1>1. GraphInit => OriginAtZero /\ Unchanged /\ AllRead
  BY DEF GraphInit, OriginAtZero, Unchanged, AllRead
<1>2. GraphInv /\ OriginAtZero /\ Unchanged /\ AllRead => RadiusIsExact
  <2> SUFFICES ASSUME GraphInv, OriginAtZero, Unchanged, AllRead,
                      query = "blast", queue = <<>>, upserts = 0,
                      NEW d \in 0 .. maxDepth
               PROVE  Within(d) = Ball(Edges(stored), d)
    BY DEF RadiusIsExact
  <2>1. d \in Nat /\ maxDepth \in Nat /\ d <= maxDepth
    BY DepthAssumption DEF GraphInv, GraphTypeOK
  <2>2. steady = Edges(stored) /\ seen = Edges(stored)
    BY DEF Unchanged
  <2>3. \A n \in DOMAIN hop : hop[n] \in Nat
    <3>1. PICK s \in SUBSET Node : hop \in [s -> 0 .. maxDepth]
      BY DEF GraphInv, GraphTypeOK
    <3> QED
      BY <3>1
  <2>4. \A n \in DOMAIN hop : hop[n] < d => n \in read
    <3>1. \A n \in DOMAIN hop : hop[n] < d => hop[n] < maxDepth
      BY <2>1, <2>3
    <3> QED
      BY <3>1 DEF AllRead
  <2>5. Ball(Edges(stored), d) \subseteq Within(d)
    BY <2>1, <2>2, <2>4, NearIsCounted
  <2>6. Within(d) \subseteq Ball(Edges(stored), d)
    BY <2>1, <2>2, CountedIsNear
  <2> QED
    BY <2>5, <2>6
<1> QED
  BY <1>1, <1>2, OriginStep, UnchangedStep, AllReadStep, GraphInvariant, PTL DEF GraphSpec

=============================================================================
