--------------------------- MODULE TopologyGraph ---------------------------
(***************************************************************************)
(* The graph queries of services/api-gateway/topology.py: get_blast_radius *)
(* (a breadth-first search, asked by the pre-flight check, the policy      *)
(* engine and ingestion) and get_path (a search from both ends).  Both     *)
(* read one document at a time, in a thread, while sync_incremental of any *)
(* worker replaces documents (TopologySync has that side); a read that     *)
(* fails is skipped.  One query of either kind is followed from its start. *)
(***************************************************************************)
EXTENDS Integers, Sequences, FiniteSets

CONSTANTS
    Node,        \* resources and resource groups, by id in lower case
    Links,       \* sets of targets a document can have
    Origin,      \* where the query starts
    Target,      \* where get_path is to arrive
    Depths,      \* max_depth of get_blast_radius, 3 in the gateway's own calls
    Rounds,      \* MAX_DEPTH // 2 of get_path
    MaxUpserts   \* bound on the documents replaced during the query

ASSUME NodeAssumption == IsFiniteSet(Node)
ASSUME LinksAssumption == Links \subseteq SUBSET Node
ASSUME EndsAssumption == Origin \in Node /\ Target \in Node /\ Origin # Target
ASSUME DepthAssumption == Depths \subseteq Nat \ {0} /\ Rounds \in Nat \ {0} /\ MaxUpserts \in Nat

VARIABLES
    stored,     \* the relationships of each document; none if it is missing
    upserts,    \* how many were replaced since the query began
    steady,     \* edges that were in the graph all the time since then
    seen,       \* edges that were in it at some time since then
    query,      \* "blast", "path", or "found" and "missed" when that has ended
    maxDepth,   \* of this query
    hop,        \* hop_counts: distances of what was visited
    queue,      \* of the search under way, or what is left of a level of it
    read,       \* nodes whose document was read
    level,      \* what the level under way has added
    other,      \* the frontier of the other side
    side,       \* the frontier get_path expands, "forward" or "backward"
    round,      \* of get_path
    forward,    \* predecessors, as the path from the source they give
    backward,   \* the same, as the path to the target
    path        \* what get_path returns

graph == <<stored, upserts, steady, seen>>
blast == <<maxDepth, hop, read>>
search == <<level, other, side, round, forward, backward, path>>
graphVars == <<graph, query, queue, blast, search>>

Edges(s) == {e \in Node \X Node : e[2] \in s[e[1]]}

Walks == {w \in Seq(Node) : w # <<>>}

GraphTypeOK ==
    /\ stored \in [Node -> Links]
    /\ upserts \in 0 .. MaxUpserts
    /\ steady \subseteq Edges(stored)
    /\ Edges(stored) \subseteq seen
    /\ seen \subseteq Node \X Node
    /\ query \in {"blast", "path", "found", "missed"}
    /\ maxDepth \in Depths
    /\ \E s \in SUBSET Node : hop \in [s -> 0 .. maxDepth]
    /\ queue \in Seq(Node) /\ level \in Seq(Node) /\ other \in Seq(Node)
    /\ read \in SUBSET Node
    /\ side \in {"forward", "backward"}
    /\ round \in 0 .. Rounds
    /\ \E s \in SUBSET Node : forward \in [s -> Walks]
    /\ \E s \in SUBSET Node : backward \in [s -> Walks]
    /\ path \in Seq(Node)

GraphInit ==
    /\ stored \in [Node -> Links]
    /\ upserts = 0
    /\ steady = Edges(stored) /\ seen = Edges(stored)
    /\ query \in {"blast", "path"}
    /\ maxDepth \in Depths
    /\ hop = [n \in {Origin} |-> 0]
    /\ queue = <<Origin>>
    /\ read = {}
    /\ level = <<>> /\ other = <<Target>>
    /\ side = "forward" /\ round = 0
    /\ forward = [n \in {Origin} |-> <<Origin>>]
    /\ backward = [n \in {Target} |-> <<Target>>]
    /\ path = <<>>

-----------------------------------------------------------------------------
(* The orders in which new neighbours may be met: that of the list in the  *)
(* document.                                                               *)
Orders(S) ==
    {s \in [1 .. Cardinality(S) -> S] : \A n \in S : \E i \in DOMAIN s : s[i] = n}

(* A function extended to the new arguments of another.                    *)
Extended(f, g) ==
    [n \in DOMAIN f \cup DOMAIN g |-> IF n \in DOMAIN f THEN f[n] ELSE g[n]]

(* A document is replaced by what Resource Graph says now.                 *)
Upsert ==
    /\ upserts < MaxUpserts
    /\ query \in {"blast", "path"}
    /\ \E n \in Node, links \in Links : stored' = [stored EXCEPT ![n] = links]
    /\ upserts' = upserts + 1
    /\ steady' = steady \cap Edges(stored')
    /\ seen' = seen \cup Edges(stored')
    /\ UNCHANGED <<query, queue, blast, search>>

-----------------------------------------------------------------------------
(* get_blast_radius                                                        *)

(* Nodes at the last depth are not queued.                                 *)
WorthExpanding(d) == d < maxDepth

Unvisited(n) == stored[n] \ DOMAIN hop

HopsBelow(n) == hop[n] + 1

(* Mutant: pushed to the front, depth first.                               *)
Pushed(rest, new) == new \o rest

Queued(rest, new) == rest \o new

(* The next node's document is read and its new neighbours are queued.     *)
Expand ==
    /\ query = "blast" /\ queue # <<>>
    /\ LET n == Head(queue)
           d == HopsBelow(n)
       IN  /\ read' = read \cup {n}
           /\ hop' = Extended(hop, [m \in Unvisited(n) |-> d])
           /\ \E new \in Orders(Unvisited(n)) :
                 queue' = IF WorthExpanding(d) THEN Queued(Tail(queue), new)
                          ELSE Tail(queue)
    /\ UNCHANGED <<graph, query, maxDepth, search>>

(* The read fails, and the node is passed over.                            *)
PassOver ==
    /\ query = "blast" /\ queue # <<>>
    /\ queue' = Tail(queue)
    /\ UNCHANGED <<graph, query, blast, search>>

-----------------------------------------------------------------------------
(* get_path                                                                *)

Searching == query = "path" /\ queue # <<>>

(* Mutant: the node where they met is in both.                             *)
JoinedTwice(there, back) == there \o back

(* The two paths are joined where they met.                                *)
Joined(there, back) == there \o Tail(back)

(* A neighbour has been reached from the target before: the way to it and  *)
(* its way on to the target are the answer.                                *)
MeetForward ==
    /\ Searching /\ side = "forward"
    /\ \E m \in stored[Head(queue)] \cap DOMAIN backward :
          LET there == IF m \in DOMAIN forward THEN forward[m]
                       ELSE Append(forward[Head(queue)], m)
          IN  path' = Joined(there, backward[m])
    /\ query' = "found"
    /\ UNCHANGED <<graph, queue, blast, level, other, side, round, forward, backward>>

(* None has: the new ones are the next level.                              *)
ExpandForward ==
    /\ Searching /\ side = "forward"
    /\ LET n == Head(queue)
           new == stored[n] \ DOMAIN forward
       IN  /\ stored[n] \cap DOMAIN backward = {}
           /\ forward' = Extended(forward, [m \in new |-> Append(forward[n], m)])
           /\ \E s \in Orders(new) : level' = level \o s
    /\ queue' = Tail(queue)
    /\ UNCHANGED <<graph, query, blast, other, side, round, backward, path>>

(* The search from the target follows the same direction of the edges: it  *)
(* finds what the target refers to, and the answer is a path in which the  *)
(* edges of its second part point back.                                    *)
MeetBackward ==
    /\ Searching /\ side = "backward"
    /\ \E m \in stored[Head(queue)] \cap DOMAIN forward :
          LET back == IF m \in DOMAIN backward THEN backward[m]
                      ELSE <<m>> \o backward[Head(queue)]
          IN  path' = Joined(forward[m], back)
    /\ query' = "found"
    /\ UNCHANGED <<graph, queue, blast, level, other, side, round, forward, backward>>

ExpandBackward ==
    /\ Searching /\ side = "backward"
    /\ LET n == Head(queue)
           new == stored[n] \ DOMAIN backward
       IN  /\ stored[n] \cap DOMAIN forward = {}
           /\ backward' = Extended(backward, [m \in new |-> <<m>> \o backward[n]])
           /\ \E s \in Orders(new) : level' = level \o s
    /\ queue' = Tail(queue)
    /\ UNCHANGED <<graph, query, blast, other, side, round, forward, path>>

(* A read that fails has no neighbours.                                    *)
NoNeighbours ==
    /\ Searching
    /\ queue' = Tail(queue)
    /\ UNCHANGED <<graph, query, blast, search>>

(* Mutant: one round more.                                                 *)
PastLastRound == round = Rounds

LastRound == round + 1 = Rounds

(* A level of one side is done: its new nodes wait while the other side    *)
(* has its turn, and after the last round nothing was found.               *)
NextLevel ==
    /\ query = "path" /\ queue = <<>>
    /\ queue' = other /\ other' = level /\ level' = <<>>
    /\ IF side = "forward"
       THEN side' = "backward" /\ UNCHANGED <<query, round>>
       ELSE /\ side' = "forward" /\ round' = round + 1
            /\ query' = IF LastRound THEN "missed" ELSE query
    /\ UNCHANGED <<graph, blast, forward, backward, path>>

GraphNext ==
    \/ Upsert
    \/ Expand \/ PassOver
    \/ MeetForward \/ ExpandForward \/ MeetBackward \/ ExpandBackward
    \/ NoNeighbours \/ NextLevel

GraphSpec == GraphInit /\ [][GraphNext]_graphVars

-----------------------------------------------------------------------------
(* The resources within d hops of the origin, over edges of E.             *)
Further(S, E) == S \cup {e[2] : e \in {f \in E : f[1] \in S}}

Ball(E, d) ==
    LET ball[k \in 0 .. d] ==
            IF k = 0 THEN {Origin} ELSE Further(ball[k - 1], E)
    IN  ball[d]

(* However the graph moved meanwhile, the hop counts of a search that is   *)
(* over, which stand between a remediation and its limits, are distances:  *)
(* whatever is within d hops over edges that were there all the time, from *)
(* documents that were read, is counted with d or less, and whatever is    *)
(* counted with d or less is within d hops over edges that such documents  *)
(* had at some time (topology.py:502-530).                                 *)
RadiusIsDistance ==
    query = "blast" /\ queue = <<>> =>
        \A d \in 0 .. maxDepth :
            LET within == {n \in DOMAIN hop : hop[n] <= d}
            IN  /\ Ball({e \in steady : e[1] \in read}, d) \subseteq within
                /\ within \subseteq Ball({e \in seen : e[1] \in read}, d)

(* What get_path returns leads from source to target by edges that were in *)
(* the graph at some time of the query, taken in one direction or the      *)
(* other, and comes to no resource twice.                                  *)
PathIsWalk ==
    query = "found" =>
        /\ path[1] = Origin /\ path[Len(path)] = Target
        /\ \A i \in 1 .. Len(path) - 1 :
              <<path[i], path[i + 1]>> \in seen \/ <<path[i + 1], path[i]>> \in seen
        /\ \A i, j \in DOMAIN path : i # j => path[i] # path[j]

=============================================================================
