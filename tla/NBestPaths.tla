----------------------------- MODULE NBestPaths -----------------------------
(***************************************************************************)
(* NBestPaths::retrieve: the cheapest translations of a search graph whose *)
(* nodes keep the nodes that were recombined into them.  The best path is  *)
(* taken from a collection ordered by cost, and each of its nodes behind   *)
(* the last substituted one is replaced by every node combined with it.    *)
(*                                                                         *)
(* The graph is a lattice: a node (a hypothesis) translates the word of    *)
(* its layer, goes from a state to a state, and is recombined with the     *)
(* other nodes of its layer and state; in the last layer all nodes are     *)
(* recombined (finalizeRecombination).  Its predecessor is the best node   *)
(* of the state it comes from.  A path lists its nodes from the goal to    *)
(* the first word, as Nodes does.                                          *)
(***************************************************************************)
EXTENDS Integers, SequencesExt, FiniteSetsExt

CONSTANTS
    Layers,              \* words of the sentence
    State,               \* future states
    Label,               \* target phrases
    CostTables,          \* costs of arcs: functions from Node to Nat
    MaxPathCount,        \* largest NBestPathCount
    ExpansionFactors     \* values of NBestExpansionFactor

Root == CHOOSE s \in State : TRUE
Node == {n \in [layer : 1..Layers, from : State, to : State, label : Label] :
            n.layer = 1 => n.from = Root}

\* The costs of Nat are those of a scale of any fineness; a word can be translated.
ASSUME NBestAssumption ==
    /\ Layers \in Nat \ {0}
    /\ IsFiniteSet(State) /\ State # {} /\ IsFiniteSet(Label) /\ Label # {}
    /\ CostTables \subseteq [Node -> Nat]
    /\ MaxPathCount \in Nat /\ ExpansionFactors \subseteq Nat

VARIABLES
    arcCost, graph,      \* the search graph: costs, and the best node of each layer and state
    NBestPathCount, OnlyDistinctPaths, NBestExpansionFactor,
    Collection,          \* clsTrellisPathCollection: a multimap, as the sequence of its items
    Storage,             \* the paths found
    DistinctHypos,       \* their translations
    Iteration,
    pc

options == <<arcCost, graph, NBestPathCount, OnlyDistinctPaths, NBestExpansionFactor>>
vars == <<options, Collection, Storage, DistinctHypos, Iteration, pc>>

-----------------------------------------------------------------------------
(* The search graph.                                                          *)

\* Nodes that were compared and recombined: those of a state, or all of the last layer.
Group(layer, state) ==
    {n \in Node : n.layer = layer /\ (layer < Layers => n.to = state)}

Cheapest(group, cost) == CHOOSE n \in group : \A m \in group : cost[n] <= cost[m]

\* The best node of each state of a layer and what a path to it costs, from the
\* layer before.
Winners(layer, before) ==
    [s \in State |->
        LET cost == [n \in Group(layer, s) |-> before[n.from].cost + arcCost[n]]
            first == Cheapest(Group(layer, s), cost)
        IN  [node |-> first, cost |-> cost[first]]]

SearchGraph ==
    LET row[layer \in 0..Layers] ==
            IF layer = 0 THEN [s \in State |-> [node |-> << >>, cost |-> 0]]
            ELSE Winners(layer, row[layer-1])
    IN  row

best(layer, state) == graph[layer][state]
getCost(n) == best(n.layer-1, n.from).cost + arcCost[n]
prevNode(n) == best(n.layer-1, n.from).node
isRecombined(n) == n # best(n.layer, n.to).node

\* recombine leaves the other nodes of a group to the best one, and none to them.
\* Their order, here that of their costs, decides only among paths of equal cost.
getCombindedNodes(n) ==
    LET others == Group(n.layer, n.to) \ {n}
        cost == [m \in others |-> getCost(m)]
        byCost[k \in 0..Cardinality(others)] ==
            IF k = 0 THEN << >>
            ELSE Append(byCost[k-1], Cheapest(others \ ToSet(byCost[k-1]), cost))
    IN  IF isRecombined(n) THEN << >> ELSE byCost[Cardinality(others)]

\* A node and the nodes before it.
Backwards(n) ==
    LET chain[i \in 1..n.layer] == IF i = 1 THEN n ELSE prevNode(chain[i-1])
    IN  chain

-----------------------------------------------------------------------------
(* clsTrellisPath and its collection.                                         *)

clsTrellisPath(n) == [nodes |-> Backwards(n), cost |-> getCost(n), substituted |-> -1]

\* Mutant: the cost of what is replaced is not taken away.
DeviantCost_Added(path, index, n) == path.cost + getCost(n)

DeviantCost(path, index, n) == path.cost - getCost(path.nodes[index+1]) + getCost(n)

\* Indexes of nodes start at zero, as in the code.
createDeviantPath(path, index, n) ==
    [nodes |-> SubSeq(path.nodes, 1, index) \o Backwards(n),
     cost |-> DeviantCost(path, index, n), substituted |-> index]

\* Mutant: the collection is not cut.
add_Uncut(collection, path, maxSize) ==
    InsertAt(collection, Cardinality({i \in DOMAIN collection : collection[i].cost < path.cost}) + 1, path)

\* insertMulti puts an item before those of the same cost; the most expensive ones
\* are dropped.
add(collection, path, maxSize) ==
    LET place == Cardinality({i \in DOMAIN collection : collection[i].cost < path.cost}) + 1
        all == InsertAt(collection, place, path)
    IN  IF maxSize > 0 /\ Len(all) > maxSize THEN SubSeq(all, 1, maxSize) ELSE all

\* Mutant: nodes before the last substituted one are replaced again.
FirstIndex_Zero(path) == 0

FirstIndex(path) == path.substituted + 1

\* The paths that replace one node of a path are added.
addDeviants(path, index, collection, maxSize) ==
    LET combined == getCombindedNodes(path.nodes[index+1])
        added[i \in 0..Len(combined)] ==
            IF i = 0 THEN collection
            ELSE add(added[i-1], createDeviantPath(path, index, combined[i]), maxSize)
    IN  added[Len(combined)]

\* What is collected before each node is replaced, and behind the last.
expandAvailablePaths(path, collection, maxSize) ==
    LET before[index \in FirstIndex(path)..Len(path.nodes)] ==
            IF index = FirstIndex(path) THEN collection
            ELSE addDeviants(path, index-1, before[index-1], maxSize)
    IN  before[Len(path.nodes)]

-----------------------------------------------------------------------------
(* retrieve.                                                                  *)

\* A factor of 0 stands for no limit, which is a thousand.
ExpansionFactor == IF NBestExpansionFactor = 0 THEN 1000 ELSE NBestExpansionFactor
MaxIterations == NBestPathCount * ExpansionFactor
MaxSize == IF OnlyDistinctPaths THEN MaxIterations ELSE NBestPathCount

Init ==
    /\ arcCost \in CostTables
    /\ graph = SearchGraph
    /\ NBestPathCount \in 0..MaxPathCount
    /\ OnlyDistinctPaths \in BOOLEAN
    /\ NBestExpansionFactor \in ExpansionFactors
    /\ Collection = << >> /\ Storage = << >> /\ DistinctHypos = {} /\ Iteration = 0
    /\ pc = "start"

\* The nodes of the full coverage, of which recombination has left one.
Start ==
    /\ pc = "start"
    /\ Collection' = add(<< >>, clsTrellisPath(best(Layers, Root).node), MaxSize)
    /\ pc' = "loop"
    /\ UNCHANGED <<options, Storage, DistinctHypos, Iteration>>

Continues ==
    Collection # << >> /\ Len(Storage) < NBestPathCount /\ Iteration < MaxIterations

pathTranslation(path) == [i \in DOMAIN path.nodes |-> path.nodes[i].label]

IsNew(path) == OnlyDistinctPaths => pathTranslation(path) \notin DistinctHypos

NextPath ==
    /\ pc = "loop" /\ Continues
    /\ LET path == Head(Collection)
       IN  /\ Storage' = IF IsNew(path) THEN Append(Storage, path) ELSE Storage
           /\ DistinctHypos' = IF OnlyDistinctPaths THEN DistinctHypos \cup {pathTranslation(path)}
                             ELSE DistinctHypos
           /\ Collection' = expandAvailablePaths(path, Tail(Collection), MaxSize)
    /\ Iteration' = Iteration + 1
    /\ UNCHANGED <<options, pc>>

Return ==
    /\ pc = "loop" /\ ~Continues
    /\ pc' = "returned"
    /\ UNCHANGED <<options, Collection, Storage, DistinctHypos, Iteration>>

Returned == pc = "returned" /\ UNCHANGED vars

Next == Start \/ NextPath \/ Return \/ Returned

Spec == Init /\ [][Next]_vars

-----------------------------------------------------------------------------
(* Properties                                                                 *)

\* The collection is in the order of costs, and as small as it should be.
TypeOK ==
    /\ \A i \in 1..Len(Collection)-1 : Collection[i].cost <= Collection[i+1].cost
    /\ MaxSize > 0 => Len(Collection) <= MaxSize
    /\ Len(Storage) <= NBestPathCount
    /\ \A i \in DOMAIN Storage : Len(Storage[i].nodes) = Layers
    /\ Iteration \in 0..MaxIterations
    /\ pc \in {"start", "loop", "returned"}

\* All paths from the first word to the last, and what they cost, counted without
\* the graph's recombination.
AllPaths ==
    {p \in [1..Layers -> Node] :
        /\ \A i \in 1..Layers : p[i].layer = Layers + 1 - i
        /\ \A i \in 1..Layers-1 : p[i].from = p[i+1].to}
PathCost(p) ==
    LET sum[i \in 0..Layers] == IF i = 0 THEN 0 ELSE sum[i-1] + arcCost[p[i]] IN sum[Layers]

\* What is returned, and the cost that is said of it, is the cheapest there is: the
\* paths, or for distinct ones the translations, that are not returned cost no less
\* than those that are; and fewer than NBestPathCount are only returned when there are
\* no more, or when the expansion factor ended the search.
CheapestFirst ==
    pc = "returned" =>
        LET found == ToSet(Storage)
            foundTexts == {pathTranslation(p) : p \in found}
            last == IF Storage = << >> THEN 0 ELSE Last(Storage).cost
            left == IF OnlyDistinctPaths
                    THEN {p \in AllPaths : [i \in 1..Layers |-> p[i].label] \notin foundTexts}
                    ELSE AllPaths \ {p.nodes : p \in found}
        IN  /\ \A p \in found : p.cost = PathCost(p.nodes)
            /\ \A i \in 1..Len(Storage)-1 : Storage[i].cost <= Storage[i+1].cost
            /\ \A p \in left : PathCost(p) >= last
            /\ Len(Storage) < NBestPathCount /\ Iteration < MaxIterations => left = {}

\* No path is found twice: it is not stored again, nor waiting in the collection more
\* than once; and when only distinct paths are wanted no translation is.
NothingTwice ==
    /\ IsInjective([i \in DOMAIN Collection |-> Collection[i].nodes])
    /\ \A i \in DOMAIN Collection : \A j \in DOMAIN Storage : Collection[i].nodes # Storage[j].nodes
    /\ IsInjective([i \in DOMAIN Storage |-> Storage[i].nodes])
    /\ OnlyDistinctPaths => IsInjective([i \in DOMAIN Storage |-> pathTranslation(Storage[i])])

=============================================================================
