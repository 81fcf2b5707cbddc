-------------------------- MODULE NBestPathsProofs --------------------------
(***************************************************************************)
(* Proofs about NBestPaths::retrieve, for sentences of any length, any     *)
(* states, phrases and costs, any number of paths and any expansion factor.*)
(***************************************************************************)
EXTENDS NBestPaths, FiniteSetTheorems, WellFoundedInduction, TLAPS

-----------------------------------------------------------------------------
(* Numbers, and functions defined by recursion on them.                       *)

LEMMA LeastNumber ==
    ASSUME NEW S \in SUBSET Nat, S # {}
    PROVE  \E m \in S : \A k \in S : m <= k
<1> DEFINE R == OpToRel(<, Nat)
<1>1. IsWellFoundedOn(R, Nat)
  BY NatLessThanWellFounded
<1>2. \A i, j \in Nat : <<i, j>> \in R <=> i < j
  BY DEF OpToRel
<1> HIDE DEF R
<1>3. PICK m \in S : \A k \in S : <<k, m>> \notin R
  BY <1>1, WFMin
<1>4. ASSUME NEW k \in S PROVE m <= k
  <2>1. m \in Nat /\ k \in Nat
    OBVIOUS
  <2>2. ~(k < m)
    BY <1>2, <1>3, <2>1
  <2>3. QED
    BY <2>1, <2>2
<1>5. QED
  BY <1>4

\* Induction up to a number, for the numbers of a set.
LEMMA Induction ==
    ASSUME NEW n \in Nat, NEW S, 0 \in S, \A i \in 1..n : i - 1 \in S => i \in S
    PROVE  0..n \subseteq S
<1> DEFINE Rest == {i \in 0..n : i \notin S}
<1>1. CASE Rest = {}
  BY <1>1
<1>2. CASE Rest # {}
  <2>1. Rest \in SUBSET Nat
    OBVIOUS
  <2>2. PICK i \in Rest : \A k \in Rest : i <= k
    BY <1>2, <2>1, LeastNumber
  <2>3. i \in 1..n
    BY <2>2
  <2>4. i - 1 \notin Rest
    BY <2>2, <2>3
  <2>5. i - 1 \in 0..n
    BY <2>3
  <2>6. QED
    BY <2>2, <2>3, <2>4, <2>5
<1>3. QED
  BY <1>1, <1>2

Iterates(f, T, first, step, n) ==
    f \in [0..n -> T] /\ f[0] = first /\ \A i \in 1..n : f[i] = step[<<i, f[i-1]>>]

LEMMA RecursionExists ==
    ASSUME NEW T, NEW first \in T, NEW step \in [Nat \X T -> T], NEW n \in Nat
    PROVE  \E f : Iterates(f, T, first, step, n)
<1> DEFINE Good(k) == \E f \in [0..k -> T] : f[0] = first /\ \A i \in 1..k : f[i] = step[<<i, f[i-1]>>]
           S == {k \in 0..n : Good(k)}
<1>1. Good(0)
  <2> DEFINE g == [i \in 0..0 |-> first]
  <2>1. g \in [0..0 -> T] /\ g[0] = first /\ 1..0 = {}
    OBVIOUS
  <2> HIDE DEF g
  <2>2. QED
    BY <2>1
<1>2. ASSUME NEW k \in 1..n, Good(k-1) PROVE Good(k)
  <2>1. PICK f \in [0..k-1 -> T] : f[0] = first /\ \A i \in 1..k-1 : f[i] = step[<<i, f[i-1]>>]
    BY <1>2
  <2> DEFINE g == [i \in 0..k |-> IF i = k THEN step[<<k, f[k-1]>>] ELSE f[i]]
  <2>2. step[<<k, f[k-1]>>] \in T
    OBVIOUS
  <2>3. g \in [0..k -> T]
    BY <2>2
  <2>4. g[0] = first /\ g[k] = step[<<k, g[k-1]>>]
    <3>1. 0 \in 0..k /\ k \in 0..k /\ k-1 \in 0..k /\ 0 # k /\ k-1 # k
      OBVIOUS
    <3>2. g[0] = f[0] /\ g[k] = step[<<k, f[k-1]>>] /\ g[k-1] = f[k-1]
      BY <3>1
    <3>3. QED
      BY <2>1, <3>2
  <2>5. ASSUME NEW i \in 1..k-1 PROVE g[i] = step[<<i, g[i-1]>>]
    BY <2>1
  <2>6. \A i \in 1..k : i = k \/ i \in 1..k-1
    OBVIOUS
  <2> HIDE DEF g
  <2>7. QED
    BY <2>3, <2>4, <2>5, <2>6
<1> HIDE DEF Good
<1>3. 0 \in S /\ \A i \in 1..n : i - 1 \in S => i \in S
  <2>1. \A i \in 1..n : i \in 0..n
    OBVIOUS
  <2>2. QED
    BY <1>1, <1>2, <2>1
<1>4. n \in S
  <2> HIDE DEF S
  <2>1. 0..n \subseteq S
    BY <1>3, Induction
  <2>2. n \in 0..n
    OBVIOUS
  <2>3. QED
    BY <2>1, <2>2
<1>5. QED
  BY <1>4 DEF Good, Iterates

-----------------------------------------------------------------------------
(* Nodes and groups.                                                          *)

LEMMA LayersAre ==
    /\ Layers \in Nat /\ Layers # 0 /\ Layers \in 1..Layers /\ 0 \in 0..Layers
    /\ \A i \in 1..Layers : i \in 0..Layers /\ i # 0 /\ i-1 \in 0..Layers
    /\ \A i \in 0..Layers : i = 0 \/ i \in 1..Layers
<1>1. Layers \in Nat /\ Layers # 0
  BY NBestAssumption
<1>2. QED
  BY <1>1

LEMMA NodeFields ==
    ASSUME NEW n \in Node
    PROVE  /\ n.layer \in 1..Layers /\ n.from \in State /\ n.to \in State /\ n.label \in Label
           /\ n.layer = 1 => n.from = Root
BY DEF Node

LEMMA GroupIs ==
    ASSUME NEW layer \in 1..Layers, NEW s \in State
    PROVE  /\ Group(layer, s) \subseteq Node /\ Group(layer, s) # {}
           /\ \A n \in Node : n \in Group(layer, s) <=>
                  n.layer = layer /\ (layer < Layers => n.to = s)
<1>1. Root \in State
  BY NBestAssumption DEF Root
<1>2. PICK label \in Label : TRUE
  BY NBestAssumption
<1>3. [layer |-> layer, from |-> Root, to |-> s, label |-> label] \in Node
  BY <1>1 DEF Node
<1>4. QED
  BY <1>3 DEF Group

LEMMA CheapestIs ==
    ASSUME NEW group, group # {}, NEW cost, \A n \in group : cost[n] \in Nat
    PROVE  /\ Cheapest(group, cost) \in group
           /\ \A m \in group : cost[Cheapest(group, cost)] <= cost[m]
<1> DEFINE Costs == {cost[n] : n \in group}
<1>1. PICK c \in Costs : \A k \in Costs : c <= k
  <2>1. Costs \in SUBSET Nat /\ Costs # {}
    OBVIOUS
  <2>2. QED
    BY <2>1, LeastNumber
<1>2. \E n \in group : \A m \in group : cost[n] <= cost[m]
  BY <1>1
<1>3. QED
  BY <1>2 DEF Cheapest

Row == [State -> [node : Node \cup {<< >>}, cost : Nat]]

LEMMA WinnersAre ==
    ASSUME arcCost \in [Node -> Nat], NEW layer \in 1..Layers, NEW before \in Row
    PROVE  /\ Winners(layer, before) \in Row
           /\ \A s \in State :
                LET w == Winners(layer, before)[s]
                IN  /\ w.node \in Group(layer, s)
                    /\ w.cost = before[w.node.from].cost + arcCost[w.node]
                    /\ \A m \in Group(layer, s) : w.cost <= before[m.from].cost + arcCost[m]
           /\ layer = Layers => \A s, t \in State : Winners(layer, before)[s] = Winners(layer, before)[t]
<1> DEFINE cost(s) == [n \in Group(layer, s) |-> before[n.from].cost + arcCost[n]]
           first(s) == Cheapest(Group(layer, s), cost(s))
<1>1. Winners(layer, before) = [s \in State |-> [node |-> first(s), cost |-> cost(s)[first(s)]]]
  BY DEF Winners
<1>2. ASSUME NEW s \in State
      PROVE  /\ first(s) \in Group(layer, s) /\ first(s) \in Node
             /\ cost(s)[first(s)] = before[first(s).from].cost + arcCost[first(s)]
             /\ cost(s)[first(s)] \in Nat
             /\ \A m \in Group(layer, s) : cost(s)[first(s)] <= before[m.from].cost + arcCost[m]
  <2>1. \A n \in Node : before[n.from].cost + arcCost[n] \in Nat
    BY NodeFields DEF Row
  <2>2. Group(layer, s) \subseteq Node /\ Group(layer, s) # {}
    BY GroupIs
  <2>3. \A n \in Group(layer, s) : cost(s)[n] = before[n.from].cost + arcCost[n] /\ cost(s)[n] \in Nat
    BY <2>1, <2>2
  <2> HIDE DEF cost
  <2>4. first(s) \in Group(layer, s) /\ \A m \in Group(layer, s) : cost(s)[first(s)] <= cost(s)[m]
    BY <2>2, <2>3, CheapestIs
  <2> HIDE DEF first
  <2>5. QED
    BY <2>2, <2>3, <2>4
<1>3. layer = Layers => \A s, t \in State : first(s) = first(t) /\ cost(s) = cost(t)
  <2>1. layer = Layers => \A s, t \in State : Group(layer, s) = Group(layer, t)
    BY NBestAssumption DEF Group
  <2>2. QED
    BY <2>1
<1> HIDE DEF cost, first
<1>4. Winners(layer, before) \in Row
  BY <1>1, <1>2 DEF Row
<1>5. QED
  BY <1>1, <1>2, <1>3, <1>4

\* What the search graph is used for: the costs of its arcs, and of each group the
\* cheapest node; in the last layer there is one group.
Lattice ==
    /\ arcCost \in [Node -> Nat]
    /\ \A s \in State : best(0, s).cost = 0
    /\ \A layer \in 0..Layers, s \in State : best(layer, s).cost \in Nat
    /\ \A layer \in 1..Layers, s \in State :
          /\ best(layer, s).node \in Group(layer, s)
          /\ best(layer, s).cost = getCost(best(layer, s).node)
          /\ \A m \in Group(layer, s) : best(layer, s).cost <= getCost(m)
    /\ \A s, t \in State : best(Layers, s) = best(Layers, t)

FirstRow == [s \in State |-> [node |-> << >>, cost |-> 0]]
IsGraph(row) ==
    row = [layer \in 0..Layers |->
              IF layer = 0 THEN FirstRow ELSE Winners(layer, row[layer-1])]

LEMMA GraphExists ==
    ASSUME arcCost \in [Node -> Nat]
    PROVE  IsGraph(SearchGraph)
<1> DEFINE step == [x \in Nat \X Row |-> IF x[1] \in 1..Layers THEN Winners(x[1], x[2]) ELSE x[2]]
<1>1. FirstRow \in Row
  BY DEF FirstRow, Row
<1>2. step \in [Nat \X Row -> Row]
  BY WinnersAre
<1>3. \A i \in 1..Layers, r \in Row : step[<<i, r>>] = Winners(i, r)
  BY NBestAssumption
<1> HIDE DEF step
<1>4. PICK f \in [0..Layers -> Row] : f[0] = FirstRow /\ \A i \in 1..Layers : f[i] = step[<<i, f[i-1]>>]
  <2>1. \E f : Iterates(f, Row, FirstRow, step, Layers)
    BY <1>1, <1>2, LayersAre, RecursionExists
  <2>2. QED
    BY <2>1 DEF Iterates
<1>5. \A i \in 0..Layers : f[i] = IF i = 0 THEN FirstRow ELSE Winners(i, f[i-1])
  BY <1>3, <1>4, LayersAre
<1>6. IsGraph(f)
  BY <1>5 DEF IsGraph
<1>7. SearchGraph = CHOOSE row : IsGraph(row)
  BY DEF SearchGraph, IsGraph, FirstRow
<1>8. QED
  BY <1>6, <1>7

LEMMA GraphIsLattice ==
    ASSUME arcCost \in [Node -> Nat], graph = SearchGraph
    PROVE  Lattice
<1>1. /\ graph[0] = FirstRow
      /\ \A layer \in 1..Layers : graph[layer] = Winners(layer, graph[layer-1])
  <2>1. \A i \in 1..Layers : i # 0 /\ i \in 0..Layers
    BY NBestAssumption
  <2>2. 0 \in 0..Layers
    BY NBestAssumption
  <2>3. QED
    BY <2>1, <2>2, GraphExists DEF IsGraph
<1>2. \A layer \in 0..Layers : graph[layer] \in Row
  <2> DEFINE S == {i \in 0..Layers : graph[i] \in Row}
  <2>1. 0 \in S
    BY <1>1, NBestAssumption DEF FirstRow, Row
  <2>2. \A i \in 1..Layers : i - 1 \in S => i \in S
    BY <1>1, WinnersAre, NBestAssumption
  <2> HIDE DEF S
  <2>3. 0..Layers \subseteq S
    BY <2>1, <2>2, Induction, NBestAssumption
  <2>4. QED
    BY <2>3 DEF S
<1>3. \A s \in State : best(0, s).cost = 0
  BY <1>1 DEF best, FirstRow
<1>4. \A layer \in 0..Layers, s \in State : best(layer, s).cost \in Nat
  BY <1>2 DEF best, Row
<1>5. ASSUME NEW layer \in 1..Layers, NEW s \in State
      PROVE  /\ best(layer, s).node \in Group(layer, s)
             /\ best(layer, s).cost = getCost(best(layer, s).node)
             /\ \A m \in Group(layer, s) : best(layer, s).cost <= getCost(m)
  <2>1. graph[layer-1] \in Row
    BY <1>2, NBestAssumption
  <2>2. \A n \in Group(layer, s) : n.layer = layer
    BY DEF Group
  <2>3. QED
    BY <1>1, <2>1, <2>2, WinnersAre DEF best, getCost
<1>6. \A s, t \in State : best(Layers, s) = best(Layers, t)
  <2>1. Layers \in 1..Layers /\ graph[Layers-1] \in Row
    BY <1>2, NBestAssumption
  <2>2. QED
    BY <1>1, <2>1, WinnersAre DEF best
<1>7. QED
  BY <1>3, <1>4, <1>5, <1>6 DEF Lattice
-----------------------------------------------------------------------------
(* What paths cost.                                                           *)

IsSum(sum, p) == sum = [i \in 0..Layers |-> IF i = 0 THEN 0 ELSE sum[i-1] + arcCost[p[i]]]

\* The costs of the first arcs of a path.
Sums(p) == CHOOSE sum : IsSum(sum, p)

LEMMA SumExists ==
    ASSUME Lattice, NEW p \in [1..Layers -> Node]
    PROVE  IsSum(Sums(p), p)
<1> DEFINE step == [x \in Nat \X Nat |-> IF x[1] \in 1..Layers THEN x[2] + arcCost[p[x[1]]] ELSE x[2]]
<1>1. step \in [Nat \X Nat -> Nat] /\ \A i \in 1..Layers, k \in Nat : step[<<i, k>>] = k + arcCost[p[i]]
  BY DEF Lattice
<1> HIDE DEF step
<1>2. PICK f : Iterates(f, Nat, 0, step, Layers)
  BY <1>1, LayersAre, RecursionExists
<1>3. \A i \in 0..Layers : f[i] = IF i = 0 THEN 0 ELSE f[i-1] + arcCost[p[i]]
  BY <1>1, <1>2, LayersAre DEF Iterates
<1>4. IsSum(f, p)
  BY <1>2, <1>3 DEF IsSum, Iterates
<1>5. QED
  BY <1>4 DEF Sums

LEMMA SumsAre ==
    ASSUME Lattice, NEW p \in [1..Layers -> Node]
    PROVE  /\ PathCost(p) = Sums(p)[Layers] /\ Sums(p)[0] = 0
           /\ \A i \in 1..Layers : Sums(p)[i] = Sums(p)[i-1] + arcCost[p[i]]
           /\ \A i \in 0..Layers : Sums(p)[i] \in Nat
<1>1. PathCost(p) = Sums(p)[Layers]
  BY DEF PathCost, Sums, IsSum
<1>2. Sums(p)[0] = 0 /\ \A i \in 1..Layers : Sums(p)[i] = Sums(p)[i-1] + arcCost[p[i]]
  BY SumExists, LayersAre DEF IsSum
<1>3. \A i \in 0..Layers : Sums(p)[i] \in Nat
  <2> DEFINE S == {i \in 0..Layers : Sums(p)[i] \in Nat}
  <2>1. 0 \in S
    BY <1>2, LayersAre
  <2>2. \A i \in 1..Layers : i - 1 \in S => i \in S
    BY <1>2, LayersAre DEF Lattice
  <2> HIDE DEF S
  <2>3. 0..Layers \subseteq S
    BY <2>1, <2>2, Induction, LayersAre
  <2>4. QED
    BY <2>3 DEF S
<1>4. QED
  BY <1>1, <1>2, <1>3

\* Two paths have their first nodes in common.
Agree(p, q, k) == \A i \in 1..k : p[i] = q[i]

LEMMA SumsAgree ==
    ASSUME Lattice, NEW p \in [1..Layers -> Node], NEW q \in [1..Layers -> Node],
           NEW k \in 0..Layers, Agree(p, q, k)
    PROVE  Sums(p)[k] = Sums(q)[k]
<1> DEFINE S == {i \in 0..k : Sums(p)[i] = Sums(q)[i]}
<1>1. k \in Nat /\ \A i \in 1..k : i \in 1..Layers /\ i \in 0..k
  BY LayersAre
<1>2. 0 \in S
  BY <1>1, SumsAre
<1>3. ASSUME NEW i \in 1..k, i - 1 \in S PROVE i \in S
  <2>1. i \in 1..Layers /\ i \in 0..k
    BY <1>1
  <2>2. Sums(p)[i] = Sums(p)[i-1] + arcCost[p[i]] /\ Sums(q)[i] = Sums(q)[i-1] + arcCost[q[i]]
    BY <2>1, SumsAre
  <2>3. Sums(p)[i-1] = Sums(q)[i-1] /\ p[i] = q[i]
    BY <1>3 DEF Agree
  <2>4. QED
    BY <2>1, <2>2, <2>3
<1> HIDE DEF S
<1>4. 0..k \subseteq S
  BY <1>1, <1>2, <1>3, Induction
<1>5. k \in 0..k
  BY <1>1
<1>6. QED
  BY <1>4, <1>5 DEF S

\* The cost of the arcs up to a node of a path, and from there of the cheapest ones.
Estimate(p, k) == Sums(p)[k-1] + getCost(p[k])

LEMMA PathIs ==
    ASSUME NEW p \in AllPaths
    PROVE  /\ p \in [1..Layers -> Node]
           /\ \A i \in 1..Layers : p[i] \in Node /\ p[i].layer = Layers + 1 - i
           /\ \A i \in 1..Layers-1 : p[i].from = p[i+1].to
BY DEF AllPaths

LEMMA CostIsNat ==
    ASSUME Lattice, NEW n \in Node
    PROVE  getCost(n) \in Nat /\ getCost(n) = best(n.layer-1, n.from).cost + arcCost[n]
<1>1. n.layer - 1 \in 0..Layers /\ n.from \in State
  BY NodeFields, LayersAre
<1>2. best(n.layer-1, n.from).cost \in Nat /\ arcCost[n] \in Nat
  BY <1>1 DEF Lattice
<1>3. QED
  BY <1>2 DEF getCost

LEMMA EstimateGrows ==
    ASSUME Lattice, NEW p \in AllPaths
    PROVE  /\ \A k \in 1..Layers : Estimate(p, k) \in Nat
           /\ Estimate(p, Layers) = PathCost(p) /\ PathCost(p) \in Nat
           /\ \A k \in 1..Layers-1 :
                 /\ Estimate(p, k) <= Estimate(p, k+1)
                 /\ ~isRecombined(p[k+1]) => Estimate(p, k) = Estimate(p, k+1)
<1>1. ASSUME NEW k \in 1..Layers PROVE Estimate(p, k) \in Nat
  <2>1. p[k] \in Node /\ k-1 \in 0..Layers /\ p \in [1..Layers -> Node]
    BY PathIs, LayersAre
  <2>2. getCost(p[k]) \in Nat /\ Sums(p)[k-1] \in Nat
    BY <2>1, CostIsNat, SumsAre
  <2>3. QED
    BY <2>2 DEF Estimate
<1>2. Estimate(p, Layers) = PathCost(p)
  <2>1. p[Layers] \in Node /\ p[Layers].layer = 1 /\ p \in [1..Layers -> Node]
    <3>1. p[Layers] \in Node /\ p[Layers].layer = Layers + 1 - Layers /\ p \in [1..Layers -> Node]
      BY PathIs, LayersAre
    <3>2. Layers + 1 - Layers = 1
      BY LayersAre
    <3>3. QED
      BY <3>1, <3>2
  <2>2. getCost(p[Layers]) = 0 + arcCost[p[Layers]]
    <3> DEFINE n == p[Layers]
    <3> HIDE DEF n
    <3>1. n \in Node /\ n.layer = 1
      BY <2>1 DEF n
    <3>2. n.from \in State /\ n.layer - 1 = 0
      BY <3>1, NodeFields
    <3>3. best(0, n.from).cost = 0
      BY <3>2 DEF Lattice
    <3>4. getCost(n) = 0 + arcCost[n]
      BY <3>1, <3>2, <3>3, CostIsNat
    <3>5. QED
      BY <3>4 DEF n
  <2>3. PathCost(p) = Sums(p)[Layers-1] + arcCost[p[Layers]]
    BY <2>1, SumsAre, LayersAre
  <2>4. arcCost[p[Layers]] \in Nat
    BY <2>1 DEF Lattice
  <2>5. QED
    BY <2>2, <2>3, <2>4 DEF Estimate
<1>3. ASSUME NEW k \in 1..Layers-1
      PROVE  /\ Estimate(p, k) <= Estimate(p, k+1)
             /\ ~isRecombined(p[k+1]) => Estimate(p, k) = Estimate(p, k+1)
  <2> DEFINE n == p[k]  m == p[k+1]
  <2>1. k \in 1..Layers /\ k+1 \in 1..Layers /\ (k+1)-1 = k /\ Layers - k \in 1..Layers
        /\ Layers + 1 - k = Layers - k + 1 /\ Layers + 1 - (k+1) = Layers - k
    BY LayersAre
  <2>2. n \in Node /\ n.layer - 1 = Layers - k /\ m \in Node /\ m.layer = Layers - k /\ n.from = m.to
    BY <2>1, PathIs
  <2>3. m \in Group(Layers - k, n.from)
    BY <2>1, <2>2, GroupIs, NodeFields
  <2>4. best(Layers - k, n.from).cost <= getCost(m)
        /\ best(Layers - k, n.from).cost = getCost(best(Layers - k, n.from).node)
        /\ best(Layers - k, n.from).cost \in Nat
    BY <2>1, <2>2, <2>3, NodeFields, LayersAre DEF Lattice
  <2>5. getCost(n) = best(Layers - k, n.from).cost + arcCost[n]
        /\ getCost(n) \in Nat /\ getCost(m) \in Nat /\ arcCost[n] \in Nat
    BY <2>2, CostIsNat DEF Lattice
  <2>6. ~isRecombined(m) => getCost(m) = best(Layers - k, n.from).cost
    BY <2>2, <2>4 DEF isRecombined
  <2>7. Sums(p)[k] = Sums(p)[k-1] + arcCost[n] /\ Sums(p)[k-1] \in Nat
    BY <2>1, PathIs, SumsAre, LayersAre
  <2>8. Estimate(p, k) = Sums(p)[k-1] + getCost(n) /\ Estimate(p, k+1) = Sums(p)[k] + getCost(m)
    BY <2>1 DEF Estimate
  <2> HIDE DEF n, m
  <2>9. QED
    BY <2>4, <2>5, <2>6, <2>7, <2>8 DEF m
<1>4. QED
  BY <1>1, <1>2, <1>3, LayersAre
\* The cheapest of the paths that begin with some nodes goes on with nodes that are
\* not recombined.
LEMMA CheapestContinuation ==
    ASSUME Lattice, NEW p \in AllPaths, NEW k \in 1..Layers
    PROVE  /\ Estimate(p, k) <= PathCost(p)
           /\ (\A i \in 1..Layers : i > k => ~isRecombined(p[i])) => Estimate(p, k) = PathCost(p)
<1> DEFINE E(i) == Estimate(p, Layers - i)
           Kept == \A i \in 1..Layers : i > k => ~isRecombined(p[i])
           S == {i \in 0..Layers-k : E(i) <= PathCost(p) /\ (Kept => E(i) = PathCost(p))}
<1>1. /\ Layers - k \in Nat /\ Layers - k \in 0..Layers-k /\ Layers - (Layers - k) = k /\ Layers - 0 = Layers
      /\ 0 \in 0..Layers-k
  BY LayersAre
<1>2. 0 \in S
  BY <1>1, EstimateGrows
<1>3. ASSUME NEW i \in 1..Layers-k, i - 1 \in S PROVE i \in S
  <2> DEFINE l == Layers - i
  <2>1. l \in 1..Layers-1 /\ l \in 1..Layers /\ l+1 \in 1..Layers /\ l+1 > k /\ Layers - (i-1) = l+1 /\ i \in 0..Layers-k
    BY LayersAre
  <2> HIDE DEF l
  <2>2. Estimate(p, l+1) <= PathCost(p) /\ (Kept => Estimate(p, l+1) = PathCost(p))
    BY <1>3, <2>1
  <2>3. /\ Estimate(p, l) <= Estimate(p, l+1)
        /\ ~isRecombined(p[l+1]) => Estimate(p, l) = Estimate(p, l+1)
        /\ Estimate(p, l) \in Nat /\ Estimate(p, l+1) \in Nat /\ PathCost(p) \in Nat
    BY <2>1, EstimateGrows
  <2>4. Kept => ~isRecombined(p[l+1])
    BY <2>1
  <2> HIDE DEF Kept
  <2>5. Estimate(p, l) <= PathCost(p) /\ (Kept => Estimate(p, l) = PathCost(p))
    BY <2>2, <2>3, <2>4
  <2>6. QED
    BY <2>1, <2>5 DEF l
<1> HIDE DEF S
<1>4. 0..Layers-k \subseteq S
  BY <1>1, <1>2, <1>3, Induction
<1> HIDE DEF Kept
<1>5. E(Layers-k) <= PathCost(p) /\ (Kept => E(Layers-k) = PathCost(p))
  BY <1>1, <1>4 DEF S
<1>6. QED
  BY <1>1, <1>5 DEF Kept

-----------------------------------------------------------------------------
(* Going back from a node.                                                    *)

IsChain(chain, n) == chain = [i \in 1..n.layer |-> IF i = 1 THEN n ELSE prevNode(chain[i-1])]

LEMMA prevNodeIs ==
    ASSUME Lattice, NEW n \in Node, n.layer # 1
    PROVE  /\ prevNode(n) \in Node /\ prevNode(n).layer = n.layer - 1 /\ prevNode(n).to = n.from
           /\ ~isRecombined(prevNode(n)) /\ prevNode(n).layer < Layers
<1>1. n.layer - 1 \in 1..Layers /\ n.from \in State /\ n.layer - 1 < Layers
  BY NodeFields, LayersAre
<1>2. prevNode(n) \in Group(n.layer-1, n.from)
  BY <1>1 DEF prevNode, Lattice
<1>3. prevNode(n) \in Node /\ prevNode(n).layer = n.layer - 1 /\ prevNode(n).to = n.from
  BY <1>1, <1>2, GroupIs
<1>4. QED
  BY <1>1, <1>3 DEF isRecombined, prevNode

LEMMA ChainExists ==
    ASSUME Lattice, NEW n \in Node
    PROVE  IsChain(Backwards(n), n)
<1> DEFINE step == [x \in Nat \X Node |-> IF x[2].layer # 1 THEN prevNode(x[2]) ELSE x[2]]
<1>1. step \in [Nat \X Node -> Node] /\ \A i \in Nat, m \in Node : m.layer # 1 => step[<<i, m>>] = prevNode(m)
  BY prevNodeIs
<1> HIDE DEF step
<1>2. n.layer \in 1..Layers /\ n.layer - 1 \in Nat /\ 0 \in 0..n.layer-1
      /\ \A i \in 1..n.layer-1 : i-1 \in 0..n.layer-1 /\ i-1 \in Nat /\ n.layer - (i-1) # 1 /\ i \in Nat
                                 /\ n.layer - (i-1) - 1 = n.layer - i /\ i \in 0..n.layer-1
      /\ n.layer - 0 = n.layer
  BY NodeFields, LayersAre
<1>3. PICK f : Iterates(f, Node, n, step, n.layer-1)
  BY <1>1, <1>2, RecursionExists
<1>4. f \in [0..n.layer-1 -> Node] /\ f[0] = n /\ \A i \in 1..n.layer-1 : f[i] = step[<<i, f[i-1]>>]
  BY <1>3 DEF Iterates
<1> DEFINE S == {i \in 0..n.layer-1 : f[i].layer = n.layer - i}
<1>5. 0 \in S
  BY <1>2, <1>4
<1>6. ASSUME NEW i \in 1..n.layer-1, i-1 \in S PROVE i \in S /\ f[i] = prevNode(f[i-1])
  <2>1. f[i-1] \in Node /\ f[i-1].layer = n.layer - (i-1) /\ f[i-1].layer # 1
    BY <1>2, <1>4, <1>6
  <2>2. f[i] = prevNode(f[i-1]) /\ f[i].layer = n.layer - (i-1) - 1
    <3> DEFINE m == f[i-1]
    <3>1. f[i] = step[<<i, m>>] /\ i \in Nat
      BY <1>2, <1>4
    <3> HIDE DEF m
    <3>2. m \in Node /\ m.layer # 1 /\ m.layer = n.layer - (i-1)
      BY <2>1 DEF m
    <3>3. f[i] = prevNode(m) /\ prevNode(m).layer = m.layer - 1
      BY <1>1, <3>1, <3>2, prevNodeIs
    <3>4. QED
      BY <3>2, <3>3 DEF m
  <2>3. QED
    BY <1>2, <2>2
<1> HIDE DEF S
<1>7. 0..n.layer-1 \subseteq S
  BY <1>2, <1>5, <1>6, Induction
<1>8. \A i \in 1..n.layer-1 : f[i] = prevNode(f[i-1])
  BY <1>2, <1>6, <1>7
<1> DEFINE g == [i \in 1..n.layer |-> f[i-1]]
<1>9. \A i \in 1..n.layer : g[i] = IF i = 1 THEN n ELSE prevNode(g[i-1])
  <2> SUFFICES ASSUME NEW i \in 1..n.layer PROVE g[i] = IF i = 1 THEN n ELSE prevNode(g[i-1])
    OBVIOUS
  <2>1. CASE i = 1
    BY <1>2, <1>4, <2>1
  <2>2. CASE i # 1
    <3>1. i-1 \in 1..n.layer-1 /\ i-1 \in 1..n.layer /\ i \in 1..n.layer
      BY <1>2, <2>2
    <3>2. g[i] = f[i-1] /\ g[i-1] = f[(i-1)-1]
      BY <3>1
    <3>3. QED
      BY <1>8, <2>2, <3>1, <3>2
  <2>3. QED
    BY <2>1, <2>2
<1>10. IsChain(g, n)
  <2>1. g = [i \in 1..n.layer |-> g[i]]
    OBVIOUS
  <2> HIDE DEF g
  <2>2. QED
    BY <1>9, <2>1 DEF IsChain
<1>11. Backwards(n) = CHOOSE chain : IsChain(chain, n)
  BY DEF Backwards, IsChain
<1> HIDE DEF g
<1>12. QED
  BY <1>10, <1>11

LEMMA BackwardsIs ==
    ASSUME Lattice, NEW n \in Node
    PROVE  LET b == Backwards(n)
           IN  /\ b \in [1..n.layer -> Node] /\ b[1] = n
               /\ \A i \in 1..n.layer : b[i].layer = n.layer + 1 - i
               /\ \A i \in 2..n.layer : b[i-1].from = b[i].to /\ ~isRecombined(b[i])
<1> DEFINE b == Backwards(n)
<1>1. n.layer \in 1..Layers /\ n.layer \in Nat /\ n.layer - 1 \in Nat
  BY NodeFields, LayersAre
<1>2. /\ b = [i \in 1..n.layer |-> b[i]] /\ b[1] = n
      /\ \A i \in 2..n.layer : b[i] = prevNode(b[i-1])
  <2>1. IsChain(b, n)
    BY ChainExists
  <2> HIDE DEF b
  <2>2. b = [i \in 1..n.layer |-> IF i = 1 THEN n ELSE prevNode(b[i-1])]
    BY <2>1 DEF IsChain
  <2>3. 1 \in 1..n.layer /\ \A i \in 2..n.layer : i \in 1..n.layer /\ i # 1
    BY <1>1
  <2>4. \A i \in 1..n.layer : b[i] = IF i = 1 THEN n ELSE prevNode(b[i-1])
    BY <2>2
  <2>5. b = [i \in 1..n.layer |-> b[i]]
    BY <2>2
  <2>6. QED
    BY <2>3, <2>4, <2>5
<1> HIDE DEF b
<1> DEFINE S == {i \in 0..n.layer-1 : b[i+1] \in Node /\ b[i+1].layer = n.layer - i}
<1>3. 0 \in S
  BY <1>1, <1>2
<1>4. ASSUME NEW i \in 1..n.layer-1, i-1 \in S
      PROVE  i \in S /\ b[i+1].to = b[i].from /\ ~isRecombined(b[i+1])
  <2>1. /\ i+1 \in 2..n.layer /\ (i+1)-1 = i /\ (i-1)+1 = i /\ n.layer - (i-1) # 1
        /\ i \in 0..n.layer-1 /\ n.layer - (i-1) - 1 = n.layer - i
    BY <1>1
  <2>2. b[i] \in Node /\ b[i].layer = n.layer - (i-1)
    BY <1>4, <2>1
  <2>3. b[i+1] = prevNode(b[i])
    BY <1>2, <2>1
  <2>4. QED
    BY <2>1, <2>2, <2>3, prevNodeIs
<1> HIDE DEF S
<1>5. 0..n.layer-1 \subseteq S
  BY <1>1, <1>3, <1>4, Induction
<1>6. \A i \in 1..n.layer : b[i] \in Node /\ b[i].layer = n.layer + 1 - i
  <2> SUFFICES ASSUME NEW i \in 1..n.layer PROVE b[i] \in Node /\ b[i].layer = n.layer + 1 - i
    OBVIOUS
  <2>1. i-1 \in 0..n.layer-1 /\ (i-1)+1 = i /\ n.layer - (i-1) = n.layer + 1 - i
    BY <1>1
  <2>2. QED
    BY <1>5, <2>1 DEF S
<1>7. ASSUME NEW i \in 2..n.layer PROVE b[i-1].from = b[i].to /\ ~isRecombined(b[i])
  <2> DEFINE j == i-1
  <2>1. j \in 1..n.layer-1 /\ j-1 \in 0..n.layer-1 /\ j+1 = i
    BY <1>1
  <2> HIDE DEF j
  <2>2. b[j+1].to = b[j].from /\ ~isRecombined(b[j+1])
    BY <1>4, <1>5, <2>1
  <2>3. QED
    BY <2>1, <2>2 DEF j
<1>8. QED
  BY <1>2, <1>6, <1>7 DEF b
-----------------------------------------------------------------------------
(* The nodes that were recombined into one.                                   *)

LEMMA NodesAreFinite == IsFiniteSet(Node)
<1> DEFINE T == (1..Layers) \X (State \X (State \X Label))
           f == [n \in Node |-> <<n.layer, <<n.from, <<n.to, n.label>>>>>>]
<1>1. IsFiniteSet(T)
  <2>1. IsFiniteSet(1..Layers)
    BY FS_Interval, LayersAre
  <2>2. IsFiniteSet(State \X Label)
    BY FS_Product, NBestAssumption
  <2>3. IsFiniteSet(State \X (State \X Label))
    BY <2>2, FS_Product, NBestAssumption
  <2>4. QED
    BY <2>1, <2>3, FS_Product
<1>2. f \in Injection(Node, T)
  <2>1. f \in [Node -> T]
    BY NodeFields
  <2>2. ASSUME NEW n \in Node, NEW m \in Node, f[n] = f[m] PROVE n = m
    <3>1. n.layer = m.layer /\ n.from = m.from /\ n.to = m.to /\ n.label = m.label
      BY <2>2
    <3>2. QED
      BY <3>1 DEF Node
  <2> HIDE DEF f
  <2>3. QED
    BY <2>1, <2>2 DEF Injection, IsInjective
<1> HIDE DEF T, f
<1>3. QED
  BY <1>1, <1>2, FS_Injection

LEMMA AppendIs ==
    ASSUME NEW T, NEW s \in Seq(T), NEW e \in T, e \notin ToSet(s), IsInjective(s)
    PROVE  /\ Append(s, e) \in Seq(T) /\ IsInjective(Append(s, e))
           /\ ToSet(Append(s, e)) = ToSet(s) \cup {e}
<1> DEFINE a == Append(s, e)  l == Len(s)
<1>1. /\ l \in Nat /\ DOMAIN s = 1..l /\ DOMAIN a = 1..l+1 /\ a \in Seq(T)
      /\ \A i \in 1..l : a[i] = s[i] /\ i \in 1..l+1
      /\ a[l+1] = e /\ l+1 \in 1..l+1 /\ \A i \in 1..l+1 : i \in 1..l \/ i = l+1
  OBVIOUS
<1> HIDE DEF a, l
<1>2. IsInjective(a)
  <2>1. \A i, j \in 1..l : s[i] = s[j] => i = j
    BY <1>1 DEF IsInjective
  <2>2. \A i \in 1..l : s[i] # e
    BY <1>1 DEF ToSet
  <2>3. \A i, j \in 1..l+1 : a[i] = a[j] => i = j
    BY <1>1, <2>1, <2>2
  <2>4. QED
    BY <1>1, <2>3 DEF IsInjective
<1>3. ToSet(a) = ToSet(s) \cup {e}
  BY <1>1 DEF ToSet
<1>4. QED
  BY <1>1, <1>2, <1>3 DEF a

Others(n) == Group(n.layer, n.to) \ {n}
CostOf(S) == [m \in S |-> getCost(m)]
IsByCost(byCost, S) ==
    byCost = [k \in 0..Cardinality(S) |->
                 IF k = 0 THEN << >>
                 ELSE Append(byCost[k-1], Cheapest(S \ ToSet(byCost[k-1]), CostOf(S)))]
ByCost(S) == CHOOSE byCost : IsByCost(byCost, S)


\* The next node is one of the rest, if there is one.
LEMMA NextByCost ==
    ASSUME Lattice, NEW S \in SUBSET Node, NEW s
    PROVE  Cheapest(S \ ToSet(s), CostOf(S)) \in
               IF S \ ToSet(s) = {} THEN {Cheapest({}, CostOf(S))} ELSE S \ ToSet(s)
<1>1. \A m \in S : CostOf(S)[m] \in Nat
  BY CostIsNat DEF CostOf
<1> DEFINE rest == S \ ToSet(s)  cost == CostOf(S)
<1>2. rest \subseteq S /\ \A m \in rest : cost[m] \in Nat
  BY <1>1
<1> HIDE DEF rest, cost
<1>3. Cheapest(rest, cost) \in IF rest = {} THEN {Cheapest({}, cost)} ELSE rest
  BY <1>2, CheapestIs
<1>4. QED
  BY <1>3 DEF rest, cost

LEMMA ByCostExists ==
    ASSUME Lattice, NEW S \in SUBSET Node, IsFiniteSet(S)
    PROVE  IsByCost(ByCost(S), S)
<1> DEFINE next(s) == Cheapest(S \ ToSet(s), CostOf(S))
           T == S \cup {Cheapest({}, CostOf(S))}
           step == [x \in Nat \X Seq(T) |-> Append(x[2], next(x[2]))]
           K == Cardinality(S)
<1>1. K \in Nat
  BY FS_CardinalityType
<1>2. \A s : next(s) \in T
  BY NextByCost
<1> HIDE DEF next, T
<1>3. step \in [Nat \X Seq(T) -> Seq(T)] /\ \A i \in Nat, s \in Seq(T) : step[<<i, s>>] = Append(s, next(s))
  BY <1>2
<1>4. << >> \in Seq(T)
  OBVIOUS
<1> HIDE DEF step, K
<1>5. PICK f : Iterates(f, Seq(T), << >>, step, K)
  BY <1>1, <1>3, <1>4, RecursionExists
<1>6. f \in [0..K -> Seq(T)] /\ f[0] = << >> /\ \A i \in 1..K : f[i] = step[<<i, f[i-1]>>]
  BY <1>5 DEF Iterates
<1>7. \A i \in 0..K : f[i] = IF i = 0 THEN << >> ELSE Append(f[i-1], next(f[i-1]))
  <2> SUFFICES ASSUME NEW i \in 0..K, i # 0 PROVE f[i] = Append(f[i-1], next(f[i-1]))
    BY <1>6
  <2>1. i \in 1..K /\ i-1 \in 0..K /\ i \in Nat
    BY <1>1
  <2>2. QED
    BY <1>3, <1>6, <2>1
<1>8. f = [i \in 0..K |-> IF i = 0 THEN << >> ELSE Append(f[i-1], next(f[i-1]))]
  <2>1. f = [i \in 0..K |-> f[i]]
    BY <1>6
  <2>2. QED
    BY <1>7, <2>1
<1>9. IsByCost(f, S)
  BY <1>8 DEF IsByCost, next, K
<1>10. QED
  BY <1>9 DEF ByCost

LEMMA ByCostIs ==
    ASSUME Lattice, NEW S \in SUBSET Node, IsFiniteSet(S)
    PROVE  LET s == ByCost(S)[Cardinality(S)]
           IN  s \in Seq(S) /\ IsInjective(s) /\ ToSet(s) = S
<1> DEFINE h == ByCost(S)
           K == Cardinality(S)
           next(s) == Cheapest(S \ ToSet(s), CostOf(S))
<1>1. K \in Nat
  BY FS_CardinalityType
<1>2. h = [k \in 0..K |-> IF k = 0 THEN << >> ELSE Append(h[k-1], next(h[k-1]))]
  BY ByCostExists DEF IsByCost
<1> HIDE DEF h, K, next
<1>3. h[0] = << >> /\ \A k \in 1..K : h[k] = Append(h[k-1], next(h[k-1]))
  <2>1. 0 \in 0..K /\ \A k \in 1..K : k \in 0..K /\ k # 0
    BY <1>1
  <2>2. \A k \in 0..K : h[k] = IF k = 0 THEN << >> ELSE Append(h[k-1], next(h[k-1]))
    BY <1>2
  <2>3. QED
    BY <2>1, <2>2
<1> DEFINE Good(s, k) == s \in Seq(S) /\ IsInjective(s) /\ IsFiniteSet(ToSet(s)) /\ Cardinality(ToSet(s)) = k
           G == {k \in 0..K : Good(h[k], k)}
<1>4. 0 \in G
  <2>1. << >> \in Seq(S) /\ IsInjective(<< >>) /\ ToSet(<< >>) = {}
    BY DEF IsInjective, ToSet
  <2>2. 0 \in 0..K
    BY <1>1
  <2>3. QED
    BY <1>3, <2>1, <2>2, FS_EmptySet
<1>5. ASSUME NEW k \in 1..K, k-1 \in G PROVE k \in G
  <2> DEFINE s == h[k-1]  e == next(s)
  <2>1. Good(s, k-1) /\ k \in 0..K /\ k-1 # K /\ k-1+1 = k /\ k-1 \in Nat
    BY <1>1, <1>5
  <2>2. h[k] = Append(s, e)
    BY <1>3
  <2> HIDE DEF s
  <2>3. ToSet(s) \subseteq S
    BY <2>1 DEF ToSet
  <2>4. S \ ToSet(s) # {}
    <3>1. ToSet(s) # S
      BY <2>1 DEF K
    <3>2. QED
      BY <2>3, <3>1
  <2>5. e \in S \ ToSet(s)
    BY <2>4, NextByCost DEF next
  <2> HIDE DEF e
  <2>6. Append(s, e) \in Seq(S) /\ IsInjective(Append(s, e)) /\ ToSet(Append(s, e)) = ToSet(s) \cup {e}
    BY <2>1, <2>5, AppendIs
  <2>7. IsFiniteSet(ToSet(s) \cup {e}) /\ Cardinality(ToSet(s) \cup {e}) = k
    BY <2>1, <2>5, FS_AddElement
  <2>8. QED
    BY <2>1, <2>2, <2>6, <2>7
<1> HIDE DEF Good, G
<1>6. K \in G
  <2>1. 0..K \subseteq G
    BY <1>1, <1>4, <1>5, Induction
  <2>2. K \in 0..K
    BY <1>1
  <2>3. QED
    BY <2>1, <2>2
<1>7. Good(h[K], K)
  BY <1>6 DEF G
<1>8. ToSet(h[K]) = S
  <2>1. ToSet(h[K]) \in SUBSET S /\ Cardinality(ToSet(h[K])) = K
    BY <1>7 DEF Good, ToSet
  <2>2. QED
    BY <2>1, FS_Subset DEF K
<1>9. QED
  BY <1>7, <1>8 DEF Good, h, K

\* A node that is not recombined has all other nodes of its group combined with it.
LEMMA CombinedAre ==
    ASSUME Lattice, NEW n \in Node, ~isRecombined(n)
    PROVE  LET c == getCombindedNodes(n)
           IN  c \in Seq(Node) /\ IsInjective(c) /\ ToSet(c) = Others(n)
<1>1. Others(n) \in SUBSET Node
  BY GroupIs, NodeFields DEF Others
<1>2. IsFiniteSet(Others(n))
  BY <1>1, NodesAreFinite, FS_Subset
<1>3. getCombindedNodes(n) = ByCost(Others(n))[Cardinality(Others(n))]
  BY DEF getCombindedNodes, Others, ByCost, IsByCost, CostOf
<1> DEFINE S == Others(n)  c == getCombindedNodes(n)
<1> HIDE DEF S, c
<1>4. c \in Seq(S) /\ IsInjective(c) /\ ToSet(c) = S
  BY <1>1, <1>2, <1>3, ByCostIs DEF S, c
<1>5. Seq(S) \subseteq Seq(Node)
  BY <1>1 DEF S
<1>6. QED
  BY <1>4, <1>5 DEF S, c
-----------------------------------------------------------------------------
(* The paths of the collection.                                               *)

\* A path with its cost, whose nodes behind the substituted one are the cheapest.
Item ==
    {a \in [nodes : AllPaths, cost : Nat, substituted : -1..Layers-1] :
        /\ a.cost = PathCost(a.nodes)
        /\ \A i \in 1..Layers : i > a.substituted + 1 => ~isRecombined(a.nodes[i])}

\* A path begins as the path of an item does, up to the node substituted in that.
Extends(p, a) == Agree(p, a.nodes, a.substituted + 1)

LEMMA ItemIs ==
    ASSUME NEW a \in Item
    PROVE  /\ a.nodes \in AllPaths /\ a.cost \in Nat /\ a.cost = PathCost(a.nodes)
           /\ a.substituted \in -1..Layers-1 /\ a.substituted + 1 \in 0..Layers
           /\ \A i \in 1..Layers : i > a.substituted + 1 => ~isRecombined(a.nodes[i])
           /\ Extends(a.nodes, a)
BY LayersAre DEF Item, Extends, Agree

LEMMA ExtensionCosts ==
    ASSUME Lattice, NEW a \in Item, NEW p \in AllPaths, Extends(p, a)
    PROVE  a.cost <= PathCost(p)
<1> DEFINE q == a.nodes  k == a.substituted + 1
<1>1. /\ q \in AllPaths /\ a.cost = PathCost(q) /\ k \in 0..Layers
      /\ \A i \in 1..Layers : i > k => ~isRecombined(q[i])
      /\ Agree(p, q, k)
  BY ItemIs DEF Extends
<1> HIDE DEF q, k
<1>2. p \in [1..Layers -> Node] /\ q \in [1..Layers -> Node] /\ PathCost(p) \in Nat /\ PathCost(q) \in Nat
  BY <1>1, PathIs, EstimateGrows
<1>3. CASE k = 0
  <2>1. 1 \in 1..Layers /\ 1-1 = 0 /\ \A i \in 1..Layers : i > 0
    BY LayersAre
  <2>2. Estimate(q, 1) = PathCost(q) /\ Estimate(p, 1) <= PathCost(p)
        /\ Estimate(q, 1) \in Nat /\ Estimate(p, 1) \in Nat
    BY <1>1, <1>3, <2>1, CheapestContinuation, EstimateGrows
  <2>3. p[1] \in Node /\ q[1] \in Node /\ p[1].layer = Layers /\ q[1].layer = Layers
    <3>1. Layers + 1 - 1 = Layers
      BY LayersAre
    <3>2. QED
      BY <1>1, <2>1, <3>1, PathIs
  <2>4. p[1] \in Group(Layers, q[1].to) /\ q[1].to \in State
    BY <2>3, GroupIs, LayersAre, NodeFields
  <2>5. getCost(q[1]) <= getCost(p[1])
    <3>1. q[1] = best(Layers, q[1].to).node
      BY <1>1, <1>3, <2>1, <2>3 DEF isRecombined
    <3>2. QED
      BY <2>4, <3>1, LayersAre DEF Lattice
  <2>6. Estimate(q, 1) = 0 + getCost(q[1]) /\ Estimate(p, 1) = 0 + getCost(p[1])
    BY <1>2, <2>1, SumsAre DEF Estimate
  <2>7. getCost(q[1]) \in Nat /\ getCost(p[1]) \in Nat
    BY <2>3, CostIsNat
  <2>8. QED
    BY <1>1, <1>2, <2>2, <2>5, <2>6, <2>7
<1>4. CASE k # 0
  <2>1. k \in 1..Layers /\ k-1 \in 0..Layers /\ k \in 1..k /\ \A i \in 1..k-1 : i \in 1..k
    BY <1>1, <1>4, LayersAre
  <2>2. Agree(p, q, k-1) /\ p[k] = q[k]
    BY <1>1, <2>1 DEF Agree
  <2>3. Estimate(p, k) = Estimate(q, k)
    BY <1>2, <2>1, <2>2, SumsAgree DEF Estimate
  <2>4. Estimate(q, k) = PathCost(q) /\ Estimate(p, k) <= PathCost(p)
    BY <1>1, <2>1, CheapestContinuation
  <2>5. QED
    BY <1>1, <2>3, <2>4
<1>5. QED
  BY <1>3, <1>4

\* The path of the goal node is an item that every path extends.
LEMMA FirstIsItem ==
    ASSUME Lattice
    PROVE  LET first == clsTrellisPath(best(Layers, Root).node)
           IN  first \in Item /\ \A p \in AllPaths : Extends(p, first)
<1> DEFINE n == best(Layers, Root).node  b == Backwards(n)
<1>1. n \in Node /\ n.layer = Layers /\ ~isRecombined(n)
  <2>1. Root \in State
    BY NBestAssumption DEF Root
  <2>2. n \in Group(Layers, Root)
    BY <2>1, LayersAre DEF Lattice
  <2>3. n \in Node /\ n.layer = Layers
    BY <2>1, <2>2, GroupIs, LayersAre
  <2>4. n = best(Layers, n.to).node
    BY <2>1, <2>3, NodeFields DEF Lattice
  <2>5. QED
    BY <2>3, <2>4 DEF isRecombined
<1> HIDE DEF n
<1>2. /\ b \in [1..Layers -> Node] /\ b[1] = n
      /\ \A i \in 1..Layers : b[i].layer = Layers + 1 - i
      /\ \A i \in 2..Layers : b[i-1].from = b[i].to /\ ~isRecombined(b[i])
  BY <1>1, BackwardsIs
<1> HIDE DEF b
<1>3. b \in AllPaths
  <2>1. ASSUME NEW i \in 1..Layers-1 PROVE b[i].from = b[i+1].to
    <3>1. i+1 \in 2..Layers /\ (i+1)-1 = i
      BY LayersAre
    <3>2. QED
      BY <1>2, <3>1
  <2>2. QED
    BY <1>2, <2>1 DEF AllPaths
<1>4. \A i \in 1..Layers : ~isRecombined(b[i])
  <2>1. \A i \in 1..Layers : i = 1 \/ i \in 2..Layers
    BY LayersAre
  <2>2. QED
    BY <1>1, <1>2, <2>1
<1>5. getCost(n) = PathCost(b) /\ PathCost(b) \in Nat
  <2>1. 1 \in 1..Layers /\ 1-1 = 0
    BY LayersAre
  <2>2. Estimate(b, 1) = PathCost(b) /\ PathCost(b) \in Nat
    BY <1>3, <1>4, <2>1, CheapestContinuation, EstimateGrows
  <2>3. Estimate(b, 1) = 0 + getCost(n)
    BY <1>2, <2>1, SumsAre DEF Estimate
  <2>4. getCost(n) \in Nat
    BY <1>1, CostIsNat
  <2>5. QED
    BY <2>2, <2>3, <2>4
<1>6. clsTrellisPath(n) = [nodes |-> b, cost |-> getCost(n), substituted |-> -1]
  BY DEF clsTrellisPath, b
<1>7. clsTrellisPath(n) \in Item
  <2>1. -1 \in -1..Layers-1
    BY LayersAre
  <2>2. QED
    BY <1>3, <1>4, <1>5, <1>6, <2>1 DEF Item
<1>8. \A p \in AllPaths : Extends(p, clsTrellisPath(n))
  BY <1>6 DEF Extends, Agree
<1>9. QED
  BY <1>7, <1>8 DEF n

Replaced(q, k, b) == SubSeq(q, 1, k) \o b

LEMMA ReplacedTail ==
    \A l \in Nat : \A q \in [1..l -> Node] : \A k \in 0..l : \A b \in [1..l-k -> Node] :
        /\ Replaced(q, k, b) \in [1..l -> Node]
        /\ \A i \in 1..k : Replaced(q, k, b)[i] = q[i]
        /\ \A i \in 1..l : i > k => Replaced(q, k, b)[i] = b[i-k]
<1> SUFFICES ASSUME NEW l \in Nat, NEW q \in [1..l -> Node], NEW k \in 0..l, NEW b \in [1..l-k -> Node]
             PROVE  /\ Replaced(q, k, b) \in [1..l -> Node]
                    /\ \A i \in 1..k : Replaced(q, k, b)[i] = q[i]
                    /\ \A i \in 1..l : i > k => Replaced(q, k, b)[i] = b[i-k]
  OBVIOUS
<1>1. q \in Seq(Node) /\ Len(q) = l /\ b \in Seq(Node) /\ Len(b) = l-k
  OBVIOUS
<1> DEFINE s == SubSeq(q, 1, k)
<1>2. s \in Seq(Node) /\ Len(s) = k /\ \A i \in 1..k : s[i] = q[i]
  BY <1>1
<1> HIDE DEF s
<1>3. s \o b \in Seq(Node) /\ Len(s \o b) = l
  BY <1>1, <1>2
<1>4. /\ \A i \in 1..k : (s \o b)[i] = q[i]
      /\ \A i \in 1..l : i > k => (s \o b)[i] = b[i-k]
  BY <1>1, <1>2
<1> DEFINE r == s \o b
<1>5. r \in [1..l -> Node]
  <2>1. \A z \in Seq(Node) : z \in [1..Len(z) -> Node]
    OBVIOUS
  <2>2. r \in Seq(Node) /\ Len(r) = l
    BY <1>3
  <2> HIDE DEF r
  <2>3. QED
    BY <2>1, <2>2
<1>6. QED
  BY <1>4, <1>5 DEF Replaced, s

\* Replacing a node behind the substituted one by another of its group makes an item,
\* whose path extends that of the other and costs no less.
LEMMA DeviantIsItem ==
    ASSUME Lattice, NEW q \in Item, NEW index \in 0..Layers-1, index > q.substituted,
           NEW n \in Others(q.nodes[index+1])
    PROVE  LET d == createDeviantPath(q, index, n)
           IN  /\ d \in Item /\ d.substituted = index /\ d.nodes[index+1] = n
               /\ Agree(d.nodes, q.nodes, index) /\ q.cost <= d.cost
<1> DEFINE d == createDeviantPath(q, index, n)
           u == q.nodes
           k == index + 1
           b == Backwards(n)
           r == Replaced(u, index, b)
<1>1. /\ u \in AllPaths /\ u \in [1..Layers -> Node] /\ q.cost = PathCost(u) /\ q.cost \in Nat
      /\ q.substituted + 1 \in 0..Layers /\ q.substituted \in Int
      /\ \A i \in 1..Layers : i > q.substituted + 1 => ~isRecombined(u[i])
  BY ItemIs, PathIs
<1>2. /\ k \in 1..Layers /\ k-1 = index /\ index \in 0..Layers /\ index \in Nat
      /\ k > q.substituted + 1 /\ k > q.substituted
      /\ Layers + 1 - k = Layers - index /\ Layers - index \in 1..Layers
  BY <1>1, LayersAre
<1> HIDE DEF k
<1>3. n \in Node /\ n.layer = Layers - index /\ (index # 0 => n.to = u[k].to)
  <2>1. u[k] \in Node /\ u[k].layer = Layers - index
    BY <1>1, <1>2, PathIs
  <2>2. n \in Group(Layers - index, u[k].to)
    BY <2>1 DEF Others, k
  <2>3. index # 0 => Layers - index < Layers
    BY <1>2, LayersAre
  <2>4. QED
    BY <1>2, <2>1, <2>2, <2>3, GroupIs, NodeFields
<1>4. /\ b \in [1..Layers-index -> Node] /\ b[1] = n
      /\ \A i \in 1..Layers-index : b[i].layer = Layers - index + 1 - i
      /\ \A i \in 2..Layers-index : b[i-1].from = b[i].to /\ ~isRecombined(b[i])
  BY <1>3, BackwardsIs
<1>5. d = [nodes |-> r, cost |-> q.cost - getCost(u[k]) + getCost(n), substituted |-> index]
  BY DEF createDeviantPath, DeviantCost, Replaced, k
<1> HIDE DEF d, u, b
<1>6. /\ r \in [1..Layers -> Node]
      /\ \A i \in 1..index : r[i] = u[i]
      /\ \A i \in 1..Layers : i > index => r[i] = b[i-index]
  <2>1. u \in [1..Layers -> Node] /\ index \in 0..Layers /\ b \in [1..Layers-index -> Node] /\ Layers \in Nat
    BY <1>1, <1>2, <1>4, LayersAre
  <2>2. QED
    BY <2>1, ReplacedTail
<1> HIDE DEF r
<1>7. \A i \in 1..Layers : i > index => i - index \in 1..Layers-index
  BY <1>2, LayersAre
<1>8. /\ r \in [1..Layers -> Node] /\ r[k] = n
      /\ \A i \in 1..index : i \in 1..Layers /\ r[i] = u[i]
      /\ \A i \in 1..Layers : i > index => r[i] = b[i-index]
  <2>1. k > index /\ k - index = 1 /\ \A i \in 1..index : i \in 1..Layers
    BY <1>2, LayersAre DEF k
  <2>2. QED
    BY <1>2, <1>4, <1>6, <2>1
<1>9. ASSUME NEW i \in 1..Layers PROVE r[i].layer = Layers + 1 - i
  <2>1. CASE i <= index
    <3>1. i \in 1..index
      BY <1>2, <2>1
    <3>2. QED
      BY <1>1, <1>8, <3>1, PathIs
  <2>2. CASE i > index
    <3>1. r[i].layer = Layers - index + 1 - (i - index)
      BY <1>4, <1>7, <1>8, <2>2
    <3>2. Layers - index + 1 - (i - index) = Layers + 1 - i
      BY <1>2, LayersAre
    <3>3. QED
      BY <3>1, <3>2
  <2>3. QED
    BY <1>2, <2>1, <2>2
<1>10. ASSUME NEW i \in 1..Layers-1 PROVE r[i].from = r[i+1].to
  <2>1. i \in 1..Layers /\ i+1 \in 1..Layers
    BY LayersAre
  <2>2. CASE i+1 <= index
    <3>1. i \in 1..index /\ i+1 \in 1..index
      BY <1>2, <2>2
    <3>2. QED
      BY <1>1, <1>8, <3>1, PathIs
  <2>3. CASE i = index
    <3>1. i \in 1..index /\ index # 0 /\ i+1 = k
      BY <2>3 DEF k
    <3>2. u[i].from = u[k].to
      BY <1>1, <3>1, PathIs
    <3>3. QED
      BY <1>3, <1>8, <3>1, <3>2
  <2>4. CASE i > index
    <3>1. i+1 > index /\ (i+1) - index \in 2..Layers-index /\ (i+1) - index - 1 = i - index
      BY <1>2, <2>4, LayersAre
    <3>2. b[i-index].from = b[(i+1)-index].to
      BY <1>4, <3>1
    <3>3. QED
      BY <1>8, <2>1, <2>4, <3>1, <3>2
  <2>5. QED
    BY <1>2, <2>2, <2>3, <2>4
<1>11. r \in AllPaths
  BY <1>8, <1>9, <1>10 DEF AllPaths
<1>12. ASSUME NEW i \in 1..Layers, i > k PROVE ~isRecombined(r[i])
  <2>1. i > index /\ i - index \in 2..Layers-index
    BY <1>2, <1>12, LayersAre
  <2>2. QED
    BY <1>4, <1>8, <2>1
<1>13. Agree(r, u, index)
  BY <1>8 DEF Agree
<1>14. q.cost - getCost(u[k]) + getCost(n) = PathCost(r) /\ PathCost(r) \in Nat
  <2>1. Estimate(u, k) = PathCost(u)
    <3>1. \A i \in 1..Layers : i > k => i > q.substituted + 1
      BY <1>1, <1>2
    <3>2. QED
      BY <1>1, <1>2, <3>1, CheapestContinuation
  <2>2. Estimate(r, k) = PathCost(r) /\ PathCost(r) \in Nat
    BY <1>2, <1>11, <1>12, CheapestContinuation, EstimateGrows
  <2>3. Sums(r)[index] = Sums(u)[index] /\ Sums(u)[index] \in Nat
    BY <1>1, <1>2, <1>8, <1>13, SumsAgree, SumsAre
  <2>4. getCost(u[k]) \in Nat /\ getCost(n) \in Nat
    BY <1>1, <1>2, <1>3, CostIsNat
  <2>5. Estimate(u, k) = Sums(u)[index] + getCost(u[k]) /\ Estimate(r, k) = Sums(u)[index] + getCost(n)
    BY <1>2, <1>8, <2>3 DEF Estimate
  <2>6. \A a, x, y \in Nat : a + x - x + y = a + y
    OBVIOUS
  <2>7. q.cost = Sums(u)[index] + getCost(u[k]) /\ PathCost(r) = Sums(u)[index] + getCost(n)
    BY <1>1, <2>1, <2>2, <2>5
  <2>8. QED
    BY <2>2, <2>3, <2>4, <2>6, <2>7
<1>15. d \in Item
  <2>1. index \in -1..Layers-1
    BY <1>2, LayersAre
  <2>2. \A i \in 1..Layers : i > index + 1 => ~isRecombined(r[i])
    BY <1>12 DEF k
  <2>3. QED
    BY <1>5, <1>11, <1>14, <2>1, <2>2 DEF Item
<1>16. Extends(r, q)
  <2>1. \A i \in 1..q.substituted+1 : i \in 1..index
    BY <1>1, <1>2
  <2>2. QED
    BY <1>13, <2>1 DEF Extends, Agree, u
<1>17. q.cost <= PathCost(r)
  BY <1>11, <1>16, ExtensionCosts
<1>18. QED
  BY <1>5, <1>8, <1>13, <1>14, <1>15, <1>17 DEF d, u, k
-----------------------------------------------------------------------------
(* The collection.                                                            *)

Sorted(C) == \A i, j \in 1..Len(C) : i <= j => C[i].cost <= C[j].cost

LEMMA InsertedAre ==
    \A C \in Seq(Item) : \A k \in 1..Len(C)+1 : \A a \in Item :
        /\ InsertAt(C, k, a) \in Seq(Item) /\ Len(InsertAt(C, k, a)) = Len(C) + 1
        /\ \A i \in 1..Len(C)+1 :
              InsertAt(C, k, a)[i] = IF i < k THEN C[i] ELSE IF i = k THEN a ELSE C[i-1]
<1> SUFFICES ASSUME NEW C \in Seq(Item), NEW k \in 1..Len(C)+1, NEW a \in Item
             PROVE  /\ InsertAt(C, k, a) \in Seq(Item) /\ Len(InsertAt(C, k, a)) = Len(C) + 1
                    /\ \A i \in 1..Len(C)+1 :
                          InsertAt(C, k, a)[i] = IF i < k THEN C[i] ELSE IF i = k THEN a ELSE C[i-1]
  OBVIOUS
<1> DEFINE s == SubSeq(C, 1, k-1)  t == SubSeq(C, k, Len(C))  l == Len(C)
<1>1. l \in Nat /\ k \in 1..l+1
  OBVIOUS
<1>2. s \in Seq(Item) /\ Len(s) = k-1 /\ \A i \in 1..k-1 : s[i] = C[i]
  OBVIOUS
<1>3. t \in Seq(Item) /\ Len(t) = l+1-k /\ \A i \in 1..l+1-k : t[i] = C[k+i-1]
  OBVIOUS
<1> HIDE DEF s, t, l
<1> DEFINE u == s \o <<a>>
<1>4. u \in Seq(Item) /\ Len(u) = k /\ (\A i \in 1..k-1 : u[i] = C[i]) /\ u[k] = a
  BY <1>1, <1>2
<1> HIDE DEF u
<1>5. /\ u \o t \in Seq(Item) /\ Len(u \o t) = l+1
      /\ \A i \in 1..k : (u \o t)[i] = u[i]
      /\ \A i \in k+1..l+1 : (u \o t)[i] = t[i-k]
  <2>1. /\ u \o t \in Seq(Item) /\ Len(u \o t) = Len(u) + Len(t)
        /\ \A i \in 1..Len(u) : (u \o t)[i] = u[i]
        /\ \A i \in Len(u)+1..Len(u)+Len(t) : (u \o t)[i] = t[i-Len(u)]
    <3>1. \A x, y \in Seq(Item) : x \o y \in Seq(Item) /\ Len(x \o y) = Len(x) + Len(y)
      OBVIOUS
    <3>2. \A x, y \in Seq(Item) : \A i \in 1..Len(x) : (x \o y)[i] = x[i]
      OBVIOUS
    <3>3. \A x, y \in Seq(Item) : \A i \in Len(x)+1..Len(x)+Len(y) : (x \o y)[i] = y[i-Len(x)]
      OBVIOUS
    <3>4. QED
      BY <1>3, <1>4, <3>1, <3>2, <3>3
  <2>2. k + (l+1-k) = l+1
    BY <1>1
  <2>3. QED
    BY <1>3, <1>4, <2>1, <2>2
<1>6. \A i \in k+1..l+1 : i-k \in 1..l+1-k /\ k+(i-k)-1 = i-1
  BY <1>1
<1>7. \A i \in 1..l+1 : i \in 1..k-1 \/ i = k \/ i \in k+1..l+1
  BY <1>1
<1>8. \A i \in 1..l+1 : (u \o t)[i] = IF i < k THEN C[i] ELSE IF i = k THEN a ELSE C[i-1]
  BY <1>1, <1>3, <1>4, <1>5, <1>6, <1>7
<1>9. InsertAt(C, k, a) = u \o t
  BY DEF InsertAt, u, s, t
<1>10. QED
  BY <1>5, <1>8, <1>9 DEF l

\* The cheaper items of a sorted collection are its first ones.
LEMMA CheaperAreFirst ==
    ASSUME NEW C \in Seq(Item), Sorted(C), NEW c \in Nat
    PROVE  \E k \in 0..Len(C) :
              /\ Cardinality({i \in DOMAIN C : C[i].cost < c}) = k
              /\ \A i \in 1..Len(C) : IF i <= k THEN C[i].cost < c ELSE c <= C[i].cost
<1> DEFINE l == Len(C)
           L == {i \in DOMAIN C : C[i].cost < c}
           Rest == {i \in 1..l+1 : i \notin L}
<1>1. l \in Nat /\ DOMAIN C = 1..l /\ \A i \in 1..l : C[i].cost \in Nat
  BY ItemIs
<1>2. PICK j \in Rest : \A i \in Rest : j <= i
  <2>1. Rest \in SUBSET Nat /\ l+1 \in Rest
    BY <1>1
  <2>2. QED
    BY <2>1, LeastNumber
<1>3. j \in 1..l+1 /\ j-1 \in 0..l
  BY <1>1
<1>4. \A i \in 1..l : i < j => i \in L
  BY <1>1, <1>2
<1>5. \A i \in 1..l : i >= j => i \notin L
  <2> SUFFICES ASSUME NEW i \in 1..l, i >= j, i \in L PROVE FALSE
    OBVIOUS
  <2>1. j \in 1..l
    BY <1>1, <1>3
  <2>2. C[j].cost <= C[i].cost
    BY <2>1 DEF Sorted
  <2>3. j \in L
    BY <1>1, <2>1, <2>2
  <2>4. QED
    BY <2>3
<1>6. L = 1..j-1
  BY <1>1, <1>3, <1>4, <1>5
<1>7. Cardinality(1..j-1) = j-1
  BY <1>1, <1>3, FS_Interval
<1>8. \A i \in 1..l : IF i <= j-1 THEN C[i].cost < c ELSE c <= C[i].cost
  BY <1>1, <1>3, <1>4, <1>5
<1>9. QED
  BY <1>3, <1>6, <1>7, <1>8

\* What add does: the new item is put before those that cost as much, and the last item
\* is dropped when there is no room.
AddedAt(r, C, a, k, maxSize) ==
    /\ k \in 1..Len(C)+1
    /\ \A i \in 1..Len(C) : (i < k => C[i].cost < a.cost) /\ (i >= k => a.cost <= C[i].cost)
    /\ r \in Seq(Item) /\ (Len(r) = Len(C) + 1 \/ (Len(r) = Len(C) /\ Len(r) = maxSize))
    /\ \A i \in 1..Len(r) : r[i] = IF i < k THEN C[i] ELSE IF i = k THEN a ELSE C[i-1]
    /\ maxSize > 0 => Len(r) <= maxSize

LEMMA AddIs ==
    ASSUME NEW C \in Seq(Item), Sorted(C), NEW a \in Item, NEW maxSize \in Nat,
           maxSize > 0 => Len(C) <= maxSize
    PROVE  \E k \in 1..Len(C)+1 : AddedAt(add(C, a, maxSize), C, a, k, maxSize)
<1> DEFINE Place == Cardinality({i \in DOMAIN C : C[i].cost < a.cost}) + 1
           all == InsertAt(C, Place, a)
           r == add(C, a, maxSize)
           l == Len(C)
<1>1. l \in Nat /\ a.cost \in Nat
  BY ItemIs
<1>2. PICK k \in 0..l : /\ Cardinality({i \in DOMAIN C : C[i].cost < a.cost}) = k
                        /\ \A i \in 1..l : IF i <= k THEN C[i].cost < a.cost ELSE a.cost <= C[i].cost
  BY <1>1, CheaperAreFirst
<1>3. Place \in 1..l+1 /\ \A i \in 1..l : (i < Place => C[i].cost < a.cost) /\ (i >= Place => a.cost <= C[i].cost)
  <2>1. Place = k + 1
    BY <1>2
  <2> HIDE DEF Place
  <2>2. \A i \in 1..l : (i < k+1 => i <= k) /\ (i >= k+1 => ~(i <= k))
    BY <1>1
  <2>3. QED
    BY <1>1, <1>2, <2>1, <2>2
<1>4. r = IF maxSize > 0 /\ Len(all) > maxSize THEN SubSeq(all, 1, maxSize) ELSE all
  BY DEF add
<1> HIDE DEF Place, r
<1>5. /\ all \in Seq(Item) /\ Len(all) = l+1
      /\ \A i \in 1..l+1 : all[i] = IF i < Place THEN C[i] ELSE IF i = Place THEN a ELSE C[i-1]
  BY <1>3, InsertedAre
<1> HIDE DEF all
<1>6. CASE maxSize > 0 /\ Len(all) > maxSize
  <2>1. maxSize = l
    BY <1>1, <1>5, <1>6
  <2>2. r = SubSeq(all, 1, l)
    BY <1>4, <1>6, <2>1
  <2>3. r \in Seq(Item) /\ Len(r) = l /\ \A i \in 1..l : r[i] = all[i] /\ i \in 1..l+1
    BY <1>1, <1>5, <2>2
  <2>4. AddedAt(r, C, a, Place, maxSize)
    BY <1>3, <1>5, <2>1, <2>3 DEF AddedAt
  <2>5. QED
    BY <1>3, <2>4 DEF r
<1>7. CASE ~(maxSize > 0 /\ Len(all) > maxSize)
  <2>1. r = all /\ (maxSize > 0 => l+1 <= maxSize)
    BY <1>1, <1>4, <1>5, <1>7
  <2>2. /\ r \in Seq(Item) /\ Len(r) = l+1 /\ (maxSize > 0 => Len(r) <= maxSize)
        /\ \A i \in 1..Len(r) : r[i] = IF i < Place THEN C[i] ELSE IF i = Place THEN a ELSE C[i-1]
    BY <1>5, <2>1
  <2> HIDE DEF l
  <2>3. AddedAt(r, C, a, Place, maxSize)
    <3>1. /\ Place \in 1..Len(C)+1
          /\ \A i \in 1..Len(C) : (i < Place => C[i].cost < a.cost) /\ (i >= Place => a.cost <= C[i].cost)
      BY <1>3 DEF l
    <3>2. Len(r) = Len(C) + 1
      BY <2>2 DEF l
    <3>3. QED
      BY ONLY <2>2, <3>1, <3>2 DEF AddedAt
  <2>4. QED
    BY <1>3, <2>3 DEF r, l
<1>8. QED
  BY <1>6, <1>7
\* A path that is not returned yet extends an item of the collection or one of those
\* about to be added, or at least as many cheaper paths as are still wanted are known.
Covered(p, C, P, m) ==
    \/ \E i \in 1..Len(C) : Extends(p, C[i])
    \/ \E a \in P : Extends(p, a)
    \/ m <= 0
    \/ m <= Len(C) /\ C[m].cost <= PathCost(p)

\* No item of the collection, or about to be added to it, or path found before extends
\* another item.
Apart(C, P, found) ==
    /\ \A i, j \in 1..Len(C) : i # j => ~Extends(C[j].nodes, C[i])
    /\ \A a, b \in P : a # b => ~Extends(a.nodes, b)
    /\ \A a \in P, i \in 1..Len(C) : ~Extends(a.nodes, C[i]) /\ ~Extends(C[i].nodes, a)
    /\ \A s \in found, i \in 1..Len(C) : ~Extends(s.nodes, C[i])
    /\ \A s \in found, a \in P : ~Extends(s.nodes, a)

\* What is found costs no more than what is not.
Dearer(C, P, found) ==
    /\ \A s \in found, i \in 1..Len(C) : s.cost <= C[i].cost
    /\ \A s \in found, a \in P : s.cost <= a.cost

\* The collection, with items about to be added to it, and m paths still wanted.
Collected(C, P, found, left, m, maxSize) ==
    /\ C \in Seq(Item) /\ P \subseteq Item /\ found \subseteq Item
    /\ Sorted(C) /\ (maxSize > 0 => Len(C) <= maxSize)
    /\ Apart(C, P, found) /\ Dearer(C, P, found)
    /\ \A p \in left : Covered(p, C, P, m)

\* Where the items of a collection are after one was added.
LEMMA AddedItems ==
    ASSUME NEW C \in Seq(Item), NEW a \in Item, NEW k, NEW r, NEW maxSize \in Nat,
           AddedAt(r, C, a, k, maxSize)
    PROVE  /\ Len(C) \in Nat /\ Len(r) \in Nat /\ Len(C) <= Len(r) /\ Len(r) <= Len(C) + 1
           /\ k \in 1..Len(C)+1
           /\ \A i \in 1..Len(r) : \/ i = k /\ r[i] = a
                                   \/ i < k /\ i \in 1..Len(C) /\ r[i] = C[i]
                                   \/ i > k /\ i-1 \in 1..Len(C) /\ r[i] = C[i-1]
           /\ \A i \in 1..Len(C) : i < k => i \in 1..Len(r) /\ r[i] = C[i]
           /\ \A i \in 1..Len(C) : i >= k /\ i+1 <= Len(r) => i+1 \in 1..Len(r) /\ r[i+1] = C[i]
           /\ k <= Len(r) => k \in 1..Len(r) /\ r[k] = a
           /\ Len(r) = Len(C) + 1 \/ Len(r) = maxSize
<1> DEFINE l == Len(C)  n == Len(r)
<1>1. l \in Nat /\ n \in Nat
  BY DEF AddedAt
<1>2. /\ k \in 1..l+1 /\ (n = l+1 \/ (n = l /\ n = maxSize))
      /\ \A i \in 1..n : r[i] = IF i < k THEN C[i] ELSE IF i = k THEN a ELSE C[i-1]
  BY DEF AddedAt
<1> HIDE DEF l, n
<1>3. \A i \in 1..n : \/ i = k /\ r[i] = a
                      \/ i < k /\ i \in 1..l /\ r[i] = C[i]
                      \/ i > k /\ i-1 \in 1..l /\ r[i] = C[i-1]
  <2> SUFFICES ASSUME NEW i \in 1..n
               PROVE  \/ i = k /\ r[i] = a
                      \/ i < k /\ i \in 1..l /\ r[i] = C[i]
                      \/ i > k /\ i-1 \in 1..l /\ r[i] = C[i-1]
    OBVIOUS
  <2>1. CASE i < k
    <3>1. i \in 1..l
      BY <1>1, <1>2, <2>1
    <3>2. QED
      BY <1>2, <2>1, <3>1
  <2>2. CASE i = k
    BY <1>1, <1>2, <2>2
  <2>3. CASE i > k
    <3>1. i-1 \in 1..l /\ ~(i < k) /\ i # k
      BY <1>1, <1>2, <2>3
    <3>2. QED
      BY <1>2, <2>3, <3>1
  <2>4. QED
    BY <1>1, <1>2, <2>1, <2>2, <2>3
<1>4. \A i \in 1..l : i < k => i \in 1..n /\ r[i] = C[i]
  BY <1>1, <1>2
<1>5. \A i \in 1..l : i >= k /\ i+1 <= n => i+1 \in 1..n /\ r[i+1] = C[i]
  <2> SUFFICES ASSUME NEW i \in 1..l, i >= k, i+1 <= n PROVE i+1 \in 1..n /\ r[i+1] = C[i]
    OBVIOUS
  <2>1. i+1 \in 1..n /\ ~(i+1 < k) /\ i+1 # k /\ (i+1)-1 = i
    BY <1>1, <1>2
  <2>2. QED
    BY <1>2, <2>1
<1>6. k <= n => k \in 1..n /\ r[k] = a
  BY <1>1, <1>2
<1>7. l <= n /\ n <= l+1 /\ (n = l+1 \/ n = maxSize)
  BY <1>1, <1>2
<1>8. QED
  BY <1>1, <1>2, <1>3, <1>4, <1>5, <1>6, <1>7 DEF l, n

LEMMA AddedIsSorted ==
    ASSUME NEW C \in Seq(Item), Sorted(C), NEW a \in Item, NEW k, NEW r, NEW maxSize \in Nat,
           AddedAt(r, C, a, k, maxSize)
    PROVE  Sorted(r) /\ \A i \in 1..Len(C) : r[i].cost <= C[i].cost
<1>1. /\ \A i \in 1..Len(C) : C[i].cost \in Nat
      /\ a.cost \in Nat
      /\ \A i \in 1..Len(C) : (i < k => C[i].cost < a.cost) /\ (i >= k => a.cost <= C[i].cost)
  BY ItemIs DEF AddedAt
<1>2. Sorted(r)
  <2> SUFFICES ASSUME NEW i \in 1..Len(r), NEW j \in 1..Len(r), i <= j
               PROVE  r[i].cost <= r[j].cost
    BY DEF Sorted
  <2>1. /\ \/ i = k /\ r[i] = a
           \/ i < k /\ i \in 1..Len(C) /\ r[i] = C[i]
           \/ i > k /\ i-1 \in 1..Len(C) /\ r[i] = C[i-1]
        /\ \/ j = k /\ r[j] = a
           \/ j < k /\ j \in 1..Len(C) /\ r[j] = C[j]
           \/ j > k /\ j-1 \in 1..Len(C) /\ r[j] = C[j-1]
        /\ k \in 1..Len(C)+1 /\ Len(C) \in Nat /\ Len(r) \in Nat
    BY AddedItems
  <2>2. \A x, y \in 1..Len(C) : x <= y => C[x].cost <= C[y].cost
    BY DEF Sorted
  <2>3. CASE i = k /\ r[i] = a
    <3>1. j = k \/ (j > k /\ j-1 >= k)
      BY <2>1, <2>3
    <3>2. QED
      BY <1>1, <2>1, <2>3, <3>1
  <2>4. CASE i < k /\ i \in 1..Len(C) /\ r[i] = C[i]
    <3>1. CASE j = k /\ r[j] = a
      BY <1>1, <2>1, <2>4, <3>1
    <3>2. CASE j < k /\ j \in 1..Len(C) /\ r[j] = C[j]
      BY <2>2, <2>4, <3>2
    <3>3. CASE j > k /\ j-1 \in 1..Len(C) /\ r[j] = C[j-1]
      <4>1. i <= j-1
        BY <2>1, <2>4, <3>3
      <4>2. QED
        BY <2>2, <2>4, <3>3, <4>1
    <3>4. QED
      BY <2>1, <3>1, <3>2, <3>3
  <2>5. CASE i > k /\ i-1 \in 1..Len(C) /\ r[i] = C[i-1]
    <3>1. j > k /\ j-1 \in 1..Len(C) /\ r[j] = C[j-1] /\ i-1 <= j-1
      BY <2>1, <2>5
    <3>2. QED
      BY <2>2, <2>5, <3>1
  <2>6. QED
    BY <2>1, <2>3, <2>4, <2>5
<1>3. ASSUME NEW i \in 1..Len(C) PROVE r[i].cost <= C[i].cost
  <2>1. i \in 1..Len(r) /\ Len(C) \in Nat /\ k \in 1..Len(C)+1
    BY AddedItems
  <2>2. \/ i = k /\ r[i] = a
        \/ i < k /\ r[i] = C[i]
        \/ i > k /\ i-1 \in 1..Len(C) /\ r[i] = C[i-1]
    BY <2>1, AddedItems
  <2>3. CASE i > k /\ i-1 \in 1..Len(C) /\ r[i] = C[i-1]
    <3>1. i-1 <= i
      OBVIOUS
    <3>2. QED
      BY <2>3, <3>1 DEF Sorted
  <2>4. QED
    BY <1>1, <2>1, <2>2, <2>3
<1>4. QED
  BY <1>2, <1>3
LEMMA AddedIsCovered ==
    ASSUME Lattice, NEW C \in Seq(Item), Sorted(C), NEW a \in Item, NEW P, P \subseteq Item,
           NEW p \in AllPaths, NEW m \in Int, NEW maxSize \in Nat, m <= maxSize,
           NEW k, NEW r, AddedAt(r, C, a, k, maxSize), Covered(p, C, P, m)
    PROVE  Covered(p, r, P \ {a}, m)
<1>1. /\ Len(C) \in Nat /\ Len(r) \in Nat /\ Len(C) <= Len(r) /\ Len(r) <= Len(C) + 1
      /\ k \in 1..Len(C)+1 /\ k \in Nat
      /\ Len(r) = Len(C) + 1 \/ Len(r) = maxSize
  BY AddedItems
<1>2. r \in Seq(Item) /\ PathCost(p) \in Nat
  BY EstimateGrows DEF AddedAt
<1>3. /\ \A i \in 1..Len(r) : r[i].cost \in Nat
      /\ \A i \in 1..Len(C) : C[i].cost \in Nat
      /\ a.cost \in Nat
  BY <1>2, ItemIs
<1>4. \A i, j \in 1..Len(r) : i <= j => r[i].cost <= r[j].cost
  BY AddedIsSorted DEF Sorted
<1>5. ASSUME NEW i \in 1..Len(r), Extends(p, r[i]) PROVE Covered(p, r, P \ {a}, m)
  BY <1>5 DEF Covered
<1>6. ASSUME Len(r) = maxSize, NEW c \in Nat, c <= PathCost(p),
             m \in 1..Len(r) => r[Len(r)].cost <= c
      PROVE  Covered(p, r, P \ {a}, m)
  <2>1. CASE m <= 0
    BY <2>1 DEF Covered
  <2>2. CASE ~(m <= 0)
    <3>1. m \in 1..Len(r) /\ Len(r) \in 1..Len(r) /\ m <= Len(r)
      BY <1>1, <1>6, <2>2
    <3>2. r[m].cost <= r[Len(r)].cost /\ r[Len(r)].cost <= c
      BY <1>4, <1>6, <3>1
    <3>3. r[m].cost <= PathCost(p)
      BY <1>2, <1>3, <1>6, <3>1, <3>2
    <3>4. QED
      BY <3>1, <3>3 DEF Covered
  <2>3. QED
    BY <2>1, <2>2
<1>7. ASSUME NEW i \in 1..Len(C), Extends(p, C[i]) PROVE Covered(p, r, P \ {a}, m)
  <2>1. CASE i < k
    <3>1. i \in 1..Len(r) /\ r[i] = C[i]
      BY <2>1, AddedItems
    <3>2. QED
      BY <1>5, <1>7, <3>1
  <2>2. CASE i >= k /\ i+1 <= Len(r)
    <3>1. i+1 \in 1..Len(r) /\ r[i+1] = C[i]
      BY <2>2, AddedItems
    <3>2. QED
      BY <1>5, <1>7, <3>1
  <2>3. CASE i >= k /\ ~(i+1 <= Len(r))
    <3>1. i = Len(r) /\ i = Len(C) /\ Len(r) = maxSize /\ i \in Nat
      BY <1>1, <2>3
    <3>2. r[i].cost <= C[i].cost
      BY AddedIsSorted
    <3>3. C[i].cost \in Nat /\ C[i] \in Item
      BY <1>3
    <3>4. C[i].cost <= PathCost(p)
      BY <1>7, <3>3, ExtensionCosts
    <3>5. QED
      BY <1>6, <3>1, <3>2, <3>3, <3>4
  <2>4. QED
    BY <1>1, <2>1, <2>2, <2>3
<1>8. ASSUME Extends(p, a) PROVE Covered(p, r, P \ {a}, m)
  <2>1. CASE k <= Len(r)
    <3>1. k \in 1..Len(r) /\ r[k] = a
      BY <2>1, AddedItems
    <3>2. QED
      BY <1>5, <1>8, <3>1
  <2>2. CASE ~(k <= Len(r))
    <3>1. Len(r) = Len(C) /\ k = Len(C)+1 /\ Len(r) = maxSize
      BY <1>1, <2>2
    <3>2. a.cost <= PathCost(p)
      BY <1>8, ExtensionCosts
    <3>3. ASSUME m \in 1..Len(r) PROVE r[Len(r)].cost <= a.cost
      <4> DEFINE l == Len(C)
      <4>1. l \in 1..Len(C) /\ l < k /\ l = Len(r)
        BY <1>1, <3>1, <3>3
      <4> HIDE DEF l
      <4>2. r[l] = C[l] /\ C[l].cost < a.cost
        BY <4>1, AddedItems DEF AddedAt
      <4>3. QED
        BY <1>3, <4>1, <4>2
    <3>4. QED
      BY <1>3, <1>6, <3>1, <3>2, <3>3
  <2>3. QED
    BY <2>1, <2>2
<1>9. ASSUME NEW b \in P, Extends(p, b), b # a PROVE Covered(p, r, P \ {a}, m)
  BY <1>9 DEF Covered
<1>10. ASSUME m <= 0 PROVE Covered(p, r, P \ {a}, m)
  BY <1>10 DEF Covered
<1>11. ASSUME m \in 1..Len(C), C[m].cost <= PathCost(p) PROVE Covered(p, r, P \ {a}, m)
  <2>1. r[m].cost <= C[m].cost /\ m <= Len(r) /\ m \in 1..Len(r)
    BY <1>1, <1>11, AddedIsSorted
  <2>2. r[m].cost <= PathCost(p)
    BY <1>2, <1>3, <1>11, <2>1
  <2>3. QED
    BY <2>1, <2>2 DEF Covered
<1>12. m <= 0 \/ (m <= Len(C) => m \in 1..Len(C))
  BY <1>1
<1>13. QED
  BY <1>7, <1>8, <1>9, <1>10, <1>11, <1>12 DEF Covered

LEMMA AddedIsApart ==
    ASSUME NEW C \in Seq(Item), NEW a, NEW P, P \subseteq Item, a \in P, NEW found,
           NEW maxSize \in Nat, NEW k, NEW r, AddedAt(r, C, a, k, maxSize), Apart(C, P, found)
    PROVE  Apart(r, P \ {a}, found)
<1>1. a \in Item
  OBVIOUS
<1>2. k \in Nat /\ Len(C) \in Nat /\ Len(r) \in Nat
  BY <1>1, AddedItems
<1>3. \A i \in 1..Len(r) : \/ i = k /\ r[i] = a
                           \/ i < k /\ i \in 1..Len(C) /\ r[i] = C[i]
                           \/ i > k /\ i-1 \in 1..Len(C) /\ r[i] = C[i-1]
  BY <1>1, AddedItems
<1>4. ASSUME NEW i \in 1..Len(r), NEW j \in 1..Len(r), i # j PROVE ~Extends(r[j].nodes, r[i])
  <2>1. CASE i = k
    <3>1. r[i] = a /\ \E x \in 1..Len(C) : r[j] = C[x]
      BY <1>2, <1>3, <1>4, <2>1
    <3>2. QED
      BY <3>1 DEF Apart
  <2>2. CASE j = k
    <3>1. r[j] = a /\ \E x \in 1..Len(C) : r[i] = C[x]
      BY <1>2, <1>3, <1>4, <2>2
    <3>2. QED
      BY <3>1 DEF Apart
  <2>3. CASE i # k /\ j # k
    <3>1. \E x, y \in 1..Len(C) : x # y /\ r[i] = C[x] /\ r[j] = C[y]
      BY <1>2, <1>3, <1>4, <2>3
    <3>2. QED
      BY <3>1 DEF Apart
  <2>4. QED
    BY <2>1, <2>2, <2>3
<1>5. \A i \in 1..Len(r) : r[i] = a \/ \E x \in 1..Len(C) : r[i] = C[x]
  BY <1>3
<1>6. \A b \in P \ {a}, i \in 1..Len(r) : ~Extends(b.nodes, r[i]) /\ ~Extends(r[i].nodes, b)
  BY <1>5 DEF Apart
<1>7. \A s \in found, i \in 1..Len(r) : ~Extends(s.nodes, r[i])
  BY <1>5 DEF Apart
<1>8. QED
  BY <1>4, <1>6, <1>7 DEF Apart

\* Adding an item keeps the collection what it should be.
LEMMA AddStep ==
    ASSUME Lattice, NEW C, NEW P, NEW a \in P, NEW found, NEW left \in SUBSET AllPaths,
           NEW m \in Int, NEW maxSize \in Nat, m <= maxSize,
           Collected(C, P, found, left, m, maxSize)
    PROVE  Collected(add(C, a, maxSize), P \ {a}, found, left, m, maxSize)
<1> DEFINE r == add(C, a, maxSize)
<1>1. /\ C \in Seq(Item) /\ P \subseteq Item /\ a \in Item /\ found \subseteq Item
      /\ Sorted(C) /\ (maxSize > 0 => Len(C) <= maxSize)
      /\ Apart(C, P, found) /\ Dearer(C, P, found)
      /\ \A p \in left : Covered(p, C, P, m)
  BY DEF Collected
<1>2. PICK k \in 1..Len(C)+1 : AddedAt(r, C, a, k, maxSize)
  BY <1>1, AddIs
<1> HIDE DEF r
<1>3. r \in Seq(Item) /\ (maxSize > 0 => Len(r) <= maxSize)
  BY <1>2 DEF AddedAt
<1>4. Sorted(r)
  BY <1>1, <1>2, AddedIsSorted
<1>5. Apart(r, P \ {a}, found)
  BY <1>1, <1>2, AddedIsApart
<1>6. Dearer(r, P \ {a}, found)
  <2>1. \A i \in 1..Len(r) : r[i] = a \/ \E x \in 1..Len(C) : r[i] = C[x]
    BY <1>1, <1>2, AddedItems
  <2>2. QED
    BY <1>1, <2>1 DEF Dearer
<1>7. \A p \in left : Covered(p, r, P \ {a}, m)
  BY <1>1, <1>2, AddedIsCovered
<1>8. QED
  BY <1>1, <1>3, <1>4, <1>5, <1>6, <1>7 DEF Collected, r
-----------------------------------------------------------------------------
(* The paths that a path is replaced by.                                      *)

\* Those that replace the node of the index or one behind it.
Later(q, index) ==
    {d \in Item : \E x \in index..Layers-1 : \E n \in Others(q.nodes[x+1]) :
        d = createDeviantPath(q, x, n)}

IsDeviant(d, q) ==
    /\ d \in Item /\ d.substituted \in 0..Layers-1 /\ d.substituted > q.substituted
    /\ Agree(d.nodes, q.nodes, d.substituted)
    /\ d.nodes[d.substituted+1] # q.nodes[d.substituted+1]
    /\ q.cost <= d.cost

LEMMA LaterAre ==
    ASSUME Lattice, NEW q \in Item, NEW index \in 0..Layers, index > q.substituted,
           NEW d \in Later(q, index)
    PROVE  /\ IsDeviant(d, q) /\ d.substituted >= index
           /\ d = createDeviantPath(q, d.substituted, d.nodes[d.substituted+1])
<1>0. PICK x \in index..Layers-1 : \E n \in Others(q.nodes[x+1]) : d = createDeviantPath(q, x, n)
  BY DEF Later
<1>1. PICK n \in Others(q.nodes[x+1]) : d = createDeviantPath(q, x, n)
  BY <1>0
<1>2. x \in 0..Layers-1 /\ x > q.substituted /\ x >= index
  BY ItemIs, LayersAre
<1>3. /\ d \in Item /\ d.substituted = x /\ d.nodes[x+1] = n
      /\ Agree(d.nodes, q.nodes, x) /\ q.cost <= d.cost
  BY <1>1, <1>2, DeviantIsItem
<1>4. n # q.nodes[x+1]
  BY <1>1 DEF Others
<1>5. QED
  BY <1>1, <1>2, <1>3, <1>4 DEF IsDeviant

LEMMA DeviantExtended ==
    ASSUME NEW q \in Item, NEW d, IsDeviant(d, q), NEW p, Extends(p, d)
    PROVE  Extends(p, q)
<1>1. \A i \in 1..q.substituted+1 : i \in 1..d.substituted /\ i \in 1..d.substituted+1
  BY ItemIs, LayersAre DEF IsDeviant
<1>2. QED
  BY <1>1 DEF IsDeviant, Extends, Agree

LEMMA DeviantExtends ==
    ASSUME NEW q \in Item, NEW d, IsDeviant(d, q), NEW a \in Item, Extends(d.nodes, a)
    PROVE  Extends(q.nodes, a) \/ Extends(a.nodes, q)
<1>1. q.substituted \in Int /\ a.substituted \in Int /\ d.substituted \in Int /\ d.substituted > q.substituted
  BY ItemIs, LayersAre DEF IsDeviant
<1>2. CASE a.substituted + 1 <= d.substituted
  <2>1. \A i \in 1..a.substituted+1 : i \in 1..d.substituted
    BY <1>1, <1>2
  <2>2. QED
    BY <2>1 DEF IsDeviant, Extends, Agree
<1>3. CASE ~(a.substituted + 1 <= d.substituted)
  <2>1. \A i \in 1..q.substituted+1 : i \in 1..d.substituted /\ i \in 1..a.substituted+1
    BY <1>1, <1>3
  <2>2. QED
    BY <2>1 DEF IsDeviant, Extends, Agree
<1>4. QED
  BY <1>2, <1>3

LEMMA DeviantLeft ==
    ASSUME NEW q \in Item, NEW d, IsDeviant(d, q)
    PROVE  ~Extends(q.nodes, d)
<1>1. d.substituted+1 \in 1..d.substituted+1
  BY LayersAre DEF IsDeviant
<1>2. QED
  BY <1>1 DEF IsDeviant, Extends, Agree

LEMMA SiblingsApart ==
    ASSUME Lattice, NEW q \in Item, NEW index \in 0..Layers, index > q.substituted,
           NEW d \in Later(q, index), NEW e \in Later(q, index), Extends(e.nodes, d)
    PROVE  d = e
<1> DEFINE x == d.substituted  y == e.substituted
<1>1. IsDeviant(d, q) /\ IsDeviant(e, q)
      /\ d = createDeviantPath(q, x, d.nodes[x+1]) /\ e = createDeviantPath(q, y, e.nodes[y+1])
  BY LaterAre
<1>2. x \in Nat /\ y \in Nat
  BY <1>1, LayersAre DEF IsDeviant
<1> HIDE DEF x, y
<1>3. /\ \A i \in 1..x+1 : e.nodes[i] = d.nodes[i]
      /\ \A i \in 1..x : d.nodes[i] = q.nodes[i]
      /\ \A i \in 1..y : e.nodes[i] = q.nodes[i]
      /\ d.nodes[x+1] # q.nodes[x+1] /\ e.nodes[y+1] # q.nodes[y+1]
  BY <1>1 DEF IsDeviant, Extends, Agree, x, y
<1>4. CASE x < y
  <2>1. x+1 \in 1..y /\ x+1 \in 1..x+1
    BY <1>2, <1>4
  <2>2. QED
    BY <1>3, <2>1
<1>5. CASE y < x
  <2>1. y+1 \in 1..x /\ y+1 \in 1..x+1
    BY <1>2, <1>5
  <2>2. QED
    BY <1>3, <2>1
<1>6. CASE x = y
  <2>1. x+1 \in 1..x+1
    BY <1>2
  <2>2. e.nodes[y+1] = d.nodes[x+1]
    BY <1>3, <1>6, <2>1
  <2>3. QED
    BY <1>1, <1>6, <2>2
<1>7. QED
  BY <1>2, <1>4, <1>5, <1>6

\* Every other path that extends the path extends one of them.
LEMMA DeviantsCover ==
    ASSUME Lattice, NEW q \in Item, NEW p \in AllPaths, p # q.nodes, Extends(p, q)
    PROVE  \E d \in Later(q, FirstIndex(q)) : Extends(p, d)
<1> DEFINE u == q.nodes
           Different == {i \in 1..Layers : p[i] # u[i]}
<1>1. u \in AllPaths /\ u \in [1..Layers -> Node] /\ p \in [1..Layers -> Node]
      /\ q.substituted \in Int /\ q.substituted + 1 \in 0..Layers
  BY ItemIs, PathIs, LayersAre
<1>0. p # u
  OBVIOUS
<1> HIDE DEF u
<1>2. PICK k \in Different : \A i \in Different : k <= i
  <2>1. Different \in SUBSET Nat /\ Different # {}
    <3>1. p = [i \in 1..Layers |-> p[i]] /\ u = [i \in 1..Layers |-> u[i]]
      BY <1>1
    <3>2. \E i \in 1..Layers : p[i] # u[i]
      BY <1>0, <3>1
    <3>3. QED
      BY <3>2
  <2>2. QED
    BY <2>1, LeastNumber
<1>3. k \in 1..Layers /\ p[k] # u[k] /\ k-1 \in 0..Layers-1 /\ (k-1)+1 = k
  BY LayersAre
<1>4. \A i \in 1..k-1 : p[i] = u[i] /\ i \in 1..Layers
  BY <1>2, <1>3, LayersAre
<1>5. k > q.substituted + 1 /\ k-1 > q.substituted /\ k-1 >= FirstIndex(q)
  <2>1. k \notin 1..q.substituted+1
    BY <1>3 DEF Extends, Agree, u
  <2>2. QED
    BY <1>1, <1>3, <2>1 DEF FirstIndex
<1>6. p[k] \in Others(u[k])
  <2>1. /\ p[k] \in Node /\ u[k] \in Node /\ p[k].layer = Layers + 1 - k /\ u[k].layer = Layers + 1 - k
        /\ Layers + 1 - k \in 1..Layers
    BY <1>1, <1>3, PathIs, LayersAre
  <2>2. Layers + 1 - k < Layers => p[k].to = u[k].to
    <3>1. SUFFICES ASSUME Layers + 1 - k < Layers PROVE p[k].to = u[k].to
      OBVIOUS
    <3>2. k-1 \in 1..Layers-1 /\ k-1 \in 1..k-1
      BY <1>3, <3>1, LayersAre
    <3>3. p[k-1].from = p[k].to /\ u[k-1].from = u[k].to
      BY <1>1, <1>3, <3>2, PathIs
    <3>4. QED
      BY <1>4, <3>2, <3>3
  <2>3. p[k] \in Group(u[k].layer, u[k].to)
    BY <2>1, <2>2, GroupIs, NodeFields
  <2>4. QED
    BY <1>3, <2>3 DEF Others
<1> DEFINE d == createDeviantPath(q, k-1, p[k])
<1>7. /\ d \in Item /\ d.substituted = k-1 /\ d.nodes[k] = p[k]
      /\ Agree(d.nodes, u, k-1)
  BY <1>3, <1>5, <1>6, DeviantIsItem DEF u
<1>8. d \in Later(q, FirstIndex(q))
  <2>1. k-1 \in FirstIndex(q)..Layers-1
    BY <1>1, <1>3, <1>5, LayersAre DEF FirstIndex
  <2>2. p[k] \in Others(q.nodes[(k-1)+1])
    BY <1>3, <1>6 DEF u
  <2> HIDE DEF d
  <2>3. QED
    BY <1>7, <2>1, <2>2 DEF Later, d
<1> HIDE DEF d
<1>9. Extends(p, d)
  <2>1. \A i \in 1..k : i = k \/ i \in 1..k-1
    BY <1>3
  <2>2. \A i \in 1..k : p[i] = d.nodes[i]
    BY <1>4, <1>7, <2>1 DEF Agree
  <2>3. QED
    BY <1>3, <1>7, <2>2 DEF Extends, Agree
<1>10. QED
  BY <1>8, <1>9
\* Taking the cheapest path, to replace it by its deviants.
LEMMA PopStep ==
    ASSUME Lattice, NEW C, NEW found, NEW left \in SUBSET AllPaths, NEW m \in Int, NEW maxSize \in Nat,
           Collected(C, {}, found, left, m, maxSize), C # << >>,
           NEW found2, \A s \in found2 : s \in found \/ s = Head(C),
           NEW left2, left2 \subseteq left, Head(C).nodes \notin left2
    PROVE  /\ Head(C) \in Item
           /\ Collected(Tail(C), Later(Head(C), FirstIndex(Head(C))), found2, left2, m-1, maxSize)
<1> DEFINE q == Head(C)  T == Tail(C)  P == Later(q, FirstIndex(q))  l == Len(C)
<1>1. /\ C \in Seq(Item) /\ Sorted(C) /\ (maxSize > 0 => l <= maxSize) /\ found \subseteq Item
      /\ Apart(C, {}, found) /\ Dearer(C, {}, found)
      /\ \A p \in left : Covered(p, C, {}, m)
  BY DEF Collected
<1>2. /\ q \in Item /\ q = C[1] /\ l \in Nat /\ 1 \in 1..l /\ l-1 \in Nat
      /\ T \in Seq(Item) /\ Len(T) = l-1 /\ \A i \in 1..l-1 : T[i] = C[i+1] /\ i+1 \in 1..l
  BY <1>1
<1> HIDE DEF q, T, l
<1>3. FirstIndex(q) \in 0..Layers /\ FirstIndex(q) > q.substituted
  BY <1>2, ItemIs, LayersAre DEF FirstIndex
<1>4. \A d \in P : IsDeviant(d, q) /\ d \in Item /\ q.cost <= d.cost /\ d.cost \in Nat
  <2> SUFFICES ASSUME NEW d \in P
               PROVE  IsDeviant(d, q) /\ d \in Item /\ q.cost <= d.cost /\ d.cost \in Nat
    OBVIOUS
  <2>1. IsDeviant(d, q)
    BY <1>2, <1>3, LaterAre
  <2>2. d \in Item /\ q.cost <= d.cost
    BY <2>1 DEF IsDeviant
  <2>3. QED
    BY <2>1, <2>2, ItemIs
<1>5. \A d, e \in P : d # e => ~Extends(d.nodes, e)
  BY <1>2, <1>3, SiblingsApart
<1> HIDE DEF P
<1>6. /\ \A i, j \in 1..l : i # j => ~Extends(C[j].nodes, C[i])
      /\ \A s \in found, i \in 1..l : ~Extends(s.nodes, C[i]) /\ s.cost <= C[i].cost
  BY <1>1 DEF Apart, Dearer, l
<1>7. \A i, j \in 1..l : i <= j => C[i].cost <= C[j].cost
  BY <1>1 DEF Sorted, l
<1>8. \A i \in 1..l-1 : T[i] \in Item /\ i+1 # 1 /\ 1 <= i+1
  BY <1>2
<1>9. Sorted(T) /\ (maxSize > 0 => Len(T) <= maxSize)
  <2>1. \A i, j \in 1..l-1 : i <= j => i+1 <= j+1
    OBVIOUS
  <2>2. Sorted(T)
    BY <1>2, <1>7, <2>1 DEF Sorted
  <2>3. QED
    BY <1>1, <1>2, <2>2
<1>10. Apart(T, P, found2)
  <2>1. ASSUME NEW i \in 1..l-1, NEW j \in 1..l-1, i # j PROVE ~Extends(T[j].nodes, T[i])
    <3>1. i+1 # j+1
      BY <2>1
    <3>2. QED
      BY <1>2, <1>6, <3>1
  <2>2. ASSUME NEW d \in P, NEW i \in 1..l-1 PROVE ~Extends(d.nodes, T[i]) /\ ~Extends(T[i].nodes, d)
    <3>1. ~Extends(q.nodes, T[i]) /\ ~Extends(T[i].nodes, q)
      BY <1>2, <1>6, <1>8
    <3>2. QED
      BY <1>2, <1>4, <1>8, <3>1, DeviantExtends, DeviantExtended
  <2>3. ASSUME NEW s \in found2, NEW i \in 1..l-1 PROVE ~Extends(s.nodes, T[i])
    BY <1>2, <1>6, <1>8 DEF q
  <2>4. ASSUME NEW s \in found2, NEW d \in P PROVE ~Extends(s.nodes, d)
    <3>1. CASE s \in found
      <4>1. ~Extends(s.nodes, q)
        BY <1>2, <1>6, <3>1
      <4>2. QED
        BY <1>2, <1>4, <4>1, DeviantExtended
    <3>2. CASE s = q
      BY <1>2, <1>4, <3>2, DeviantLeft
    <3>3. QED
      BY <3>1, <3>2 DEF q
  <2>5. QED
    BY <1>2, <1>5, <2>1, <2>2, <2>3, <2>4 DEF Apart
<1>11. Dearer(T, P, found2) /\ found2 \subseteq Item
  <2>1. ASSUME NEW s \in found2 PROVE s.cost <= q.cost /\ s.cost \in Nat /\ s \in Item
    <3>1. CASE s = q
      BY <1>2, <3>1, ItemIs
    <3>2. CASE s \in found
      BY <1>1, <1>2, <1>6, <3>2, ItemIs
    <3>3. QED
      BY <3>1, <3>2 DEF q
  <2>2. q.cost \in Nat /\ \A i \in 1..l-1 : q.cost <= T[i].cost /\ T[i].cost \in Nat
    BY <1>2, <1>7, <1>8, ItemIs
  <2>3. found2 \subseteq Item
    BY <2>1
  <2>4. \A s \in found2, i \in 1..l-1 : s.cost <= T[i].cost
    BY <2>1, <2>2
  <2>5. \A s \in found2, d \in P : s.cost <= d.cost
    BY <1>4, <2>1, <2>2
  <2>6. QED
    BY <1>2, <2>3, <2>4, <2>5 DEF Dearer
<1>12. ASSUME NEW p \in left2 PROVE Covered(p, T, P, m-1)
  <2>1. p \in AllPaths /\ p # q.nodes /\ Covered(p, C, {}, m)
    BY <1>1 DEF q
  <2>2. CASE Extends(p, q)
    <3>1. \E d \in P : Extends(p, d)
      BY <1>2, <2>1, <2>2, DeviantsCover DEF P
    <3>2. QED
      BY <3>1 DEF Covered
  <2>3. ASSUME NEW i \in 1..l, Extends(p, C[i]), i # 1 PROVE Covered(p, T, P, m-1)
    <3>1. i-1 \in 1..l-1 /\ T[i-1] = C[i]
      <4>1. i-1 \in 1..l-1 /\ (i-1)+1 = i
        BY <1>2, <2>3
      <4>2. QED
        BY <1>2, <4>1
    <3>2. QED
      BY <1>2, <2>3, <3>1 DEF Covered
  <2>4. CASE m <= 1
    <3>1. m-1 <= 0
      BY <2>4
    <3>2. QED
      BY <3>1 DEF Covered
  <2>5. CASE m > 1 /\ m <= l /\ C[m].cost <= PathCost(p)
    <3>1. m-1 \in 1..l-1 /\ (m-1)+1 = m
      BY <1>2, <2>5
    <3>2. T[m-1] = C[m] /\ m-1 <= Len(T)
      BY <1>2, <3>1
    <3>3. QED
      BY <2>5, <3>2 DEF Covered
  <2>6. QED
    BY <1>2, <2>1, <2>2, <2>3, <2>4, <2>5 DEF Covered, l
<1>13. P \subseteq Item
  BY <1>4
<1>14. QED
  BY <1>2, <1>9, <1>10, <1>11, <1>12, <1>13 DEF Collected, P, q, T
-----------------------------------------------------------------------------
(* Adding all deviants.                                                       *)

\* A collection that is sorted and has room for what it holds.
Room(maxSize) == {C \in Seq(Item) : Sorted(C) /\ (maxSize > 0 => Len(C) <= maxSize)}

LEMMA AddKeepsRoom ==
    ASSUME NEW maxSize \in Nat, NEW C \in Room(maxSize), NEW a \in Item
    PROVE  add(C, a, maxSize) \in Room(maxSize)
<1>1. C \in Seq(Item) /\ Sorted(C) /\ (maxSize > 0 => Len(C) <= maxSize)
  BY DEF Room
<1> DEFINE r == add(C, a, maxSize)
<1>2. PICK k \in 1..Len(C)+1 : AddedAt(r, C, a, k, maxSize)
  BY <1>1, AddIs
<1> HIDE DEF r
<1>3. r \in Seq(Item) /\ (maxSize > 0 => Len(r) <= maxSize)
  BY <1>2 DEF AddedAt
<1>4. Sorted(r)
  BY <1>1, <1>2, AddedIsSorted
<1>5. QED
  BY <1>3, <1>4 DEF Room, r

Combined(q, index) == getCombindedNodes(q.nodes[index+1])
IsAdded(added, q, index, C, maxSize) ==
    added = [i \in 0..Len(Combined(q, index)) |->
                IF i = 0 THEN C
                ELSE add(added[i-1], createDeviantPath(q, index, Combined(q, index)[i]), maxSize)]
Added(q, index, C, maxSize) == CHOOSE added : IsAdded(added, q, index, C, maxSize)

\* The nodes that may replace one behind the substituted node.
LEMMA CombinedIs ==
    ASSUME Lattice, NEW q \in Item, NEW index \in 0..Layers-1, index > q.substituted
    PROVE  LET c == Combined(q, index)
           IN  /\ c \in Seq(Node) /\ Len(c) \in Nat
               /\ \A i, j \in 1..Len(c) : c[i] = c[j] => i = j
               /\ Others(q.nodes[index+1]) = {c[i] : i \in 1..Len(c)}
               /\ \A i \in 1..Len(c) :
                    LET d == createDeviantPath(q, index, c[i])
                    IN  d \in Item /\ d.substituted = index /\ d.nodes[index+1] = c[i]
<1> DEFINE c == Combined(q, index)  n == q.nodes[index+1]
<1>1. n \in Node /\ ~isRecombined(n)
  <2>1. index + 1 \in 1..Layers /\ index + 1 > q.substituted + 1
    BY ItemIs, LayersAre
  <2>2. QED
    BY <2>1, ItemIs, PathIs
<1> HIDE DEF n
<1>2. c \in Seq(Node) /\ IsInjective(c) /\ ToSet(c) = Others(n)
  BY <1>1, CombinedAre DEF Combined, n
<1> HIDE DEF c
<1>3. Len(c) \in Nat /\ DOMAIN c = 1..Len(c)
  BY <1>2
<1>4. (\A i, j \in 1..Len(c) : c[i] = c[j] => i = j) /\ Others(n) = {c[i] : i \in 1..Len(c)}
  BY <1>2, <1>3 DEF IsInjective, ToSet
<1>5. ASSUME NEW i \in 1..Len(c)
      PROVE  LET d == createDeviantPath(q, index, c[i])
             IN  d \in Item /\ d.substituted = index /\ d.nodes[index+1] = c[i]
  <2>1. c[i] \in Others(q.nodes[index+1])
    BY <1>4 DEF n
  <2>2. QED
    BY <2>1, DeviantIsItem
<1>6. QED
  BY <1>2, <1>3, <1>4, <1>5 DEF c, n

LEMMA AddedExists ==
    ASSUME Lattice, NEW q \in Item, NEW index \in 0..Layers-1, index > q.substituted,
           NEW maxSize \in Nat, NEW C \in Room(maxSize)
    PROVE  LET h == Added(q, index, C, maxSize)
               K == Len(Combined(q, index))
           IN  /\ addDeviants(q, index, C, maxSize) = h[K]
               /\ h[0] = C
               /\ \A i \in 1..K : h[i] = add(h[i-1], createDeviantPath(q, index, Combined(q, index)[i]), maxSize)
<1> DEFINE c == Combined(q, index)
           K == Len(c)
           dev(i) == createDeviantPath(q, index, c[i])
           step == [x \in Nat \X Room(maxSize) |->
                       IF x[1] \in 1..K THEN add(x[2], dev(x[1]), maxSize) ELSE x[2]]
           h == Added(q, index, C, maxSize)
<1>1. K \in Nat /\ \A i \in 1..K : dev(i) \in Item
  BY CombinedIs
<1>2. addDeviants(q, index, C, maxSize) = h[K]
  BY DEF addDeviants, Added, IsAdded, Combined
<1> HIDE DEF dev, c, K
<1>3. step \in [Nat \X Room(maxSize) -> Room(maxSize)]
      /\ \A i \in 1..K, s \in Room(maxSize) : step[<<i, s>>] = add(s, dev(i), maxSize)
  BY <1>1, AddKeepsRoom
<1> HIDE DEF step
<1>4. PICK f : Iterates(f, Room(maxSize), C, step, K)
  BY <1>1, <1>3, RecursionExists
<1>5. f \in [0..K -> Room(maxSize)] /\ f[0] = C /\ \A i \in 1..K : f[i] = step[<<i, f[i-1]>>]
  BY <1>4 DEF Iterates
<1>6. \A i \in 0..K : f[i] = IF i = 0 THEN C ELSE add(f[i-1], dev(i), maxSize)
  <2> SUFFICES ASSUME NEW i \in 0..K, i # 0 PROVE f[i] = add(f[i-1], dev(i), maxSize)
    BY <1>5
  <2>1. i \in 1..K /\ i-1 \in 0..K
    BY <1>1
  <2>2. QED
    BY <1>3, <1>5, <2>1
<1>7. f = [i \in 0..K |-> IF i = 0 THEN C ELSE add(f[i-1], dev(i), maxSize)]
  <2>1. f = [i \in 0..K |-> f[i]]
    BY <1>5
  <2>2. QED
    BY <1>6, <2>1
<1>8. IsAdded(f, q, index, C, maxSize)
  BY <1>7 DEF IsAdded, dev, c, K
<1>9. IsAdded(h, q, index, C, maxSize)
  BY <1>8 DEF Added
<1> HIDE DEF h
<1>10. h = [i \in 0..K |-> IF i = 0 THEN C ELSE add(h[i-1], dev(i), maxSize)]
  BY <1>9 DEF IsAdded, dev, c, K
<1>11. 0 \in 0..K /\ \A i \in 1..K : i \in 0..K /\ i # 0
  BY <1>1
<1>12. h[0] = C /\ \A i \in 1..K : h[i] = add(h[i-1], dev(i), maxSize)
  <2>1. \A i \in 0..K : h[i] = IF i = 0 THEN C ELSE add(h[i-1], dev(i), maxSize)
    BY <1>10
  <2>2. QED
    BY <1>11, <2>1
<1>13. QED
  BY <1>2, <1>12 DEF h, dev, c, K

LEMMA AddDeviantsKeepsRoom ==
    ASSUME Lattice, NEW q \in Item, NEW index \in 0..Layers-1, index > q.substituted,
           NEW maxSize \in Nat, NEW C \in Room(maxSize)
    PROVE  addDeviants(q, index, C, maxSize) \in Room(maxSize)
<1> DEFINE h == Added(q, index, C, maxSize)
           c == Combined(q, index)
           K == Len(c)
           S == {i \in 0..K : h[i] \in Room(maxSize)}
<1>1. /\ addDeviants(q, index, C, maxSize) = h[K] /\ h[0] = C
      /\ \A i \in 1..K : h[i] = add(h[i-1], createDeviantPath(q, index, c[i]), maxSize)
  BY AddedExists
<1>2. K \in Nat /\ \A i \in 1..K : createDeviantPath(q, index, c[i]) \in Item
  BY CombinedIs
<1> HIDE DEF h, c, K
<1>3. 0 \in S /\ \A i \in 1..K : i-1 \in S => i \in S
  BY <1>1, <1>2, AddKeepsRoom
<1> HIDE DEF S
<1>4. 0..K \subseteq S /\ K \in 0..K
  BY <1>2, <1>3, Induction
<1>5. QED
  BY <1>1, <1>4 DEF S

LEMMA AddDeviantsStep ==
    ASSUME Lattice, NEW q \in Item, NEW index \in 0..Layers-1, index > q.substituted,
           NEW C, NEW found, NEW left \in SUBSET AllPaths, NEW m \in Int, NEW maxSize \in Nat, m <= maxSize,
           Collected(C, Later(q, index), found, left, m, maxSize)
    PROVE  Collected(addDeviants(q, index, C, maxSize), Later(q, index+1), found, left, m, maxSize)
<1> DEFINE h == Added(q, index, C, maxSize)
           c == Combined(q, index)
           K == Len(c)
           dev(i) == createDeviantPath(q, index, c[i])
           Rest(i) == {dev(j) : j \in i+1..K} \cup Later(q, index+1)
           S == {i \in 0..K : Collected(h[i], Rest(i), found, left, m, maxSize)}
<1>1. C \in Room(maxSize)
  BY DEF Collected, Room
<1>2. /\ addDeviants(q, index, C, maxSize) = h[K] /\ h[0] = C
      /\ \A i \in 1..K : h[i] = add(h[i-1], dev(i), maxSize)
  BY <1>1, AddedExists
<1>3. /\ K \in Nat /\ \A i, j \in 1..K : c[i] = c[j] => i = j
      /\ Others(q.nodes[index+1]) = {c[i] : i \in 1..K}
      /\ \A i \in 1..K : dev(i) \in Item /\ dev(i).substituted = index /\ dev(i).nodes[index+1] = c[i]
  BY CombinedIs
<1>4. \A d \in Later(q, index+1) : d.substituted # index
  <2> SUFFICES ASSUME NEW d \in Later(q, index+1) PROVE d.substituted # index
    OBVIOUS
  <2>1. index+1 \in 0..Layers /\ index+1 > q.substituted /\ index \in Int
    BY ItemIs, LayersAre
  <2>2. d.substituted >= index+1 /\ d.substituted \in Int
    BY <2>1, LaterAre, LayersAre DEF IsDeviant
  <2>3. QED
    BY <2>1, <2>2
<1>5. Later(q, index) = {dev(j) : j \in 1..K} \cup Later(q, index+1)
  <2>1. ASSUME NEW d \in Later(q, index) PROVE d \in {dev(j) : j \in 1..K} \cup Later(q, index+1)
    <3>1. PICK x \in index..Layers-1 : \E n \in Others(q.nodes[x+1]) : d = createDeviantPath(q, x, n)
      BY DEF Later
    <3>2. CASE x = index
      <4>1. \E n \in Others(q.nodes[index+1]) : d = createDeviantPath(q, index, n)
        BY <3>1, <3>2
      <4>2. QED
        BY <1>3, <4>1
    <3>3. CASE x # index
      <4>1. x \in index+1..Layers-1
        BY <3>3, LayersAre
      <4>2. d \in Later(q, index+1)
        BY <3>1, <4>1 DEF Later
      <4>3. QED
        BY <4>2
    <3>4. QED
      BY <3>2, <3>3
  <2>2. ASSUME NEW j \in 1..K PROVE dev(j) \in Later(q, index)
    <3>1. index \in index..Layers-1 /\ c[j] \in Others(q.nodes[index+1]) /\ dev(j) \in Item
      BY <1>3, LayersAre
    <3>2. QED
      BY <3>1 DEF Later
  <2>3. ASSUME NEW d \in Later(q, index+1) PROVE d \in Later(q, index)
    <3>1. \A x \in index+1..Layers-1 : x \in index..Layers-1
      BY LayersAre
    <3>2. QED
      BY <3>1 DEF Later
  <2> HIDE DEF dev
  <2>4. QED
    BY <2>1, <2>2, <2>3
<1> HIDE DEF h, c, K, dev
<1>6. Rest(0) = Later(q, index) /\ Rest(K) = Later(q, index+1)
  <2>1. 0+1 = 1 /\ K+1..K = {}
    BY <1>3
  <2>2. QED
    BY <1>5, <2>1
<1>7. ASSUME NEW i \in 1..K PROVE dev(i) \in Rest(i-1) /\ Rest(i-1) \ {dev(i)} = Rest(i)
  <2>1. (i-1)+1 = i /\ i \in i..K /\ \A j \in i..K : j = i \/ j \in i+1..K
    BY <1>3
  <2>2. \A j \in i+1..K : j \in i..K /\ j \in 1..K /\ j # i
    BY <1>3
  <2>3. \A j \in i+1..K : dev(j) # dev(i)
    BY <1>3, <2>2
  <2>4. dev(i) \notin Later(q, index+1)
    BY <1>3, <1>4
  <2>5. Rest(i-1) = {dev(j) : j \in i..K} \cup Later(q, index+1)
    BY <2>1
  <2>6. {dev(j) : j \in i..K} = {dev(j) : j \in i+1..K} \cup {dev(i)}
    BY <2>1, <2>2
  <2>7. dev(i) \notin Rest(i)
    BY <2>3, <2>4
  <2>8. Rest(i-1) = Rest(i) \cup {dev(i)}
    BY <2>5, <2>6
  <2> HIDE DEF Rest
  <2>9. QED
    BY <2>7, <2>8
<1> HIDE DEF Rest
<1>8. 0 \in S
  BY <1>2, <1>3, <1>6
<1>9. ASSUME NEW i \in 1..K, i-1 \in S PROVE i \in S
  <2>1. Collected(h[i-1], Rest(i-1), found, left, m, maxSize)
    BY <1>9
  <2>2. Collected(add(h[i-1], dev(i), maxSize), Rest(i-1) \ {dev(i)}, found, left, m, maxSize)
    BY <1>7, <2>1, AddStep
  <2>3. i \in 0..K
    BY <1>3
  <2>4. QED
    BY <1>2, <1>7, <2>2, <2>3
<1> HIDE DEF S
<1>10. 0..K \subseteq S /\ K \in 0..K
  BY <1>3, <1>8, <1>9, Induction
<1>11. QED
  BY <1>2, <1>6, <1>10 DEF S
IsExpanded(before, q, C, maxSize) ==
    before = [index \in FirstIndex(q)..Len(q.nodes) |->
                 IF index = FirstIndex(q) THEN C
                 ELSE addDeviants(q, index-1, before[index-1], maxSize)]
Expanded(q, C, maxSize) == CHOOSE before : IsExpanded(before, q, C, maxSize)

LEMMA ExpandedExists ==
    ASSUME Lattice, NEW q \in Item, NEW maxSize \in Nat, NEW C \in Room(maxSize)
    PROVE  LET h == Expanded(q, C, maxSize)
           IN  /\ expandAvailablePaths(q, C, maxSize) = h[Layers]
               /\ h[FirstIndex(q)] = C
               /\ \A i \in FirstIndex(q)+1..Layers : h[i] = addDeviants(q, i-1, h[i-1], maxSize)
<1> DEFINE F == FirstIndex(q)
           K == Layers - F
           step == [x \in Nat \X Room(maxSize) |->
                       IF x[1] \in 1..K THEN addDeviants(q, F+x[1]-1, x[2], maxSize) ELSE x[2]]
           h == Expanded(q, C, maxSize)
<1>1. F \in 0..Layers /\ F > q.substituted /\ F \in Nat /\ Layers \in Nat /\ K \in Nat
      /\ \A i \in 1..K : F+i-1 \in 0..Layers-1 /\ F+i-1 > q.substituted
  BY ItemIs, LayersAre DEF FirstIndex
<1>2. Len(q.nodes) = Layers
  BY <1>1, ItemIs, PathIs
<1> HIDE DEF F
<1>3. step \in [Nat \X Room(maxSize) -> Room(maxSize)]
      /\ \A i \in 1..K, s \in Room(maxSize) : step[<<i, s>>] = addDeviants(q, F+i-1, s, maxSize)
  <2> HIDE DEF K
  <2>1. \A i \in 1..K, s \in Room(maxSize) : addDeviants(q, F+i-1, s, maxSize) \in Room(maxSize)
    BY <1>1, AddDeviantsKeepsRoom
  <2>2. QED
    BY <1>1, <2>1
<1> HIDE DEF step
<1>4. PICK f : Iterates(f, Room(maxSize), C, step, K)
  BY <1>1, <1>3, RecursionExists
<1>5. f \in [0..K -> Room(maxSize)] /\ f[0] = C /\ \A i \in 1..K : f[i] = step[<<i, f[i-1]>>]
  BY <1>4 DEF Iterates
<1>6. \A i \in 1..K : f[i] = addDeviants(q, F+i-1, f[i-1], maxSize)
  <2> SUFFICES ASSUME NEW i \in 1..K PROVE f[i] = addDeviants(q, F+i-1, f[i-1], maxSize)
    OBVIOUS
  <2>1. i-1 \in 0..K
    BY <1>1
  <2>2. QED
    BY <1>3, <1>5, <2>1
<1> DEFINE g == [i \in F..Layers |-> f[i-F]]
<1>7. \A i \in F..Layers : g[i] = IF i = F THEN C ELSE addDeviants(q, i-1, g[i-1], maxSize)
  <2> SUFFICES ASSUME NEW i \in F..Layers PROVE g[i] = IF i = F THEN C ELSE addDeviants(q, i-1, g[i-1], maxSize)
    OBVIOUS
  <2>1. CASE i = F
    <3>1. F - F = 0
      BY <1>1
    <3>2. g[i] = f[0]
      BY <2>1, <3>1
    <3>3. QED
      BY <1>5, <2>1, <3>2
  <2>2. CASE i # F
    <3>1. i-F \in 1..K /\ F+(i-F)-1 = i-1 /\ (i-F)-1 = (i-1)-F /\ i-1 \in F..Layers
      BY <1>1, <2>2
    <3>2. g[i] = f[i-F] /\ g[i-1] = f[(i-1)-F]
      BY <3>1
    <3>3. f[i-F] = addDeviants(q, F+(i-F)-1, f[(i-F)-1], maxSize)
      BY <1>6, <3>1
    <3>4. f[i-F] = addDeviants(q, i-1, g[i-1], maxSize)
      BY <3>1, <3>2, <3>3
    <3>5. QED
      BY <2>2, <3>2, <3>4
  <2>3. QED
    BY <2>1, <2>2
<1>8. g = [i \in F..Layers |-> IF i = F THEN C ELSE addDeviants(q, i-1, g[i-1], maxSize)]
  <2>1. g = [i \in F..Layers |-> g[i]]
    OBVIOUS
  <2> HIDE DEF g
  <2>2. QED
    BY <1>7, <2>1
<1> HIDE DEF g
<1>9. IsExpanded(g, q, C, maxSize)
  BY <1>2, <1>8 DEF IsExpanded, F
<1>10. IsExpanded(h, q, C, maxSize)
  BY <1>9 DEF Expanded
<1>11. expandAvailablePaths(q, C, maxSize) = h[Layers]
  BY <1>2 DEF expandAvailablePaths, Expanded, IsExpanded
<1> HIDE DEF h
<1>12. h = [i \in F..Layers |-> IF i = F THEN C ELSE addDeviants(q, i-1, h[i-1], maxSize)]
  BY <1>2, <1>10 DEF IsExpanded, F
<1>13. F \in F..Layers /\ \A i \in F+1..Layers : i \in F..Layers /\ i # F
  BY <1>1
<1>14. h[F] = C /\ \A i \in F+1..Layers : h[i] = addDeviants(q, i-1, h[i-1], maxSize)
  <2>1. \A i \in F..Layers : h[i] = IF i = F THEN C ELSE addDeviants(q, i-1, h[i-1], maxSize)
    BY <1>12
  <2>2. QED
    BY <1>13, <2>1
<1>15. QED
  BY <1>11, <1>14 DEF h, F

\* The collection after all paths that replace one were added.
LEMMA ExpandStep ==
    ASSUME Lattice, NEW q \in Item, NEW C, NEW found, NEW left \in SUBSET AllPaths,
           NEW m \in Int, NEW maxSize \in Nat, m <= maxSize,
           Collected(C, Later(q, FirstIndex(q)), found, left, m, maxSize)
    PROVE  Collected(expandAvailablePaths(q, C, maxSize), {}, found, left, m, maxSize)
<1> DEFINE F == FirstIndex(q)
           K == Layers - F
           h == Expanded(q, C, maxSize)
           S == {i \in 0..K : Collected(h[F+i], Later(q, F+i), found, left, m, maxSize)}
<1>1. F \in 0..Layers /\ F > q.substituted /\ F \in Nat /\ Layers \in Nat /\ K \in Nat
      /\ F + K = Layers /\ F + 0 = F /\ q.substituted \in Int
  BY ItemIs, LayersAre DEF FirstIndex
<1>2. C \in Room(maxSize)
  BY DEF Collected, Room
<1>3. /\ expandAvailablePaths(q, C, maxSize) = h[Layers] /\ h[F] = C
      /\ \A i \in F+1..Layers : h[i] = addDeviants(q, i-1, h[i-1], maxSize)
  BY <1>2, ExpandedExists
<1>4. 0 \in S
  <2> HIDE DEF h
  <2>1. Collected(h[F], Later(q, F), found, left, m, maxSize)
    BY <1>3
  <2> HIDE DEF F
  <2>2. QED
    BY <1>1, <2>1
<1> HIDE DEF F, h
<1>5. ASSUME NEW i \in 1..K, i-1 \in S PROVE i \in S
  <2> DEFINE x == F+(i-1)
  <2>1. /\ x \in 0..Layers-1 /\ x > q.substituted /\ F+i = x+1 /\ F+i \in F+1..Layers /\ (F+i)-1 = x
        /\ i \in 0..K
    BY <1>1
  <2>2. Collected(h[x], Later(q, x), found, left, m, maxSize)
    BY <1>5
  <2> HIDE DEF x
  <2>3. Collected(addDeviants(q, x, h[x], maxSize), Later(q, x+1), found, left, m, maxSize)
    BY <2>1, <2>2, AddDeviantsStep
  <2>4. h[F+i] = addDeviants(q, x, h[x], maxSize)
    BY <1>3, <2>1
  <2>5. Collected(h[F+i], Later(q, F+i), found, left, m, maxSize)
    BY <2>1, <2>3, <2>4
  <2>6. QED
    BY <2>1, <2>5
<1> HIDE DEF S, K
<1>6. 0..K \subseteq S /\ K \in 0..K
  BY <1>1, <1>4, <1>5, Induction
<1>7. Collected(h[F+K], Later(q, F+K), found, left, m, maxSize)
  BY <1>6 DEF S
<1>8. Later(q, Layers) = {}
  <2>1. Layers..Layers-1 = {}
    BY LayersAre
  <2>2. QED
    BY <2>1 DEF Later
<1>9. QED
  BY <1>1, <1>3, <1>7, <1>8
-----------------------------------------------------------------------------
(* The invariant.                                                             *)

Options ==
    /\ arcCost \in CostTables /\ graph = SearchGraph /\ NBestPathCount \in 0..MaxPathCount
    /\ OnlyDistinctPaths \in BOOLEAN /\ NBestExpansionFactor \in ExpansionFactors

Translation(p) == [i \in 1..Layers |-> p[i].label]
Found == ToSet(Storage)

\* The paths still to be found.
Left ==
    {p \in AllPaths : IF OnlyDistinctPaths THEN Translation(p) \notin DistinctHypos
                      ELSE p \notin {s.nodes : s \in Found}}

\* The paths that retrieve may still take from the collection.
Wanted == MaxSize - Iteration

\* The paths found: the cheapest ones, in order, none twice.
Stored ==
    /\ Storage \in Seq(Item) /\ Sorted(Storage) /\ Len(Storage) <= NBestPathCount
    /\ \A i, j \in 1..Len(Storage) : Storage[i].nodes = Storage[j].nodes => i = j
    /\ OnlyDistinctPaths =>
          /\ DistinctHypos = {Translation(s.nodes) : s \in Found}
          /\ \A i, j \in 1..Len(Storage) :
                Translation(Storage[i].nodes) = Translation(Storage[j].nodes) => i = j
    /\ ~OnlyDistinctPaths => Iteration = Len(Storage)
    /\ \A s \in Found, p \in Left : s.cost <= PathCost(p)
    /\ Iteration \in 0..MaxIterations

Control ==
    /\ pc \in {"start", "loop", "returned"}
    /\ pc = "start" => Collection = << >> /\ Storage = << >> /\ DistinctHypos = {} /\ Iteration = 0
    /\ pc # "start" => Collected(Collection, {}, Found, Left, Wanted, MaxSize)
    /\ pc = "returned" => ~Continues

Inv == Options /\ Stored /\ Control

LEMMA SizesAre ==
    ASSUME Options
    PROVE  /\ Lattice /\ NBestPathCount \in Nat /\ OnlyDistinctPaths \in BOOLEAN
           /\ MaxIterations \in Nat /\ MaxSize \in Nat
           /\ OnlyDistinctPaths => MaxSize = MaxIterations
           /\ ~OnlyDistinctPaths => MaxSize = NBestPathCount
<1>1. /\ arcCost \in [Node -> Nat] /\ NBestPathCount \in Nat /\ OnlyDistinctPaths \in BOOLEAN
      /\ NBestExpansionFactor \in Nat
  BY NBestAssumption DEF Options
<1>2. ExpansionFactor \in Nat
  BY <1>1 DEF ExpansionFactor
<1>3. MaxIterations \in Nat
  <2>1. \A x, y \in Nat : x * y \in Nat
    OBVIOUS
  <2>2. QED
    BY <1>1, <1>2, <2>1 DEF MaxIterations
<1>4. Lattice
  BY <1>1, GraphIsLattice DEF Options
<1>5. QED
  BY <1>1, <1>3, <1>4 DEF MaxSize

LEMMA InitInv ==
    ASSUME Init
    PROVE  Inv
<1>1. Options
  BY DEF Init, Options
<1>2. /\ Storage = << >> /\ Collection = << >> /\ DistinctHypos = {} /\ Iteration = 0 /\ pc = "start"
  BY DEF Init
<1>3. << >> \in Seq(Item) /\ Len(<< >>) = 0 /\ 1..0 = {} /\ ToSet(<< >>) = {}
  BY DEF ToSet
<1>4. Stored
  BY <1>1, <1>2, <1>3, SizesAre DEF Stored, Sorted, Found
<1>5. Control
  BY <1>2 DEF Control
<1>6. QED
  BY <1>1, <1>4, <1>5 DEF Inv

\* The graph and the options never change.
LEMMA OptionsStay ==
    ASSUME Options, UNCHANGED options
    PROVE  /\ Options' /\ Item' = Item /\ \A p : PathCost(p)' = PathCost(p)
           /\ MaxSize' = MaxSize /\ MaxIterations' = MaxIterations
           /\ NBestPathCount' = NBestPathCount /\ OnlyDistinctPaths' = OnlyDistinctPaths
<1>1. /\ arcCost' = arcCost /\ graph' = graph /\ NBestPathCount' = NBestPathCount
      /\ OnlyDistinctPaths' = OnlyDistinctPaths /\ NBestExpansionFactor' = NBestExpansionFactor
  BY DEF options
<1>2. \A p : PathCost(p)' = PathCost(p)
  BY <1>1 DEF PathCost
<1>3. \A n : isRecombined(n)' = isRecombined(n)
  BY <1>1 DEF isRecombined, best
<1>4. Item' = Item
  BY <1>2, <1>3 DEF Item
<1>5. ExpansionFactor' = ExpansionFactor
  BY <1>1 DEF ExpansionFactor
<1>6. MaxIterations' = MaxIterations /\ MaxSize' = MaxSize
  BY <1>1, <1>5 DEF MaxIterations, MaxSize
<1>7. SearchGraph' = SearchGraph
  BY <1>1 DEF SearchGraph, Winners
<1>8. Options'
  BY <1>1, <1>7 DEF Options
<1>9. QED
  BY <1>1, <1>2, <1>4, <1>6, <1>8

LEMMA CollectedStays ==
    ASSUME Options, UNCHANGED options,
           Collected(Collection', {}, Found', Left', Wanted', MaxSize')
    PROVE  Collected(Collection, {}, Found, Left, Wanted, MaxSize)'
<1>1. Item' = Item /\ \A p : PathCost(p)' = PathCost(p)
  BY OptionsStay
<1>2. QED
  BY <1>1 DEF Collected, Covered, Apart, Dearer, Sorted

LEMMA StartStep ==
    ASSUME Inv, Start
    PROVE  Inv'
<1> DEFINE first == clsTrellisPath(best(Layers, Root).node)
           P == {first}
<1>1. /\ Options /\ Stored /\ Control /\ UNCHANGED options
      /\ pc = "start" /\ pc' = "loop" /\ Collection' = add(<< >>, first, MaxSize)
      /\ Storage' = Storage /\ DistinctHypos' = DistinctHypos /\ Iteration' = Iteration
      /\ Storage = << >> /\ DistinctHypos = {} /\ Iteration = 0
  BY DEF Inv, Start, Control
<1>2. /\ Options' /\ Item' = Item /\ \A p : PathCost(p)' = PathCost(p)
      /\ MaxSize' = MaxSize /\ MaxIterations' = MaxIterations
      /\ NBestPathCount' = NBestPathCount /\ OnlyDistinctPaths' = OnlyDistinctPaths
      /\ Lattice /\ MaxSize \in Nat
  BY <1>1, OptionsStay, SizesAre
<1>3. Found' = Found /\ Found = {} /\ Left' = Left
  BY <1>1, <1>2 DEF Found, Left, ToSet
<1>4. Stored'
  BY <1>1, <1>2, <1>3 DEF Stored, Sorted, Found
<1>5. first \in Item /\ \A p \in AllPaths : Extends(p, first)
  BY <1>2, FirstIsItem
<1> HIDE DEF first
<1>6. Wanted = MaxSize /\ Wanted' = MaxSize
  BY <1>1, <1>2 DEF Wanted
<1>7. Collected(<< >>, P, {}, AllPaths, MaxSize, MaxSize)
  <2>1. << >> \in Seq(Item) /\ Len(<< >>) = 0 /\ 1..0 = {} /\ P \subseteq Item /\ 0 <= MaxSize
    BY <1>2, <1>5
  <2>2. \A p \in AllPaths : Covered(p, << >>, P, MaxSize)
    BY <1>5 DEF Covered
  <2>3. Apart(<< >>, P, {}) /\ Dearer(<< >>, P, {}) /\ Sorted(<< >>)
    BY <2>1 DEF Apart, Dearer, Sorted
  <2>4. QED
    BY <2>1, <2>2, <2>3 DEF Collected
<1>8. Collected(Collection', P \ {first}, {}, AllPaths, MaxSize, MaxSize)
  <2>1. first \in P /\ MaxSize \in Int /\ MaxSize <= MaxSize /\ AllPaths \in SUBSET AllPaths
    BY <1>2
  <2> HIDE DEF P
  <2>2. QED
    BY <1>1, <1>2, <1>7, <2>1, AddStep
<1>9. Collected(Collection', {}, Found', Left', Wanted', MaxSize')
  <2>1. P \ {first} = {}
    OBVIOUS
  <2>2. Left' \subseteq AllPaths
    BY <1>3 DEF Left
  <2>3. QED
    BY <1>2, <1>3, <1>6, <1>8, <2>1, <2>2 DEF Collected
<1>10. Control'
  BY <1>1, <1>9, CollectedStays DEF Control
<1>11. QED
  BY <1>2, <1>4, <1>10 DEF Inv

LEMMA ReturnStep ==
    ASSUME Inv, Return \/ Returned \/ UNCHANGED vars
    PROVE  Inv'
<1>1. /\ Options /\ Stored /\ Control /\ UNCHANGED options
      /\ Collection' = Collection /\ Storage' = Storage /\ DistinctHypos' = DistinctHypos /\ Iteration' = Iteration
      /\ pc' = pc \/ (pc = "loop" /\ pc' = "returned" /\ ~Continues)
  BY DEF Inv, Return, Returned, vars
<1>2. /\ Options' /\ Item' = Item /\ \A p : PathCost(p)' = PathCost(p)
      /\ MaxSize' = MaxSize /\ MaxIterations' = MaxIterations
      /\ NBestPathCount' = NBestPathCount /\ OnlyDistinctPaths' = OnlyDistinctPaths
  BY <1>1, OptionsStay
<1>3. Found' = Found /\ Left' = Left /\ Wanted' = Wanted /\ Continues' = Continues
  BY <1>1, <1>2 DEF Found, Left, Wanted, Continues
<1>4. Stored'
  BY <1>1, <1>2, <1>3 DEF Stored, Sorted, Found
<1>5. pc # "start" => Collected(Collection', {}, Found', Left', Wanted', MaxSize')
  BY <1>1, <1>2, <1>3 DEF Control
<1>6. Control'
  BY <1>1, <1>3, <1>5, CollectedStays DEF Control
<1>7. QED
  BY <1>2, <1>4, <1>6 DEF Inv

LEMMA TranslationIs ==
    ASSUME NEW a \in Item
    PROVE  pathTranslation(a) = Translation(a.nodes)
<1>1. DOMAIN a.nodes = 1..Layers
  BY ItemIs, PathIs
<1>2. QED
  BY <1>1 DEF pathTranslation, Translation

\* What a step of the loop does to the paths found and to those left.
LEMMA NextPathFinds ==
    ASSUME Inv, NextPath
    PROVE  LET q == Head(Collection)
           IN  /\ q \in Item
               /\ \A s \in Found' : s \in Found \/ s = q
               /\ Left' \subseteq Left /\ q.nodes \notin Left'
               /\ Wanted \in Int /\ Wanted > 0 /\ Wanted' = Wanted - 1 /\ Wanted - 1 <= MaxSize
               /\ Collected(Collection, {}, Found, Left, Wanted, MaxSize) /\ Collection # << >>
<1> DEFINE q == Head(Collection)
<1>1. /\ Options /\ Stored /\ Control /\ UNCHANGED options
      /\ pc = "loop" /\ Continues /\ Collection # << >> /\ Len(Storage) < NBestPathCount
      /\ Iteration < MaxIterations /\ Iteration' = Iteration + 1
      /\ Storage' = IF IsNew(q) THEN Append(Storage, q) ELSE Storage
      /\ DistinctHypos' = IF OnlyDistinctPaths THEN DistinctHypos \cup {pathTranslation(q)} ELSE DistinctHypos
  BY DEF Inv, NextPath, Continues
<1>2. /\ MaxSize' = MaxSize /\ MaxIterations' = MaxIterations /\ OnlyDistinctPaths' = OnlyDistinctPaths
      /\ NBestPathCount \in Nat /\ OnlyDistinctPaths \in BOOLEAN /\ MaxIterations \in Nat /\ MaxSize \in Nat
      /\ OnlyDistinctPaths => MaxSize = MaxIterations
      /\ ~OnlyDistinctPaths => MaxSize = NBestPathCount
  BY <1>1, OptionsStay, SizesAre
<1>3. Collected(Collection, {}, Found, Left, Wanted, MaxSize)
  BY <1>1 DEF Control
<1>4. q \in Item
  BY <1>1, <1>3 DEF Collected
<1> HIDE DEF q
<1>5. /\ Storage \in Seq(Item) /\ Iteration \in Nat /\ (~OnlyDistinctPaths => Iteration = Len(Storage))
  BY <1>1, <1>2 DEF Stored
<1>6. Wanted \in Int /\ Wanted > 0 /\ Wanted' = Wanted - 1 /\ Wanted - 1 <= MaxSize
  BY <1>1, <1>2, <1>5 DEF Wanted
<1>7. Found' = IF IsNew(q) THEN Found \cup {q} ELSE Found
  <2>1. ToSet(Append(Storage, q)) = ToSet(Storage) \cup {q}
    <3>1. /\ Len(Storage) \in Nat /\ DOMAIN Storage = 1..Len(Storage)
          /\ DOMAIN Append(Storage, q) = 1..Len(Storage)+1
          /\ \A i \in 1..Len(Storage) : Append(Storage, q)[i] = Storage[i] /\ i \in 1..Len(Storage)+1
          /\ Append(Storage, q)[Len(Storage)+1] = q /\ Len(Storage)+1 \in 1..Len(Storage)+1
          /\ \A i \in 1..Len(Storage)+1 : i \in 1..Len(Storage) \/ i = Len(Storage)+1
      BY <1>4, <1>5
    <3>2. QED
      BY <3>1 DEF ToSet
  <2>2. QED
    BY <1>1, <2>1 DEF Found
<1>8. pathTranslation(q) = Translation(q.nodes)
  BY <1>4, TranslationIs
<1>9. Left' \subseteq Left /\ q.nodes \notin Left'
  <2>1. CASE OnlyDistinctPaths
    <3>1. DistinctHypos' = DistinctHypos \cup {Translation(q.nodes)}
      BY <1>1, <1>8, <2>1
    <3>2. QED
      BY <1>2, <2>1, <3>1 DEF Left
  <2>2. CASE ~OnlyDistinctPaths
    <3>1. Found' = Found \cup {q}
      BY <1>7, <2>2 DEF IsNew
    <3>2. QED
      BY <1>2, <2>2, <3>1 DEF Left
  <2>3. QED
    BY <2>1, <2>2
<1>10. QED
  BY <1>1, <1>3, <1>4, <1>6, <1>7, <1>9 DEF q

\* The cheapest of the collection is the cheapest of all that are left.
LEMMA CheapestLeft ==
    ASSUME Lattice, NEW C, NEW found, NEW left \in SUBSET AllPaths, NEW m \in Int, m > 0, NEW maxSize,
           Collected(C, {}, found, left, m, maxSize), C # << >>
    PROVE  /\ \A p \in left : Head(C).cost <= PathCost(p)
           /\ \A s \in found : s.cost <= Head(C).cost /\ s.nodes # Head(C).nodes
<1> DEFINE q == Head(C)
<1>1. /\ C \in Seq(Item) /\ Sorted(C) /\ Apart(C, {}, found) /\ Dearer(C, {}, found)
      /\ \A p \in left : Covered(p, C, {}, m)
  BY DEF Collected
<1>2. q = C[1] /\ 1 \in 1..Len(C) /\ q \in Item /\ Len(C) \in Nat
      /\ \A i \in 1..Len(C) : C[i] \in Item /\ 1 <= i
  BY <1>1
<1> HIDE DEF q
<1>3. \A i \in 1..Len(C) : q.cost <= C[i].cost /\ C[i].cost \in Nat /\ q.cost \in Nat
  BY <1>1, <1>2, ItemIs DEF Sorted
<1>4. ASSUME NEW p \in left PROVE q.cost <= PathCost(p)
  <2>1. p \in AllPaths /\ PathCost(p) \in Nat
    BY EstimateGrows
  <2>2. CASE \E i \in 1..Len(C) : Extends(p, C[i])
    <3>1. PICK i \in 1..Len(C) : Extends(p, C[i])
      BY <2>2
    <3>2. C[i].cost <= PathCost(p)
      BY <1>2, <2>1, <3>1, ExtensionCosts
    <3>3. QED
      BY <1>3, <2>1, <3>2
  <2>3. CASE m <= Len(C) /\ C[m].cost <= PathCost(p)
    <3>1. m \in 1..Len(C)
      BY <1>2, <2>3
    <3>2. QED
      BY <1>3, <2>1, <2>3, <3>1
  <2>4. QED
    BY <1>1, <2>2, <2>3 DEF Covered
<1>5. ASSUME NEW s \in found PROVE s.cost <= q.cost /\ s.nodes # q.nodes
  <2>1. s.cost <= q.cost /\ ~Extends(s.nodes, q)
    BY <1>1, <1>2 DEF Apart, Dearer
  <2>2. Extends(q.nodes, q)
    BY <1>2, ItemIs
  <2>3. QED
    BY <2>1, <2>2
<1>6. QED
  BY <1>4, <1>5 DEF q

LEMMA AppendKeeps ==
    ASSUME NEW s \in Seq(Item), NEW q \in Item
    PROVE  LET t == Append(s, q)
           IN  /\ t \in Seq(Item) /\ Len(t) = Len(s) + 1 /\ Len(s) \in Nat
               /\ \A i \in 1..Len(s) : t[i] = s[i]
               /\ t[Len(s)+1] = q
               /\ \A i \in 1..Len(t) : i \in 1..Len(s) \/ i = Len(s) + 1
OBVIOUS

LEMMA NextPathStores ==
    ASSUME Inv, NextPath
    PROVE  Stored'
<1> DEFINE q == Head(Collection)  t == Append(Storage, q)  l == Len(Storage)
<1>1. /\ Options /\ Stored /\ UNCHANGED options
      /\ Iteration < MaxIterations /\ Iteration' = Iteration + 1 /\ l < NBestPathCount
      /\ Storage' = IF IsNew(q) THEN t ELSE Storage
      /\ DistinctHypos' = IF OnlyDistinctPaths THEN DistinctHypos \cup {pathTranslation(q)} ELSE DistinctHypos
  BY DEF Inv, NextPath, Continues
<1>2. /\ Item' = Item /\ \A p : PathCost(p)' = PathCost(p)
      /\ MaxIterations' = MaxIterations /\ MaxIterations \in Nat /\ Lattice
      /\ NBestPathCount' = NBestPathCount /\ OnlyDistinctPaths' = OnlyDistinctPaths
      /\ NBestPathCount \in Nat /\ OnlyDistinctPaths \in BOOLEAN
  BY <1>1, OptionsStay, SizesAre
<1>3. /\ q \in Item /\ Left' \subseteq Left /\ \A s \in Found' : s \in Found \/ s = q
      /\ Wanted \in Int /\ Wanted > 0 /\ Collection # << >>
      /\ Collected(Collection, {}, Found, Left, Wanted, MaxSize)
  BY NextPathFinds
<1>4. /\ \A p \in Left : q.cost <= PathCost(p)
      /\ \A s \in Found : s.cost <= q.cost /\ s.nodes # q.nodes
  <2>1. Left \in SUBSET AllPaths
    BY DEF Left
  <2>2. QED
    BY <1>2, <1>3, <2>1, CheapestLeft
<1>5. pathTranslation(q) = Translation(q.nodes)
  BY <1>3, TranslationIs
<1> HIDE DEF q
<1>6. /\ Storage \in Seq(Item) /\ Sorted(Storage) /\ l <= NBestPathCount
      /\ \A i, j \in 1..l : Storage[i].nodes = Storage[j].nodes => i = j
      /\ OnlyDistinctPaths =>
            /\ DistinctHypos = {Translation(s.nodes) : s \in Found}
            /\ \A i, j \in 1..l : Translation(Storage[i].nodes) = Translation(Storage[j].nodes) => i = j
      /\ ~OnlyDistinctPaths => Iteration = l
      /\ \A s \in Found, p \in Left : s.cost <= PathCost(p)
      /\ Iteration \in 0..MaxIterations
  BY <1>1 DEF Stored
<1>7. \A i \in 1..l : Storage[i] \in Found
  <2>1. DOMAIN Storage = 1..l
    BY <1>6
  <2>2. QED
    BY <2>1 DEF Found, ToSet
<1>8. \A s \in Found', p \in Left' : s.cost <= PathCost(p)'
  BY <1>2, <1>3, <1>4, <1>6
<1>9. Iteration' \in 0..MaxIterations'
  BY <1>1, <1>2, <1>6
<1>10. CASE ~IsNew(q)
  <2>1. Storage' = Storage /\ OnlyDistinctPaths /\ pathTranslation(q) \in DistinctHypos
    BY <1>1, <1>10 DEF IsNew
  <2>2. Found' = Found /\ DistinctHypos' = DistinctHypos
    BY <1>1, <2>1 DEF Found
  <2>3. QED
    BY <1>2, <1>6, <1>8, <1>9, <2>1, <2>2 DEF Stored, Sorted
<1>11. CASE IsNew(q)
  <2>1. /\ Storage' = t /\ t \in Seq(Item) /\ Len(t) = l+1 /\ l \in Nat
        /\ \A i \in 1..l : t[i] = Storage[i]
        /\ t[l+1] = q
        /\ \A i \in 1..l+1 : i \in 1..l \/ i = l+1
    BY <1>1, <1>3, <1>6, <1>11, AppendKeeps
  <2> HIDE DEF t, l
  <2>2. Found' = Found \cup {q}
    <3>1. DOMAIN t = 1..l+1 /\ DOMAIN Storage = 1..l /\ l+1 \in 1..l+1 /\ \A i \in 1..l : i \in 1..l+1
      BY <1>6, <2>1 DEF l
    <3>2. QED
      BY <2>1, <3>1 DEF Found, ToSet
  <2>3. Sorted(t)
    <3> SUFFICES ASSUME NEW i \in 1..l+1, NEW j \in 1..l+1, i <= j PROVE t[i].cost <= t[j].cost
      BY <2>1 DEF Sorted
    <3>1. CASE i \in 1..l /\ j \in 1..l
      BY <1>6, <2>1, <3>1 DEF Sorted, l
    <3>2. CASE i \in 1..l /\ j = l+1
      BY <1>4, <1>7, <2>1, <3>2
    <3>3. CASE i = l+1
      <4>1. j = l+1 /\ q.cost \in Nat
        BY <1>3, <2>1, <3>3, ItemIs
      <4>2. QED
        BY <2>1, <3>3, <4>1
    <3>4. QED
      BY <2>1, <3>1, <3>2, <3>3
  <2>4. \A i, j \in 1..l+1 : t[i].nodes = t[j].nodes => i = j
    BY <1>4, <1>6, <1>7, <2>1
  <2>5. OnlyDistinctPaths =>
           /\ DistinctHypos' = {Translation(s.nodes) : s \in Found'}
           /\ \A i, j \in 1..l+1 : Translation(t[i].nodes) = Translation(t[j].nodes) => i = j
    <3> SUFFICES ASSUME OnlyDistinctPaths
                 PROVE  /\ DistinctHypos' = {Translation(s.nodes) : s \in Found'}
                        /\ \A i, j \in 1..l+1 : Translation(t[i].nodes) = Translation(t[j].nodes) => i = j
      OBVIOUS
    <3>1. DistinctHypos' = DistinctHypos \cup {Translation(q.nodes)} /\ Translation(q.nodes) \notin DistinctHypos
      BY <1>1, <1>5, <1>11 DEF IsNew
    <3>2. DistinctHypos = {Translation(s.nodes) : s \in Found}
      BY <1>6
    <3>3. \A i \in 1..l : Translation(t[i].nodes) # Translation(q.nodes)
      BY <1>7, <2>1, <3>1, <3>2
    <3>4. \A i, j \in 1..l : Translation(t[i].nodes) = Translation(t[j].nodes) => i = j
      BY <1>6, <2>1
    <3>5. QED
      BY <2>1, <2>2, <3>1, <3>2, <3>3, <3>4
  <2>6. l+1 <= NBestPathCount /\ (~OnlyDistinctPaths => Iteration' = l+1)
    BY <1>1, <1>2, <1>6, <2>1
  <2>7. QED
    BY <1>2, <1>8, <1>9, <2>1, <2>2, <2>3, <2>4, <2>5, <2>6 DEF Stored, Sorted
<1>12. QED
  BY <1>10, <1>11

LEMMA NextPathStep ==
    ASSUME Inv, NextPath
    PROVE  Inv'
<1> DEFINE q == Head(Collection)  rest == Tail(Collection)
<1>1. /\ Options /\ UNCHANGED options /\ pc = "loop" /\ pc' = pc
      /\ Collection' = expandAvailablePaths(q, rest, MaxSize)
  BY DEF Inv, NextPath
<1>2. Options' /\ Lattice /\ MaxSize' = MaxSize /\ MaxSize \in Nat
  BY <1>1, OptionsStay, SizesAre
<1>3. /\ \A s \in Found' : s \in Found \/ s = q
      /\ Left' \subseteq Left /\ q.nodes \notin Left' /\ Left \in SUBSET AllPaths /\ Left' \in SUBSET AllPaths
      /\ Wanted \in Int /\ Wanted' = Wanted - 1 /\ Wanted - 1 <= MaxSize /\ Wanted - 1 \in Int
      /\ Collected(Collection, {}, Found, Left, Wanted, MaxSize) /\ Collection # << >>
  BY NextPathFinds DEF Left
<1>4. q \in Item /\ Collected(rest, Later(q, FirstIndex(q)), Found', Left', Wanted - 1, MaxSize)
  BY <1>2, <1>3, PopStep
<1> HIDE DEF q, rest
<1>5. Collected(expandAvailablePaths(q, rest, MaxSize), {}, Found', Left', Wanted - 1, MaxSize)
  BY <1>2, <1>3, <1>4, ExpandStep
<1>6. Collected(Collection', {}, Found', Left', Wanted', MaxSize')
  BY <1>1, <1>2, <1>3, <1>5
<1>7. Control'
  BY <1>1, <1>6, CollectedStays DEF Control
<1>8. QED
  BY <1>2, <1>7, NextPathStores DEF Inv

-----------------------------------------------------------------------------
(* What the invariant says of the properties of the runs.                     *)

LEMMA InvAlways == Spec => []Inv
<1>1. Init => Inv
  BY InitInv
<1>2. Inv /\ [Next]_vars => Inv'
  <2> SUFFICES ASSUME Inv, [Next]_vars PROVE Inv'
    OBVIOUS
  <2>1. CASE Start
    BY <2>1, StartStep
  <2>2. CASE NextPath
    BY <2>2, NextPathStep
  <2>3. CASE Return \/ Returned \/ UNCHANGED vars
    BY <2>3, ReturnStep
  <2>4. QED
    BY <2>1, <2>2, <2>3 DEF Next
<1>3. QED
  BY <1>1, <1>2, PTL DEF Spec

\* What is collected and stored, at any point of retrieve.
LEMMA WhatIsKept ==
    ASSUME Inv
    PROVE  /\ Collection \in Seq(Item) /\ Sorted(Collection) /\ Apart(Collection, {}, Found)
           /\ (MaxSize > 0 => Len(Collection) <= MaxSize)
           /\ Storage \in Seq(Item) /\ Len(Storage) \in Nat /\ Len(Collection) \in Nat
           /\ DOMAIN Storage = 1..Len(Storage) /\ DOMAIN Collection = 1..Len(Collection)
           /\ \A i \in 1..Len(Storage) : Storage[i] \in Item /\ Storage[i] \in Found
           /\ \A i \in 1..Len(Collection) : Collection[i] \in Item
           /\ Found \subseteq Item
<1>1. /\ Storage \in Seq(Item) /\ (pc = "start" => Collection = << >> /\ Storage = << >>)
      /\ pc # "start" => Collected(Collection, {}, Found, Left, Wanted, MaxSize)
      /\ MaxSize \in Nat
  BY SizesAre DEF Inv, Stored, Control
<1>2. Found = {Storage[i] : i \in DOMAIN Storage}
  BY DEF Found, ToSet
<1>3. CASE pc = "start"
  <2>1. << >> \in Seq(Item) /\ Len(<< >>) = 0 /\ 1..0 = {}
    OBVIOUS
  <2>2. Found = {}
    BY <1>1, <1>2, <1>3
  <2>3. Sorted(<< >>) /\ Apart(<< >>, {}, {})
    BY <2>1 DEF Sorted, Apart
  <2>4. QED
    BY <1>1, <1>3, <2>1, <2>2, <2>3
<1>4. CASE pc # "start"
  BY <1>1, <1>2, <1>4 DEF Collected
<1>5. QED
  BY <1>3, <1>4

LEMMA InvTypes ==
    ASSUME Inv
    PROVE  TypeOK
<1>1. \A i \in 1..Len(Collection)-1 : Collection[i].cost <= Collection[i+1].cost
  <2>1. Len(Collection) \in Nat /\ Sorted(Collection)
    BY WhatIsKept
  <2>2. \A i \in 1..Len(Collection)-1 : i \in 1..Len(Collection) /\ i+1 \in 1..Len(Collection) /\ i <= i+1
    BY <2>1
  <2>3. QED
    BY <2>1, <2>2 DEF Sorted
<1>2. \A i \in DOMAIN Storage : Len(Storage[i].nodes) = Layers
  <2>1. \A a \in Item : a.nodes \in [1..Layers -> Node]
    BY ItemIs, PathIs
  <2>2. \A p \in [1..Layers -> Node] : Len(p) = Layers
    BY LayersAre
  <2>3. QED
    BY <2>1, <2>2, WhatIsKept
<1>3. (MaxSize > 0 => Len(Collection) <= MaxSize)
  BY WhatIsKept
<1>4. Len(Storage) <= NBestPathCount /\ Iteration \in 0..MaxIterations /\ pc \in {"start", "loop", "returned"}
  BY DEF Inv, Stored, Control
<1>5. QED
  BY <1>1, <1>2, <1>3, <1>4 DEF TypeOK

LEMMA InvNothingTwice ==
    ASSUME Inv
    PROVE  NothingTwice
<1>1. /\ Apart(Collection, {}, Found)
      /\ DOMAIN Storage = 1..Len(Storage) /\ DOMAIN Collection = 1..Len(Collection)
      /\ \A i \in 1..Len(Storage) : Storage[i] \in Item /\ Storage[i] \in Found
      /\ \A i \in 1..Len(Collection) : Collection[i] \in Item
  BY WhatIsKept
<1>2. /\ \A i, j \in 1..Len(Storage) : Storage[i].nodes = Storage[j].nodes => i = j
      /\ OnlyDistinctPaths => \A i, j \in 1..Len(Storage) :
            Translation(Storage[i].nodes) = Translation(Storage[j].nodes) => i = j
  BY DEF Inv, Stored
<1>3. \A i \in 1..Len(Collection) : Extends(Collection[i].nodes, Collection[i])
  BY <1>1, ItemIs
<1>4. IsInjective([i \in DOMAIN Collection |-> Collection[i].nodes])
  <2>1. \A i, j \in 1..Len(Collection) : Collection[i].nodes = Collection[j].nodes => i = j
    BY <1>1, <1>3 DEF Apart
  <2>2. QED
    BY <1>1, <2>1 DEF IsInjective
<1>5. \A i \in DOMAIN Collection : \A j \in DOMAIN Storage : Collection[i].nodes # Storage[j].nodes
  BY <1>1, <1>3 DEF Apart
<1>6. IsInjective([i \in DOMAIN Storage |-> Storage[i].nodes])
  BY <1>1, <1>2 DEF IsInjective
<1>7. OnlyDistinctPaths => IsInjective([i \in DOMAIN Storage |-> pathTranslation(Storage[i])])
  <2>1. \A i \in 1..Len(Storage) : pathTranslation(Storage[i]) = Translation(Storage[i].nodes)
    BY <1>1, TranslationIs
  <2>2. QED
    BY <1>1, <1>2, <2>1 DEF IsInjective
<1>8. QED
  BY <1>4, <1>5, <1>6, <1>7 DEF NothingTwice

\* A search that stopped with too few paths, and not for the expansion factor, has left none.
LEMMA NothingLeft ==
    ASSUME Inv, pc = "returned", Len(Storage) < NBestPathCount, Iteration < MaxIterations
    PROVE  Left = {}
<1>1. /\ Options /\ Storage \in Seq(Item) /\ Iteration \in 0..MaxIterations
      /\ (~OnlyDistinctPaths => Iteration = Len(Storage))
      /\ Collected(Collection, {}, Found, Left, Wanted, MaxSize) /\ Collection = << >>
  BY DEF Inv, Stored, Control, Continues
<1>2. /\ MaxIterations \in Nat /\ MaxSize \in Nat /\ NBestPathCount \in Nat
      /\ OnlyDistinctPaths => MaxSize = MaxIterations
      /\ ~OnlyDistinctPaths => MaxSize = NBestPathCount
  BY <1>1, SizesAre
<1>3. Wanted \in Int /\ Wanted > 0 /\ Len(<< >>) = 0 /\ 1..0 = {}
  BY <1>1, <1>2 DEF Wanted
<1>4. \A p \in Left : Covered(p, << >>, {}, Wanted)
  BY <1>1 DEF Collected
<1>5. \A p \in Left : FALSE
  BY <1>3, <1>4 DEF Covered
<1>6. QED
  BY <1>5

LEMMA InvCheapestFirst ==
    ASSUME Inv
    PROVE  CheapestFirst
<1> DEFINE found == ToSet(Storage)
           foundTexts == {pathTranslation(p) : p \in found}
           last == IF Storage = << >> THEN 0 ELSE Last(Storage).cost
           left == IF OnlyDistinctPaths
                   THEN {p \in AllPaths : [i \in 1..Layers |-> p[i].label] \notin foundTexts}
                   ELSE AllPaths \ {p.nodes : p \in found}
<1> SUFFICES ASSUME pc = "returned"
             PROVE  /\ \A p \in found : p.cost = PathCost(p.nodes)
                    /\ \A i \in 1..Len(Storage)-1 : Storage[i].cost <= Storage[i+1].cost
                    /\ \A p \in left : PathCost(p) >= last
                    /\ Len(Storage) < NBestPathCount /\ Iteration < MaxIterations => left = {}
  BY DEF CheapestFirst
<1>1. /\ found = Found /\ Found \subseteq Item /\ Storage \in Seq(Item) /\ Len(Storage) \in Nat
      /\ \A i \in 1..Len(Storage) : Storage[i] \in Item /\ Storage[i] \in Found
  BY WhatIsKept DEF Found
<1>2. left = Left
  <2>1. \A s \in Found : pathTranslation(s) = Translation(s.nodes)
    BY <1>1, TranslationIs
  <2>2. foundTexts = {Translation(s.nodes) : s \in Found}
    BY <1>1, <2>1
  <2>3. OnlyDistinctPaths => DistinctHypos = foundTexts
    BY <2>2 DEF Inv, Stored
  <2> HIDE DEF foundTexts
  <2>4. left = {p \in AllPaths : IF OnlyDistinctPaths THEN Translation(p) \notin foundTexts
                                 ELSE p \notin {s.nodes : s \in Found}}
    BY <1>1 DEF Translation
  <2>5. QED
    BY <2>3, <2>4 DEF Left
<1> HIDE DEF found, left
<1>3. \A p \in found : p.cost = PathCost(p.nodes)
  BY <1>1, ItemIs
<1>4. \A i \in 1..Len(Storage)-1 : Storage[i].cost <= Storage[i+1].cost
  <2>1. \A i \in 1..Len(Storage)-1 : i \in 1..Len(Storage) /\ i+1 \in 1..Len(Storage) /\ i <= i+1
    BY <1>1
  <2>2. Sorted(Storage)
    BY DEF Inv, Stored
  <2>3. QED
    BY <2>1, <2>2 DEF Sorted
<1>5. ASSUME NEW p \in left PROVE PathCost(p) >= last
  <2>1. p \in AllPaths /\ p \in Left
    BY <1>2 DEF Left
  <2>2. PathCost(p) \in Nat
    BY <2>1, SizesAre, EstimateGrows DEF Inv
  <2>3. CASE Storage = << >>
    BY <2>2, <2>3
  <2>4. CASE Storage # << >>
    <3>1. Len(Storage) \in 1..Len(Storage)
      BY <1>1, <2>4
    <3>2. Last(Storage) \in Found /\ Last(Storage).cost \in Nat
      BY <1>1, <3>1, ItemIs DEF Last
    <3>3. Last(Storage).cost <= PathCost(p)
      BY <2>1, <3>2 DEF Inv, Stored
    <3>4. QED
      BY <2>2, <2>4, <3>2, <3>3
  <2>5. QED
    BY <2>3, <2>4
<1>6. Len(Storage) < NBestPathCount /\ Iteration < MaxIterations => left = {}
  BY <1>2, NothingLeft
<1>7. QED
  BY <1>3, <1>4, <1>5, <1>6

\* The collection stays in the order of costs, never holds more than it should, and no
\* more paths are stored, and no more taken from it, than retrieve's options allow.
THEOREM NBestTypes == Spec => []TypeOK
<1>1. Inv => TypeOK
  BY InvTypes
<1>2. QED
  BY <1>1, InvAlways, PTL

\* retrieve finds no path twice, although a path can be made in many orders of replacing
\* its nodes: the nodes before the last substituted one are never replaced again.
THEOREM NoPathTwice == Spec => []NothingTwice
<1>1. Inv => NothingTwice
  BY InvNothingTwice
<1>2. QED
  BY <1>1, InvAlways, PTL

\* What retrieve returns is the cheapest there is, in order and at its real cost, although
\* the collection is cut at every insertion; and fewer paths than asked for are returned
\* only when there are no more, or when the expansion factor ended the search.
THEOREM CheapestPathsFirst == Spec => []CheapestFirst
<1>1. Inv => CheapestFirst
  BY InvCheapestFirst
<1>2. QED
  BY <1>1, InvAlways, PTL
=============================================================================
