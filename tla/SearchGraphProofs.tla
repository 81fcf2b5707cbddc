------------------------- MODULE SearchGraphProofs -------------------------
(***************************************************************************)
(* Proofs about the stack decoder, for any sentence, rules, costs, limits  *)
(* and any pruning.                                                        *)
(***************************************************************************)
EXTENDS SearchGraph, FiniteSetTheorems, WellFoundedInduction, TLAPS

-----------------------------------------------------------------------------
(* Numbers.                                                                   *)

LEMMA LeastNumber ==
    ASSUME NEW S \in SUBSET Nat, S # {}
    PROVE  \E m \in S : \A k \in S : m <= k
<1> DEFINE R == OpToRel(<, Nat)
<1>1. IsWellFoundedOn(R, Nat)
  BY NatLessThanWellFounded
<1>2. \A i, j \in Nat : <<i, j>> \in R <=> i < j
  BY DEF OpToRel
<1> HIDE DEF R
<1>3. PICK m \in S : \A k \in S : <<k, m>> \notin R
  BY <1>1, WFMin
<1>4. ASSUME NEW k \in S PROVE m <= k
  <2>1. m \in Nat /\ k \in Nat
    OBVIOUS
  <2>2. ~(k < m)
    BY <1>2, <1>3, <2>1
  <2>3. QED
    BY <2>1, <2>2
<1>5. QED
  BY <1>4

LEMMA MinIs ==
    ASSUME NEW S \in SUBSET Nat, S # {}
    PROVE  Min(S) \in S /\ \A k \in S : Min(S) <= k
BY LeastNumber DEF Min

LEMMA MaxIs ==
    ASSUME NEW n \in Nat, NEW S \in SUBSET (0..n), S # {}
    PROVE  Max(S) \in S /\ \A k \in S : k <= Max(S)
<1> DEFINE T == {n - k : k \in S}
<1>1. T \in SUBSET Nat /\ T # {}
  <2>1. \A k \in S : n - k \in Nat
    OBVIOUS
  <2>2. QED
    BY <2>1
<1>2. PICK t \in T : \A k \in T : t <= k
  BY <1>1, LeastNumber
<1>3. PICK m \in S : t = n - m
  OBVIOUS
<1>4. ASSUME NEW k \in S PROVE k <= m
  <2>1. n - k \in T
    OBVIOUS
  <2>2. n - m <= n - k /\ k \in 0..n /\ m \in 0..n
    BY <1>2, <1>3, <2>1
  <2>3. QED
    BY <2>2
<1>5. QED
  BY <1>4 DEF Max

-----------------------------------------------------------------------------
(* What a container has, whatever its nodes and costs: a coverage that is no  *)
(* key has no nodes.                                                          *)

Clean(c) ==
    /\ DOMAIN c = {"keys", "lex", "selected", "best", "worst", "total", "limit"}
    /\ c.keys \subseteq SUBSET Position
    /\ DOMAIN c.lex = SUBSET Position
    /\ \A v \in SUBSET Position : DOMAIN c.lex[v] = {"nodes", "best", "worst"}
    /\ \A v \in (SUBSET Position) \ c.keys : c.lex[v].nodes = {}

\* Of the keys of a container, at most the selected one has no nodes.
Filled(c) == \A v \in c.keys \ {c.selected} : c.lex[v].nodes # {}

LEMMA StoredIs ==
    ASSUME NEW c
    PROVE  /\ \A v, m : <<v, m>> \in H!Stored(c) <=> v \in c.keys /\ m \in c.lex[v].nodes
           /\ \A s \in H!Stored(c) : /\ s = <<s[1], s[2]>> /\ s[1] \in c.keys
                                     /\ s[2] \in c.lex[s[1]].nodes
<1>1. \A v, m : <<v, m>> \in H!Stored(c) <=> v \in c.keys /\ m \in c.lex[v].nodes
  BY DEF H!Stored
<1>2. \A s \in H!Stored(c) : s = <<s[1], s[2]>> /\ s[1] \in c.keys /\ s[2] \in c.lex[s[1]].nodes
  BY DEF H!Stored
<1>3. QED
  BY <1>1, <1>2

LEMMA EmptyIsClean ==
    Clean(H!EmptyContainer) /\ Filled(H!EmptyContainer) /\ H!Stored(H!EmptyContainer) = {}
<1> DEFINE c == H!EmptyContainer
<1>1. Clean(c) /\ Filled(c) /\ c.keys = {}
  BY DEF Clean, Filled, H!EmptyContainer, H!EmptyLex
<1>2. H!Stored(c) = {}
  BY <1>1, StoredIs
<1>3. QED
  BY <1>1, <1>2

LEMMA SelectIs ==
    ASSUME NEW c, Clean(c), Filled(c), c.selected \in c.keys => c.lex[c.selected].nodes # {},
           NEW v \in SUBSET Position
    PROVE  LET d == H!Select(c, v)
           IN  /\ Clean(d) /\ Filled(d) /\ H!Stored(d) = H!Stored(c)
               /\ d.selected = v /\ d.keys = c.keys \cup {v} /\ d.lex = c.lex
<1> DEFINE d == H!Select(c, v)
<1>2. d.selected = v /\ d.keys = c.keys \cup {v} /\ d.lex = c.lex
  BY DEF H!Select, Clean
<1>3. Clean(d)
  BY <1>2 DEF Clean, H!Select
<1>4. Filled(d)
  BY <1>2 DEF Filled
<1> HIDE DEF d
<1>5. H!Stored(d) = H!Stored(c)
  <2>1. v \notin c.keys => c.lex[v].nodes = {}
    BY DEF Clean
  <2>2. \A u, m : <<u, m>> \in H!Stored(d) <=> <<u, m>> \in H!Stored(c)
    BY <1>2, <2>1, StoredIs
  <2>3. QED
    BY <2>2, StoredIs
<1>6. QED
  BY <1>2, <1>3, <1>4, <1>5 DEF d

LEMMA DeselectIs ==
    ASSUME NEW c, Clean(c), Filled(c), c.selected \in c.keys
    PROVE  LET d == H!Deselect(c)
           IN  /\ Clean(d) /\ H!Stored(d) = H!Stored(c) /\ d.lex = c.lex /\ d.keys \subseteq c.keys
               /\ \A v \in d.keys : d.lex[v].nodes # {}
<1> DEFINE d == H!Deselect(c)
<1>1. CASE c.lex[c.selected].nodes = {}
  <2>1. d.lex = c.lex /\ d.keys = c.keys \ {c.selected}
    BY <1>1 DEF H!Deselect, Clean
  <2>2. Clean(d)
    BY <1>1, <2>1 DEF H!Deselect, Clean
  <2>3. \A v \in d.keys : d.lex[v].nodes # {}
    BY <2>1 DEF Filled
  <2> HIDE DEF d
  <2>4. \A u, m : <<u, m>> \in H!Stored(d) <=> <<u, m>> \in H!Stored(c)
    <3>1. \A u, m : <<u, m>> \in H!Stored(d) <=> u \in c.keys \ {c.selected} /\ m \in c.lex[u].nodes
      BY <2>1, StoredIs
    <3>2. \A u, m : <<u, m>> \in H!Stored(c) <=> u \in c.keys /\ m \in c.lex[u].nodes
      BY StoredIs
    <3>3. QED
      BY <1>1, <3>1, <3>2
  <2>5. H!Stored(d) = H!Stored(c)
    <3>1. \A s \in H!Stored(d) : s = <<s[1], s[2]>>
      BY StoredIs
    <3>2. \A s \in H!Stored(c) : s = <<s[1], s[2]>>
      BY StoredIs
    <3>3. QED
      BY <2>4, <3>1, <3>2
  <2>6. QED
    BY <2>1, <2>2, <2>3, <2>5 DEF d
<1>2. CASE c.lex[c.selected].nodes # {}
  <2>1. d = c
    BY <1>2 DEF H!Deselect
  <2>2. QED
    BY <1>2, <2>1 DEF Filled
<1>3. QED
  BY <1>1, <1>2

\* An insertion puts the node into the selected coverage, or another one that is
\* equal to it; nothing else is new.
LEMMA InsertedIs ==
    ASSUME NEW c, Clean(c), Filled(c), c.selected \in c.keys, NEW node
    PROVE  LET d == H!Inserted(c, node)
           IN  /\ Clean(d) /\ d.selected = c.selected /\ d.keys = c.keys
               /\ \A v \in d.keys : d.lex[v].nodes # {}
               /\ H!Stored(d) \subseteq H!Stored(c) \cup {<<c.selected, node>>}
<1> DEFINE v == c.selected
           old == c.lex[v]
           new == H!insertHypothesis(old, node)
           d == H!Inserted(c, node)
<1>1. /\ DOMAIN new = {"nodes", "best", "worst"} /\ new.nodes # {}
      /\ new.nodes \subseteq old.nodes \cup {node}
  <2> DEFINE same == {m \in old.nodes : m.state = node.state}
             kept == IF \E m \in same : m.cost <= node.cost THEN CHOOSE m \in same : TRUE ELSE node
  <2>1. new.nodes = (old.nodes \ same) \cup {kept} /\ DOMAIN new = {"nodes", "best", "worst"}
    BY DEF H!insertHypothesis
  <2>2. kept \in old.nodes \cup {node}
    OBVIOUS
  <2> HIDE DEF same, kept, new
  <2>3. QED
    BY <2>1, <2>2
<1>2. v \in SUBSET Position
  BY DEF Clean
<1> HIDE DEF new
<1>3. /\ DOMAIN d = DOMAIN c /\ d.keys = c.keys /\ d.selected = v
      /\ d.lex = [c.lex EXCEPT ![v] = new]
  BY DEF H!Inserted, Clean, new
<1> HIDE DEF d
<1>4. /\ DOMAIN d.lex = SUBSET Position /\ d.lex[v] = new
      /\ \A u \in (SUBSET Position) \ {v} : d.lex[u] = c.lex[u]
  BY <1>2, <1>3 DEF Clean
<1>5. Clean(d)
  BY <1>1, <1>3, <1>4 DEF Clean
<1>6. ASSUME NEW u \in d.keys PROVE d.lex[u].nodes # {}
  <2>1. u \in SUBSET Position /\ u \in c.keys
    BY <1>3 DEF Clean
  <2>2. QED
    BY <1>1, <1>4, <2>1 DEF Filled
<1>7. ASSUME NEW s \in H!Stored(d) PROVE s \in H!Stored(c) \cup {<<v, node>>}
  <2>1. s = <<s[1], s[2]>> /\ s[1] \in c.keys /\ s[2] \in d.lex[s[1]].nodes
    BY <1>3, StoredIs
  <2>2. s[1] \in SUBSET Position
    BY <2>1 DEF Clean
  <2>3. s[2] \in c.lex[s[1]].nodes \/ (s[1] = v /\ s[2] = node)
    BY <1>1, <1>4, <2>1, <2>2
  <2>4. QED
    BY <2>1, <2>3, StoredIs
<1>8. QED
  BY <1>3, <1>5, <1>6, <1>7 DEF d

LEMMA SameCardinality == \A S : H!Cardinality(S) = Cardinality(S)
BY DEF H!Cardinality, Cardinality

\* The picks: a share of each coverage, then the cheapest of the rest.
Room(P) == H!MaxOf(MaxCardinalityContainerSize - H!Cardinality(P), 0)
Rest(c, P) == {s \in H!Stored(c) \ P : s[2].cost < H!Beam(c)}
IsPick(c, K, P, F) ==
    /\ K = P \cup F
    /\ \A v \in c.keys : H!Cheapest(H!Of(P, v), H!Of(H!Stored(c), v), PrimaryCoverageShare)
    /\ H!Cheapest(F, Rest(c, P), Room(P))

LEMMA PicksAre ==
    ASSUME NEW c, NEW K \in H!Picks(c)
    PROVE  \E P \in SUBSET H!Stored(c) : \E F \in SUBSET Rest(c, P) : IsPick(c, K, P, F)
BY DEF H!Picks, Rest, Room, IsPick

\* Pruning takes nodes away, and whole coverages but for the selected one.
Less(c, d) ==
    /\ Clean(d) /\ d.selected = c.selected
    /\ H!Stored(d) \subseteq H!Stored(c) /\ d.keys \subseteq c.keys
    /\ \A v \in d.keys : d.lex[v].nodes # {}

LEMMA UpdateIs ==
    ASSUME NEW c, Clean(c), NEW d \in H!UpdateBestAndWorst(c)
    PROVE  Clean(d) /\ d.keys = c.keys /\ d.lex = c.lex /\ d.selected = c.selected /\ H!Stored(d) = H!Stored(c)
<1> DEFINE full == {v \in c.keys : c.lex[v].nodes # {}}
<1>1. PICK b, w : d = [c EXCEPT !.best = b, !.worst = w]
  BY DEF H!UpdateBestAndWorst
<1>2. DOMAIN d = DOMAIN c /\ d.keys = c.keys /\ d.lex = c.lex /\ d.selected = c.selected
  BY <1>1 DEF Clean
<1>3. Clean(d)
  BY <1>2 DEF Clean
<1>4. H!Stored(d) = H!Stored(c)
  BY <1>2 DEF H!Stored
<1>5. QED
  BY <1>2, <1>3, <1>4

LEMMA PrunedIs ==
    ASSUME NEW c, Clean(c), \A v \in c.keys : c.lex[v].nodes # {},
           NEW K \in H!Picks(c)
    PROVE  LET d == H!Pruned(c, K)
           IN  Less(c, d) /\ (c.selected \in c.keys => c.selected \in d.keys)
<1> DEFINE d == H!Pruned(c, K)
           left(v) == IF H!Of(K, v) # {} THEN [c.lex[v] EXCEPT !.nodes = {s[2] : s \in H!Of(K, v)}]
                      ELSE IF v \in H!Keeps(c, K) THEN c.lex[v] ELSE H!EmptyLex
<1>1. K \subseteq H!Stored(c)
  <2>1. PICK P \in SUBSET H!Stored(c) : \E F \in SUBSET Rest(c, P) : IsPick(c, K, P, F)
    BY PicksAre
  <2>2. QED
    BY <2>1 DEF Rest, IsPick
<1>2. /\ DOMAIN d = DOMAIN c /\ d.keys = H!Keeps(c, K) /\ d.selected = c.selected
      /\ d.lex = [v \in SUBSET Position |-> left(v)]
  BY DEF H!Pruned, Clean
<1> HIDE DEF d
<1>3. ASSUME NEW v \in SUBSET Position
      PROVE  /\ DOMAIN left(v) = {"nodes", "best", "worst"}
             /\ left(v).nodes = IF H!Of(K, v) # {} THEN {s[2] : s \in H!Of(K, v)}
                                ELSE IF v \in H!Keeps(c, K) THEN c.lex[v].nodes ELSE {}
  BY DEF Clean, H!EmptyLex
<1> HIDE DEF left
<1>4. /\ DOMAIN d.lex = SUBSET Position
      /\ \A v \in SUBSET Position : d.lex[v] = left(v)
  BY <1>2
<1>5. \A v : H!Of(K, v) # {} => v \in c.keys
  BY <1>1, StoredIs DEF H!Of
<1>6. \A v : \A s \in H!Of(K, v) : s[2] \in c.lex[v].nodes
  BY <1>1, StoredIs DEF H!Of
<1>7. d.keys \subseteq c.keys /\ c.keys \subseteq SUBSET Position
  BY <1>2 DEF H!Keeps, Clean
<1>8. Clean(d)
  <2>1. ASSUME NEW v \in (SUBSET Position) \ d.keys PROVE left(v).nodes = {}
    BY <1>2, <1>3, <1>5 DEF H!Keeps
  <2>2. QED
    BY <1>2, <1>3, <1>4, <1>7, <2>1 DEF Clean
<1>9. ASSUME NEW v \in d.keys PROVE d.lex[v].nodes # {}
  <2>1. v \in SUBSET Position /\ v \in c.keys /\ c.lex[v].nodes # {}
    BY <1>7
  <2>2. CASE H!Of(K, v) # {}
    <3>1. d.lex[v].nodes = {s[2] : s \in H!Of(K, v)}
      BY <1>3, <1>4, <2>1, <2>2
    <3>2. QED
      BY <2>2, <3>1
  <2>3. CASE H!Of(K, v) = {}
    <3>1. d.lex[v].nodes = c.lex[v].nodes
      BY <1>2, <1>3, <1>4, <2>1, <2>3
    <3>2. QED
      BY <2>1, <3>1
  <2>4. QED
    BY <2>2, <2>3
<1>10. ASSUME NEW s \in H!Stored(d) PROVE s \in H!Stored(c)
  <2>1. s = <<s[1], s[2]>> /\ s[1] \in d.keys /\ s[2] \in d.lex[s[1]].nodes
    BY StoredIs
  <2>2. s[1] \in SUBSET Position /\ s[1] \in c.keys
    BY <1>7, <2>1
  <2>3. s[2] \in c.lex[s[1]].nodes
    <3>1. CASE H!Of(K, s[1]) # {}
      <4>1. d.lex[s[1]].nodes = {t[2] : t \in H!Of(K, s[1])}
        BY <1>3, <1>4, <2>2, <3>1
      <4>2. QED
        BY <1>6, <2>1, <4>1
    <3>2. CASE H!Of(K, s[1]) = {}
      <4>1. d.lex[s[1]].nodes = c.lex[s[1]].nodes
        BY <1>2, <1>3, <1>4, <2>1, <2>2, <3>2
      <4>2. QED
        BY <2>1, <4>1
    <3>3. QED
      BY <3>1, <3>2
  <2>4. QED
    BY <2>1, <2>2, <2>3, StoredIs
<1>11. c.selected \in c.keys => c.selected \in d.keys
  BY <1>2 DEF H!Keeps
<1>12. QED
  BY <1>2, <1>7, <1>8, <1>9, <1>10, <1>11 DEF Less, d

LEMMA PruneIs ==
    ASSUME NEW c, Clean(c), \A v \in c.keys : c.lex[v].nodes # {},
           NEW d \in H!prune(c)
    PROVE  Less(c, d) /\ (c.selected \in c.keys => c.selected \in d.keys)
<1>1. CASE c.total <= MaxCardinalityContainerSize
  <2>1. d \in H!UpdateBestAndWorst(c)
    BY <1>1 DEF H!prune
  <2>2. QED
    BY <2>1, UpdateIs DEF Less
<1>2. CASE ~(c.total <= MaxCardinalityContainerSize)
  <2>1. PICK K \in H!Picks(c) : \E e \in H!UpdateBestAndWorst(H!Pruned(c, K)) : \E x : d = [e EXCEPT !.limit = x]
    BY <1>2 DEF H!prune
  <2> DEFINE p == H!Pruned(c, K)
  <2>2. Less(c, p) /\ (c.selected \in c.keys => c.selected \in p.keys)
    BY PrunedIs
  <2>3. PICK e \in H!UpdateBestAndWorst(p) : \E x : d = [e EXCEPT !.limit = x]
    BY <2>1
  <2> HIDE DEF p
  <2>4. Clean(e) /\ e.keys = p.keys /\ e.lex = p.lex /\ e.selected = p.selected
    BY <2>2, UpdateIs DEF Less
  <2>5. DOMAIN d = DOMAIN e /\ d.keys = p.keys /\ d.lex = p.lex /\ d.selected = p.selected
    BY <2>3, <2>4 DEF Clean
  <2>6. Clean(d)
    BY <2>4, <2>5 DEF Clean
  <2>7. H!Stored(d) = H!Stored(p)
    BY <2>5 DEF H!Stored
  <2>8. QED
    BY <2>2, <2>5, <2>6, <2>7 DEF Less
<1>3. QED
  BY <1>1, <1>2

LEMMA InsertionIs ==
    ASSUME NEW c, Clean(c), Filled(c), c.selected \in c.keys, NEW node, NEW d \in H!insertNewHypothesis(c, node)
    PROVE  /\ Clean(d) /\ d.selected = c.selected /\ d.selected \in d.keys /\ d.keys \subseteq c.keys
           /\ \A v \in d.keys : d.lex[v].nodes # {}
           /\ H!Stored(d) \subseteq H!Stored(c) \cup {<<c.selected, node>>}
<1> DEFINE e == H!Inserted(c, node)
<1>1. /\ Clean(e) /\ e.selected = c.selected /\ e.keys = c.keys
      /\ \A v \in e.keys : e.lex[v].nodes # {}
      /\ H!Stored(e) \subseteq H!Stored(c) \cup {<<c.selected, node>>}
  BY InsertedIs
<1>2. d = e \/ d \in H!prune(e)
  BY DEF H!insertNewHypothesis
<1> HIDE DEF e
<1>3. CASE d = e
  BY <1>1, <1>3
<1>4. CASE d \in H!prune(e)
  <2>1. Less(e, d) /\ e.selected \in d.keys
    BY <1>1, <1>4, PruneIs
  <2>2. QED
    BY <1>1, <2>1 DEF Less
<1>5. QED
  BY <1>2, <1>3, <1>4

-----------------------------------------------------------------------------
(* The rules of a phrase, offered one after the other.                        *)

\* What holds after every rule: nodes that are new are of this phrase.
OfferedTo(node, c) ==
    /\ Clean(c) /\ Filled(c) /\ c.selected = curr.selected /\ c.selected \in c.keys
    /\ c.keys \subseteq curr.keys
    /\ \A s \in H!Stored(c) :
          \/ s \in H!Stored(curr)
          \/ \E i \in DOMAIN candidates[phrase] :
                s = <<curr.selected, NewNode(node, phrase[1], phrase[2], candidates[phrase][i])>>

LEMMA OfferIs ==
    ASSUME NEW node, NEW c, OfferedTo(node, c), NEW i \in DOMAIN candidates[phrase],
           NEW d \in Offer(c, NewNode(node, phrase[1], phrase[2], candidates[phrase][i]))
    PROVE  OfferedTo(node, d)
<1> DEFINE new == NewNode(node, phrase[1], phrase[2], candidates[phrase][i])
<1>1. CASE d = c
  BY <1>1
<1>2. CASE d \in H!insertNewHypothesis(c, new)
  <2> HIDE DEF new
  <2>1. Clean(c) /\ Filled(c) /\ c.selected \in c.keys
    BY DEF OfferedTo
  <2>2. /\ Clean(d) /\ d.selected = c.selected /\ d.selected \in d.keys /\ d.keys \subseteq c.keys
        /\ \A v \in d.keys : d.lex[v].nodes # {}
        /\ H!Stored(d) \subseteq H!Stored(c) \cup {<<c.selected, new>>}
    BY <1>2, <2>1, InsertionIs
  <2>3. Filled(d)
    BY <2>2 DEF Filled
  <2>4. ASSUME NEW s \in H!Stored(d)
        PROVE  \/ s \in H!Stored(curr)
               \/ \E j \in DOMAIN candidates[phrase] :
                     s = <<curr.selected, NewNode(node, phrase[1], phrase[2], candidates[phrase][j])>>
    <3>1. CASE s \in H!Stored(c)
      BY <3>1 DEF OfferedTo
    <3>2. CASE s = <<c.selected, new>>
      BY <3>2 DEF OfferedTo, new
    <3>3. QED
      BY <2>2, <3>1, <3>2
  <2>5. QED
    BY <2>2, <2>3, <2>4 DEF OfferedTo
<1>3. QED
  BY <1>1, <1>2 DEF Offer

\* The containers after each of n rules.
Iteration(node, n, f) ==
    /\ f[0] = {curr} /\ f[n] = Offered(node)
    /\ \A i \in 1..n : \A d \in f[i] : \E c \in f[i-1] :
          d \in Offer(c, NewNode(node, phrase[1], phrase[2], candidates[phrase][i]))

LEMMA IterationIs ==
    ASSUME NEW node, NEW n \in Nat, n = Len(candidates[phrase])
    PROVE  \E f : Iteration(node, n, f)
<1> DEFINE next(S, i) == UNION {Offer(d, NewNode(node, phrase[1], phrase[2], candidates[phrase][i])) : d \in S}
           IsIteration(f, k) == f = [i \in 0..k |-> IF i = 0 THEN {curr} ELSE next(f[i-1], i)]
<1>1. Offered(node) = (CHOOSE f : IsIteration(f, n))[n]
  BY DEF Offered
<1> HIDE DEF next
<1>2. \A k \in Nat : \E f : IsIteration(f, k)
  <2> DEFINE S == {k \in Nat : ~\E f : IsIteration(f, k)}
  <2>1. SUFFICES ASSUME S # {} PROVE FALSE
    OBVIOUS
  <2>2. S \in SUBSET Nat
    OBVIOUS
  <2>3. PICK m \in S : \A k \in S : m <= k
    <3> HIDE DEF S
    <3>1. QED
      BY <2>1, <2>2, LeastNumber
  <2>4. m # 0
    <3> DEFINE f == [i \in 0..0 |-> {curr}]
    <3>1. IsIteration(f, 0)
      OBVIOUS
    <3>2. QED
      BY <3>1
  <2>5. m \in Nat /\ m - 1 \in Nat
    BY <2>4
  <2>6. m - 1 \notin S
    <3> HIDE DEF S
    <3>1. QED
      BY <2>3, <2>5
  <2>7. PICK g : IsIteration(g, m - 1)
    BY <2>5, <2>6
  <2> DEFINE f == [i \in 0..m |-> IF i = m THEN next(g[m-1], m) ELSE g[i]]
  <2>8. /\ f = [i \in 0..m |-> f[i]]
        /\ f[m] = next(g[m-1], m)
        /\ \A i \in 0..m-1 : f[i] = g[i]
    BY <2>5
  <2>9. \A i \in 0..m-1 : g[i] = IF i = 0 THEN {curr} ELSE next(g[i-1], i)
    BY <2>7
  <2> HIDE DEF f
  <2>10. ASSUME NEW i \in 0..m PROVE f[i] = IF i = 0 THEN {curr} ELSE next(f[i-1], i)
    <3>1. CASE i = m
      <4>1. m - 1 \in 0..m-1
        BY <2>5
      <4>2. f[m - 1] = g[m - 1]
        BY <2>8, <4>1
      <4>3. QED
        BY <2>4, <2>8, <3>1, <4>2
    <3>2. CASE i # m /\ i = 0
      <4>1. 0 \in 0..m-1
        BY <2>5
      <4>2. QED
        BY <2>8, <2>9, <3>2, <4>1
    <3>3. CASE i # m /\ i # 0
      <4>1. i \in 0..m-1 /\ i - 1 \in 0..m-1
        BY <2>5, <3>3
      <4>2. f[i] = g[i] /\ f[i-1] = g[i-1] /\ g[i] = next(g[i-1], i)
        BY <2>8, <2>9, <3>3, <4>1
      <4>3. QED
        BY <3>3, <4>2
    <3>4. QED
      BY <3>1, <3>2, <3>3
  <2>11. IsIteration(f, m)
    BY <2>8, <2>10
  <2>12. QED
    BY <2>11
<1>3. PICK f : f = CHOOSE g : IsIteration(g, n)
  OBVIOUS
<1>4. IsIteration(f, n)
  BY <1>2, <1>3
<1>5. \A i \in 0..n : f[i] = IF i = 0 THEN {curr} ELSE next(f[i-1], i)
  BY <1>4
<1>6. ASSUME NEW i \in 1..n, NEW d \in f[i]
      PROVE  \E c \in f[i-1] : d \in Offer(c, NewNode(node, phrase[1], phrase[2], candidates[phrase][i]))
  <2>1. f[i] = next(f[i-1], i)
    BY <1>5
  <2>2. QED
    BY <2>1 DEF next
<1>7. f[n] = Offered(node)
  BY <1>1, <1>3
<1>8. f[0] = {curr}
  BY <1>5
<1>9. QED
  BY <1>6, <1>7, <1>8 DEF Iteration

LEMMA OfferedIs ==
    ASSUME NEW node, NEW n \in Nat, n = Len(candidates[phrase]), DOMAIN candidates[phrase] = 1..n,
           OfferedTo(node, curr), NEW c \in Offered(node)
    PROVE  OfferedTo(node, c)
<1>1. PICK f : Iteration(node, n, f)
  BY IterationIs
<1> DEFINE S == {i \in 0..n : \E d \in f[i] : ~OfferedTo(node, d)}
<1>2. S = {}
  <2>1. SUFFICES ASSUME S # {} PROVE FALSE
    OBVIOUS
  <2>2. S \in SUBSET Nat /\ S \subseteq 0..n
    OBVIOUS
  <2>3. PICK m \in S : \A k \in S : m <= k
    <3> HIDE DEF S
    <3>1. QED
      BY <2>1, <2>2, LeastNumber
  <2>4. PICK d \in f[m] : ~OfferedTo(node, d)
    OBVIOUS
  <2>5. m # 0
    BY <1>1, <2>4 DEF Iteration
  <2>6. m \in 1..n /\ m - 1 \in 0..n /\ m - 1 < m
    BY <2>5
  <2>7. m - 1 \notin S
    <3> HIDE DEF S
    <3>1. QED
      BY <2>3, <2>6
  <2>8. PICK e \in f[m-1] : d \in Offer(e, NewNode(node, phrase[1], phrase[2], candidates[phrase][m]))
    BY <1>1, <2>4, <2>6 DEF Iteration
  <2>9. OfferedTo(node, e)
    BY <2>6, <2>7, <2>8
  <2>10. QED
    BY <2>4, <2>6, <2>8, <2>9, OfferIs
<1>3. c \in f[n] /\ n \in 0..n
  BY <1>1 DEF Iteration
<1>4. QED
  BY <1>2, <1>3

-----------------------------------------------------------------------------
(* The containers of the search.  A node of cardinality k extends, by a       *)
(* phrase that does not overlap it and is not too far from it, a node that is *)
(* stored at a smaller cardinality.                                           *)

Extends(node, prev) ==
    \E p \in Phrase :
        /\ prev.coverage \cap Span(p[1], p[2]) = {}
        /\ node.coverage = prev.coverage \cup Span(p[1], p[2])
        /\ node.begin = p[1] % 2^PositionBits
        /\ node.end = (p[1] + p[2]) % 2^PositionBits
        /\ Conforms(prev, p[1], p[2])

Linked(h, k, s) ==
    /\ s[2].coverage = s[1]
    /\ Extends(s[2], s[2].prev)
    /\ \E j \in 0..k-1 : /\ Cardinality(s[2].prev.coverage) = j
                         /\ <<s[2].prev.coverage, s[2].prev>> \in H!Stored(h[j])

NoneEmpty(c) == \A v \in c.keys : c.lex[v].nodes # {}

\* The containers below n are final, those above n are untouched.
Sane(h, n) ==
    /\ DOMAIN h = 0..N /\ h[0] = RootContainer
    /\ \A k \in 0..N : /\ Clean(h[k]) /\ Filled(h[k])
                       /\ \A v \in h[k].keys : Cardinality(v) = k
                       /\ k # n => NoneEmpty(h[k])
                       /\ k > n => h[k] = H!EmptyContainer
    /\ \A k \in 1..N : \A s \in H!Stored(h[k]) : Linked(h, k, s)

LEMMA RootIs ==
    /\ Clean(RootContainer) /\ Filled(RootContainer) /\ NoneEmpty(RootContainer)
    /\ RootContainer.keys = {{}} /\ RootContainer.lex[{}].nodes = {RootNode}
    /\ H!Stored(RootContainer) = {<<{}, RootNode>>}
    /\ RootNode.coverage = {} /\ RootNode.begin = 0 /\ RootNode.end = 0
<1> DEFINE c == RootContainer
<1>1. /\ DOMAIN c = {"keys", "lex", "selected", "best", "worst", "total", "limit"}
      /\ c.keys = {{}}
      /\ c.lex = [[v \in SUBSET Position |-> H!EmptyLex] EXCEPT
                     ![{}] = [nodes |-> {RootNode}, best |-> 0, worst |-> 0]]
  BY DEF RootContainer, H!EmptyContainer
<1> HIDE DEF c
<1>2. /\ DOMAIN c.lex = SUBSET Position /\ c.lex[{}] = [nodes |-> {RootNode}, best |-> 0, worst |-> 0]
      /\ \A v \in (SUBSET Position) \ {{}} : c.lex[v] = H!EmptyLex
  BY <1>1
<1>3. Clean(c)
  BY <1>1, <1>2 DEF Clean, H!EmptyLex
<1>4. Filled(c) /\ NoneEmpty(c)
  BY <1>1, <1>2 DEF Filled, NoneEmpty
<1>5. \A v, m : <<v, m>> \in H!Stored(c) <=> v = {} /\ m = RootNode
  <2>1. c.lex[{}].nodes = {RootNode}
    BY <1>2
  <2>2. \A v, m : <<v, m>> \in H!Stored(c) <=> v \in {{}} /\ m \in c.lex[v].nodes
    BY <1>1, StoredIs
  <2>3. QED
    BY <2>1, <2>2
<1>6. H!Stored(c) = {<<{}, RootNode>>}
  <2>1. \A s \in H!Stored(c) : s = <<s[1], s[2]>>
    BY StoredIs
  <2>2. QED
    BY <1>5, <2>1
<1>7. QED
  BY <1>1, <1>2, <1>3, <1>4, <1>6 DEF c, RootNode

LEMMA SpanIs ==
    ASSUME NEW v \in SUBSET Position, NEW p \in Phrase, v \cap Span(p[1], p[2]) = {}
    PROVE  /\ v \cup Span(p[1], p[2]) \in SUBSET Position
           /\ Cardinality(v \cup Span(p[1], p[2])) = Cardinality(v) + p[2]
           /\ Cardinality(v) \in Nat
<1>1. /\ N \in Nat \ {0} /\ p[1] \in 0..N-1 /\ p[2] \in 1..N /\ p[1] + p[2] <= N
  BY SentenceAssumption DEF Phrase, Position
<1>2. /\ IsFiniteSet(Span(p[1], p[2])) /\ Cardinality(Span(p[1], p[2])) = p[2]
      /\ Span(p[1], p[2]) \subseteq Position
  <2> DEFINE b == p[1]  e == p[1] + p[2] - 1
  <2>1. b \in Int /\ e \in Int /\ ~(b > e) /\ e - b + 1 = p[2]
    BY <1>1
  <2>2. IsFiniteSet(b..e) /\ Cardinality(b..e) = IF b > e THEN 0 ELSE e - b + 1
    BY <2>1, FS_Interval
  <2>3. b..e \subseteq 0..N-1
    BY <1>1
  <2>4. QED
    BY <2>1, <2>2, <2>3 DEF Span, Position
<1>3. IsFiniteSet(v) /\ Cardinality(v) \in Nat
  <2>1. IsFiniteSet(Position)
    BY <1>1, FS_Interval DEF Position
  <2>2. IsFiniteSet(v)
    BY <2>1, FS_Subset
  <2>3. QED
    BY <2>2, FS_CardinalityType
<1>4. Cardinality(v \cup Span(p[1], p[2])) = Cardinality(v) + Cardinality(Span(p[1], p[2])) - Cardinality({})
  BY <1>2, <1>3, FS_Union
<1>5. Cardinality({}) = 0
  BY FS_EmptySet
<1>6. QED
  BY <1>1, <1>2, <1>3, <1>4, <1>5

\* A container takes nodes that extend those of smaller cardinalities.
LEMMA HolderStep ==
    ASSUME NEW n \in 1..N, NEW h, Sane(h, n), NEW c, Clean(c), Filled(c),
           \A v \in c.keys : Cardinality(v) = n,
           \A s \in H!Stored(c) : s \in H!Stored(h[n]) \/ Linked(h, n, s)
    PROVE  Sane([h EXCEPT ![n] = c], n)
<1> DEFINE g == [h EXCEPT ![n] = c]
<1>1. N \in Nat \ {0} /\ n \in Nat /\ 1 <= n /\ n <= N
  BY SentenceAssumption
<1>2. DOMAIN g = 0..N /\ g[n] = c /\ \A k \in 0..N : k # n => g[k] = h[k]
  BY <1>1 DEF Sane
<1> HIDE DEF g
<1>3. g[0] = RootContainer
  BY <1>1, <1>2 DEF Sane
<1>4. ASSUME NEW k \in 0..N
      PROVE  /\ Clean(g[k]) /\ Filled(g[k])
             /\ \A v \in g[k].keys : Cardinality(v) = k
             /\ k # n => NoneEmpty(g[k])
             /\ k > n => g[k] = H!EmptyContainer
  <2>1. CASE k = n
    BY <1>1, <1>2, <2>1
  <2>2. CASE k # n
    BY <1>2, <2>2 DEF Sane
  <2>3. QED
    BY <2>1, <2>2
<1>5. ASSUME NEW k \in 1..N, NEW s \in H!Stored(g[k]) PROVE Linked(g, k, s)
  <2>1. Linked(h, k, s)
    <3>1. CASE k = n
      <4>1. s \in H!Stored(h[n]) \/ Linked(h, n, s)
        BY <1>2, <3>1
      <4>2. QED
        BY <3>1, <4>1 DEF Sane
    <3>2. CASE k # n
      <4>1. s \in H!Stored(h[k])
        BY <1>1, <1>2, <3>2
      <4>2. QED
        BY <4>1 DEF Sane
    <3>3. QED
      BY <3>1, <3>2
  <2>2. PICK j \in 0..k-1 : /\ Cardinality(s[2].prev.coverage) = j
                            /\ <<s[2].prev.coverage, s[2].prev>> \in H!Stored(h[j])
    BY <2>1 DEF Linked
  <2>3. CASE j # n
    <3>1. g[j] = h[j]
      BY <1>1, <1>2, <2>3
    <3>2. QED
      BY <2>1, <2>2, <3>1 DEF Linked
  <2>4. CASE j = n
    <3>1. k > n /\ k \in 0..N
      BY <1>1, <2>4
    <3>2. g[k] = H!EmptyContainer
      BY <1>4, <3>1
    <3>3. QED
      BY <3>2, EmptyIsClean
  <2>5. QED
    BY <2>3, <2>4
<1>6. QED
  BY <1>2, <1>3, <1>4, <1>5 DEF Sane, g

-----------------------------------------------------------------------------
(* The loops.                                                                 *)

LoopsInv ==
    /\ candidates \in CandidateTables
    /\ NewCardinality \in 1..N /\ PrevCardinality \in 0..NewCardinality-1
    /\ todo \subseteq holder[PrevCardinality].keys
    /\ PrevCoverage \subseteq Position
    /\ NewPhraseBeginPos \in 0..N
    /\ pc \in {"coverages", "positions", "nodes", "goal", "done"}
    /\ pc \in {"positions", "nodes"} => PrevCoverage \in holder[PrevCardinality].keys
    /\ pc # "nodes" => NoneEmpty(curr)

\* The phrase at hand fits, its coverage is selected, and the nodes are those of the
\* coverage it extends.
PhraseInv ==
    pc = "nodes" =>
        /\ NewPhraseBeginPos <= N - NewPhraseCardinality
        /\ phraseSpan \cap PrevCoverage = {}
        /\ curr.selected = PrevCoverage \cup phraseSpan /\ curr.selected \in curr.keys
        /\ nodes \subseteq holder[PrevCardinality].lex[PrevCoverage].nodes

SearchInv == LoopsInv /\ Sane(holder, NewCardinality) /\ PhraseInv

LEMMA InitIsSearch == Init => SearchInv
<1> SUFFICES ASSUME Init PROVE SearchInv
  OBVIOUS
<1>1. N \in Nat \ {0} /\ 0 \in 0..N /\ 1 \in 1..N /\ 1 \in 0..N /\ 0 # 1
  BY SentenceAssumption
<1>2. /\ DOMAIN holder = 0..N /\ holder[0] = RootContainer
      /\ \A k \in 1..N : holder[k] = H!EmptyContainer
  BY <1>1 DEF Init
<1>3. NewCardinality = 1 /\ PrevCardinality = 0 /\ pc = "coverages"
  BY DEF Init
<1>4. H!EmptyContainer.keys = {} /\ NoneEmpty(H!EmptyContainer)
  BY DEF H!EmptyContainer, NoneEmpty
<1>5. Cardinality({}) = 0
  BY FS_EmptySet
<1>6. ASSUME NEW k \in 0..N
      PROVE  /\ Clean(holder[k]) /\ Filled(holder[k])
             /\ \A v \in holder[k].keys : Cardinality(v) = k
             /\ NoneEmpty(holder[k])
             /\ k > 1 => holder[k] = H!EmptyContainer
  <2>1. CASE k = 0
    <3>1. holder[k] = RootContainer /\ ~(k > 1)
      BY <1>2, <2>1
    <3>2. \A v \in RootContainer.keys : Cardinality(v) = k
      BY <1>5, <2>1, RootIs
    <3>3. QED
      BY <3>1, <3>2, RootIs
  <2>2. CASE k # 0
    <3>1. holder[k] = H!EmptyContainer
      BY <1>1, <1>2, <2>2
    <3>2. QED
      BY <1>4, <3>1, EmptyIsClean
  <2>3. QED
    BY <2>1, <2>2
<1>7. Sane(holder, NewCardinality)
  BY <1>2, <1>3, <1>6, EmptyIsClean DEF Sane
<1>8. LoopsInv
  <2>1. /\ candidates \in CandidateTables /\ todo = {{}} /\ PrevCoverage = {} /\ NewPhraseBeginPos = 0
    BY DEF Init
  <2>2. todo \subseteq holder[PrevCardinality].keys
    BY <1>2, <1>3, <2>1, RootIs
  <2>3. NoneEmpty(curr)
    BY <1>1, <1>3, <1>6 DEF curr
  <2>4. QED
    BY <1>1, <1>3, <2>1, <2>2, <2>3 DEF LoopsInv
<1>9. QED
  BY <1>3, <1>7, <1>8 DEF SearchInv, PhraseInv

-----------------------------------------------------------------------------
(* What the invariant says of the phrase at hand.                             *)

LEMMA LoopFacts ==
    ASSUME SearchInv
    PROVE  /\ N \in Nat \ {0} /\ NewCardinality \in 1..N /\ NewCardinality \in 0..N
           /\ PrevCardinality \in 0..N /\ PrevCardinality < NewCardinality
           /\ PrevCardinality \in Nat /\ NewCardinality \in Nat
           /\ NewPhraseCardinality \in 1..N /\ NewPhraseCardinality + PrevCardinality = NewCardinality
           /\ Clean(curr) /\ Filled(curr)
           /\ \A v \in curr.keys : Cardinality(v) = NewCardinality
           /\ Clean(holder[PrevCardinality]) /\ NoneEmpty(holder[PrevCardinality])
           /\ \A v \in holder[PrevCardinality].keys : Cardinality(v) = PrevCardinality
<1>1. /\ N \in Nat \ {0} /\ NewCardinality \in 1..N /\ NewCardinality \in 0..N
      /\ PrevCardinality \in 0..N /\ PrevCardinality < NewCardinality
      /\ PrevCardinality \in Nat /\ NewCardinality \in Nat
      /\ NewPhraseCardinality \in 1..N /\ NewPhraseCardinality + PrevCardinality = NewCardinality
      /\ PrevCardinality # NewCardinality
  BY SentenceAssumption DEF SearchInv, LoopsInv, NewPhraseCardinality
<1>2. QED
  BY <1>1 DEF SearchInv, Sane, curr

LEMMA PhraseFacts ==
    ASSUME SearchInv, NewPhraseBeginPos <= N - NewPhraseCardinality
    PROVE  /\ phrase \in Phrase /\ phrase[1] = NewPhraseBeginPos /\ phrase[2] = NewPhraseCardinality
           /\ phraseSpan = Span(phrase[1], phrase[2])
           /\ \E n \in Nat : n = Len(candidates[phrase]) /\ DOMAIN candidates[phrase] = 1..n
           /\ \A i \in DOMAIN candidates[phrase] : candidates[phrase][i] \in [cost : Nat, state : RuleState]
<1>1. NewPhraseBeginPos \in 0..N
  BY DEF SearchInv, LoopsInv
<1>2. phrase \in Phrase /\ phrase[1] = NewPhraseBeginPos /\ phrase[2] = NewPhraseCardinality
  BY <1>1, LoopFacts DEF phrase, Phrase, Position
<1>3. candidates[phrase] \in Seq([cost : Nat, state : RuleState])
  BY <1>2, TableAssumption DEF SearchInv, LoopsInv
<1>4. phraseSpan = Span(phrase[1], phrase[2])
  BY <1>2 DEF phraseSpan
<1>5. ASSUME NEW R, NEW q \in Seq(R)
      PROVE  Len(q) \in Nat /\ DOMAIN q = 1..Len(q) /\ \A i \in DOMAIN q : q[i] \in R
  OBVIOUS
<1>6. /\ Len(candidates[phrase]) \in Nat /\ DOMAIN candidates[phrase] = 1..Len(candidates[phrase])
      /\ \A i \in DOMAIN candidates[phrase] : candidates[phrase][i] \in [cost : Nat, state : RuleState]
  BY <1>3, <1>5
<1>7. QED
  BY <1>2, <1>4, <1>6

\* The new coverage has the new cardinality.
LEMMA NewCoverageIs ==
    ASSUME SearchInv, NewPhraseBeginPos <= N - NewPhraseCardinality, phraseSpan \cap PrevCoverage = {},
           PrevCoverage \in holder[PrevCardinality].keys
    PROVE  /\ PrevCoverage \cup phraseSpan \in SUBSET Position
           /\ Cardinality(PrevCoverage \cup phraseSpan) = NewCardinality
<1>1. PrevCoverage \in SUBSET Position /\ Cardinality(PrevCoverage) = PrevCardinality
  BY LoopFacts DEF SearchInv, LoopsInv
<1>2. QED
  BY <1>1, LoopFacts, PhraseFacts, SpanIs

LEMMA CoverageOfNode ==
    ASSUME SearchInv, NEW k \in 0..N, NEW s \in H!Stored(holder[k])
    PROVE  s[2].coverage = s[1] /\ s[1] \in SUBSET Position /\ Cardinality(s[1]) = k
<1>1. s[1] \in holder[k].keys /\ Clean(holder[k]) /\ Cardinality(s[1]) = k
  BY StoredIs DEF SearchInv, Sane
<1>2. CASE k = 0
  <2>1. s = <<{}, RootNode>>
    BY <1>2, RootIs DEF SearchInv, Sane
  <2>2. s[1] = {} /\ s[2] = RootNode
    BY <2>1
  <2>3. QED
    BY <1>1, <2>2, RootIs DEF Clean
<1>3. CASE k # 0
  <2>1. k \in 1..N
    BY <1>3, SentenceAssumption
  <2>2. QED
    BY <1>1, <2>1 DEF SearchInv, Sane, Linked, Clean
<1>4. QED
  BY <1>2, <1>3

-----------------------------------------------------------------------------
(* The steps.                                                                 *)

LEMMA VisitCoverageStep ==
    ASSUME SearchInv, NEW coverage \in SUBSET Position, VisitCoverage(coverage)
    PROVE  SearchInv'
<1>1. UNCHANGED <<candidates, holder, NewCardinality, PrevCardinality>>
  BY DEF VisitCoverage
<1>2. LoopsInv'
  BY <1>1, LoopFacts DEF SearchInv, LoopsInv, VisitCoverage, curr
<1>3. QED
  BY <1>1, <1>2 DEF SearchInv, PhraseInv, VisitCoverage

LEMMA NextPrevCardinalityStep ==
    ASSUME SearchInv, NextPrevCardinality
    PROVE  SearchInv'
<1>1. UNCHANGED <<candidates, holder, NewCardinality, PrevCoverage, NewPhraseBeginPos, pc>>
  BY DEF NextPrevCardinality
<1>2. PrevCardinality' \in 0..NewCardinality-1 /\ todo' = holder[PrevCardinality'].keys /\ pc = "coverages"
  BY LoopFacts DEF NextPrevCardinality
<1>3. LoopsInv'
  BY <1>1, <1>2 DEF SearchInv, LoopsInv, curr
<1>4. QED
  BY <1>1, <1>2, <1>3 DEF SearchInv, PhraseInv

LEMMA PositionsStep ==
    ASSUME SearchInv, SkipPosition \/ EndCoverage
    PROVE  SearchInv'
<1>1. UNCHANGED <<candidates, holder, NewCardinality, PrevCardinality, todo, PrevCoverage>>
  BY DEF SkipPosition, EndCoverage
<1>2. /\ NewPhraseBeginPos' \in 0..N /\ pc = "positions" /\ pc' \in {"positions", "coverages"}
  BY LoopFacts DEF SkipPosition, EndCoverage, SearchInv, LoopsInv
<1>3. LoopsInv'
  BY <1>1, <1>2 DEF SearchInv, LoopsInv, curr
<1>4. QED
  BY <1>1, <1>2, <1>3 DEF SearchInv, PhraseInv

LEMMA SelectPhraseStep ==
    ASSUME SearchInv, SelectPhrase
    PROVE  SearchInv'
<1> DEFINE coverage == PrevCoverage \cup phraseSpan
           c == H!Select(curr, coverage)
<1>1. /\ UNCHANGED <<candidates, NewCardinality, PrevCardinality, todo, PrevCoverage, NewPhraseBeginPos>>
      /\ pc = "positions" /\ pc' = "nodes" /\ NewPhraseBeginPos <= N - NewPhraseCardinality
      /\ phraseSpan \cap PrevCoverage = {}
      /\ nodes' = holder[PrevCardinality].lex[PrevCoverage].nodes
      /\ holder' = [holder EXCEPT ![NewCardinality] = c]
  BY DEF SelectPhrase, Fits, curr
<1>2. PrevCoverage \in holder[PrevCardinality].keys /\ NoneEmpty(curr)
  BY <1>1 DEF SearchInv, LoopsInv
<1>3. coverage \in SUBSET Position /\ Cardinality(coverage) = NewCardinality
  BY <1>1, <1>2, NewCoverageIs
<1> HIDE DEF coverage
<1>4. /\ Clean(c) /\ Filled(c) /\ H!Stored(c) = H!Stored(curr)
      /\ c.selected = coverage /\ c.keys = curr.keys \cup {coverage}
  BY <1>2, <1>3, LoopFacts, SelectIs DEF NoneEmpty
<1> HIDE DEF c
<1>5. \A v \in c.keys : Cardinality(v) = NewCardinality
  BY <1>3, <1>4, LoopFacts
<1>6. Sane(holder, NewCardinality)'
  <2>1. Sane([holder EXCEPT ![NewCardinality] = c], NewCardinality)
    BY <1>4, <1>5, LoopFacts, HolderStep DEF SearchInv, curr
  <2>2. QED
    BY <1>1, <2>1
<1>7. holder'[NewCardinality] = c /\ holder'[PrevCardinality] = holder[PrevCardinality]
  BY <1>1, LoopFacts DEF SearchInv, Sane
<1>8. LoopsInv'
  BY <1>1, <1>2, <1>7 DEF SearchInv, LoopsInv
<1>9. PhraseInv'
  BY <1>1, <1>4, <1>7 DEF PhraseInv, curr, phraseSpan, NewPhraseCardinality, coverage
<1>10. QED
  BY <1>6, <1>8, <1>9 DEF SearchInv

\* A node that is new in the selected coverage extends the node at hand.
LEMMA NewNodeIsLinked ==
    ASSUME SearchInv, pc = "nodes", NEW node \in nodes, Conforms(node, phrase[1], phrase[2]),
           NEW rule
    PROVE  Linked(holder, NewCardinality, <<curr.selected, NewNode(node, phrase[1], phrase[2], rule)>>)
<1> DEFINE new == NewNode(node, phrase[1], phrase[2], rule)
<1>1. /\ NewPhraseBeginPos <= N - NewPhraseCardinality /\ phraseSpan \cap PrevCoverage = {}
      /\ curr.selected = PrevCoverage \cup phraseSpan
      /\ node \in holder[PrevCardinality].lex[PrevCoverage].nodes
      /\ PrevCoverage \in holder[PrevCardinality].keys
  BY DEF SearchInv, PhraseInv, LoopsInv
<1>2. phrase \in Phrase /\ phraseSpan = Span(phrase[1], phrase[2])
  BY <1>1, PhraseFacts
<1>3. <<PrevCoverage, node>> \in H!Stored(holder[PrevCardinality])
  BY <1>1, StoredIs
<1>4. node.coverage = PrevCoverage /\ Cardinality(PrevCoverage) = PrevCardinality
  <2> DEFINE s == <<PrevCoverage, node>>
  <2>1. s[2].coverage = s[1] /\ Cardinality(s[1]) = PrevCardinality
    BY <1>3, LoopFacts, CoverageOfNode
  <2>2. QED
    BY <2>1
<1>5. /\ new.prev = node /\ new.coverage = node.coverage \cup Span(phrase[1], phrase[2])
      /\ new.begin = phrase[1] % 2^PositionBits
      /\ new.end = (phrase[1] + phrase[2]) % 2^PositionBits
  BY DEF NewNode
<1> HIDE DEF new
<1>6. new.coverage = curr.selected
  BY <1>1, <1>2, <1>4, <1>5
<1>7. Extends(new, node)
  BY <1>1, <1>2, <1>4, <1>5 DEF Extends
<1>8. PrevCardinality \in 0..NewCardinality-1
  BY LoopFacts
<1>9. Linked(holder, NewCardinality, <<curr.selected, new>>)
  BY <1>3, <1>4, <1>5, <1>6, <1>7, <1>8 DEF Linked
<1>10. QED
  BY <1>9 DEF new

LEMMA ExtendNodeStep ==
    ASSUME SearchInv, NEW node \in nodes, ExtendNode(node)
    PROVE  SearchInv'
<1>1. /\ UNCHANGED <<candidates, NewCardinality, PrevCardinality, todo, PrevCoverage, NewPhraseBeginPos, pc>>
      /\ pc = "nodes" /\ nodes' \subseteq nodes
      /\ \/ UNCHANGED holder
         \/ /\ Conforms(node, phrase[1], phrase[2])
            /\ \E c \in Offered(node) : holder' = [holder EXCEPT ![NewCardinality] = c]
  BY DEF ExtendNode
<1>2. CASE UNCHANGED holder
  BY <1>1, <1>2 DEF SearchInv, LoopsInv, PhraseInv, curr, phraseSpan, NewPhraseCardinality
<1>3. ASSUME Conforms(node, phrase[1], phrase[2]),
             NEW c \in Offered(node), holder' = [holder EXCEPT ![NewCardinality] = c]
      PROVE  SearchInv'
  <2>1. /\ NewPhraseBeginPos <= N - NewPhraseCardinality
        /\ curr.selected \in curr.keys
    BY <1>1 DEF SearchInv, PhraseInv
  <2>2. OfferedTo(node, curr)
    BY <2>1, LoopFacts DEF OfferedTo
  <2>3. PICK n \in Nat : n = Len(candidates[phrase]) /\ DOMAIN candidates[phrase] = 1..n
    BY <2>1, PhraseFacts
  <2>4. OfferedTo(node, c)
    BY <2>2, <2>3, OfferedIs
  <2>5. /\ Clean(c) /\ Filled(c) /\ c.selected = curr.selected /\ c.selected \in c.keys
        /\ \A v \in c.keys : Cardinality(v) = NewCardinality
    BY <2>4, LoopFacts DEF OfferedTo
  <2>6. ASSUME NEW s \in H!Stored(c)
        PROVE  s \in H!Stored(curr) \/ Linked(holder, NewCardinality, s)
    BY <1>1, <1>3, <2>4, NewNodeIsLinked DEF OfferedTo
  <2>7. Sane(holder, NewCardinality)'
    <3>1. Sane([holder EXCEPT ![NewCardinality] = c], NewCardinality)
      BY <2>5, <2>6, LoopFacts, HolderStep DEF SearchInv, curr
    <3>2. QED
      BY <1>1, <1>3, <3>1
  <2>8. holder'[NewCardinality] = c /\ holder'[PrevCardinality] = holder[PrevCardinality]
    BY <1>3, LoopFacts DEF SearchInv, Sane
  <2>9. LoopsInv'
    BY <1>1, <2>8 DEF SearchInv, LoopsInv
  <2>10. PhraseInv'
    BY <1>1, <2>5, <2>8 DEF SearchInv, PhraseInv, curr, phraseSpan, NewPhraseCardinality
  <2>11. QED
    BY <2>7, <2>9, <2>10 DEF SearchInv
<1>4. QED
  BY <1>1, <1>2, <1>3

LEMMA EndPhraseStep ==
    ASSUME SearchInv, EndPhrase
    PROVE  SearchInv'
<1> DEFINE c == H!Deselect(curr)
<1>1. /\ UNCHANGED <<candidates, NewCardinality, PrevCardinality, todo, PrevCoverage, nodes>>
      /\ pc = "nodes" /\ pc' = "positions" /\ NewPhraseBeginPos' = NewPhraseBeginPos + 1
      /\ holder' = [holder EXCEPT ![NewCardinality] = c]
  BY DEF EndPhrase, curr
<1>2. curr.selected \in curr.keys /\ NewPhraseBeginPos + 1 \in 0..N
  BY <1>1, LoopFacts DEF SearchInv, PhraseInv, LoopsInv
<1>3. /\ Clean(c) /\ H!Stored(c) = H!Stored(curr) /\ c.keys \subseteq curr.keys
      /\ NoneEmpty(c)
  BY <1>2, LoopFacts, DeselectIs DEF NoneEmpty
<1> HIDE DEF c
<1>4. Filled(c) /\ \A v \in c.keys : Cardinality(v) = NewCardinality
  BY <1>3, LoopFacts DEF Filled, NoneEmpty
<1>5. Sane(holder, NewCardinality)'
  <2>1. Sane([holder EXCEPT ![NewCardinality] = c], NewCardinality)
    BY <1>3, <1>4, LoopFacts, HolderStep DEF SearchInv, curr
  <2>2. QED
    BY <1>1, <2>1
<1>6. holder'[NewCardinality] = c /\ holder'[PrevCardinality] = holder[PrevCardinality]
  BY <1>1, LoopFacts DEF SearchInv, Sane
<1>7. LoopsInv'
  BY <1>1, <1>2, <1>3, <1>6 DEF SearchInv, LoopsInv, curr
<1>8. QED
  BY <1>1, <1>5, <1>7 DEF SearchInv, PhraseInv

LEMMA EndCardinalityStep ==
    ASSUME SearchInv, EndCardinality
    PROVE  SearchInv'
<1>1. PICK c \in H!prune(curr) : holder' = [holder EXCEPT ![NewCardinality] = c]
  BY DEF EndCardinality, Finalized
<1>2. /\ UNCHANGED <<candidates, PrevCoverage, NewPhraseBeginPos>> /\ pc = "coverages"
      /\ PrevCardinality + 1 = NewCardinality
  BY DEF EndCardinality
<1>3. NoneEmpty(curr)
  BY <1>2 DEF SearchInv, LoopsInv
<1>4. Clean(c) /\ H!Stored(c) \subseteq H!Stored(curr) /\ c.keys \subseteq curr.keys /\ NoneEmpty(c)
  BY <1>3, LoopFacts, PruneIs DEF NoneEmpty, Less
<1>5. Filled(c) /\ \A v \in c.keys : Cardinality(v) = NewCardinality
  BY <1>4, LoopFacts DEF Filled, NoneEmpty
<1>6. Sane(holder', NewCardinality)
  BY <1>1, <1>4, <1>5, LoopFacts, HolderStep DEF SearchInv, curr
<1>7. holder'[NewCardinality] = c
  BY <1>1, LoopFacts DEF SearchInv, Sane
<1>8. CASE NewCardinality < N
  <2>1. /\ NewCardinality' = NewCardinality + 1 /\ pc' = "coverages"
        /\ PrevCardinality' = H!MaxOf(NewCardinality + 1 - MaxMatchingSourcePhraseCardinality, 0)
        /\ todo' = holder'[PrevCardinality'].keys
    BY <1>2, <1>8 DEF EndCardinality
  <2>2. MaxMatchingSourcePhraseCardinality \in 1..N
    <3> DEFINE S == {1} \cup {p[2] : p \in {q \in Phrase : candidates[q] # <<>>}}
    <3>1. S \in SUBSET (0..N) /\ 1 \in S /\ N \in Nat
      BY LoopFacts DEF Phrase
    <3> HIDE DEF S
    <3>2. Max(S) \in S /\ 1 <= Max(S)
      BY <3>1, MaxIs
    <3>3. Max(S) \in 1..N
      <4>1. Max(S) \in 0..N
        BY <3>1, <3>2
      <4>2. QED
        BY <3>1, <3>2, <4>1
    <3>4. QED
      BY <3>3 DEF MaxMatchingSourcePhraseCardinality, S
  <2>3. PrevCardinality' \in 0..NewCardinality /\ NewCardinality + 1 \in 1..N
    BY <1>8, <2>1, <2>2, LoopFacts DEF H!MaxOf
  <2>4. Sane(holder', NewCardinality + 1) /\ holder'[NewCardinality + 1] = H!EmptyContainer
    BY <1>4, <1>6, <1>7, <2>3, LoopFacts DEF Sane
  <2>5. NoneEmpty(holder'[NewCardinality + 1])
    BY <2>4 DEF NoneEmpty, H!EmptyContainer
  <2>6. LoopsInv'
    BY <1>2, <2>1, <2>3, <2>5, LoopFacts DEF SearchInv, LoopsInv, curr
  <2>7. QED
    BY <2>1, <2>4, <2>6 DEF SearchInv, PhraseInv
<1>9. CASE ~(NewCardinality < N)
  <2>1. UNCHANGED <<NewCardinality, PrevCardinality, todo>> /\ pc' = "goal"
    BY <1>9 DEF EndCardinality
  <2>2. holder'[PrevCardinality] = holder[PrevCardinality]
    BY <1>1, LoopFacts DEF SearchInv, Sane
  <2>3. LoopsInv'
    BY <1>2, <1>4, <1>7, <2>1, <2>2, LoopFacts DEF SearchInv, LoopsInv, curr
  <2>4. QED
    BY <1>6, <2>1, <2>3 DEF SearchInv, PhraseInv
<1>10. QED
  BY <1>8, <1>9

LEMMA FindGoalStep ==
    ASSUME SearchInv, FindGoal
    PROVE  SearchInv'
<1>1. /\ UNCHANGED <<candidates, holder, NewCardinality, PrevCardinality, todo, PrevCoverage, NewPhraseBeginPos>>
      /\ pc = "goal" /\ pc' = "done"
  BY DEF FindGoal
<1>2. LoopsInv'
  BY <1>1 DEF SearchInv, LoopsInv, curr
<1>3. QED
  BY <1>1, <1>2 DEF SearchInv, PhraseInv

LEMMA SearchIsInvariant == Spec => []SearchInv
<1>1. Init => SearchInv
  BY InitIsSearch
<1>2. SearchInv /\ [Next]_vars => SearchInv'
  <2> SUFFICES ASSUME SearchInv, [Next]_vars PROVE SearchInv'
    OBVIOUS
  <2>1. ASSUME NEW coverage \in SUBSET Position, VisitCoverage(coverage) PROVE SearchInv'
    BY <2>1, VisitCoverageStep
  <2>2. CASE NextPrevCardinality
    BY <2>2, NextPrevCardinalityStep
  <2>3. CASE SkipPosition \/ EndCoverage
    BY <2>3, PositionsStep
  <2>4. CASE SelectPhrase
    BY <2>4, SelectPhraseStep
  <2>5. ASSUME NEW node \in nodes, ExtendNode(node) PROVE SearchInv'
    BY <2>5, ExtendNodeStep
  <2>6. CASE EndPhrase
    BY <2>6, EndPhraseStep
  <2>7. CASE EndCardinality
    BY <2>7, EndCardinalityStep
  <2>8. CASE FindGoal
    BY <2>8, FindGoalStep
  <2>9. CASE UNCHANGED vars
    BY <2>9 DEF SearchInv, LoopsInv, PhraseInv, curr, phraseSpan, NewPhraseCardinality, vars
  <2>10. QED
    BY <2>1, <2>2, <2>3, <2>4, <2>5, <2>6, <2>7, <2>8, <2>9 DEF Next
<1>3. QED
  BY <1>1, <1>2, PTL DEF Spec

-----------------------------------------------------------------------------
(* The types, the partition of the sentence, and the back pointers.           *)

LEMMA Remainders ==
    /\ 2^PositionBits \in Nat \ {0}
    /\ \A i \in Nat : i % 2^PositionBits \in 0..2^PositionBits-1
    /\ \A i \in Nat : i < 2^PositionBits => i % 2^PositionBits = i
<1> DEFINE m == 2^PositionBits
<1>1. m \in Nat \ {0}
  BY SentenceAssumption
<1> HIDE DEF m
<1>2. \A i \in Nat : i % m \in 0..m-1 /\ (i < m => i % m = i)
  BY <1>1
<1>3. QED
  BY <1>1, <1>2 DEF m

LEMMA PhraseIs ==
    ASSUME NEW p \in Phrase
    PROVE  /\ p[1] \in Nat /\ p[2] \in Nat \ {0} /\ p[1] + p[2] <= N /\ p[1] + p[2] \in Nat
           /\ p[1] < N /\ N \in Nat
BY SentenceAssumption DEF Phrase, Position

\* The loop variables of decode keep to their ranges and the containers hold hypotheses
\* of the sentence, whatever its length and rules.
THEOREM SearchGraphTypes == Spec => []TypeOK
<1>1. SearchInv => TypeOK
  <2> SUFFICES ASSUME SearchInv PROVE TypeOK
    OBVIOUS
  <2>1. todo \subseteq SUBSET Position
    BY LoopFacts DEF SearchInv, LoopsInv, Clean
  <2>2. ASSUME NEW k \in 0..N, NEW s \in H!Stored(holder[k])
        PROVE  s[1] \subseteq Position /\ s[2].begin \in 0..2^PositionBits-1 /\ s[2].end \in 0..2^PositionBits-1
    <3>1. s[1] \subseteq Position
      BY CoverageOfNode
    <3>2. CASE k = 0
      <4>1. s = <<{}, RootNode>>
        BY <3>2, RootIs DEF SearchInv, Sane
      <4>2. QED
        BY <3>1, <4>1, Remainders, RootIs
    <3>3. CASE k # 0
      <4>1. k \in 1..N
        BY <3>3, LoopFacts
      <4>2. Extends(s[2], s[2].prev)
        BY <4>1 DEF SearchInv, Sane, Linked
      <4>3. PICK p \in Phrase : s[2].begin = p[1] % 2^PositionBits /\ s[2].end = (p[1] + p[2]) % 2^PositionBits
        BY <4>2 DEF Extends
      <4>4. QED
        BY <3>1, <4>3, Remainders, PhraseIs
    <3>4. QED
      BY <3>2, <3>3
  <2>3. QED
    BY <2>1, <2>2 DEF SearchInv, LoopsInv, TypeOK
<1>2. QED
  BY <1>1, SearchIsInvariant, PTL

\* The node that a hypothesis extends stays where it is for the whole search, in a
\* coverage of fewer words.
THEOREM BackPointersStay == Spec => []PrevNodeStays
<1>1. SearchInv => PrevNodeStays
  BY DEF SearchInv, Sane, Linked, PrevNodeStays
<1>2. QED
  BY <1>1, SearchIsInvariant, PTL

\* Each hypothesis of a sentence whose positions fit a node translates each word of its
\* coverage exactly once.
THEOREM EachWordOnce ==
    ASSUME N < 2^PositionBits
    PROVE  Spec => []CoverageIsPartition
<1>1. SearchInv => CoverageIsPartition
  <2> SUFFICES ASSUME SearchInv, NEW k \in 0..N, NEW s \in H!Stored(holder[k])
               PROVE  /\ s[2].coverage = s[1] /\ Cardinality(s[1]) = k
                      /\ k > 0 => /\ s[2].prev.coverage \cap (s[2].begin .. s[2].end-1) = {}
                                  /\ s[2].coverage = s[2].prev.coverage \cup (s[2].begin .. s[2].end-1)
    BY DEF CoverageIsPartition
  <2>1. s[2].coverage = s[1] /\ Cardinality(s[1]) = k
    BY CoverageOfNode
  <2>2. ASSUME k > 0
        PROVE  /\ s[2].prev.coverage \cap (s[2].begin .. s[2].end-1) = {}
               /\ s[2].coverage = s[2].prev.coverage \cup (s[2].begin .. s[2].end-1)
    <3>1. k \in 1..N
      BY <2>2, LoopFacts
    <3>2. PICK p \in Phrase : /\ s[2].prev.coverage \cap Span(p[1], p[2]) = {}
                              /\ s[2].coverage = s[2].prev.coverage \cup Span(p[1], p[2])
                              /\ s[2].begin = p[1] % 2^PositionBits
                              /\ s[2].end = (p[1] + p[2]) % 2^PositionBits
      BY <3>1 DEF SearchInv, Sane, Linked, Extends
    <3>3. p[1] < 2^PositionBits /\ p[1] + p[2] < 2^PositionBits
      BY PhraseIs, Remainders
    <3>4. s[2].begin = p[1] /\ s[2].end = p[1] + p[2]
      BY <3>2, <3>3, PhraseIs, Remainders
    <3>5. Span(p[1], p[2]) = s[2].begin .. s[2].end-1
      BY <3>4, PhraseIs DEF Span
    <3>6. QED
      BY <3>2, <3>5
  <2>3. QED
    BY <2>1, <2>2
<1>2. QED
  BY <1>1, SearchIsInvariant, PTL

-----------------------------------------------------------------------------
(* The jump limits.  The translated words and the end of the last phrase are  *)
(* never further than the limit from the first untranslated word.             *)

Near(node) ==
    LET first == FirstEmptyPosition(node.coverage)
    IN  /\ node.coverage \subseteq 0 .. first + HardReorderingJumpLimit - 1
        /\ node.end \in Nat /\ node.begin \in Nat
        /\ Abs(node.end - first) <= HardReorderingJumpLimit
        /\ node.begin = node.end => node.coverage = {} /\ node.end = 0

LEMMA FirstEmptyIs ==
    ASSUME NEW v \in SUBSET Position
    PROVE  LET first == FirstEmptyPosition(v)
           IN  /\ first \in 0..N /\ first \notin v
               /\ \A i \in Nat : i < first => i \in v
               /\ v # Position => first \in Position
<1> DEFINE first == FirstEmptyPosition(v)
           empty == (0..N) \ v
<1>1. N \in Nat \ {0}
  BY SentenceAssumption
<1>2. empty \in SUBSET Nat /\ N \in empty
  BY <1>1 DEF Position
<1>3. first \in empty /\ \A k \in empty : first <= k
  <2> HIDE DEF empty
  <2>1. Min(empty) \in empty /\ \A k \in empty : Min(empty) <= k
    BY <1>2, MinIs
  <2>2. QED
    BY <2>1 DEF FirstEmptyPosition, empty
<1> HIDE DEF first
<1>4. first \in 0..N /\ first \notin v
  BY <1>3
<1>5. ASSUME NEW i \in Nat, i < first PROVE i \in v
  <2>1. i \in 0..N
    BY <1>1, <1>4, <1>5
  <2>2. i \in empty => first <= i
    BY <1>3
  <2>3. QED
    BY <1>4, <1>5, <2>1, <2>2
<1>6. ASSUME v # Position PROVE first \in Position
  <2>1. PICK i \in Position : i \notin v
    BY <1>6
  <2>2. i \in empty
    BY <1>1, <2>1 DEF Position
  <2>3. first <= i
    BY <1>3, <2>2
  <2>4. QED
    BY <1>1, <1>4, <2>1, <2>3 DEF Position
<1>7. QED
  BY <1>4, <1>5, <1>6 DEF first

LEMMA ConformsIs ==
    ASSUME NEW node, NEW b \in Nat, NEW l \in Nat
    PROVE  Conforms(node, b, l) <=>
             \/ node.begin = node.end /\ b + l <= HardReorderingJumpLimit
             \/ /\ node.begin # node.end
                /\ Abs(node.end - b) <= HardReorderingJumpLimit
                /\ Abs((b + l) - FirstEmptyPosition(node.coverage)) <= HardReorderingJumpLimit
<1> DEFINE e == b + l
<1>1. e \in Nat
  OBVIOUS
<1> HIDE DEF e
<1>2. CASE node.begin = node.end
  BY <1>1, <1>2 DEF conformsHardReorderingJumpLimit, Conforms, e
<1>3. CASE node.begin # node.end
  BY <1>1, <1>3 DEF conformsHardReorderingJumpLimit, Conforms, e
<1>4. QED
  BY <1>2, <1>3

LEMMA ExtensionIsNear ==
    ASSUME N < 2^PositionBits, NEW prev, prev.coverage \in SUBSET Position, Near(prev),
           NEW node, Extends(node, prev)
    PROVE  Near(node)
<1> DEFINE v == prev.coverage  first == FirstEmptyPosition(v)  L == HardReorderingJumpLimit
           next == FirstEmptyPosition(node.coverage)
<1>1. PICK p \in Phrase :
          /\ v \cap Span(p[1], p[2]) = {}
          /\ node.coverage = v \cup Span(p[1], p[2])
          /\ node.begin = p[1] % 2^PositionBits
          /\ node.end = (p[1] + p[2]) % 2^PositionBits
          /\ Conforms(prev, p[1], p[2])
  BY DEF Extends
<1> DEFINE b == p[1]  e == p[1] + p[2]
<1>2. b \in Nat /\ e \in Nat /\ b < e /\ e <= N /\ L \in Nat /\ N \in Nat
  BY PhraseIs, SentenceAssumption
<1>3. node.begin = b /\ node.end = e
  BY <1>1, <1>2, Remainders
<1>4. node.coverage \in SUBSET Position
  BY <1>1, SpanIs
<1>5. /\ first \in 0..N /\ first \notin v /\ \A i \in Nat : i < first => i \in v
      /\ next \in 0..N /\ next \notin node.coverage /\ \A i \in Nat : i < next => i \in node.coverage
  BY <1>4, FirstEmptyIs
<1>6. v \subseteq 0..first + L - 1 /\ Abs(prev.end - first) <= L /\ (prev.begin = prev.end => v = {})
  BY DEF Near
<1>7. \A i : i \in node.coverage <=> i \in v \/ i \in b..e-1
  <2>1. Span(b, p[2]) = b..e-1
    BY PhraseIs DEF Span
  <2>2. QED
    BY <1>1, <2>1
<1> HIDE DEF v, first, next, b, e, L
<1>8. first <= next
  <2>1. ~(next < first)
    BY <1>5, <1>7
  <2>2. QED
    BY <1>5, <2>1
\* The phrase ends within the limit of the first gap it was placed by.
<1>9. Abs(e - first) <= L
  <2>1. CASE prev.begin = prev.end
    <3>1. e <= L
      BY <1>1, <2>1 DEF Conforms, conformsHardReorderingJumpLimit, e, L
    <3>2. v = {}
      BY <1>6, <2>1
    <3>3. first = 0
      <4>1. ~(0 < first)
        BY <1>5, <3>2
      <4>2. QED
        BY <1>5, <4>1
    <3>4. QED
      BY <1>2, <3>1, <3>3 DEF Abs
  <2>2. CASE prev.begin # prev.end
    BY <1>1, <2>2 DEF Conforms, conformsHardReorderingJumpLimit, e, L, first, v
  <2>3. QED
    BY <2>1, <2>2
<1>10. e <= first + L
  BY <1>2, <1>5, <1>9 DEF Abs
<1>11. \A i \in node.coverage : i \in Nat /\ i < first + L
  <2>1. ASSUME NEW i \in node.coverage PROVE i \in Nat /\ i < first + L
    <3>1. CASE i \in v
      BY <1>2, <1>5, <1>6, <3>1
    <3>2. CASE i \in b..e-1
      BY <1>2, <1>5, <1>10, <3>2
    <3>3. QED
      BY <1>7, <3>1, <3>2
  <2>2. QED
    BY <2>1
<1>12. node.coverage \subseteq 0..next + L - 1
  BY <1>2, <1>5, <1>8, <1>11
<1>13. Abs(e - next) <= L
  <2>1. CASE next = first
    BY <1>9, <2>1
  <2>2. CASE next # first
    <3>1. first < next
      BY <1>5, <1>8, <2>2
    <3>2. first \in b..e-1
      BY <1>5, <1>7, <3>1
    <3>3. e <= next
      <4>1. next \notin b..e-1
        BY <1>5, <1>7
      <4>2. b <= first /\ first < next
        BY <1>2, <1>5, <3>1, <3>2
      <4>3. QED
        BY <1>2, <1>5, <4>1, <4>2
    <3>4. next <= first + L
      <4>1. CASE next = 0
        BY <1>2, <1>5, <4>1
      <4>2. CASE next # 0
        <5>1. next - 1 \in Nat /\ next - 1 < next
          BY <1>5, <4>2
        <5>2. next - 1 \in node.coverage
          BY <1>5, <5>1
        <5>3. next - 1 < first + L
          BY <1>11, <5>2
        <5>4. QED
          BY <1>2, <1>5, <5>1, <5>3
      <4>3. QED
        BY <4>1, <4>2
    <3>5. first < e
      BY <1>2, <1>5, <3>2
    <3>6. QED
      BY <1>2, <1>5, <3>3, <3>4, <3>5 DEF Abs
  <2>3. QED
    BY <2>1, <2>2
<1>14. QED
  BY <1>2, <1>3, <1>12, <1>13 DEF Near, next, L

LEMMA AllNear ==
    ASSUME N < 2^PositionBits, SearchInv, NEW k \in 0..N, NEW s \in H!Stored(holder[k])
    PROVE  Near(s[2])
<1> DEFINE S == {j \in 0..N : \E t \in H!Stored(holder[j]) : ~Near(t[2])}
<1>1. SUFFICES ASSUME S # {} PROVE FALSE
  OBVIOUS
<1>2. S \in SUBSET Nat /\ S \subseteq 0..N
  BY LoopFacts
<1>3. PICK m \in S : \A j \in S : m <= j
  <2> HIDE DEF S
  <2>1. QED
    BY <1>1, <1>2, LeastNumber
<1>4. PICK t \in H!Stored(holder[m]) : ~Near(t[2])
  OBVIOUS
<1>5. m # 0
  <2>1. SUFFICES ASSUME m = 0 PROVE FALSE
    OBVIOUS
  <2>2. t = <<{}, RootNode>>
    BY <1>4, <2>1, RootIs DEF SearchInv, Sane
  <2>3. t[2].coverage = {} /\ t[2].begin = 0 /\ t[2].end = 0
    BY <2>2, RootIs
  <2>4. FirstEmptyPosition({}) \in 0..N /\ \A i \in Nat : ~(i < FirstEmptyPosition({}))
    BY FirstEmptyIs
  <2>5. FirstEmptyPosition({}) = 0
    BY <2>4
  <2>6. Near(t[2])
    BY <2>3, <2>5, SentenceAssumption DEF Near, Abs
  <2>7. QED
    BY <1>4, <2>6
<1>6. m \in 1..N
  BY <1>2, <1>5, LoopFacts
<1>7. Linked(holder, m, t)
  BY <1>4, <1>6 DEF SearchInv, Sane
<1>8. PICK j \in 0..m-1 : <<t[2].prev.coverage, t[2].prev>> \in H!Stored(holder[j])
  BY <1>7 DEF Linked
<1>9. j \in 0..N /\ j < m
  BY <1>6, LoopFacts
<1>10. j \notin S
  <2> HIDE DEF S
  <2>1. QED
    BY <1>3, <1>6, <1>9
<1> DEFINE prev == t[2].prev  u == <<prev.coverage, prev>>
<1>11. Near(u[2]) /\ u[1] \in SUBSET Position
  BY <1>8, <1>9, <1>10, CoverageOfNode
<1>12. Near(prev) /\ prev.coverage \in SUBSET Position
  BY <1>11
<1>13. Extends(t[2], prev)
  BY <1>7 DEF Linked
<1>14. QED
  BY <1>4, <1>12, <1>13, ExtensionIsNear

\* The first untranslated word can always be translated next.
LEMMA FirstGapIsInReach ==
    ASSUME N < 2^PositionBits, SearchInv, NEW k \in 0..N-1, NEW s \in H!Stored(holder[k])
    PROVE  /\ FirstEmptyPosition(s[1]) \in Position \ s[1]
           /\ Conforms(s[2], FirstEmptyPosition(s[1]), 1)
<1> DEFINE first == FirstEmptyPosition(s[1])
<1>1. k \in 0..N /\ k # N /\ N \in Nat
  BY LoopFacts
<1>2. s[2].coverage = s[1] /\ s[1] \in SUBSET Position /\ Cardinality(s[1]) = k
  BY <1>1, CoverageOfNode
<1>3. Cardinality(Position) = N
  BY LoopFacts, FS_Interval DEF Position
<1>4. first \in Position \ s[1] /\ first \in Nat
  BY <1>1, <1>2, <1>3, FirstEmptyIs DEF Position
<1>5. /\ Abs(s[2].end - first) <= HardReorderingJumpLimit /\ s[2].end \in Nat
      /\ s[2].begin = s[2].end => s[1] = {}
  BY <1>1, <1>2, AllNear DEF Near
<1>6. HardReorderingJumpLimit \in Nat /\ 1 <= HardReorderingJumpLimit
  BY SentenceAssumption
<1>7. s[1] = {} => first = 0
  <2>1. s[1] = {} => ~(0 < first)
    BY <1>2, FirstEmptyIs
  <2>2. QED
    BY <1>4, <2>1
<1>8. Conforms(s[2], first, 1)
  <2>1. Abs(first + 1 - FirstEmptyPosition(s[1])) = 1
    BY <1>4 DEF Abs
  <2> HIDE DEF first
  <2>2. CASE s[2].begin = s[2].end
    <3>1. first + 1 <= HardReorderingJumpLimit
      BY <1>5, <1>6, <1>7, <2>2
    <3>2. QED
      BY <1>4, <2>2, <3>1, ConformsIs
  <2>3. CASE s[2].begin # s[2].end
    BY <1>2, <1>4, <1>5, <1>6, <2>1, <2>3, ConformsIs DEF first
  <2>4. QED
    BY <2>2, <2>3
<1>9. QED
  BY <1>4, <1>8

\* The jump limits leave every hypothesis with untranslated words a word to go on with,
\* and every coverage that is extended has a hypothesis.
THEOREM AlwaysContinues ==
    ASSUME N < 2^PositionBits
    PROVE  Spec => []NoDeadEnd
<1>1. SearchInv => NoDeadEnd
  <2> SUFFICES ASSUME SearchInv PROVE NoDeadEnd
    OBVIOUS
  <2>1. ASSUME NEW coverage \in todo PROVE holder[PrevCardinality].lex[coverage].nodes # {}
    BY LoopFacts DEF SearchInv, LoopsInv, NoneEmpty
  <2>2. ASSUME NEW k \in 0..N-1, NEW s \in H!Stored(holder[k])
        PROVE  \E b \in Position \ s[1] : Conforms(s[2], b, 1)
    BY FirstGapIsInReach
  <2>3. QED
    BY <2>1, <2>2 DEF NoDeadEnd
<1>2. QED
  BY <1>1, SearchIsInvariant, PTL

-----------------------------------------------------------------------------
(* A search that is not dead: a container that has nodes has a best coverage, *)
(* whose cached best cost one of its nodes stays within, and pruning never    *)
(* empties it.                                                                *)

\* A coverage with nodes has one within its cached best cost, and no two that are equal.
Witnessed(l) ==
    /\ l.best \in Int /\ \E m \in l.nodes : m.cost <= l.best
    /\ \A m, n \in l.nodes : m.state = n.state => m = n

Live(c) ==
    /\ Clean(c) /\ IsFiniteSet(H!Stored(c))
    /\ \A s \in H!Stored(c) : s[2].cost \in Int
    /\ \A v \in c.keys : c.lex[v].nodes # {} => Witnessed(c.lex[v])
    /\ H!Stored(c) = {} => c.best = NULL /\ c.limit = Infinity
    /\ H!Stored(c) # {} => c.best \in c.keys /\ c.lex[c.best].nodes # {}

LEMMA EmptyIsLive == Live(H!EmptyContainer)
<1> DEFINE c == H!EmptyContainer
<1>1. c.keys = {} /\ c.best = NULL /\ c.limit = Infinity
  BY DEF H!EmptyContainer
<1>2. QED
  BY <1>1, EmptyIsClean, FS_EmptySet DEF Live

LEMMA SelectIsLive ==
    ASSUME NEW c, Live(c), NoneEmpty(c), NEW v \in SUBSET Position
    PROVE  Live(H!Select(c, v))
<1> DEFINE d == H!Select(c, v)
<1>1. /\ Clean(d) /\ H!Stored(d) = H!Stored(c) /\ d.keys = c.keys \cup {v} /\ d.lex = c.lex
  BY SelectIs DEF Live, NoneEmpty, Filled
<1>2. d.best = c.best /\ d.limit = c.limit
  BY DEF H!Select, Live, Clean
<1> HIDE DEF d
<1>3. v \notin c.keys => c.lex[v].nodes = {}
  BY DEF Live, Clean
<1>4. Live(d)
  BY <1>1, <1>2, <1>3 DEF Live
<1>5. QED
  BY <1>4 DEF d

LEMMA DeselectIsLive ==
    ASSUME NEW c, Live(c), Filled(c), c.selected \in c.keys
    PROVE  Live(H!Deselect(c))
<1> DEFINE d == H!Deselect(c)
<1>1. CASE c.lex[c.selected].nodes = {}
  <2>1. /\ Clean(d) /\ H!Stored(d) = H!Stored(c) /\ d.lex = c.lex
    BY DeselectIs DEF Live
  <2>2. d.best = c.best /\ d.limit = c.limit /\ d.keys = c.keys \ {c.selected}
    BY <1>1 DEF H!Deselect, Live, Clean
  <2> HIDE DEF d
  <2>3. Live(d)
    BY <1>1, <2>1, <2>2 DEF Live
  <2>4. QED
    BY <2>3 DEF d
<1>2. CASE c.lex[c.selected].nodes # {}
  BY <1>2 DEF H!Deselect
<1>3. QED
  BY <1>1, <1>2

LEMMA InsertedIsLive ==
    ASSUME NEW c, Live(c), Filled(c), c.selected \in c.keys, NEW node, node.cost \in Int
    PROVE  Live(H!Inserted(c, node)) /\ H!Stored(H!Inserted(c, node)) # {}
<1> DEFINE v == c.selected
           old == c.lex[v]
           new == H!insertHypothesis(old, node)
           d == H!Inserted(c, node)
<1>1. v \in SUBSET Position /\ v \in c.keys
  BY DEF Live, Clean
<1>2. /\ Clean(d) /\ d.keys = c.keys /\ \A u \in d.keys : d.lex[u].nodes # {}
      /\ H!Stored(d) \subseteq H!Stored(c) \cup {<<v, node>>}
  BY InsertedIs DEF Live
<1>3. DOMAIN c = {"keys", "lex", "selected", "best", "worst", "total", "limit"} /\ DOMAIN c.lex = SUBSET Position
  BY DEF Live, Clean
<1>4. /\ d.lex[v] = new
      /\ \A u \in (SUBSET Position) \ {v} : d.lex[u] = c.lex[u]
      /\ d.best = IF /\ \A m \in old.nodes : m.state # node.state
                     /\ c.best = NULL \/ node.cost < d.lex[c.best].best
                  THEN v ELSE c.best
  <2>1. d.lex = [c.lex EXCEPT ![v] = new]
    BY <1>3 DEF H!Inserted
  <2>2. d.best = IF /\ \A m \in old.nodes : m.state # node.state
                    /\ c.best = NULL \/ node.cost < [c.lex EXCEPT ![v] = new][c.best].best
                 THEN v ELSE c.best
    BY <1>3 DEF H!Inserted
  <2> HIDE DEF d, new, old
  <2>3. QED
    BY <1>1, <1>3, <2>1, <2>2
<1>5. \A m \in old.nodes : m.cost \in Int
  <2>1. \A m \in old.nodes : <<v, m>> \in H!Stored(c)
    BY <1>1, StoredIs
  <2>2. ASSUME NEW m \in old.nodes PROVE m.cost \in Int
    <3>1. PICK s \in H!Stored(c) : s = <<v, m>>
      BY <2>1
    <3>2. QED
      BY <3>1 DEF Live
  <2>3. QED
    BY <2>2
<1>6. Witnessed(new)
  <2> DEFINE same == {m \in old.nodes : m.state = node.state}
             kept == IF \E m \in same : m.cost <= node.cost THEN CHOOSE m \in same : TRUE ELSE node
  <2>1. /\ new.nodes = (old.nodes \ same) \cup {kept}
        /\ new.best = IF old.nodes = {} THEN node.cost ELSE H!MinOf(old.best, kept.cost)
    BY DEF H!insertHypothesis
  <2>2. kept = node \/ kept \in same
    OBVIOUS
  <2>3. kept.state = node.state /\ kept.cost \in Int
    BY <1>5, <2>2
  <2>4. \A m, n \in old.nodes : m.state = n.state => m = n
    BY <1>1 DEF Live, Witnessed
  <2>5. \A m \in same : kept.cost <= m.cost
    <3>1. CASE \E m \in same : m.cost <= node.cost
      <4>1. kept \in same
        BY <3>1
      <4>2. \A m \in same : m = kept
        BY <2>4, <4>1
      <4> HIDE DEF kept, same
      <4>3. QED
        BY <2>3, <4>2
    <3>2. CASE ~\E m \in same : m.cost <= node.cost
      BY <1>5, <3>2
    <3>3. QED
      BY <3>1, <3>2
  <2> HIDE DEF kept, new
  <2>6. \A m, n \in new.nodes : m.state = n.state => m = n
    BY <2>1, <2>3, <2>4
  <2>7. new.best \in Int /\ \E m \in new.nodes : m.cost <= new.best
    <3>1. CASE old.nodes = {}
      <4>1. kept = node
        BY <2>2, <3>1
      <4>2. QED
        BY <2>1, <3>1, <4>1
    <3>2. CASE old.nodes # {}
      <4>1. PICK m \in old.nodes : m.cost <= old.best /\ old.best \in Int
        BY <1>1, <3>2 DEF Live, Witnessed
      <4>2. new.best = H!MinOf(old.best, kept.cost)
        BY <2>1, <3>2
      <4>3. new.best \in Int /\ (new.best = old.best \/ new.best = kept.cost)
        BY <2>3, <4>1, <4>2 DEF H!MinOf
      <4>4. CASE m \in same
        <5>1. kept.cost <= m.cost
          BY <2>5, <4>4
        <5>2. kept.cost <= old.best /\ kept.cost <= new.best
          BY <1>5, <2>3, <4>1, <4>3, <5>1
        <5>3. QED
          BY <2>1, <4>3, <5>2
      <4>5. CASE m \notin same
        <5>1. m \in new.nodes /\ kept \in new.nodes
          BY <2>1, <4>5
        <5>2. QED
          BY <2>3, <4>1, <4>3, <5>1
      <4>6. QED
        BY <4>4, <4>5
    <3>3. QED
      BY <3>1, <3>2
  <2>8. QED
    BY <2>6, <2>7 DEF Witnessed
<1> HIDE DEF d, new
<1>7. ASSUME NEW u \in d.keys PROVE Witnessed(d.lex[u])
  <2>1. u \in SUBSET Position /\ u \in c.keys
    BY <1>2 DEF Clean
  <2>2. CASE u = v
    BY <1>4, <1>6, <2>2
  <2>3. CASE u # v
    <3>1. d.lex[u] = c.lex[u] /\ d.lex[u].nodes # {}
      BY <1>2, <1>4, <2>1, <2>3
    <3>2. QED
      BY <2>1, <3>1 DEF Live
  <2>4. QED
    BY <2>2, <2>3
<1>8. IsFiniteSet(H!Stored(d)) /\ \A s \in H!Stored(d) : s[2].cost \in Int
  <2>1. IsFiniteSet(H!Stored(c) \cup {<<v, node>>})
    BY FS_AddElement DEF Live
  <2>2. IsFiniteSet(H!Stored(d))
    BY <1>2, <2>1, FS_Subset
  <2>3. \A s \in H!Stored(c) : s[2].cost \in Int
    BY DEF Live
  <2>4. QED
    BY <1>2, <2>2, <2>3
<1>9. H!Stored(d) # {}
  <2>1. PICK m \in d.lex[v].nodes : TRUE
    BY <1>1, <1>2
  <2>2. <<v, m>> \in H!Stored(d)
    BY <1>1, <1>2, <2>1, StoredIs
  <2>3. QED
    BY <2>2
<1>10. d.best \in d.keys
  <2>1. CASE H!Stored(c) = {}
    <3>1. c.best = NULL
      BY <2>1 DEF Live
    <3>2. old.nodes = {}
      <4>1. \A m \in old.nodes : <<v, m>> \in H!Stored(c)
        BY <1>1, StoredIs
      <4>2. QED
        BY <2>1, <4>1
    <3>3. d.best = v
      BY <1>4, <3>1, <3>2
    <3>4. QED
      BY <1>1, <1>2, <3>3
  <2>2. CASE H!Stored(c) # {}
    <3>1. c.best \in c.keys
      BY <2>2 DEF Live
    <3>2. QED
      BY <1>1, <1>2, <1>4, <3>1
  <2>3. QED
    BY <2>1, <2>2
<1>11. Live(d)
  BY <1>2, <1>7, <1>8, <1>9, <1>10 DEF Live
<1>12. QED
  BY <1>9, <1>11 DEF d

\* The best node is inside a beam that is not wider than all hypotheses, so it is
\* picked; a coverage with picks has its cheapest nodes among them.
LEMMA PicksAreCheapest ==
    ASSUME LogBeamWidth < 0, NEW c, Live(c), NoneEmpty(c), H!Stored(c) # {}, NEW K \in H!Picks(c)
    PROVE  /\ K \subseteq H!Stored(c) /\ K # {}
           /\ \A s \in H!Stored(c) : \A p \in K : p[1] = s[1] =>
                 \E q \in K : q[1] = s[1] /\ q[2].cost <= s[2].cost
<1>1. PICK P \in SUBSET H!Stored(c) : \E F \in SUBSET Rest(c, P) : IsPick(c, K, P, F)
  BY PicksAre
<1>2. PICK F \in SUBSET Rest(c, P) : IsPick(c, K, P, F)
  BY <1>1
<1>3. K = P \cup F /\ K \subseteq H!Stored(c)
  BY <1>2 DEF IsPick, Rest
<1>4. c.best \in c.keys /\ Witnessed(c.lex[c.best])
  BY DEF Live
<1>5. LogBeamWidth \in Int /\ MaxCardinalityContainerSize \in Nat \ {0}
  BY ContainerAssumption
<1>6. H!Beam(c) \in Int /\ c.lex[c.best].best < H!Beam(c)
  BY <1>4, <1>5 DEF H!Beam, Witnessed
<1>7. \A s \in H!Stored(c) : s[2].cost \in Int
  BY DEF Live
<1>8. K # {}
  <2>1. SUFFICES ASSUME P = {}, F = {} PROVE FALSE
    BY <1>3
  <2>2. PICK m \in c.lex[c.best].nodes : m.cost <= c.lex[c.best].best
    BY <1>4 DEF Witnessed
  <2>3. PICK s \in H!Stored(c) : s = <<c.best, m>>
    BY <1>4, StoredIs
  <2>4. s[2].cost < H!Beam(c)
    <3>1. s[2] = m
      BY <2>3
    <3>2. QED
      BY <1>4, <1>6, <1>7, <2>2, <3>1 DEF Witnessed
  <2>5. s \in Rest(c, P)
    BY <2>1, <2>4 DEF Rest
  <2>6. IsFiniteSet(Rest(c, P))
    <3>1. Rest(c, P) \subseteq H!Stored(c)
      BY DEF Rest
    <3>2. QED
      BY <3>1, FS_Subset DEF Live
  <2>7. Cardinality(Rest(c, P)) \in Nat /\ Cardinality(Rest(c, P)) # 0
    BY <2>5, <2>6, FS_CardinalityType, FS_EmptySet
  <2>8. Cardinality({}) = 0
    BY FS_EmptySet
  <2>9. Room(P) = MaxCardinalityContainerSize
    BY <1>5, <2>1, <2>8, SameCardinality DEF Room, H!MaxOf
  <2>10. Cardinality(F) = H!MinOf(Room(P), Cardinality(Rest(c, P)))
    BY <1>2, SameCardinality DEF IsPick, H!Cheapest
  <2>11. Cardinality(F) # 0
    BY <1>5, <2>7, <2>9, <2>10 DEF H!MinOf
  <2>12. QED
    BY <2>1, <2>8, <2>11
<1>9. ASSUME NEW s \in H!Stored(c), NEW p \in K, p[1] = s[1]
      PROVE  \E q \in K : q[1] = s[1] /\ q[2].cost <= s[2].cost
  <2>1. p[2].cost \in Int /\ s[2].cost \in Int
    BY <1>3, <1>7
  <2>2. CASE s \in K
    BY <2>1, <2>2
  <2>3. CASE s \notin K /\ p \in P
    <3>1. s[1] \in c.keys
      BY StoredIs
    <3>2. H!Cheapest(H!Of(P, s[1]), H!Of(H!Stored(c), s[1]), PrimaryCoverageShare)
      BY <1>2, <3>1 DEF IsPick
    <3>3. p \in H!Of(P, s[1]) /\ s \in H!Of(H!Stored(c), s[1]) \ H!Of(P, s[1])
      BY <1>3, <1>9, <2>3 DEF H!Of
    <3>4. p[2].cost <= s[2].cost
      BY <3>2, <3>3 DEF H!Cheapest
    <3>5. QED
      BY <1>9, <3>4
  <2>4. CASE s \notin K /\ p \in F
    <3>1. p[2].cost < H!Beam(c)
      BY <2>4 DEF Rest
    <3>2. CASE s[2].cost < H!Beam(c)
      <4>1. s \in Rest(c, P) \ F
        BY <1>3, <2>4, <3>2 DEF Rest
      <4>2. p[2].cost <= s[2].cost
        BY <1>2, <2>4, <4>1 DEF IsPick, H!Cheapest
      <4>3. QED
        BY <1>9, <4>2
    <3>3. CASE ~(s[2].cost < H!Beam(c))
      <4>1. p[2].cost <= s[2].cost
        BY <1>6, <2>1, <3>1, <3>3
      <4>2. QED
        BY <1>9, <4>1
    <3>4. QED
      BY <3>2, <3>3
  <2>5. QED
    BY <1>3, <2>2, <2>3, <2>4
<1>10. QED
  BY <1>3, <1>8, <1>9

LEMMA PrunedIsLive ==
    ASSUME LogBeamWidth < 0, NEW c, Live(c), NoneEmpty(c), H!Stored(c) # {}, NEW K \in H!Picks(c)
    PROVE  LET d == H!Pruned(c, K)
           IN  H!Stored(d) # {} /\ \A v \in d.keys : Witnessed(d.lex[v])
<1> DEFINE d == H!Pruned(c, K)
           picked(v) == {s[2] : s \in H!Of(K, v)}
           left(v) == IF H!Of(K, v) # {} THEN [c.lex[v] EXCEPT !.nodes = picked(v)]
                      ELSE IF v \in H!Keeps(c, K) THEN c.lex[v] ELSE H!EmptyLex
<1>1. /\ K \subseteq H!Stored(c) /\ K # {}
      /\ \A s \in H!Stored(c) : \A p \in K : p[1] = s[1] =>
            \E q \in K : q[1] = s[1] /\ q[2].cost <= s[2].cost
  BY PicksAreCheapest
<1>2. d.keys = H!Keeps(c, K) /\ d.lex = [v \in SUBSET Position |-> left(v)]
  BY DEF H!Pruned, Live, Clean
<1>3. \A v \in SUBSET Position : d.lex[v] = left(v)
  BY <1>2
<1> HIDE DEF d
<1>4. \A v, m : m \in picked(v) <=> <<v, m>> \in K
  <2>1. \A s \in K : s = <<s[1], s[2]>>
    BY <1>1, StoredIs
  <2>2. QED
    BY <2>1 DEF H!Of
<1>5. ASSUME NEW v \in d.keys PROVE Witnessed(d.lex[v]) /\ (H!Of(K, v) # {} => d.lex[v].nodes # {})
  <2>1. v \in c.keys /\ v \in SUBSET Position /\ Witnessed(c.lex[v])
    BY <1>2 DEF H!Keeps, Live, Clean, NoneEmpty
  <2>2. CASE H!Of(K, v) = {}
    BY <1>2, <1>3, <2>1, <2>2
  <2>3. CASE H!Of(K, v) # {}
    <3>1. d.lex[v].nodes = picked(v) /\ d.lex[v].best = c.lex[v].best
      BY <1>3, <2>1, <2>3 DEF Live, Clean
    <3>2. PICK p \in K : p[1] = v
      BY <2>3 DEF H!Of
    <3>3. PICK m \in c.lex[v].nodes : m.cost <= c.lex[v].best /\ c.lex[v].best \in Int
      BY <2>1 DEF Witnessed
    <3>4. PICK s \in H!Stored(c) : s = <<v, m>>
      BY <2>1, <3>3, StoredIs
    <3>5. s[1] = v /\ s[2] = m
      BY <3>4
    <3>6. PICK q \in K : q[1] = v /\ q[2].cost <= m.cost
      BY <1>1, <3>2, <3>5
    <3>7. q[2].cost \in Int /\ m.cost \in Int
      BY <1>1, <3>5 DEF Live
    <3>8. q[2].cost <= c.lex[v].best
      BY <3>3, <3>6, <3>7
    <3>9. q = <<v, q[2]>>
      BY <1>1, <3>6, StoredIs
    <3>10. q[2] \in picked(v)
      BY <1>4, <3>9
    <3>11. picked(v) \subseteq c.lex[v].nodes
      BY <1>1, <1>4, StoredIs
    <3>12. QED
      BY <2>1, <3>1, <3>8, <3>10, <3>11 DEF Witnessed
  <2>4. QED
    BY <2>2, <2>3
<1>6. H!Stored(d) # {}
  <2>1. PICK p \in K : TRUE
    BY <1>1
  <2>2. H!Of(K, p[1]) # {} /\ p[1] \in c.keys
    BY <1>1, StoredIs DEF H!Of
  <2>3. p[1] \in d.keys
    BY <1>2, <2>2 DEF H!Keeps
  <2>4. PICK m \in d.lex[p[1]].nodes : TRUE
    BY <1>5, <2>2, <2>3
  <2>5. <<p[1], m>> \in H!Stored(d)
    BY <2>3, <2>4, StoredIs
  <2>6. QED
    BY <2>5
<1>7. QED
  BY <1>5, <1>6 DEF d

\* Choosing the best coverage anew.
LEMMA UpdateIsLive ==
    ASSUME NEW c, Clean(c), NoneEmpty(c), H!Stored(c) # {}, IsFiniteSet(H!Stored(c)),
           \A s \in H!Stored(c) : s[2].cost \in Int, \A v \in c.keys : Witnessed(c.lex[v]),
           NEW d \in H!UpdateBestAndWorst(c)
    PROVE  Live(d)
<1> DEFINE full == {v \in c.keys : c.lex[v].nodes # {}}
<1>1. PICK s \in H!Stored(c) : TRUE
  OBVIOUS
<1>2. full # {}
  BY <1>1, StoredIs
<1>3. \E b \in full : \E w : d = [c EXCEPT !.best = b, !.worst = w]
  BY <1>2 DEF H!UpdateBestAndWorst
<1>4. d.best \in full
  BY <1>3 DEF Clean
<1>5. /\ Clean(d) /\ d.keys = c.keys /\ d.lex = c.lex /\ H!Stored(d) = H!Stored(c)
  BY UpdateIs
<1>6. QED
  BY <1>4, <1>5 DEF Live

LEMMA PruneIsLive ==
    ASSUME LogBeamWidth < 0, NEW c, Live(c), NoneEmpty(c), H!Stored(c) # {}, NEW d \in H!prune(c)
    PROVE  Live(d) /\ H!Stored(d) # {}
<1>1. CASE c.total <= MaxCardinalityContainerSize
  <2>1. d \in H!UpdateBestAndWorst(c)
    BY <1>1 DEF H!prune
  <2>2. H!Stored(d) = H!Stored(c)
    BY <2>1, UpdateIs DEF Live
  <2>3. Live(d)
    BY <2>1, UpdateIsLive DEF Live, NoneEmpty
  <2>4. QED
    BY <2>2, <2>3
<1>2. CASE ~(c.total <= MaxCardinalityContainerSize)
  <2>1. PICK K \in H!Picks(c) : \E e \in H!UpdateBestAndWorst(H!Pruned(c, K)) : \E x : d = [e EXCEPT !.limit = x]
    BY <1>2 DEF H!prune
  <2> DEFINE p == H!Pruned(c, K)
  <2>2. Less(c, p) /\ H!Stored(p) # {} /\ \A v \in p.keys : Witnessed(p.lex[v])
    BY PrunedIs, PrunedIsLive DEF Live, NoneEmpty
  <2>3. PICK e \in H!UpdateBestAndWorst(p) : \E x : d = [e EXCEPT !.limit = x]
    BY <2>1
  <2> HIDE DEF p
  <2>4. IsFiniteSet(H!Stored(p)) /\ \A s \in H!Stored(p) : s[2].cost \in Int
    <3>1. H!Stored(p) \subseteq H!Stored(c)
      BY <2>2 DEF Less
    <3>2. QED
      BY <3>1, FS_Subset DEF Live
  <2>5. Live(e) /\ H!Stored(e) = H!Stored(p)
    BY <2>2, <2>4, UpdateIs, UpdateIsLive DEF Less, NoneEmpty
  <2>6. DOMAIN d = DOMAIN e /\ d.keys = e.keys /\ d.lex = e.lex /\ d.best = e.best
    BY <2>3, <2>5 DEF Live, Clean
  <2>7. H!Stored(d) = H!Stored(e)
    BY <2>6 DEF H!Stored
  <2>8. Live(d)
    BY <2>2, <2>5, <2>6, <2>7 DEF Live, Clean
  <2>9. QED
    BY <2>2, <2>5, <2>7, <2>8
<1>3. QED
  BY <1>1, <1>2

\* A node that is offered is kept, or a container that is not empty stays so.
LEMMA OfferIsLive ==
    ASSUME LogBeamWidth < 0, NEW c, Live(c), Filled(c), c.selected \in c.keys,
           NEW node, node.cost \in Int, node.cost < Infinity, NEW d \in Offer(c, node)
    PROVE  Live(d) /\ H!Stored(d) # {}
<1>1. CASE DoPrunePreInsertion /\ H!mustBePruned(c, node.cost)
  <2>1. d = c
    BY <1>1 DEF Offer
  <2>2. c.limit # Infinity
    BY <1>1, ContainerAssumption DEF H!mustBePruned
  <2>3. QED
    BY <2>1, <2>2 DEF Live
<1>2. CASE d \in H!insertNewHypothesis(c, node)
  <2> DEFINE e == H!Inserted(c, node)
  <2>1. Live(e) /\ H!Stored(e) # {} /\ NoneEmpty(e)
    BY InsertedIs, InsertedIsLive DEF Live, NoneEmpty
  <2>2. d = e \/ d \in H!prune(e)
    BY <1>2 DEF H!insertNewHypothesis
  <2> HIDE DEF e
  <2>3. QED
    BY <2>1, <2>2, PruneIsLive
<1>3. QED
  BY <1>1, <1>2 DEF Offer

LEMMA OfferedIsLive ==
    ASSUME LogBeamWidth < 0, NEW node, NEW n \in Nat, n = Len(candidates[phrase]),
           DOMAIN candidates[phrase] = 1..n, OfferedTo(node, curr), Live(curr),
           \A i \in 1..n : NewNode(node, phrase[1], phrase[2], candidates[phrase][i]).cost \in 0..Infinity-1,
           NEW c \in Offered(node)
    PROVE  Live(c) /\ (H!Stored(curr) # {} \/ n # 0 => H!Stored(c) # {})
<1> DEFINE good(d, i) == /\ OfferedTo(node, d) /\ Live(d)
                         /\ H!Stored(curr) # {} \/ i # 0 => H!Stored(d) # {}
<1>1. PICK f : Iteration(node, n, f)
  BY IterationIs
<1> DEFINE S == {i \in 0..n : \E d \in f[i] : ~good(d, i)}
<1>2. S = {}
  <2>1. SUFFICES ASSUME S # {} PROVE FALSE
    OBVIOUS
  <2>2. S \in SUBSET Nat /\ S \subseteq 0..n
    OBVIOUS
  <2>3. PICK m \in S : \A k \in S : m <= k
    <3> HIDE DEF S
    <3>1. QED
      BY <2>1, <2>2, LeastNumber
  <2>4. PICK d \in f[m] : ~good(d, m)
    OBVIOUS
  <2>5. m # 0
    BY <1>1, <2>4 DEF Iteration
  <2>6. m \in 1..n /\ m - 1 \in 0..n /\ m - 1 < m
    BY <2>5
  <2>7. m - 1 \notin S
    <3> HIDE DEF S
    <3>1. QED
      BY <2>3, <2>6
  <2> DEFINE new == NewNode(node, phrase[1], phrase[2], candidates[phrase][m])
  <2>8. PICK e \in f[m-1] : d \in Offer(e, new)
    BY <1>1, <2>4, <2>6 DEF Iteration
  <2>9. OfferedTo(node, e) /\ Live(e)
    BY <2>6, <2>7, <2>8
  <2>10. OfferedTo(node, d)
    BY <2>6, <2>8, <2>9, OfferIs
  <2>11. new.cost \in Int /\ new.cost < Infinity
    <3>1. new.cost \in 0..Infinity-1
      BY <2>6
    <3> HIDE DEF new
    <3>2. QED
      BY <3>1, ContainerAssumption
  <2> HIDE DEF new
  <2>12. Live(d) /\ H!Stored(d) # {}
    BY <2>8, <2>9, <2>11, OfferIsLive DEF OfferedTo
  <2>13. QED
    BY <2>4, <2>10, <2>12
<1>3. c \in f[n] /\ n \in 0..n
  BY <1>1 DEF Iteration
<1>4. QED
  BY <1>2, <1>3

-----------------------------------------------------------------------------
(* No cardinality stays empty.  As long as a container is empty although the  *)
(* previous one has been reached, no hypothesis of the previous one has been  *)
(* passed by at its first untranslated word.                                  *)

Looping == pc \in {"coverages", "positions", "nodes"}

\* Nothing has been stored yet, and the word is the phrase.
Untouched == Looping /\ PrevCardinality + 1 = NewCardinality /\ H!Stored(curr) = {}

NothingMissed ==
    Untouched =>
        /\ pc = "coverages" => todo = holder[PrevCardinality].keys
        /\ pc # "coverages" => NewPhraseBeginPos <= FirstEmptyPosition(PrevCoverage)
        /\ pc = "nodes" /\ NewPhraseBeginPos = FirstEmptyPosition(PrevCoverage) =>
              nodes = holder[PrevCardinality].lex[PrevCoverage].nodes

Reached ==
    /\ \A k \in 0..NewCardinality-1 : H!Stored(holder[k]) # {}
    /\ ~Looping => NewCardinality = N /\ H!Stored(curr) # {}
    /\ pc = "done" => GoalNode \in holder[N].lex[Position].nodes

ProgressInv == (Looping => Live(curr)) /\ (EveryWordHasRule => NothingMissed /\ Reached)

LEMMA InitProgresses == Init => ProgressInv
<1> SUFFICES ASSUME Init PROVE ProgressInv
  OBVIOUS
<1>1. N \in Nat \ {0} /\ 0 \in 0..N /\ 1 \in 0..N
  BY SentenceAssumption
<1>2. /\ NewCardinality = 1 /\ PrevCardinality = 0 /\ pc = "coverages" /\ todo = {{}}
      /\ holder[0] = RootContainer /\ holder[1] = H!EmptyContainer
  BY <1>1 DEF Init
<1>3. NothingMissed
  BY <1>2, RootIs DEF NothingMissed
<1>4. Reached
  <2>1. \A k \in 0..NewCardinality-1 : k = 0
    BY <1>2
  <2>2. QED
    BY <1>2, <2>1, RootIs DEF Reached, Looping
<1>5. QED
  BY <1>2, <1>3, <1>4, EmptyIsLive DEF ProgressInv, curr

LEMMA VisitCoverageProgresses ==
    ASSUME SearchInv, ProgressInv, NEW coverage \in SUBSET Position, VisitCoverage(coverage)
    PROVE  ProgressInv'
<1>1. /\ UNCHANGED <<candidates, holder, NewCardinality, PrevCardinality>>
      /\ pc = "coverages" /\ pc' = "positions" /\ NewPhraseBeginPos' = 0 /\ PrevCoverage' = coverage
  BY DEF VisitCoverage
<1>2. 0 <= FirstEmptyPosition(coverage)
  BY FirstEmptyIs
<1>3. NothingMissed'
  BY <1>1, <1>2 DEF NothingMissed
<1>4. QED
  BY <1>1, <1>3 DEF ProgressInv, Looping, EveryWordHasRule, Reached, curr

LEMMA NextPrevCardinalityProgresses ==
    ASSUME SearchInv, ProgressInv, NextPrevCardinality
    PROVE  ProgressInv'
<1>1. /\ UNCHANGED <<candidates, holder, NewCardinality, pc>> /\ pc = "coverages"
      /\ todo' = holder[PrevCardinality'].keys
  BY DEF NextPrevCardinality
<1>2. NothingMissed'
  BY <1>1 DEF NothingMissed
<1>3. QED
  BY <1>1, <1>2 DEF ProgressInv, Looping, EveryWordHasRule, Reached, curr

\* The coverage that is extended has an untranslated word.
LEMMA PrevCoverageIs ==
    ASSUME SearchInv, pc \in {"positions", "nodes"}
    PROVE  /\ PrevCoverage \in holder[PrevCardinality].keys
           /\ holder[PrevCardinality].lex[PrevCoverage].nodes # {}
           /\ FirstEmptyPosition(PrevCoverage) \in Position \ PrevCoverage
           /\ FirstEmptyPosition(PrevCoverage) + 1 <= N /\ FirstEmptyPosition(PrevCoverage) \in Nat
           /\ NewPhraseBeginPos \in 0..N
<1>1. /\ PrevCoverage \in holder[PrevCardinality].keys /\ PrevCoverage \in SUBSET Position
      /\ NewPhraseBeginPos \in 0..N
  BY DEF SearchInv, LoopsInv
<1>2. /\ Cardinality(PrevCoverage) = PrevCardinality /\ PrevCardinality # N
      /\ holder[PrevCardinality].lex[PrevCoverage].nodes # {}
  BY <1>1, LoopFacts DEF NoneEmpty
<1>3. Cardinality(Position) = N
  BY LoopFacts, FS_Interval DEF Position
<1>4. FirstEmptyPosition(PrevCoverage) \in Position \ PrevCoverage
  BY <1>1, <1>2, <1>3, FirstEmptyIs
<1>5. \A i \in Position : i \in Nat /\ i + 1 <= N
  BY LoopFacts DEF Position
<1>6. QED
  BY <1>1, <1>2, <1>4, <1>5

LEMMA SkipPositionProgresses ==
    ASSUME SearchInv, ProgressInv, SkipPosition
    PROVE  ProgressInv'
<1> DEFINE first == FirstEmptyPosition(PrevCoverage)
<1>1. /\ UNCHANGED <<candidates, holder, NewCardinality, PrevCardinality, PrevCoverage, pc>>
      /\ pc = "positions" /\ NewPhraseBeginPos' = NewPhraseBeginPos + 1 /\ ~Fits
  BY DEF SkipPosition
<1>2. first \in Position \ PrevCoverage /\ first \in Nat /\ NewPhraseBeginPos \in 0..N
  BY <1>1, PrevCoverageIs
<1>3. ASSUME EveryWordHasRule, NothingMissed PROVE NothingMissed'
  <2>1. SUFFICES ASSUME Untouched PROVE NewPhraseBeginPos + 1 <= first
    BY <1>1 DEF NothingMissed, Untouched, Looping, curr
  <2>2. NewPhraseBeginPos <= first
    BY <1>1, <1>3, <2>1 DEF NothingMissed
  <2>3. ASSUME NewPhraseBeginPos = first PROVE FALSE
    <3>1. NewPhraseCardinality = 1
      BY <2>1, LoopFacts DEF Untouched, NewPhraseCardinality
    <3>2. candidates[phrase] # <<>>
      BY <1>2, <1>3, <2>3, <3>1 DEF EveryWordHasRule, phrase
    <3>3. phraseSpan = {first}
      BY <1>2, <2>3, <3>1 DEF phraseSpan, Span
    <3>4. QED
      BY <1>1, <1>2, <3>2, <3>3 DEF Fits
  <2>4. QED
    BY <1>2, <2>2, <2>3
<1>4. QED
  BY <1>1, <1>3 DEF ProgressInv, Looping, EveryWordHasRule, Reached, curr

LEMMA EndCoverageProgresses ==
    ASSUME SearchInv, ProgressInv, EndCoverage
    PROVE  ProgressInv'
<1>1. /\ UNCHANGED <<candidates, holder, NewCardinality, PrevCardinality, PrevCoverage>>
      /\ pc = "positions" /\ pc' = "coverages" /\ NewPhraseBeginPos > N - NewPhraseCardinality
  BY DEF EndCoverage
<1>2. ASSUME NothingMissed PROVE ~Untouched
  <2>1. SUFFICES ASSUME Untouched PROVE FALSE
    OBVIOUS
  <2>2. NewPhraseBeginPos <= FirstEmptyPosition(PrevCoverage)
    BY <1>1, <1>2, <2>1 DEF NothingMissed
  <2>3. NewPhraseBeginPos > N - 1
    BY <1>1, <2>1, LoopFacts DEF Untouched, NewPhraseCardinality
  <2>4. QED
    BY <1>1, <2>2, <2>3, LoopFacts, PrevCoverageIs
<1>3. NothingMissed => NothingMissed'
  BY <1>1, <1>2 DEF NothingMissed, Untouched, Looping, curr
<1>4. QED
  BY <1>1, <1>3 DEF ProgressInv, Looping, EveryWordHasRule, Reached, curr

LEMMA SelectPhraseProgresses ==
    ASSUME SearchInv, ProgressInv, SelectPhrase
    PROVE  ProgressInv'
<1> DEFINE coverage == PrevCoverage \cup phraseSpan
           c == H!Select(curr, coverage)
<1>1. /\ UNCHANGED <<candidates, NewCardinality, PrevCardinality, PrevCoverage, NewPhraseBeginPos>>
      /\ pc = "positions" /\ pc' = "nodes" /\ NewPhraseBeginPos <= N - NewPhraseCardinality
      /\ phraseSpan \cap PrevCoverage = {}
      /\ nodes' = holder[PrevCardinality].lex[PrevCoverage].nodes
      /\ holder' = [holder EXCEPT ![NewCardinality] = c]
  BY DEF SelectPhrase, Fits, curr
<1>2. NoneEmpty(curr) /\ Live(curr) /\ coverage \in SUBSET Position
  BY <1>1, NewCoverageIs DEF SearchInv, LoopsInv, ProgressInv, Looping
<1> HIDE DEF coverage
<1>3. Live(c) /\ H!Stored(c) = H!Stored(curr)
  BY <1>2, SelectIs, SelectIsLive DEF NoneEmpty, Filled, Live
<1> HIDE DEF c
<1>4. curr' = c /\ \A k \in 0..N : k # NewCardinality => holder'[k] = holder[k]
  BY <1>1, LoopFacts DEF SearchInv, Sane, curr
<1>5. NothingMissed => NothingMissed'
  <2>1. holder'[PrevCardinality] = holder[PrevCardinality]
    BY <1>4, LoopFacts
  <2>2. QED
    BY <1>1, <1>3, <1>4, <2>1 DEF NothingMissed, Untouched, Looping
<1>6. Reached => Reached'
  <2>1. \A k \in 0..NewCardinality-1 : holder'[k] = holder[k]
    BY <1>4, LoopFacts
  <2>2. QED
    BY <1>1, <2>1 DEF Reached, Looping
<1>7. QED
  BY <1>1, <1>3, <1>4, <1>5, <1>6 DEF ProgressInv, EveryWordHasRule

LEMMA ExtendNodeProgresses ==
    ASSUME N < 2^PositionBits, LogBeamWidth < 0, SearchInv, ProgressInv, CostsAreFinite,
           NEW node \in nodes, ExtendNode(node)
    PROVE  ProgressInv'
<1> DEFINE first == FirstEmptyPosition(PrevCoverage)
<1>1. /\ UNCHANGED <<candidates, NewCardinality, PrevCardinality, PrevCoverage, NewPhraseBeginPos, pc>>
      /\ pc = "nodes"
  BY DEF ExtendNode
<1>2. /\ NewPhraseBeginPos <= N - NewPhraseCardinality
      /\ curr.selected \in curr.keys /\ Live(curr)
      /\ node \in holder[PrevCardinality].lex[PrevCoverage].nodes
  BY <1>1 DEF SearchInv, PhraseInv, ProgressInv, Looping
<1>3. PICK n \in Nat : n = Len(candidates[phrase]) /\ DOMAIN candidates[phrase] = 1..n
  BY <1>2, PhraseFacts
<1>4. \A i \in 1..n : NewNode(node, phrase[1], phrase[2], candidates[phrase][i]).cost \in 0..Infinity-1
  BY <1>1, <1>3 DEF CostsAreFinite
<1>5. OfferedTo(node, curr)
  BY <1>2, LoopFacts DEF OfferedTo
<1>6. \A k \in 0..N : k # NewCardinality => holder'[k] = holder[k]
  <2>1. CASE UNCHANGED holder
    BY <2>1
  <2>2. CASE \E c \in Offered(node) : holder' = [holder EXCEPT ![NewCardinality] = c]
    BY <2>2, LoopFacts DEF SearchInv, Sane
  <2>3. QED
    BY <2>1, <2>2 DEF ExtendNode
<1>7. /\ Live(curr') /\ (H!Stored(curr) # {} => H!Stored(curr') # {})
      /\ Conforms(node, phrase[1], phrase[2]) /\ n # 0 => H!Stored(curr') # {}
  <2>1. CASE Conforms(node, phrase[1], phrase[2])
    <3>1. PICK c \in Offered(node) : holder' = [holder EXCEPT ![NewCardinality] = c]
      BY <2>1 DEF ExtendNode
    <3>2. curr' = c
      BY <1>1, <3>1, LoopFacts DEF SearchInv, Sane, curr
    <3>3. QED
      BY <1>2, <1>3, <1>4, <1>5, <3>2, OfferedIsLive
  <2>2. CASE ~Conforms(node, phrase[1], phrase[2])
    <3>1. curr' = curr
      BY <1>1, <2>2 DEF ExtendNode, curr
    <3>2. QED
      BY <1>2, <2>2, <3>1
  <2>3. QED
    BY <2>1, <2>2
<1>8. ASSUME EveryWordHasRule, NothingMissed PROVE NothingMissed'
  <2>1. SUFFICES ASSUME Untouched, H!Stored(curr') = {}
                 PROVE  NewPhraseBeginPos <= first /\ NewPhraseBeginPos # first
    BY <1>1, <1>7 DEF NothingMissed, Untouched, Looping
  <2>2. NewPhraseBeginPos <= first
    BY <1>1, <1>8, <2>1 DEF NothingMissed
  <2>3. ASSUME NewPhraseBeginPos = first PROVE FALSE
    <3>1. NewPhraseCardinality = 1 /\ PrevCardinality \in 0..N-1
      BY <2>1, LoopFacts DEF Untouched, NewPhraseCardinality
    <3>2. first \in Position /\ PrevCoverage \in holder[PrevCardinality].keys
      BY <1>1, PrevCoverageIs
    <3>3. phrase = <<first, 1>>
      BY <2>3, <3>1 DEF phrase
    <3>4. n # 0
      <4>1. candidates[phrase] # <<>>
        BY <1>8, <3>2, <3>3 DEF EveryWordHasRule
      <4>2. candidates[phrase] \in Seq([cost : Nat, state : RuleState])
        BY <1>2, PhraseFacts, TableAssumption DEF SearchInv, LoopsInv
      <4>3. \A q \in Seq([cost : Nat, state : RuleState]) : Len(q) = 0 => q = <<>>
        OBVIOUS
      <4>4. QED
        BY <1>3, <4>1, <4>2, <4>3
    <3>5. Conforms(node, first, 1)
      <4>1. PICK s \in H!Stored(holder[PrevCardinality]) : s = <<PrevCoverage, node>>
        BY <1>2, <3>2, StoredIs
      <4>2. s[1] = PrevCoverage /\ s[2] = node
        BY <4>1
      <4>3. QED
        BY <3>1, <4>2, FirstGapIsInReach
    <3>6. QED
      BY <1>7, <2>1, <3>3, <3>4, <3>5
  <2>4. QED
    BY <2>2, <2>3
<1>9. Reached => Reached'
  <2>1. \A k \in 0..NewCardinality-1 : holder'[k] = holder[k]
    BY <1>6, LoopFacts
  <2>2. QED
    BY <1>1, <2>1 DEF Reached, Looping
<1>10. QED
  BY <1>1, <1>7, <1>8, <1>9 DEF ProgressInv, EveryWordHasRule

LEMMA EndPhraseProgresses ==
    ASSUME SearchInv, ProgressInv, EndPhrase
    PROVE  ProgressInv'
<1> DEFINE c == H!Deselect(curr)  first == FirstEmptyPosition(PrevCoverage)
<1>1. /\ UNCHANGED <<candidates, NewCardinality, PrevCardinality, PrevCoverage>>
      /\ pc = "nodes" /\ pc' = "positions" /\ NewPhraseBeginPos' = NewPhraseBeginPos + 1
      /\ nodes = {} /\ holder' = [holder EXCEPT ![NewCardinality] = c]
  BY DEF EndPhrase, curr
<1>2. curr.selected \in curr.keys /\ Live(curr)
  BY <1>1 DEF SearchInv, PhraseInv, ProgressInv, Looping
<1>3. Live(c) /\ H!Stored(c) = H!Stored(curr)
  BY <1>2, LoopFacts, DeselectIs, DeselectIsLive
<1> HIDE DEF c
<1>4. curr' = c /\ \A k \in 0..N : k # NewCardinality => holder'[k] = holder[k]
  BY <1>1, LoopFacts DEF SearchInv, Sane, curr
<1>5. NothingMissed => NothingMissed'
  <2>1. SUFFICES ASSUME NothingMissed, Untouched PROVE NewPhraseBeginPos + 1 <= first
    BY <1>1, <1>3, <1>4 DEF NothingMissed, Untouched, Looping
  <2>2. NewPhraseBeginPos <= first /\ NewPhraseBeginPos # first
    BY <1>1, <2>1, PrevCoverageIs DEF NothingMissed
  <2>3. QED
    BY <1>1, <2>2, PrevCoverageIs
<1>6. Reached => Reached'
  <2>1. \A k \in 0..NewCardinality-1 : holder'[k] = holder[k]
    BY <1>4, LoopFacts
  <2>2. QED
    BY <1>1, <2>1 DEF Reached, Looping
<1>7. QED
  BY <1>1, <1>3, <1>4, <1>5, <1>6 DEF ProgressInv, EveryWordHasRule

LEMMA EndCardinalityProgresses ==
    ASSUME LogBeamWidth < 0, SearchInv, ProgressInv, EndCardinality
    PROVE  ProgressInv'
<1>1. PICK c \in H!prune(curr) : holder' = [holder EXCEPT ![NewCardinality] = c]
  BY DEF EndCardinality, Finalized
<1>2. /\ UNCHANGED candidates /\ pc = "coverages" /\ todo = {}
      /\ PrevCardinality + 1 = NewCardinality
  BY DEF EndCardinality
<1>3. NoneEmpty(curr) /\ Live(curr)
  BY <1>2 DEF SearchInv, LoopsInv, ProgressInv, Looping
<1>4. holder'[NewCardinality] = c /\ \A k \in 0..N : k # NewCardinality => holder'[k] = holder[k]
  BY <1>1, LoopFacts DEF SearchInv, Sane
<1>5. ASSUME NothingMissed, Reached
      PROVE  \A k \in 0..NewCardinality : H!Stored(holder'[k]) # {}
  <2>1. H!Stored(curr) # {}
    <3>1. SUFFICES ASSUME H!Stored(curr) = {} PROVE FALSE
      OBVIOUS
    <3>2. holder[PrevCardinality].keys = {}
      BY <1>2, <1>5, <3>1 DEF NothingMissed, Untouched, Looping
    <3>3. H!Stored(holder[PrevCardinality]) # {}
      BY <1>5, LoopFacts DEF Reached
    <3>4. QED
      BY <3>2, <3>3, StoredIs
  <2>2. H!Stored(c) # {}
    BY <1>3, <2>1, PruneIsLive
  <2>3. ASSUME NEW k \in 0..NewCardinality PROVE H!Stored(holder'[k]) # {}
    <3>1. CASE k = NewCardinality
      BY <1>4, <2>2, <3>1
    <3>2. CASE k # NewCardinality
      <4>1. k \in 0..NewCardinality-1 /\ k \in 0..N
        BY <3>2, LoopFacts
      <4>2. QED
        BY <1>4, <1>5, <3>2, <4>1 DEF Reached
    <3>3. QED
      BY <3>1, <3>2
  <2>4. QED
    BY <2>3
<1>6. CASE NewCardinality < N
  <2>1. /\ NewCardinality' = NewCardinality + 1 /\ pc' = "coverages"
        /\ todo' = holder'[PrevCardinality'].keys
    BY <1>2, <1>6 DEF EndCardinality
  <2>2. curr' = H!EmptyContainer
    <3>1. NewCardinality + 1 \in 0..N /\ NewCardinality + 1 > NewCardinality
      BY <1>6, LoopFacts
    <3>2. holder[NewCardinality + 1] = H!EmptyContainer
      BY <3>1 DEF SearchInv, Sane
    <3>3. QED
      BY <1>4, <2>1, <3>1, <3>2, LoopFacts DEF curr
  <2>3. NothingMissed'
    BY <2>1 DEF NothingMissed
  <2>4. NothingMissed /\ Reached => Reached'
    <3>1. \A k \in 0..(NewCardinality + 1) - 1 : k \in 0..NewCardinality
      BY LoopFacts
    <3>2. QED
      BY <1>5, <2>1, <3>1 DEF Reached, Looping
  <2>5. QED
    BY <1>2, <2>2, <2>3, <2>4, EmptyIsLive DEF ProgressInv, EveryWordHasRule
<1>7. CASE ~(NewCardinality < N)
  <2>1. UNCHANGED NewCardinality /\ pc' = "goal" /\ NewCardinality = N
    BY <1>7, LoopFacts DEF EndCardinality
  <2>2. ~Looping' /\ NothingMissed'
    BY <2>1 DEF NothingMissed, Untouched, Looping
  <2>3. NothingMissed /\ Reached => Reached'
    <3>1. \A k \in 0..NewCardinality-1 : k \in 0..NewCardinality
      BY LoopFacts
    <3>2. NewCardinality \in 0..NewCardinality
      BY LoopFacts
    <3>3. QED
      BY <1>5, <2>1, <3>1, <3>2 DEF Reached, curr
  <2>4. QED
    BY <1>2, <2>2, <2>3 DEF ProgressInv, EveryWordHasRule
<1>8. QED
  BY <1>6, <1>7

LEMMA FindGoalProgresses ==
    ASSUME SearchInv, ProgressInv, FindGoal
    PROVE  ProgressInv'
<1>1. /\ UNCHANGED <<candidates, holder, NewCardinality, PrevCardinality>> /\ pc = "goal" /\ pc' = "done"
  BY DEF FindGoal
<1>2. ~Looping /\ ~Looping' /\ NothingMissed'
  BY <1>1 DEF Looping, NothingMissed, Untouched
<1>3. ASSUME Reached PROVE Reached'
  <2>1. NewCardinality = N /\ H!Stored(curr) # {}
    BY <1>2, <1>3 DEF Reached
  <2>2. PICK s \in H!Stored(holder[N]) : TRUE
    BY <2>1 DEF curr
  <2>3. s[1] \in SUBSET Position /\ Cardinality(s[1]) = N /\ s[2] \in holder[N].lex[s[1]].nodes
    BY <2>1, <2>2, LoopFacts, CoverageOfNode, StoredIs
  <2>4. s[1] = Position
    <3>1. IsFiniteSet(Position) /\ Cardinality(Position) = N
      <4>1. 0 \in Int /\ N - 1 \in Int /\ ~(0 > N - 1) /\ (N - 1) - 0 + 1 = N
        BY LoopFacts
      <4>2. QED
        BY <4>1, FS_Interval DEF Position
    <3>2. \A v \in SUBSET Position : Cardinality(v) = Cardinality(Position) => v = Position
      BY <3>1, FS_Subset
    <3>3. QED
      BY <2>3, <3>1, <3>2
  <2>5. GoalNode' \in holder[N].lex[Position].nodes
    BY <2>3, <2>4 DEF FindGoal
  <2>6. QED
    BY <1>1, <1>2, <1>3, <2>1, <2>5 DEF Reached, curr
<1>4. QED
  BY <1>1, <1>2, <1>3 DEF ProgressInv, EveryWordHasRule

\* A beam that is narrower than every hypothesis lets the search of a sentence whose
\* words have rules reach every cardinality and find a translation.
THEOREM TranslationIsFound ==
    ASSUME N < 2^PositionBits, LogBeamWidth < 0
    PROVE  Spec /\ []CostsAreFinite => []EmptyOnlyByTraining
<1>1. Init => ProgressInv
  BY InitProgresses
<1>2. SearchInv /\ ProgressInv /\ CostsAreFinite /\ [Next]_vars => ProgressInv'
  <2> SUFFICES ASSUME SearchInv, ProgressInv, CostsAreFinite, [Next]_vars PROVE ProgressInv'
    OBVIOUS
  <2>1. ASSUME NEW coverage \in SUBSET Position, VisitCoverage(coverage) PROVE ProgressInv'
    BY <2>1, VisitCoverageProgresses
  <2>2. CASE NextPrevCardinality
    BY <2>2, NextPrevCardinalityProgresses
  <2>3. CASE SkipPosition
    BY <2>3, SkipPositionProgresses
  <2>4. CASE SelectPhrase
    BY <2>4, SelectPhraseProgresses
  <2>5. ASSUME NEW node \in nodes, ExtendNode(node) PROVE ProgressInv'
    BY <2>5, ExtendNodeProgresses
  <2>6. CASE EndPhrase
    BY <2>6, EndPhraseProgresses
  <2>7. CASE EndCoverage
    BY <2>7, EndCoverageProgresses
  <2>8. CASE EndCardinality
    BY <2>8, EndCardinalityProgresses
  <2>9. CASE FindGoal
    BY <2>9, FindGoalProgresses
  <2>10. CASE UNCHANGED vars
    BY <2>10 DEF ProgressInv, NothingMissed, Untouched, Reached, Looping, EveryWordHasRule, curr, vars
  <2>11. QED
    BY <2>1, <2>2, <2>3, <2>4, <2>5, <2>6, <2>7, <2>8, <2>9, <2>10 DEF Next
<1>3. ProgressInv => EmptyOnlyByTraining
  BY DEF ProgressInv, Reached, EmptyOnlyByTraining
<1>4. QED
  BY <1>1, <1>2, <1>3, SearchIsInvariant, PTL DEF Spec

-----------------------------------------------------------------------------
(* Sums over finite sets.                                                     *)

One(s) == CHOOSE x \in s : TRUE

\* g sums f over each subset of S, one element after another.
IsSum(g, f, S) == g = [s \in SUBSET S |-> IF s = {} THEN 0 ELSE f[One(s)] + g[s \ {One(s)}]]

Sum(f, S) == MapThenSumSet(LAMBDA x : f[x], S)

LEMMA OneIs ==
    ASSUME NEW S, S # {}
    PROVE  One(S) \in S
BY DEF One

LEMMA Smaller ==
    ASSUME NEW S, IsFiniteSet(S), NEW x \in S
    PROVE  /\ IsFiniteSet(S \ {x}) /\ Cardinality(S) \in Nat /\ Cardinality(S) # 0
           /\ Cardinality(S \ {x}) = Cardinality(S) - 1 /\ Cardinality(S \ {x}) \in Nat
<1>1. IsFiniteSet(S \ {x}) /\ Cardinality(S \ {x}) = Cardinality(S) - 1
  BY FS_RemoveElement
<1>2. Cardinality(S) \in Nat /\ Cardinality(S \ {x}) \in Nat
  BY <1>1, FS_CardinalityType
<1>3. QED
  BY <1>1, <1>2

LEMMA SumAt ==
    ASSUME NEW f, NEW S, NEW g, IsSum(g, f, S), NEW T \in SUBSET S
    PROVE  g[T] = IF T = {} THEN 0 ELSE f[One(T)] + g[T \ {One(T)}]
BY DEF IsSum

LEMMA SumExists ==
    ASSUME NEW f, NEW S, IsFiniteSet(S)
    PROVE  \E g : IsSum(g, f, S)
<1> DEFINE Few(n) == {s \in SUBSET S : Cardinality(s) <= n}
           next(g, s) == IF s = {} THEN 0 ELSE f[One(s)] + g[s \ {One(s)}]
           Upto(g, n) == g = [s \in Few(n) |-> next(g, s)]
<1>1. \A n \in Nat : \E g : Upto(g, n)
  <2> DEFINE A == {n \in Nat : ~\E g : Upto(g, n)}
  <2>1. SUFFICES ASSUME A # {} PROVE FALSE
    OBVIOUS
  <2>2. A \in SUBSET Nat
    OBVIOUS
  <2>3. PICK m \in A : \A k \in A : m <= k
    <3> HIDE DEF A
    <3>1. QED
      BY <2>1, <2>2, LeastNumber
  <2>4. m # 0
    <3> DEFINE g == [s \in Few(0) |-> 0]
    <3>1. \A s \in Few(0) : s = {}
      <4>1. ASSUME NEW s \in SUBSET S, Cardinality(s) <= 0 PROVE s = {}
        <5>1. IsFiniteSet(s) /\ Cardinality(s) \in Nat
          BY FS_Subset, FS_CardinalityType
        <5>2. QED
          BY <4>1, <5>1, FS_EmptySet
      <4>2. QED
        BY <4>1
    <3>2. Upto(g, 0)
      BY <3>1
    <3>3. QED
      BY <3>2
  <2>5. m \in Nat /\ m - 1 \in Nat
    BY <2>4
  <2>6. m - 1 \notin A
    <3> HIDE DEF A
    <3>1. QED
      BY <2>3, <2>5
  <2>7. PICK h : Upto(h, m - 1)
    BY <2>5, <2>6
  <2> DEFINE g == [s \in Few(m) |-> IF s \in Few(m - 1) THEN h[s] ELSE next(h, s)]
  <2>8. \A s \in Few(m) : s # {} => s \ {One(s)} \in Few(m - 1)
    <3>1. ASSUME NEW s \in SUBSET S, Cardinality(s) <= m, s # {} PROVE Cardinality(s \ {One(s)}) <= m - 1
      <4>1. IsFiniteSet(s) /\ One(s) \in s
        BY <3>1, FS_Subset, OneIs
      <4>2. QED
        BY <2>5, <3>1, <4>1, Smaller
    <3>2. QED
      BY <3>1
  <2>9. \A s \in Few(m - 1) : s \in Few(m)
    <3>1. ASSUME NEW s \in SUBSET S, Cardinality(s) <= m - 1 PROVE Cardinality(s) <= m
      <4>1. Cardinality(s) \in Nat
        BY FS_Subset, FS_CardinalityType
      <4>2. QED
        BY <2>5, <3>1, <4>1
    <3>2. QED
      BY <3>1
  <2>10. \A s \in Few(m - 1) : h[s] = next(h, s)
    BY <2>7
  <2> HIDE DEF Few
  <2>11. /\ g = [s \in Few(m) |-> g[s]]
         /\ \A s \in Few(m) : g[s] = IF s \in Few(m - 1) THEN h[s] ELSE next(h, s)
    OBVIOUS
  <2> HIDE DEF g
  <2>12. ASSUME NEW s \in Few(m) PROVE g[s] = next(g, s)
    <3>1. g[s] = next(h, s)
      BY <2>10, <2>11
    <3>2. CASE s = {}
      BY <3>1, <3>2
    <3>3. CASE s # {}
      <4>1. g[s \ {One(s)}] = h[s \ {One(s)}]
        BY <2>8, <2>9, <2>11, <3>3
      <4>2. QED
        BY <3>1, <4>1
    <3>4. QED
      BY <3>2, <3>3
  <2>13. Upto(g, m)
    <3> HIDE DEF next
    <3>1. QED
      BY <2>11, <2>12
  <2>14. QED
    BY <2>13
<1>2. Cardinality(S) \in Nat
  BY FS_CardinalityType
<1>3. Few(Cardinality(S)) = SUBSET S
  BY FS_Subset
<1>4. PICK g : Upto(g, Cardinality(S))
  BY <1>1, <1>2
<1>5. IsSum(g, f, S)
  BY <1>3, <1>4 DEF IsSum
<1>6. QED
  BY <1>5

\* The least subset that fails.
LEMMA LeastSubset ==
    ASSUME NEW S, IsFiniteSet(S), NEW Bad \in SUBSET SUBSET S, Bad # {}
    PROVE  \E T \in Bad : \A x \in T : T \ {x} \notin Bad
<1> DEFINE C == {Cardinality(T) : T \in Bad}
<1>1. \A T \in Bad : IsFiniteSet(T) /\ Cardinality(T) \in Nat
  BY FS_Subset, FS_CardinalityType
<1>2. C \in SUBSET Nat /\ C # {}
  BY <1>1
<1>3. PICK m \in C : \A k \in C : m <= k
  <2> HIDE DEF C
  <2>1. QED
    BY <1>2, LeastNumber
<1>4. PICK T \in Bad : Cardinality(T) = m
  OBVIOUS
<1>5. ASSUME NEW x \in T, T \ {x} \in Bad PROVE FALSE
  <2>1. Cardinality(T \ {x}) = m - 1 /\ m \in Nat
    BY <1>1, <1>4, Smaller
  <2>2. m <= Cardinality(T \ {x})
    BY <1>3, <1>5
  <2>3. QED
    BY <2>1, <2>2
<1>6. QED
  BY <1>5

LEMMA SumIsUnique ==
    ASSUME NEW f, NEW S, IsFiniteSet(S), NEW R, NEW g, NEW h, IsSum(g, f, S), IsSum(h, f, R), S \subseteq R
    PROVE  g[S] = h[S]
<1> DEFINE Bad == {T \in SUBSET S : g[T] # h[T]}
<1>1. SUFFICES ASSUME Bad # {} PROVE FALSE
  OBVIOUS
<1>2. PICK T \in Bad : \A x \in T : T \ {x} \notin Bad
  <2>1. Bad \in SUBSET SUBSET S
    OBVIOUS
  <2> HIDE DEF Bad
  <2>2. QED
    BY <1>1, <2>1, LeastSubset
<1>3. T \in SUBSET S /\ T \in SUBSET R /\ g[T] # h[T]
  OBVIOUS
<1>4. /\ g[T] = IF T = {} THEN 0 ELSE f[One(T)] + g[T \ {One(T)}]
      /\ h[T] = IF T = {} THEN 0 ELSE f[One(T)] + h[T \ {One(T)}]
  BY <1>3, SumAt
<1>5. T # {}
  BY <1>3, <1>4
<1>6. g[T \ {One(T)}] = h[T \ {One(T)}]
  BY <1>2, <1>3, <1>5, OneIs
<1>7. QED
  BY <1>3, <1>4, <1>5, <1>6

LEMMA SumRange ==
    ASSUME NEW f, NEW S, IsFiniteSet(S), NEW g, IsSum(g, f, S), \A x \in S : f[x] \in Nat
    PROVE  \A T \in SUBSET S : g[T] \in Nat
<1> DEFINE Bad == {T \in SUBSET S : g[T] \notin Nat}
<1>1. SUFFICES ASSUME Bad # {} PROVE FALSE
  OBVIOUS
<1>2. PICK T \in Bad : \A x \in T : T \ {x} \notin Bad
  <2>1. Bad \in SUBSET SUBSET S
    OBVIOUS
  <2> HIDE DEF Bad
  <2>2. QED
    BY <1>1, <2>1, LeastSubset
<1>3. g[T] = IF T = {} THEN 0 ELSE f[One(T)] + g[T \ {One(T)}]
  <2>1. T \in SUBSET S
    OBVIOUS
  <2>2. QED
    BY <2>1, SumAt
<1>4. CASE T = {}
  BY <1>3, <1>4
<1>5. CASE T # {}
  <2>1. One(T) \in T /\ T \ {One(T)} \notin Bad
    BY <1>2, <1>5, OneIs
  <2>2. f[One(T)] \in Nat /\ g[T \ {One(T)}] \in Nat
    BY <2>1
  <2>3. QED
    BY <1>3, <1>5, <2>2
<1>6. QED
  BY <1>4, <1>5

LEMMA Multiples ==
    /\ \A a, c \in Nat : a * c \in Nat
    /\ \A a, c \in Nat : (a + 1) * c = a * c + c
    /\ \A a, b, c \in Nat : a <= b => a * c <= b * c
<1>1. \A a, c \in Nat : a * c \in Nat /\ (a + 1) * c = a * c + c
  OBVIOUS
<1>2. ASSUME NEW a \in Nat, NEW b \in Nat, NEW c \in Nat, a <= b PROVE a * c <= b * c
  <2>1. PICK d \in Nat : b = a + d
    BY <1>2
  <2>2. b * c = a * c + d * c
    BY <2>1
  <2>3. a * c \in Nat /\ d * c \in Nat
    BY <1>1
  <2>4. QED
    BY <2>2, <2>3
<1>3. QED
  BY <1>1, <1>2

LEMMA SumIsBounded ==
    ASSUME NEW f, NEW S, IsFiniteSet(S), NEW g, IsSum(g, f, S), NEW m \in Nat, \A x \in S : f[x] \in 0..m
    PROVE  \A T \in SUBSET S : g[T] \in 0 .. Cardinality(T) * m
<1> DEFINE Bad == {T \in SUBSET S : g[T] \notin 0 .. Cardinality(T) * m}
<1>1. SUFFICES ASSUME Bad # {} PROVE FALSE
  OBVIOUS
<1>2. PICK T \in Bad : \A x \in T : T \ {x} \notin Bad
  <2>1. Bad \in SUBSET SUBSET S
    OBVIOUS
  <2> HIDE DEF Bad
  <2>2. QED
    BY <1>1, <2>1, LeastSubset
<1>3. g[T] = IF T = {} THEN 0 ELSE f[One(T)] + g[T \ {One(T)}]
  BY SumAt
<1>4. IsFiniteSet(T)
  BY FS_Subset
<1>5. CASE T = {}
  <2>1. Cardinality(T) * m = 0
    BY <1>5, FS_EmptySet
  <2>2. QED
    BY <1>3, <1>5, <2>1
<1>6. CASE T # {}
  <2> DEFINE U == T \ {One(T)}
  <2>1. One(T) \in T /\ U \notin Bad
    BY <1>2, <1>6, OneIs
  <2>2. f[One(T)] \in 0..m /\ g[U] \in 0 .. Cardinality(U) * m
    BY <2>1
  <2>3. Cardinality(T) = Cardinality(U) + 1 /\ Cardinality(U) \in Nat
    BY <1>4, <2>1, Smaller
  <2>4. g[T] = f[One(T)] + g[U] /\ g[T] \notin 0 .. Cardinality(T) * m
    BY <1>3, <1>6
  <2> HIDE DEF U
  <2>5. PICK c \in Nat : c = Cardinality(U)
    BY <2>3
  <2>6. Cardinality(T) * m = c * m + m /\ c * m \in Nat
    BY <2>3, <2>5, Multiples
  <2>7. PICK v \in Nat : v = c * m
    BY <2>6
  <2>8. QED
    BY <2>2, <2>4, <2>5, <2>6, <2>7
<1>7. QED
  BY <1>5, <1>6

\* The order does not matter.
LEMMA SumWithout ==
    ASSUME NEW f, NEW S, IsFiniteSet(S), NEW g, IsSum(g, f, S), \A x \in S : f[x] \in Nat
    PROVE  \A T \in SUBSET S : \A x \in T : g[T] = f[x] + g[T \ {x}]
<1> DEFINE Bad == {T \in SUBSET S : \E x \in T : g[T] # f[x] + g[T \ {x}]}
<1>1. SUFFICES ASSUME Bad # {} PROVE FALSE
  OBVIOUS
<1>2. PICK T \in Bad : \A x \in T : T \ {x} \notin Bad
  <2>1. Bad \in SUBSET SUBSET S
    OBVIOUS
  <2> HIDE DEF Bad
  <2>2. QED
    BY <1>1, <2>1, LeastSubset
<1>3. PICK x \in T : g[T] # f[x] + g[T \ {x}]
  OBVIOUS
<1>4. PICK y : y = One(T)
  OBVIOUS
<1>5. y \in T /\ g[T] = f[y] + g[T \ {y}] /\ T \in SUBSET S
  <2>1. T # {} /\ T \in SUBSET S
    OBVIOUS
  <2>2. QED
    BY <1>4, <2>1, OneIs, SumAt
<1>6. x # y
  BY <1>3, <1>5
<1>7. T \ {y} \notin Bad /\ T \ {x} \notin Bad
  BY <1>2, <1>5
<1>8. g[T \ {y}] = f[x] + g[(T \ {y}) \ {x}]
  BY <1>5, <1>6, <1>7
<1>9. g[T \ {x}] = f[y] + g[(T \ {x}) \ {y}]
  BY <1>5, <1>6, <1>7
<1>10. (T \ {y}) \ {x} = (T \ {x}) \ {y}
  OBVIOUS
<1>11. f[x] \in Nat /\ f[y] \in Nat /\ g[(T \ {x}) \ {y}] \in Nat
  BY <1>5, SumRange
<1>12. PICK a \in Nat, b \in Nat, c \in Nat : a = f[x] /\ b = f[y] /\ c = g[(T \ {x}) \ {y}]
  BY <1>11
<1>13. g[T] = b + (a + c)
  BY <1>5, <1>8, <1>10, <1>12
<1>14. f[x] + g[T \ {x}] = a + (b + c)
  BY <1>9, <1>12
<1>15. QED
  BY <1>3, <1>13, <1>14

LEMMA SumIs ==
    ASSUME NEW f, NEW S, IsFiniteSet(S)
    PROVE  \E g : IsSum(g, f, S) /\ Sum(f, S) = g[S]
<1>1. Sum(f, S) = (CHOOSE g : IsSum(g, f, S))[S]
  BY DEF Sum, MapThenSumSet, MapThenFoldSet, IsSum, One
<1>2. PICK h : h = CHOOSE g : IsSum(g, f, S)
  OBVIOUS
<1>3. IsSum(h, f, S)
  BY <1>2, SumExists
<1>4. QED
  BY <1>1, <1>2, <1>3

-----------------------------------------------------------------------------
(* Rest costs of phrases.                                                     *)

LEMMA LeastIs ==
    ASSUME NEW S \in SUBSET Nat
    PROVE  /\ Least(S) \in Nat /\ (S = {} => Least(S) = Infinity)
           /\ S # {} => Least(S) \in S
           /\ \A k \in S : Least(S) <= k
BY MinIs, ContainerAssumption DEF Least

LEMMA RulesAre ==
    ASSUME candidates \in CandidateTables, NEW p \in Phrase, NEW i \in DOMAIN candidates[p]
    PROVE  candidates[p][i].cost \in Nat /\ candidates[p][i].state \in RuleState
<1>1. candidates[p] \in Seq([cost : Nat, state : RuleState])
  BY TableAssumption
<1>2. ASSUME NEW R, NEW q \in Seq(R) PROVE \A j \in DOMAIN q : q[j] \in R
  OBVIOUS
<1>3. candidates[p][i] \in [cost : Nat, state : RuleState]
  BY <1>1, <1>2
<1>4. QED
  BY <1>3

LEMMA BestIs ==
    ASSUME candidates \in CandidateTables, NEW p \in Phrase
    PROVE  /\ bestApproximateCost(p) \in Nat
           /\ \A i \in DOMAIN candidates[p] : bestApproximateCost(p) <= candidates[p][i].cost
<1> DEFINE S == {candidates[p][i].cost : i \in DOMAIN candidates[p]}
<1>1. S \in SUBSET Nat
  BY RulesAre
<1>2. \A i \in DOMAIN candidates[p] : candidates[p][i].cost \in S
  OBVIOUS
<1> HIDE DEF S
<1>3. Least(S) \in Nat /\ \A k \in S : Least(S) <= k
  BY <1>1, LeastIs
<1>4. bestApproximateCost(p) = Least(S)
  BY DEF bestApproximateCost, S
<1>5. QED
  BY <1>2, <1>3, <1>4

\* A phrase split in two.
Halves(R, p, k) == R[<<p[1], k>>] + R[<<p[1] + k, p[2] - k>>]
CheapestSplit(R, p) ==
    Least({bestApproximateCost(p)} \cup {Halves(R, p, k) : k \in 1..p[2]-1})

LEMMA HalvesAre ==
    ASSUME NEW p \in Phrase, NEW k \in 1..p[2]-1
    PROVE  /\ <<p[1], k>> \in Phrase /\ k < p[2]
           /\ <<p[1] + k, p[2] - k>> \in Phrase /\ p[2] - k < p[2]
BY SentenceAssumption DEF Phrase, Position

LEMMA MatrixIs == RestCostMatrix = [p \in Phrase |-> CheapestSplit(RestCostMatrix, p)]
<1> DEFINE Short(n) == {p \in Phrase : p[2] <= n}
           Upto(R, n) == R = [p \in Short(n) |-> CheapestSplit(R, p)]
<1>1. \A n \in Nat : \E R : Upto(R, n)
  <2> DEFINE A == {n \in Nat : ~\E R : Upto(R, n)}
  <2>1. SUFFICES ASSUME A # {} PROVE FALSE
    OBVIOUS
  <2>2. A \in SUBSET Nat
    OBVIOUS
  <2>3. PICK m \in A : \A k \in A : m <= k
    <3> HIDE DEF A
    <3>1. QED
      BY <2>1, <2>2, LeastNumber
  <2>4. m # 0
    <3> DEFINE R == [p \in Short(0) |-> 0]
    <3>1. Short(0) = {}
      BY PhraseIs
    <3>2. Upto(R, 0)
      BY <3>1
    <3>3. QED
      BY <3>2
  <2>5. m \in Nat /\ m - 1 \in Nat
    BY <2>4
  <2>6. m - 1 \notin A
    <3> HIDE DEF A
    <3>1. QED
      BY <2>3, <2>5
  <2>7. PICK Q : Upto(Q, m - 1)
    BY <2>5, <2>6
  <2> DEFINE R == [p \in Short(m) |-> IF p \in Short(m - 1) THEN Q[p] ELSE CheapestSplit(Q, p)]
  <2>8. \A p \in Short(m) : \A k \in 1..p[2]-1 :
           <<p[1], k>> \in Short(m - 1) /\ <<p[1] + k, p[2] - k>> \in Short(m - 1)
    <3>1. ASSUME NEW p \in Phrase, p[2] <= m, NEW k \in 1..p[2]-1
          PROVE  /\ <<p[1], k>> \in Phrase /\ k <= m - 1
                 /\ <<p[1] + k, p[2] - k>> \in Phrase /\ p[2] - k <= m - 1
      BY <2>5, <3>1, HalvesAre, PhraseIs
    <3>2. QED
      BY <3>1
  <2>9. \A p \in Short(m - 1) : p \in Short(m)
    BY <2>5, PhraseIs
  <2>10. \A p \in Short(m - 1) : Q[p] = CheapestSplit(Q, p)
    BY <2>7
  <2> HIDE DEF Short
  <2>11. /\ R = [p \in Short(m) |-> R[p]]
         /\ \A p \in Short(m) : R[p] = IF p \in Short(m - 1) THEN Q[p] ELSE CheapestSplit(Q, p)
    OBVIOUS
  <2> HIDE DEF R
  <2>12. ASSUME NEW p \in Short(m) PROVE R[p] = CheapestSplit(R, p)
    <3>1. R[p] = CheapestSplit(Q, p)
      BY <2>10, <2>11
    <3>2. \A k \in 1..p[2]-1 : Halves(R, p, k) = Halves(Q, p, k)
      BY <2>8, <2>9, <2>11 DEF Halves
    <3>3. {Halves(R, p, k) : k \in 1..p[2]-1} = {Halves(Q, p, k) : k \in 1..p[2]-1}
      BY <3>2
    <3>4. QED
      BY <3>1, <3>3 DEF CheapestSplit
  <2>13. Upto(R, m)
    BY <2>11, <2>12
  <2>14. QED
    BY <2>13
<1>2. N \in Nat /\ Short(N) = Phrase
  BY SentenceAssumption DEF Phrase
<1>3. PICK R : Upto(R, N)
  BY <1>1, <1>2
<1>4. R = [p \in Phrase |-> CheapestSplit(R, p)]
  BY <1>2, <1>3
<1>5. RestCostMatrix = CHOOSE Q : Q = [p \in Phrase |-> CheapestSplit(Q, p)]
  BY DEF RestCostMatrix, CheapestSplit, Halves
<1>6. QED
  BY <1>4, <1>5

\* The shortest phrase that fails.
LEMMA ShortestPhrase ==
    ASSUME NEW Bad \in SUBSET Phrase, Bad # {}
    PROVE  \E p \in Bad : \A q \in Phrase : q[2] < p[2] => q \notin Bad
<1> DEFINE L == {p[2] : p \in Bad}
<1>1. L \in SUBSET Nat /\ L # {}
  BY PhraseIs
<1>2. PICK l \in L : \A k \in L : l <= k
  <2> HIDE DEF L
  <2>1. QED
    BY <1>1, LeastNumber
<1>3. PICK p \in Bad : p[2] = l
  OBVIOUS
<1>4. ASSUME NEW q \in Bad, q[2] < p[2] PROVE FALSE
  <2>1. l <= q[2] /\ l \in Nat /\ q[2] \in Nat
    BY <1>1, <1>2
  <2>2. QED
    BY <1>3, <1>4, <2>1
<1>5. QED
  BY <1>4

LEMMA MatrixValues ==
    ASSUME candidates \in CandidateTables
    PROVE  \A p \in Phrase : RestCostMatrix[p] \in Nat
<1> DEFINE R == RestCostMatrix
           Bad == {p \in Phrase : R[p] \notin Nat}
<1>1. SUFFICES ASSUME Bad # {} PROVE FALSE
  OBVIOUS
<1>2. PICK p \in Bad : \A q \in Phrase : q[2] < p[2] => q \notin Bad
  <2>1. Bad \in SUBSET Phrase
    OBVIOUS
  <2> HIDE DEF Bad
  <2>2. QED
    BY <1>1, <2>1, ShortestPhrase
<1>3. p \in Phrase /\ R[p] \notin Nat
  OBVIOUS
<1>4. R[p] = CheapestSplit(R, p)
  BY <1>3, MatrixIs
<1> HIDE DEF R
<1>5. ASSUME NEW k \in 1..p[2]-1 PROVE Halves(R, p, k) \in Nat
  <2>1. R[<<p[1], k>>] \in Nat /\ R[<<p[1] + k, p[2] - k>>] \in Nat
    BY <1>2, <1>3, HalvesAre
  <2>2. QED
    BY <2>1 DEF Halves
<1>6. {bestApproximateCost(p)} \cup {Halves(R, p, k) : k \in 1..p[2]-1} \in SUBSET Nat
  BY <1>3, <1>5, BestIs
<1>7. CheapestSplit(R, p) \in Nat
  BY <1>6, LeastIs DEF CheapestSplit
<1>8. QED
  BY <1>3, <1>4, <1>7

\* A phrase costs no more as a whole, or in two parts.
LEMMA MatrixBounds ==
    ASSUME candidates \in CandidateTables, NEW p \in Phrase
    PROVE  /\ RestCostMatrix[p] <= bestApproximateCost(p)
           /\ \A k \in 1..p[2]-1 : RestCostMatrix[p] <= Halves(RestCostMatrix, p, k)
<1> DEFINE R == RestCostMatrix
           S == {bestApproximateCost(p)} \cup {Halves(R, p, k) : k \in 1..p[2]-1}
<1>1. R[p] = Least(S)
  BY MatrixIs DEF CheapestSplit
<1>2. \A k \in 1..p[2]-1 : Halves(R, p, k) \in Nat
  BY HalvesAre, MatrixValues DEF Halves
<1>3. S \in SUBSET Nat
  BY <1>2, BestIs
<1>4. bestApproximateCost(p) \in S /\ \A k \in 1..p[2]-1 : Halves(R, p, k) \in S
  OBVIOUS
<1> HIDE DEF S, R
<1>5. \A k \in S : Least(S) <= k
  BY <1>3, LeastIs
<1>6. QED
  BY <1>1, <1>4, <1>5 DEF R

\* Words that have a rule of no more than C make phrases of no more than C a word.
LEMMA MatrixIsBounded ==
    ASSUME candidates \in CandidateTables, NEW C \in Nat,
           \A b \in Position : bestApproximateCost(<<b, 1>>) <= C
    PROVE  \A p \in Phrase : RestCostMatrix[p] <= p[2] * C
<1> DEFINE R == RestCostMatrix
           Bad == {p \in Phrase : ~(R[p] <= p[2] * C)}
<1>1. SUFFICES ASSUME Bad # {} PROVE FALSE
  OBVIOUS
<1>2. PICK p \in Bad : \A q \in Phrase : q[2] < p[2] => q \notin Bad
  <2>1. Bad \in SUBSET Phrase
    OBVIOUS
  <2> HIDE DEF Bad
  <2>2. QED
    BY <1>1, <2>1, ShortestPhrase
<1>3. p \in Phrase /\ ~(R[p] <= p[2] * C)
  OBVIOUS
<1>4. \A q \in Phrase : R[q] \in Nat
  BY MatrixValues
<1>5. CASE p[2] = 1
  <2>1. p = <<p[1], 1>> /\ p[1] \in Position
    BY <1>3, <1>5 DEF Phrase
  <2>2. bestApproximateCost(p) <= C
    BY <2>1
  <2>3. R[p] <= bestApproximateCost(p) /\ bestApproximateCost(p) \in Nat /\ R[p] \in Nat
    BY <1>3, <1>4, MatrixBounds, BestIs
  <2>4. p[2] * C = C
    BY <1>5
  <2>5. QED
    BY <1>3, <2>2, <2>3, <2>4
<1>6. CASE p[2] # 1
  <2> DEFINE q == <<p[1], 1>>  r == <<p[1] + 1, p[2] - 1>>
  <2>1. 1 \in 1..p[2]-1
    BY <1>3, <1>6, PhraseIs
  <2>2. q \in Phrase /\ q[2] < p[2] /\ r \in Phrase /\ r[2] < p[2] /\ q[2] = 1 /\ r[2] = p[2] - 1
    BY <1>3, <2>1, HalvesAre
  <2>3. R[p] <= R[q] + R[r]
    BY <1>3, <2>1, MatrixBounds DEF Halves
  <2> HIDE DEF q, r
  <2>4. R[q] <= q[2] * C /\ R[r] <= r[2] * C
    BY <1>2, <2>2
  <2>5. PICK n \in Nat : n = p[2] - 1
    BY <1>3, PhraseIs
  <2>6. p[2] = n + 1
    BY <1>3, <2>5, PhraseIs
  <2>7. p[2] * C = n * C + C /\ n * C \in Nat
    BY <2>6, Multiples
  <2>8. PICK v \in Nat : v = n * C
    BY <2>7
  <2>9. R[q] <= C
    BY <2>2, <2>4
  <2>10. R[r] <= v
    BY <2>2, <2>4, <2>5, <2>8
  <2>11. R[p] \in Nat /\ R[q] \in Nat /\ R[r] \in Nat
    BY <1>3, <1>4, <2>2
  <2>12. QED
    BY <1>3, <2>3, <2>7, <2>8, <2>9, <2>10, <2>11
<1>7. QED
  BY <1>5, <1>6

LEMMA SumGrows ==
    ASSUME NEW f, NEW S, IsFiniteSet(S), NEW g, IsSum(g, f, S), \A x \in S : f[x] \in Nat,
           NEW U \in SUBSET S, NEW T \in SUBSET U
    PROVE  g[T] <= g[U]
<1> DEFINE Bad == {V \in SUBSET S : T \subseteq V /\ ~(g[T] <= g[V])}
<1>1. SUFFICES ASSUME Bad # {} PROVE FALSE
  OBVIOUS
<1>2. PICK V \in Bad : \A x \in V : V \ {x} \notin Bad
  <2>1. Bad \in SUBSET SUBSET S
    OBVIOUS
  <2> HIDE DEF Bad
  <2>2. QED
    BY <1>1, <2>1, LeastSubset
<1>3. V \in SUBSET S /\ T \in SUBSET S /\ T \subseteq V /\ ~(g[T] <= g[V])
  OBVIOUS
<1>4. \A W \in SUBSET S : g[W] \in Nat
  BY SumRange
<1>5. PICK x \in V : x \notin T
  <2>1. V # T
    BY <1>3, <1>4
  <2>2. QED
    BY <1>3, <2>1
<1>6. V \ {x} \in SUBSET S /\ T \subseteq V \ {x}
  BY <1>3, <1>5
<1>7. g[T] <= g[V \ {x}]
  BY <1>2, <1>6
<1>8. g[V] = f[x] + g[V \ {x}]
  BY <1>3, SumWithout
<1>9. f[x] \in Nat /\ g[V \ {x}] \in Nat /\ g[T] \in Nat
  BY <1>3, <1>4, <1>6
<1>10. QED
  BY <1>3, <1>7, <1>8, <1>9

-----------------------------------------------------------------------------
(* Gaps.                                                                      *)

LEMMA PhrasesAreFinite == IsFiniteSet(Phrase)
<1>1. IsFiniteSet(Position) /\ IsFiniteSet(1..N)
  BY SentenceAssumption, FS_Interval DEF Position
<1>2. IsFiniteSet(Position \X (1..N))
  BY <1>1, FS_Product
<1>3. QED
  BY <1>2, FS_Subset DEF Phrase

LEMMA GapIs ==
    ASSUME NEW v, NEW g \in Gaps(v)
    PROVE  /\ g \in Phrase /\ g[1] \in Nat /\ g[2] \in Nat \ {0} /\ g[1] + g[2] <= N /\ N \in Nat
           /\ \A i \in Nat : g[1] <= i /\ i < g[1] + g[2] => i \notin v
           /\ g[1] = 0 \/ g[1] - 1 \in v
           /\ g[1] + g[2] = N \/ g[1] + g[2] \in v
<1>1. g \in Phrase
  BY DEF Gaps
<1>2. g[1] \in Nat /\ g[2] \in Nat \ {0} /\ g[1] + g[2] <= N /\ N \in Nat
  BY <1>1, PhraseIs
<1>3. ASSUME NEW i \in Nat, g[1] <= i, i < g[1] + g[2] PROVE i \notin v
  <2>1. i \in Span(g[1], g[2])
    BY <1>2, <1>3 DEF Span
  <2>2. QED
    BY <2>1 DEF Gaps
<1>4. QED
  BY <1>1, <1>2, <1>3 DEF Gaps

\* What makes a gap.
LEMMA IsGap ==
    ASSUME NEW v, NEW p \in Phrase,
           \A i \in Nat : p[1] <= i /\ i < p[1] + p[2] => i \notin v,
           p[1] = 0 \/ p[1] - 1 \in v, p[1] + p[2] = N \/ p[1] + p[2] \in v
    PROVE  p \in Gaps(v)
<1>1. p[1] \in Nat /\ p[2] \in Nat
  BY PhraseIs
<1>2. \A i \in Span(p[1], p[2]) : i \in Nat /\ p[1] <= i /\ i < p[1] + p[2]
  BY <1>1 DEF Span
<1>3. Span(p[1], p[2]) \cap v = {}
  BY <1>2
<1>4. QED
  BY <1>3 DEF Gaps

\* Gaps that share a position are the same.
LEMMA GapsAreApart ==
    ASSUME NEW v, NEW g \in Gaps(v), NEW h \in Gaps(v), NEW i \in Nat,
           g[1] <= i, i < g[1] + g[2], h[1] <= i, i < h[1] + h[2]
    PROVE  g = h
<1>1. ASSUME NEW a \in Gaps(v), NEW b \in Gaps(v),
             a[1] <= i, i < a[1] + a[2], b[1] <= i, i < b[1] + b[2]
      PROVE  ~(a[1] < b[1]) /\ ~(a[1] + a[2] < b[1] + b[2])
  <2>1. /\ a[1] \in Nat /\ a[2] \in Nat /\ a[1] + a[2] <= N /\ N \in Nat
        /\ b[1] \in Nat /\ b[2] \in Nat /\ b[1] + b[2] <= N
    BY GapIs
  <2>2. ASSUME a[1] < b[1] PROVE FALSE
    <3>1. b[1] - 1 \in v
      BY <2>1, <2>2, GapIs
    <3>2. b[1] - 1 \in Nat /\ a[1] <= b[1] - 1 /\ b[1] - 1 < a[1] + a[2]
      BY <1>1, <2>1, <2>2
    <3>3. QED
      BY <3>1, <3>2, GapIs
  <2>3. ASSUME a[1] + a[2] < b[1] + b[2] PROVE FALSE
    <3>1. a[1] + a[2] \in v
      <4>1. a[1] + a[2] # N
        BY <2>1, <2>3
      <4>2. QED
        BY <4>1, GapIs
    <3>2. a[1] + a[2] \in Nat /\ b[1] <= a[1] + a[2]
      BY <1>1, <2>1
    <3>3. QED
      BY <2>3, <3>1, <3>2, GapIs
  <2>4. QED
    BY <2>2, <2>3
<1>2. ~(g[1] < h[1]) /\ ~(h[1] < g[1]) /\ ~(g[1] + g[2] < h[1] + h[2]) /\ ~(h[1] + h[2] < g[1] + g[2])
  BY <1>1
<1>3. g[1] \in Nat /\ g[2] \in Nat /\ h[1] \in Nat /\ h[2] \in Nat /\ g \in Phrase /\ h \in Phrase
  BY GapIs
<1>4. g[1] = h[1] /\ g[2] = h[2]
  BY <1>2, <1>3
<1>5. QED
  BY <1>3, <1>4 DEF Phrase

LEMMA GapsAreFew ==
    ASSUME NEW v
    PROVE  IsFiniteSet(Gaps(v)) /\ Cardinality(Gaps(v)) \in 0..N
<1> DEFINE begin == [g \in Gaps(v) |-> g[1]]
<1>1. N \in Nat /\ IsFiniteSet(Position) /\ Cardinality(Position) = N
  <2>1. N \in Nat \ {0} /\ 0 \in Int /\ N - 1 \in Int /\ ~(0 > N - 1) /\ (N - 1) - 0 + 1 = N
    BY SentenceAssumption
  <2>2. QED
    BY <2>1, FS_Interval DEF Position
<1>2. IsFiniteSet(Gaps(v)) /\ Cardinality(Gaps(v)) \in Nat
  <2>1. IsFiniteSet(Gaps(v))
    BY PhrasesAreFinite, FS_Subset DEF Gaps
  <2>2. QED
    BY <2>1, FS_CardinalityType
<1>3. ASSUME NEW g \in Gaps(v) PROVE g[1] \in Position
  BY DEF Gaps, Phrase
<1>4. ASSUME NEW g \in Gaps(v), NEW h \in Gaps(v), g[1] = h[1] PROVE g = h
  <2>1. g[1] \in Nat /\ g[2] \in Nat \ {0} /\ h[2] \in Nat \ {0}
    BY GapIs
  <2>2. g[1] <= g[1] /\ g[1] < g[1] + g[2] /\ h[1] <= g[1] /\ g[1] < h[1] + h[2]
    BY <1>4, <2>1
  <2>3. QED
    BY <2>1, <2>2, GapsAreApart
<1>5. begin \in Injection(Gaps(v), Position)
  BY <1>3, <1>4 DEF Injection, IsInjective
<1>6. Cardinality(Gaps(v)) <= N
  <2> HIDE DEF begin
  <2>1. QED
    BY <1>1, <1>5, FS_Injection
<1>7. QED
  BY <1>1, <1>2, <1>6

\* Around a phrase that is not translated is a gap.
LEMMA GapAround ==
    ASSUME NEW v \in SUBSET Position, NEW p \in Phrase, Span(p[1], p[2]) \cap v = {}
    PROVE  \E g \in Gaps(v) : g[1] <= p[1] /\ p[1] + p[2] <= g[1] + g[2]
<1> DEFINE e == p[1] + p[2]
           A == {a \in 0..p[1] : \A i \in Nat : a <= i /\ i < e => i \notin v}
           B == {n \in 0..N : e <= n /\ \A i \in Nat : p[1] <= i /\ i < n => i \notin v}
<1>1. /\ p[1] \in Nat /\ p[2] \in Nat \ {0} /\ p[1] + p[2] <= N /\ N \in Nat
      /\ e \in Nat /\ p[1] < e
  BY PhraseIs
<1>2. \A i \in Nat : p[1] <= i /\ i < e => i \notin v
  <2>1. ASSUME NEW i \in Nat, p[1] <= i, i < e PROVE i \in Span(p[1], p[2])
    BY <1>1, <2>1 DEF Span
  <2>2. QED
    BY <2>1
<1> HIDE DEF e
<1>3. A \in SUBSET Nat /\ p[1] \in A
  BY <1>1, <1>2
<1>4. PICK a \in A : \A k \in A : a <= k
  <2> HIDE DEF A
  <2>1. QED
    BY <1>3, LeastNumber
<1>5. a \in Nat /\ a <= p[1] /\ \A i \in Nat : a <= i /\ i < e => i \notin v
  BY <1>1
<1>6. a = 0 \/ a - 1 \in v
  <2>1. SUFFICES ASSUME a # 0, a - 1 \notin v PROVE FALSE
    OBVIOUS
  <2>2. a - 1 \in 0..p[1] /\ ~(a <= a - 1)
    BY <1>1, <1>5, <2>1
  <2>3. ASSUME NEW i \in Nat, a - 1 <= i, i < e PROVE i \notin v
    <3>1. i = a - 1 \/ a <= i
      BY <1>5, <2>3
    <3>2. QED
      BY <1>5, <2>1, <2>3, <3>1
  <2>4. a - 1 \in A
    BY <2>2, <2>3
  <2>5. QED
    BY <1>4, <2>2, <2>4
<1>7. B \in SUBSET (0..N) /\ e \in B
  <2>1. e \in 0..N
    BY <1>1 DEF e
  <2>2. QED
    BY <1>1, <1>2, <2>1
<1>8. PICK n \in B : \A k \in B : k <= n
  <2> HIDE DEF B
  <2>1. QED
    BY <1>1, <1>7, MaxIs
<1>9. n \in Nat /\ e <= n /\ n <= N /\ \A i \in Nat : p[1] <= i /\ i < n => i \notin v
  BY <1>1
<1>10. n = N \/ n \in v
  <2>1. SUFFICES ASSUME n # N, n \notin v PROVE FALSE
    OBVIOUS
  <2>2. n + 1 \in 0..N /\ e <= n + 1 /\ ~(n + 1 <= n)
    BY <1>1, <1>9, <2>1
  <2>3. ASSUME NEW i \in Nat, p[1] <= i, i < n + 1 PROVE i \notin v
    <3>1. i = n \/ i < n
      BY <1>9, <2>3
    <3>2. QED
      BY <1>9, <2>1, <2>3, <3>1
  <2>4. n + 1 \in B
    BY <2>2, <2>3
  <2>5. QED
    BY <1>8, <2>2, <2>4
<1> HIDE DEF A, B
<1> DEFINE g == <<a, n - a>>
<1>11. a < n /\ n - a \in 1..N /\ a \in 0..N-1 /\ a + (n - a) = n
  BY <1>1, <1>5, <1>9
<1>12. g \in Phrase /\ g[1] = a /\ g[1] + g[2] = n
  BY <1>9, <1>11 DEF Phrase, Position
<1>13. ASSUME NEW i \in Nat, a <= i, i < n PROVE i \notin v
  <2>1. i < e \/ p[1] <= i
    BY <1>1, <1>13
  <2>2. QED
    BY <1>5, <1>9, <1>13, <2>1
<1> HIDE DEF g
<1>14. g \in Gaps(v)
  BY <1>6, <1>10, <1>12, <1>13, IsGap
<1>15. QED
  BY <1>5, <1>9, <1>12, <1>14 DEF e

\* What is left of a gap when a phrase in it is translated.
LeftOf(g, p) == IF g[1] < p[1] THEN {<<g[1], p[1] - g[1]>>} ELSE {}
RightOf(g, p) ==
    IF p[1] + p[2] < g[1] + g[2] THEN {<<p[1] + p[2], g[1] + g[2] - (p[1] + p[2])>>} ELSE {}

LEMMA GapIsSplit ==
    ASSUME NEW v \in SUBSET Position, NEW p \in Phrase, NEW g \in Gaps(v),
           g[1] <= p[1], p[1] + p[2] <= g[1] + g[2]
    PROVE  LET w == v \cup Span(p[1], p[2])
           IN  /\ Gaps(v) \ {g} \subseteq Gaps(w)
               /\ LeftOf(g, p) \subseteq Gaps(w) /\ RightOf(g, p) \subseteq Gaps(w)
               /\ LeftOf(g, p) \cap Gaps(v) = {} /\ RightOf(g, p) \cap Gaps(v) = {}
               /\ LeftOf(g, p) \cap RightOf(g, p) = {}
<1> DEFINE w == v \cup Span(p[1], p[2])
           l == <<g[1], p[1] - g[1]>>
           r == <<p[1] + p[2], g[1] + g[2] - (p[1] + p[2])>>
<1>1. /\ p[1] \in Nat /\ p[2] \in Nat \ {0} /\ N \in Nat /\ p[1] + p[2] <= N
      /\ g[1] \in Nat /\ g[2] \in Nat \ {0} /\ g[1] + g[2] <= N
  BY PhraseIs, GapIs
<1>2. \A i \in Nat : i \in w <=> i \in v \/ (p[1] <= i /\ i < p[1] + p[2])
  BY <1>1 DEF Span
<1>3. \A i : i \in v => i \in w
  OBVIOUS
<1> HIDE DEF w
<1>4. ASSUME NEW h \in Gaps(v), h # g PROVE h \in Gaps(w)
  <2>1. /\ h \in Phrase /\ h[1] \in Nat /\ h[2] \in Nat
        /\ h[1] = 0 \/ h[1] - 1 \in v
        /\ h[1] + h[2] = N \/ h[1] + h[2] \in v
    BY GapIs
  <2>2. ASSUME NEW i \in Nat, h[1] <= i, i < h[1] + h[2] PROVE i \notin w
    <3>1. i \notin v
      BY <2>2, GapIs
    <3>2. ~(g[1] <= i /\ i < g[1] + g[2])
      BY <1>4, <2>2, GapsAreApart
    <3>3. ~(p[1] <= i /\ i < p[1] + p[2])
      BY <1>1, <3>2
    <3>4. QED
      BY <1>2, <3>1, <3>3
  <2>3. QED
    BY <1>3, <2>1, <2>2, IsGap
<1>5. ASSUME g[1] < p[1] PROVE l \in Gaps(w) /\ l \notin Gaps(v)
  <2>1. l \in Phrase /\ l[1] = g[1] /\ l[1] + l[2] = p[1] /\ l[2] = p[1] - g[1]
    BY <1>1, <1>5 DEF Phrase, Position
  <2> HIDE DEF l
  <2>2. ASSUME NEW i \in Nat, l[1] <= i, i < l[1] + l[2] PROVE i \notin w
    <3>1. g[1] <= i /\ i < g[1] + g[2] /\ ~(p[1] <= i)
      BY <1>1, <2>1, <2>2
    <3>2. QED
      BY <1>2, <3>1, GapIs
  <2>3. p[1] \in w
    BY <1>1, <1>2
  <2>4. l[1] = 0 \/ l[1] - 1 \in w
    BY <1>3, <2>1, GapIs
  <2>5. l \in Gaps(w)
    BY <2>1, <2>2, <2>3, <2>4, IsGap
  <2>6. ASSUME l \in Gaps(v) PROVE FALSE
    <3>1. g[1] <= g[1] /\ g[1] < g[1] + g[2] /\ l[1] <= g[1] /\ g[1] < l[1] + l[2]
      BY <1>1, <1>5, <2>1
    <3>2. l = g
      BY <1>1, <2>6, <3>1, GapsAreApart
    <3>3. QED
      BY <1>1, <2>1, <3>2
  <2>7. QED
    BY <2>5, <2>6
<1>6. ASSUME p[1] + p[2] < g[1] + g[2] PROVE r \in Gaps(w) /\ r \notin Gaps(v)
  <2>1. r \in Phrase /\ r[1] = p[1] + p[2] /\ r[1] + r[2] = g[1] + g[2] /\ r[2] \in Nat
    BY <1>1, <1>6 DEF Phrase, Position
  <2> HIDE DEF r
  <2>2. ASSUME NEW i \in Nat, r[1] <= i, i < r[1] + r[2] PROVE i \notin w
    <3>1. g[1] <= i /\ i < g[1] + g[2] /\ ~(i < p[1] + p[2])
      BY <1>1, <2>1, <2>2
    <3>2. QED
      BY <1>2, <3>1, GapIs
  <2>3. r[1] - 1 \in w /\ r[1] - 1 \notin v /\ r[1] # 0
    <3>1. /\ r[1] - 1 \in Nat /\ p[1] <= r[1] - 1 /\ r[1] - 1 < p[1] + p[2] /\ r[1] # 0
          /\ g[1] <= r[1] - 1 /\ r[1] - 1 < g[1] + g[2]
      BY <1>1, <2>1
    <3>2. QED
      BY <1>2, <3>1, GapIs
  <2>4. r[1] + r[2] = N \/ r[1] + r[2] \in w
    BY <1>3, <2>1, GapIs
  <2>5. r \in Gaps(w)
    BY <2>1, <2>2, <2>3, <2>4, IsGap
  <2>6. QED
    BY <2>3, <2>5, GapIs
<1>7. l # r
  BY <1>1
<1>8. QED
  BY <1>4, <1>5, <1>6, <1>7 DEF LeftOf, RightOf, w

LEMMA SumWith ==
    ASSUME NEW f, NEW S, IsFiniteSet(S), NEW g, IsSum(g, f, S), \A x \in S : f[x] \in Nat,
           NEW T \in SUBSET S, NEW x \in S, x \notin T
    PROVE  g[T \cup {x}] = f[x] + g[T]
<1>1. T \cup {x} \in SUBSET S /\ x \in T \cup {x} /\ (T \cup {x}) \ {x} = T
  OBVIOUS
<1>2. g[T \cup {x}] = f[x] + g[(T \cup {x}) \ {x}]
  BY <1>1, SumWithout
<1>3. QED
  BY <1>1, <1>2

\* One function sums the rest costs of the phrases of any coverage.
LEMMA PhrasesCostIs ==
    ASSUME candidates \in CandidateTables
    PROVE  \E G : /\ IsSum(G, RestCostMatrix, Phrase)
                  /\ \A v : PhrasesRestCost(v) = G[Gaps(v)]
<1>1. PICK G : IsSum(G, RestCostMatrix, Phrase)
  BY PhrasesAreFinite, SumExists
<1>2. ASSUME NEW v PROVE PhrasesRestCost(v) = G[Gaps(v)]
  <2>1. IsFiniteSet(Gaps(v)) /\ Gaps(v) \subseteq Phrase
    BY GapsAreFew DEF Gaps
  <2>2. PICK g : IsSum(g, RestCostMatrix, Gaps(v)) /\ Sum(RestCostMatrix, Gaps(v)) = g[Gaps(v)]
    BY <2>1, SumIs
  <2>3. g[Gaps(v)] = G[Gaps(v)]
    BY <1>1, <2>1, <2>2, SumIsUnique
  <2>4. PhrasesRestCost(v) = Sum(RestCostMatrix, Gaps(v))
    BY DEF PhrasesRestCost, Sum
  <2>5. QED
    BY <2>2, <2>3, <2>4
<1>3. QED
  BY <1>1, <1>2

LEMMA PhrasesCostRange ==
    ASSUME candidates \in CandidateTables
    PROVE  /\ \A v : PhrasesRestCost(v) \in Nat
           /\ PhrasesRestCost(Position) = 0 /\ Gaps(Position) = {}
<1>1. PICK G : /\ IsSum(G, RestCostMatrix, Phrase)
               /\ \A v : PhrasesRestCost(v) = G[Gaps(v)]
  BY PhrasesCostIs
<1>2. \A p \in Phrase : RestCostMatrix[p] \in Nat
  BY MatrixValues
<1>3. \A T \in SUBSET Phrase : G[T] \in Nat
  BY <1>1, <1>2, PhrasesAreFinite, SumRange
<1>4. \A v : Gaps(v) \in SUBSET Phrase
  BY DEF Gaps
<1>5. Gaps(Position) = {}
  <2>1. ASSUME NEW g \in Gaps(Position) PROVE FALSE
    <3>1. g[1] \in Nat /\ g[1] <= g[1] /\ g[1] < g[1] + g[2] /\ g[1] \in Position
      BY GapIs DEF Gaps, Phrase
    <3>2. QED
      BY <3>1, GapIs
  <2>2. QED
    BY <2>1
<1>6. G[{}] = 0
  BY <1>1, SumAt
<1>7. QED
  BY <1>1, <1>3, <1>4, <1>5, <1>6

\* A gap costs no more than its parts.
LEMMA GapCostsLess ==
    ASSUME candidates \in CandidateTables, NEW v \in SUBSET Position, NEW p \in Phrase,
           NEW g \in Gaps(v), g[1] <= p[1], p[1] + p[2] <= g[1] + g[2]
    PROVE  \E a, b \in Nat :
              /\ IF g[1] < p[1] THEN a = RestCostMatrix[<<g[1], p[1] - g[1]>>] ELSE a = 0
              /\ IF p[1] + p[2] < g[1] + g[2]
                 THEN b = RestCostMatrix[<<p[1] + p[2], g[1] + g[2] - (p[1] + p[2])>>] ELSE b = 0
              /\ RestCostMatrix[g] <= a + bestApproximateCost(p) + b
<1> DEFINE R == RestCostMatrix
           m == <<p[1], g[1] + g[2] - p[1]>>
           l == <<g[1], p[1] - g[1]>>
           r == <<p[1] + p[2], g[1] + g[2] - (p[1] + p[2])>>
<1>1. /\ p[1] \in Nat /\ p[2] \in Nat \ {0} /\ N \in Nat /\ p[1] + p[2] <= N /\ p = <<p[1], p[2]>>
      /\ g[1] \in Nat /\ g[2] \in Nat \ {0} /\ g[1] + g[2] <= N /\ g \in Phrase /\ g = <<g[1], g[2]>>
  BY PhraseIs, GapIs DEF Phrase
<1>2. m \in Phrase /\ m[1] = p[1] /\ m[2] = g[1] + g[2] - p[1]
  BY <1>1 DEF Phrase, Position
<1>3. (g[1] < p[1] => l \in Phrase) /\ (p[1] + p[2] < g[1] + g[2] => r \in Phrase)
  BY <1>1 DEF Phrase, Position
<1>4. \A q \in Phrase : R[q] \in Nat
  BY MatrixValues
<1>5. \E a \in Nat : /\ IF g[1] < p[1] THEN a = R[l] ELSE a = 0
                     /\ R[g] <= a + R[m]
  <2>1. CASE g[1] < p[1]
    <3>1. p[1] - g[1] \in 1..g[2]-1 /\ g[1] + (p[1] - g[1]) = p[1] /\ g[2] - (p[1] - g[1]) = g[1] + g[2] - p[1]
      BY <1>1, <2>1
    <3>2. Halves(R, g, p[1] - g[1]) = R[l] + R[m]
      BY <3>1 DEF Halves
    <3>3. R[g] <= Halves(R, g, p[1] - g[1])
      BY <1>1, <3>1, MatrixBounds
    <3>4. QED
      BY <1>3, <1>4, <2>1, <3>2, <3>3
  <2>2. CASE ~(g[1] < p[1])
    <3>1. m = g
      BY <1>1, <2>2
    <3>2. R[g] \in Nat
      BY <1>1, <1>4
    <3>3. R[g] <= 0 + R[m]
      BY <3>1, <3>2
    <3>4. QED
      BY <2>2, <3>3
  <2>3. QED
    BY <2>1, <2>2
<1>6. \E b \in Nat : /\ IF p[1] + p[2] < g[1] + g[2] THEN b = R[r] ELSE b = 0
                     /\ R[m] <= R[p] + b
  <2>1. CASE p[1] + p[2] < g[1] + g[2]
    <3>1. p[2] \in 1..m[2]-1 /\ m[2] - p[2] = g[1] + g[2] - (p[1] + p[2])
      BY <1>1, <1>2, <2>1
    <3>2. Halves(R, m, p[2]) = R[p] + R[r]
      BY <1>1, <1>2, <3>1 DEF Halves
    <3>3. R[m] <= Halves(R, m, p[2])
      BY <1>2, <3>1, MatrixBounds
    <3>4. QED
      BY <1>3, <1>4, <2>1, <3>2, <3>3
  <2>2. CASE ~(p[1] + p[2] < g[1] + g[2])
    <3>1. m = p
      BY <1>1, <2>2
    <3>2. R[p] \in Nat
      BY <1>4
    <3>3. R[m] <= R[p] + 0
      BY <3>1, <3>2
    <3>4. QED
      BY <2>2, <3>3
  <2>3. QED
    BY <2>1, <2>2
<1>7. R[p] <= bestApproximateCost(p) /\ R[p] \in Nat /\ bestApproximateCost(p) \in Nat
  BY <1>4, MatrixBounds, BestIs
<1>8. R[g] \in Nat /\ R[m] \in Nat
  BY <1>1, <1>2, <1>4
<1>9. PICK a \in Nat : /\ IF g[1] < p[1] THEN a = R[l] ELSE a = 0
                       /\ R[g] <= a + R[m]
  BY <1>5
<1>10. PICK b \in Nat : /\ IF p[1] + p[2] < g[1] + g[2] THEN b = R[r] ELSE b = 0
                        /\ R[m] <= R[p] + b
  BY <1>6
<1> HIDE DEF R, m, l, r
<1>11. R[g] <= a + bestApproximateCost(p) + b
  BY <1>7, <1>8, <1>9, <1>10
<1>12. QED
  BY <1>9, <1>10, <1>11 DEF R, l, r

\* Translating a phrase takes no more from the rest cost than the phrase costs.
LEMMA RestCostFallsByLess ==
    ASSUME candidates \in CandidateTables, NEW v \in SUBSET Position, NEW p \in Phrase,
           Span(p[1], p[2]) \cap v = {}
    PROVE  PhrasesRestCost(v) <= bestApproximateCost(p) + PhrasesRestCost(v \cup Span(p[1], p[2]))
<1> DEFINE w == v \cup Span(p[1], p[2])
           l(g) == <<g[1], p[1] - g[1]>>
           r(g) == <<p[1] + p[2], g[1] + g[2] - (p[1] + p[2])>>
           R == RestCostMatrix
<1>1. PICK G : IsSum(G, R, Phrase) /\ \A u : PhrasesRestCost(u) = G[Gaps(u)]
  BY PhrasesCostIs
<1>2. IsFiniteSet(Phrase) /\ \A q \in Phrase : R[q] \in Nat
  BY PhrasesAreFinite, MatrixValues
<1>3. \A T \in SUBSET Phrase : G[T] \in Nat
  BY <1>1, <1>2, SumRange
<1>4. PICK g \in Gaps(v) : g[1] <= p[1] /\ p[1] + p[2] <= g[1] + g[2]
  BY GapAround
<1>5. /\ Gaps(v) \ {g} \subseteq Gaps(w)
      /\ LeftOf(g, p) \subseteq Gaps(w) /\ RightOf(g, p) \subseteq Gaps(w)
      /\ LeftOf(g, p) \cap Gaps(v) = {} /\ RightOf(g, p) \cap Gaps(v) = {}
      /\ LeftOf(g, p) \cap RightOf(g, p) = {}
  BY <1>4, GapIsSplit
<1>6. PICK a \in Nat, b \in Nat :
              /\ IF g[1] < p[1] THEN a = R[l(g)] ELSE a = 0
              /\ IF p[1] + p[2] < g[1] + g[2] THEN b = R[r(g)] ELSE b = 0
              /\ R[g] <= a + bestApproximateCost(p) + b
  BY <1>4, GapCostsLess
<1> DEFINE T == Gaps(v) \ {g}
           U == T \cup LeftOf(g, p)
           V == U \cup RightOf(g, p)
<1>7. Gaps(v) \in SUBSET Phrase /\ Gaps(w) \in SUBSET Phrase /\ g \in Phrase
  BY <1>4 DEF Gaps
<1> HIDE DEF w, l, r, R
<1>8. T \in SUBSET Phrase /\ U \in SUBSET Phrase /\ V \in SUBSET Gaps(w)
  BY <1>5, <1>7
<1>9. G[Gaps(v)] = R[g] + G[T]
  BY <1>1, <1>2, <1>4, <1>7, SumWithout
<1>10. G[U] = a + G[T]
  <2>1. CASE g[1] < p[1]
    <3>1. LeftOf(g, p) = {l(g)}
      BY <2>1 DEF LeftOf, l
    <3>2. l(g) \in Phrase /\ l(g) \notin T
      BY <1>5, <1>7, <3>1
    <3>3. G[T \cup {l(g)}] = R[l(g)] + G[T]
      BY <1>1, <1>2, <1>8, <3>2, SumWith
    <3>4. QED
      BY <1>6, <2>1, <3>1, <3>3
  <2>2. CASE ~(g[1] < p[1])
    <3>1. U = T
      BY <2>2 DEF LeftOf
    <3>2. G[T] \in Nat /\ a = 0
      BY <1>3, <1>6, <1>8, <2>2
    <3>3. G[T] = a + G[T]
      BY <3>2
    <3>4. QED
      BY <3>1, <3>3
  <2>3. QED
    BY <2>1, <2>2
<1>11. G[V] = b + G[U]
  <2>1. CASE p[1] + p[2] < g[1] + g[2]
    <3>1. RightOf(g, p) = {r(g)}
      BY <2>1 DEF RightOf, r
    <3>2. r(g) \in Phrase /\ r(g) \notin U
      <4>1. r(g) \in RightOf(g, p)
        BY <3>1
      <4>2. r(g) \in Phrase /\ r(g) \notin T /\ r(g) \notin LeftOf(g, p)
        BY <1>5, <1>7, <4>1
      <4>3. QED
        BY <4>2
    <3>3. G[U \cup {r(g)}] = R[r(g)] + G[U]
      <4> HIDE DEF T, U, V
      <4>1. QED
        BY <1>1, <1>2, <1>8, <3>2, SumWith
    <3>4. QED
      BY <1>6, <2>1, <3>1, <3>3
  <2>2. CASE ~(p[1] + p[2] < g[1] + g[2])
    <3>1. V = U
      BY <2>2 DEF RightOf
    <3>2. G[U] \in Nat /\ b = 0
      BY <1>3, <1>6, <1>8, <2>2
    <3>3. G[U] = b + G[U]
      BY <3>2
    <3>4. QED
      BY <3>1, <3>3
  <2>3. QED
    BY <2>1, <2>2
<1>12. G[V] <= G[Gaps(w)]
  BY <1>1, <1>2, <1>7, <1>8, SumGrows
<1>13. /\ G[Gaps(v)] \in Nat /\ G[Gaps(w)] \in Nat /\ G[T] \in Nat /\ G[U] \in Nat /\ G[V] \in Nat
       /\ R[g] \in Nat /\ bestApproximateCost(p) \in Nat
  BY <1>2, <1>3, <1>7, <1>8, BestIs
<1> HIDE DEF T, U, V
<1>14. G[Gaps(v)] <= bestApproximateCost(p) + G[Gaps(w)]
  BY <1>6, <1>9, <1>10, <1>11, <1>12, <1>13
<1>15. QED
  BY <1>1, <1>14 DEF w

-----------------------------------------------------------------------------
(* The reference recursion.                                                   *)

\* Where a translation can be.
Place == (SUBSET Position) \X Position \X (0..N) \X (RuleState \cup {RootState})

CheapestNext(n, h, at) ==
    IF at[1] = Position THEN 0 ELSE Least({t[n] + h[t[1]] : t \in Translations(at)})

LEMMA CoverageSize ==
    ASSUME NEW v \in SUBSET Position
    PROVE  /\ Cardinality(v) \in 0..N
           /\ Cardinality(v) = N => v = Position
<1>1. IsFiniteSet(Position) /\ Cardinality(Position) = N
  <2>1. N \in Nat \ {0} /\ 0 \in Int /\ N - 1 \in Int /\ ~(0 > N - 1) /\ (N - 1) - 0 + 1 = N
    BY SentenceAssumption
  <2>2. QED
    BY <2>1, FS_Interval DEF Position
<1>2. Cardinality(v) \in Nat /\ Cardinality(v) <= N /\ (Cardinality(v) = N => v = Position)
  BY <1>1, FS_Subset, FS_CardinalityType
<1>3. QED
  BY <1>2, SentenceAssumption

\* A step of the reference translates one more phrase.
LEMMA TranslationsAre ==
    ASSUME candidates \in CandidateTables, NEW at \in Place, NEW t \in Translations(at)
    PROVE  \E p \in Phrase : \E i \in DOMAIN candidates[p] :
              /\ Span(p[1], p[2]) \cap at[1] = {}
              /\ t[1] \in Place /\ t[1][1] = at[1] \cup Span(p[1], p[2])
              /\ Cardinality(at[1]) < Cardinality(t[1][1])
              /\ t[2] = candidates[p][i].cost + ContextCost[at[4], candidates[p][i].state]
                            + getJumpCost(Abs(p[1] - at[3]))
              /\ t[3] = candidates[p][i].cost + getJumpCost(Abs(p[1] - at[3]))
<1>1. PICK p \in Phrase : \E i \in DOMAIN candidates[p] :
         /\ Span(p[1], p[2]) \cap at[1] = {}
         /\ t = <<<<at[1] \cup Span(p[1], p[2]), p[1], p[1] + p[2], candidates[p][i].state>>,
                  candidates[p][i].cost + ContextCost[at[4], candidates[p][i].state]
                      + getJumpCost(Abs(p[1] - at[3])),
                  candidates[p][i].cost + getJumpCost(Abs(p[1] - at[3]))>>
  BY DEF Translations
<1>2. PICK i \in DOMAIN candidates[p] :
         /\ Span(p[1], p[2]) \cap at[1] = {}
         /\ t = <<<<at[1] \cup Span(p[1], p[2]), p[1], p[1] + p[2], candidates[p][i].state>>,
                  candidates[p][i].cost + ContextCost[at[4], candidates[p][i].state]
                      + getJumpCost(Abs(p[1] - at[3])),
                  candidates[p][i].cost + getJumpCost(Abs(p[1] - at[3]))>>
  BY <1>1
<1>3. at[1] \in SUBSET Position
  BY DEF Place
<1>4. /\ at[1] \cup Span(p[1], p[2]) \in SUBSET Position
      /\ Cardinality(at[1] \cup Span(p[1], p[2])) = Cardinality(at[1]) + p[2]
      /\ Cardinality(at[1]) \in Nat /\ p[2] \in Nat \ {0}
  BY <1>2, <1>3, SpanIs, PhraseIs
<1>5. p[1] \in Position /\ p[1] + p[2] \in 0..N
  BY PhraseIs DEF Phrase
<1>6. candidates[p][i].state \in RuleState
  BY RulesAre
<1>7. PICK w, b, e, s, c, d :
         /\ w = at[1] \cup Span(p[1], p[2]) /\ b = p[1] /\ e = p[1] + p[2] /\ s = candidates[p][i].state
         /\ c = candidates[p][i].cost + ContextCost[at[4], candidates[p][i].state]
                    + getJumpCost(Abs(p[1] - at[3]))
         /\ d = candidates[p][i].cost + getJumpCost(Abs(p[1] - at[3]))
  OBVIOUS
<1>8. t = <<<<w, b, e, s>>, c, d>>
  BY <1>2, <1>7
<1>9. t[1] = <<w, b, e, s>> /\ t[2] = c /\ t[3] = d /\ t[1][1] = w
  BY <1>8
<1>10. w \in SUBSET Position /\ b \in Position /\ e \in 0..N /\ s \in RuleState
  BY <1>4, <1>5, <1>6, <1>7
<1>11. t[1] \in Place
  BY <1>9, <1>10 DEF Place
<1>12. Cardinality(at[1]) < Cardinality(w)
  <2>1. \A m \in Nat, j \in Nat \ {0} : m < m + j
    OBVIOUS
  <2>2. Cardinality(w) = Cardinality(at[1]) + p[2]
    BY <1>4, <1>7
  <2>3. QED
    BY <1>4, <2>1, <2>2
<1>13. QED
  BY <1>2, <1>7, <1>9, <1>11, <1>12

LEMMA LeastToGoIs ==
    ASSUME candidates \in CandidateTables, NEW k
    PROVE  LeastToGo(k) = [at \in Place |-> CheapestNext(k, LeastToGo(k), at)]
<1> DEFINE Within(n) == {at \in Place : N - Cardinality(at[1]) <= n}
           Upto(h, n) == h = [at \in Within(n) |-> CheapestNext(k, h, at)]
<1>1. \A at \in Place : /\ Cardinality(at[1]) \in 0..N /\ N \in Nat
                        /\ Cardinality(at[1]) = N => at[1] = Position
  BY CoverageSize, SentenceAssumption DEF Place
<1>2. \A n \in Nat : \E h : Upto(h, n)
  <2> DEFINE A == {n \in Nat : ~\E h : Upto(h, n)}
  <2>1. SUFFICES ASSUME A # {} PROVE FALSE
    OBVIOUS
  <2>2. A \in SUBSET Nat
    OBVIOUS
  <2>3. PICK m \in A : \A j \in A : m <= j
    <3> HIDE DEF A
    <3>1. QED
      BY <2>1, <2>2, LeastNumber
  <2>4. m # 0
    <3> DEFINE h == [at \in Within(0) |-> 0]
    <3>1. \A at \in Within(0) : at[1] = Position
      BY <1>1
    <3>2. \A at \in Within(0) : CheapestNext(k, h, at) = 0
      BY <3>1 DEF CheapestNext
    <3>3. Upto(h, 0)
      <4> HIDE DEF Within
      <4>1. QED
        BY <3>2
    <3>4. QED
      BY <3>3
  <2>5. m \in Nat /\ m - 1 \in Nat
    BY <2>4
  <2>6. m - 1 \notin A
    <3> HIDE DEF A
    <3>1. QED
      BY <2>3, <2>5
  <2>7. PICK g : Upto(g, m - 1)
    BY <2>5, <2>6
  <2> DEFINE h == [at \in Within(m) |-> IF at \in Within(m - 1) THEN g[at] ELSE CheapestNext(k, g, at)]
  <2>8. ASSUME NEW at \in Within(m), NEW t \in Translations(at) PROVE t[1] \in Within(m - 1)
    <3>1. t[1] \in Place /\ Cardinality(at[1]) < Cardinality(t[1][1])
      BY TranslationsAre
    <3>2. QED
      BY <1>1, <2>5, <3>1
  <2>9. \A at \in Within(m - 1) : at \in Within(m)
    BY <1>1, <2>5
  <2>10. \A at \in Within(m - 1) : g[at] = CheapestNext(k, g, at)
    BY <2>7
  <2> HIDE DEF Within
  <2>11. /\ h = [at \in Within(m) |-> h[at]]
         /\ \A at \in Within(m) : h[at] = IF at \in Within(m - 1) THEN g[at] ELSE CheapestNext(k, g, at)
    OBVIOUS
  <2> HIDE DEF h
  <2>12. ASSUME NEW at \in Within(m) PROVE h[at] = CheapestNext(k, h, at)
    <3>1. h[at] = CheapestNext(k, g, at)
      BY <2>10, <2>11
    <3>2. \A t \in Translations(at) : h[t[1]] = g[t[1]]
      BY <2>8, <2>9, <2>11
    <3>3. {t[k] + h[t[1]] : t \in Translations(at)} = {t[k] + g[t[1]] : t \in Translations(at)}
      BY <3>2
    <3>4. QED
      BY <3>1, <3>3 DEF CheapestNext
  <2>13. Upto(h, m)
    BY <2>11, <2>12
  <2>14. QED
    BY <2>13
<1>3. N \in Nat /\ Within(N) = Place
  BY <1>1, SentenceAssumption
<1>4. PICK h : Upto(h, N)
  BY <1>2, <1>3
<1>5. h = [at \in Place |-> CheapestNext(k, h, at)]
  BY <1>3, <1>4
<1>6. LeastToGo(k) = CHOOSE g : g = [at \in Place |-> CheapestNext(k, g, at)]
  BY DEF LeastToGo, CheapestNext, Place
<1>7. QED
  BY <1>5, <1>6

LEMMA CostToGoIs ==
    ASSUME candidates \in CandidateTables
    PROVE  CostToGo = [at \in Place |-> CheapestNext(2, CostToGo, at)]
BY LeastToGoIs DEF CostToGo

LEMMA ApproximateCostToGoIs ==
    ASSUME candidates \in CandidateTables
    PROVE  ApproximateCostToGo = [at \in Place |-> CheapestNext(3, ApproximateCostToGo, at)]
BY LeastToGoIs DEF ApproximateCostToGo

-----------------------------------------------------------------------------
(* Costs with a bound.                                                        *)

JumpBound == N + N * N
StepBound(C) == C + JumpBound
RestBound(C) == N * (N * C) + N * JumpBound

\* Rules cost between nothing and C, approximately and in every context, which may make
\* them cheaper or dearer; every word has a rule, and a sentence of such costs and of the
\* widest jumps stays below Infinity.
CostsUpTo(C) ==
    /\ C \in Nat
    /\ ContextCost \in [(RuleState \cup {RootState}) \X RuleState -> Int]
    /\ \A table \in CandidateTables :
          /\ \A p \in Phrase : \A i \in DOMAIN table[p] :
                /\ table[p][i].cost <= C
                /\ \A f \in RuleState \cup {RootState} :
                      table[p][i].cost + ContextCost[f, table[p][i].state] \in 0..C
          /\ \A b \in Position : table[<<b, 1>>] # <<>>
    /\ N * StepBound(C) + RestBound(C) < Infinity

LEMMA BoundsAre ==
    ASSUME NEW C \in Nat
    PROVE  /\ N \in Nat \ {0} /\ JumpBound \in Nat /\ StepBound(C) \in Nat /\ RestBound(C) \in Nat
           /\ N * C \in Nat /\ N * (N * C) \in Nat /\ N * JumpBound \in Nat
<1>1. N \in Nat \ {0}
  BY SentenceAssumption
<1>2. N * N \in Nat /\ N * C \in Nat
  BY <1>1, Multiples
<1>3. JumpBound \in Nat
  BY <1>1, <1>2 DEF JumpBound
<1>4. N * (N * C) \in Nat /\ N * JumpBound \in Nat
  BY <1>1, <1>2, <1>3, Multiples
<1>5. QED
  BY <1>1, <1>2, <1>3, <1>4 DEF StepBound, RestBound

LEMMA JumpIs ==
    ASSUME NEW i \in Int, -N <= i, i <= N
    PROVE  getJumpCost(Abs(i)) \in 0..JumpBound
<1>1. N \in Nat /\ N * N \in Nat
  BY SentenceAssumption, Multiples
<1>2. PICK w \in Nat : w = Abs(i) /\ w <= N
  BY <1>1 DEF Abs
<1>3. w * w \in Nat /\ w * w <= N * N
  <2>1. w * w \in Nat /\ w * w <= N * w
    BY <1>1, <1>2, Multiples
  <2>2. w * N <= N * N /\ w * N = N * w
    BY <1>1, <1>2, Multiples
  <2>3. N * w \in Nat
    BY <1>1, Multiples
  <2>4. QED
    BY <1>1, <2>1, <2>2, <2>3
<1>4. getJumpCost(w) = w \/ getJumpCost(w) = w + w * w
  BY DEF getJumpCost
<1>5. PICK s \in Nat, n \in Nat : s = w * w /\ n = N * N
  BY <1>1, <1>3
<1>6. w \in 0..N + n /\ w + s \in 0..N + n
  BY <1>1, <1>2, <1>3, <1>5
<1>7. QED
  BY <1>2, <1>4, <1>5, <1>6 DEF JumpBound

LEMMA WordsHaveRules ==
    ASSUME NEW C, CostsUpTo(C), candidates \in CandidateTables
    PROVE  /\ \A b \in Position : bestApproximateCost(<<b, 1>>) <= C
           /\ EveryWordHasRule
<1>1. ASSUME NEW b \in Position PROVE bestApproximateCost(<<b, 1>>) <= C
  <2> DEFINE p == <<b, 1>>
  <2>1. p \in Phrase
    BY SentenceAssumption DEF Phrase, Position
  <2>2. candidates[p] \in Seq([cost : Nat, state : RuleState]) /\ candidates[p] # <<>>
    BY <2>1, TableAssumption DEF CostsUpTo
  <2> HIDE DEF p
  <2>3. \A q \in Seq([cost : Nat, state : RuleState]) : q # <<>> => 1 \in DOMAIN q
    OBVIOUS
  <2>4. 1 \in DOMAIN candidates[p]
    BY <2>2, <2>3
  <2>5. candidates[p][1].cost <= C /\ candidates[p][1].cost \in Nat /\ C \in Nat
    BY <2>1, <2>4, RulesAre DEF CostsUpTo
  <2>6. bestApproximateCost(p) \in Nat /\ bestApproximateCost(p) <= candidates[p][1].cost
    BY <2>1, <2>4, BestIs
  <2>7. bestApproximateCost(p) <= C
    BY <2>5, <2>6
  <2>8. QED
    BY <2>7 DEF p
<1>2. EveryWordHasRule
  BY DEF EveryWordHasRule, CostsUpTo
<1>3. QED
  BY <1>1, <1>2

LEMMA PhrasesCostIsBounded ==
    ASSUME NEW C, CostsUpTo(C), candidates \in CandidateTables, NEW v
    PROVE  PhrasesRestCost(v) \in 0 .. N * (N * C)
<1>1. C \in Nat /\ N \in Nat /\ N * C \in Nat
  BY BoundsAre DEF CostsUpTo
<1>2. PICK G : IsSum(G, RestCostMatrix, Phrase) /\ \A u : PhrasesRestCost(u) = G[Gaps(u)]
  BY PhrasesCostIs
<1>3. ASSUME NEW p \in Phrase PROVE RestCostMatrix[p] \in 0 .. N * C
  <2>1. RestCostMatrix[p] <= p[2] * C /\ RestCostMatrix[p] \in Nat
    BY <1>1, WordsHaveRules, MatrixIsBounded, MatrixValues
  <2>2. p[2] \in Nat /\ p[2] <= N
    BY PhraseIs
  <2>3. p[2] * C \in Nat /\ p[2] * C <= N * C
    BY <1>1, <2>2, Multiples
  <2>4. QED
    BY <1>1, <2>1, <2>3
<1>4. PICK m \in Nat : m = N * C
  BY <1>1
<1>5. \A p \in Phrase : RestCostMatrix[p] \in 0..m
  BY <1>3, <1>4
<1>6. Gaps(v) \in SUBSET Phrase
  BY DEF Gaps
<1>7. G[Gaps(v)] \in 0 .. Cardinality(Gaps(v)) * m
  BY <1>2, <1>5, <1>6, PhrasesAreFinite, SumIsBounded
<1>8. PICK c \in 0..N : c = Cardinality(Gaps(v))
  BY GapsAreFew
<1>9. c * m \in Nat /\ N * m \in Nat /\ c * m <= N * m
  BY <1>1, <1>8, Multiples
<1>10. G[Gaps(v)] \in 0 .. N * m
  BY <1>7, <1>8, <1>9
<1>11. QED
  BY <1>2, <1>4, <1>10

LEMMA PositionCostIsBounded ==
    ASSUME NEW v, NEW endPos \in 0..N
    PROVE  /\ getRestCostForPosition(v, endPos) \in 0 .. N * JumpBound
           /\ Gaps(v) = {} => getRestCostForPosition(v, endPos) = 0
<1> DEFINE before(p) == {q[1] + q[2] : q \in {g \in Gaps(v) : g[1] < p[1] /\ g # <<0, 1>>}}
           LastPos(p) == IF before(p) = {} THEN endPos - 1 ELSE Max(before(p))
           jump(p) == getJumpCost(Abs(LastPos(p) - p[1]))
           f == [p \in Gaps(v) |-> jump(p)]
           IsJumpSum(h) == h = [s \in SUBSET Gaps(v) |->
                                  IF s = {} THEN 0 ELSE jump(One(s)) + h[s \ {One(s)}]]
<1>1. getRestCostForPosition(v, endPos) = (CHOOSE h : IsJumpSum(h))[Gaps(v)]
  BY DEF getRestCostForPosition, MapThenSumSet, MapThenFoldSet, One
<1>2. N \in Nat \ {0} /\ JumpBound \in Nat
  <2>1. 0 \in Nat
    OBVIOUS
  <2>2. QED
    BY <2>1, BoundsAre
<1>3. ASSUME NEW p \in Gaps(v) PROVE jump(p) \in 0..JumpBound
  <2>1. before(p) \in SUBSET (0..N)
    BY GapIs
  <2> HIDE DEF before
  <2>2. LastPos(p) \in -1..N
    <3>1. CASE before(p) = {}
      BY <1>2, <3>1
    <3>2. CASE before(p) # {}
      <4>1. Max(before(p)) \in 0..N
        BY <1>2, <2>1, <3>2, MaxIs
      <4>2. QED
        BY <3>2, <4>1
    <3>3. QED
      BY <3>1, <3>2
  <2> HIDE DEF LastPos
  <2>3. p[1] \in 0..N-1
    BY DEF Gaps, Phrase, Position
  <2>4. LastPos(p) - p[1] \in Int /\ -N <= LastPos(p) - p[1] /\ LastPos(p) - p[1] <= N
    BY <1>2, <2>2, <2>3
  <2>5. QED
    BY <2>4, JumpIs
<1>4. \A p \in Gaps(v) : f[p] = jump(p)
  OBVIOUS
<1> HIDE DEF f, jump
<1>5. ASSUME NEW h PROVE IsJumpSum(h) <=> IsSum(h, f, Gaps(v))
  <2>1. \A s \in SUBSET Gaps(v) : s # {} => f[One(s)] = jump(One(s))
    BY <1>4, OneIs
  <2>2. [s \in SUBSET Gaps(v) |-> IF s = {} THEN 0 ELSE jump(One(s)) + h[s \ {One(s)}]]
          = [s \in SUBSET Gaps(v) |-> IF s = {} THEN 0 ELSE f[One(s)] + h[s \ {One(s)}]]
    BY <2>1
  <2>3. QED
    BY <2>2 DEF IsSum
<1>6. IsFiniteSet(Gaps(v))
  BY GapsAreFew
<1>7. PICK g : g = CHOOSE h : IsJumpSum(h)
  OBVIOUS
<1>8. IsSum(g, f, Gaps(v))
  <2>1. \E h : IsJumpSum(h)
    BY <1>5, <1>6, SumExists
  <2> HIDE DEF IsJumpSum
  <2>2. IsJumpSum(g)
    BY <1>7, <2>1
  <2>3. QED
    BY <1>5, <2>2
<1>9. \A p \in Gaps(v) : f[p] \in 0..JumpBound
  BY <1>3, <1>4
<1>10. g[Gaps(v)] \in 0 .. Cardinality(Gaps(v)) * JumpBound
  BY <1>2, <1>6, <1>8, <1>9, SumIsBounded
<1>11. PICK c \in 0..N : c = Cardinality(Gaps(v))
  BY GapsAreFew
<1>12. c * JumpBound \in Nat /\ N * JumpBound \in Nat /\ c * JumpBound <= N * JumpBound
  BY <1>2, <1>11, Multiples
<1>13. g[Gaps(v)] \in 0 .. N * JumpBound
  BY <1>10, <1>11, <1>12
<1>14. Gaps(v) = {} => g[Gaps(v)] = 0
  BY <1>8, SumAt
<1>15. QED
  BY <1>1, <1>7, <1>13, <1>14

\* What the i-th rule of a phrase costs after state f.
InContext(p, i, f) == candidates[p][i].cost + ContextCost[f, candidates[p][i].state]

LEMMA ContextIs ==
    ASSUME NEW C, CostsUpTo(C), candidates \in CandidateTables,
           NEW f \in RuleState \cup {RootState}, NEW p \in Phrase, NEW i \in DOMAIN candidates[p]
    PROVE  /\ C \in Nat /\ candidates[p][i].cost \in 0..C /\ candidates[p][i].state \in RuleState
           /\ ContextCost[f, candidates[p][i].state] \in Int
           /\ InContext(p, i, f) \in 0..C
<1>1. candidates[p][i].cost \in Nat /\ candidates[p][i].state \in RuleState
  BY RulesAre
<1>2. C \in Nat /\ ContextCost \in [(RuleState \cup {RootState}) \X RuleState -> Int]
  BY DEF CostsUpTo
<1>3. ContextCost[f, candidates[p][i].state] \in Int
  BY <1>1, <1>2
<1>4. candidates[p][i].cost <= C
  BY DEF CostsUpTo
<1>5. \A g \in RuleState \cup {RootState} : InContext(p, i, g) \in 0..C
  BY DEF CostsUpTo, InContext
<1>6. InContext(p, i, f) \in 0..C
  BY <1>5
<1>7. \A x \in Nat : x <= C => x \in 0..C
  OBVIOUS
<1>8. candidates[p][i].cost \in 0..C
  BY <1>1, <1>4, <1>7
<1>9. QED
  BY <1>1, <1>2, <1>3, <1>6, <1>8

LEMMA JumpIsNat ==
    ASSUME NEW e \in 0..N, NEW p \in Phrase
    PROVE  getJumpCost(Abs(p[1] - e)) \in Nat
<1>1. p[1] - e \in Int /\ -N <= p[1] - e /\ p[1] - e <= N
  BY PhraseIs
<1>2. 0 \in Nat
  OBVIOUS
<1>3. JumpBound \in Nat
  BY <1>2, BoundsAre
<1>4. getJumpCost(Abs(p[1] - e)) \in 0..JumpBound
  BY <1>1, JumpIs
<1>5. QED
  BY <1>3, <1>4

\* A hypothesis of k words.
Priced(C, k, node) ==
    /\ node.own \in 0 .. k * StepBound(C)
    /\ node.cost \in node.own .. node.own + RestBound(C)
    /\ node.features \in RuleState \cup {RootState}
    /\ node.begin \in Position /\ node.end \in 0..N

LEMMA NewNodeIsPriced ==
    ASSUME NEW C, CostsUpTo(C), candidates \in CandidateTables,
           NEW j \in Nat, NEW k \in Nat, j < k, NEW node, Priced(C, j, node),
           NEW p \in Phrase, NEW i \in DOMAIN candidates[p]
    PROVE  Priced(C, k, NewNode(node, p[1], p[2], candidates[p][i]))
<1> DEFINE rule == candidates[p][i]
           new == NewNode(node, p[1], p[2], rule)
           begin == p[1] % 2^PositionBits
           end == (p[1] + p[2]) % 2^PositionBits
           coverage == node.coverage \cup Span(p[1], p[2])
           jump == getJumpCost(Abs(begin - node.end))
           context == ContextCost[node.features, rule.state]
<1>1. /\ C \in Nat /\ N \in Nat /\ StepBound(C) \in Nat /\ RestBound(C) \in Nat /\ JumpBound \in Nat
      /\ N * (N * C) \in Nat /\ N * JumpBound \in Nat
  BY BoundsAre DEF CostsUpTo
<1>2. node.features \in RuleState \cup {RootState}
  BY DEF Priced
<1>3. /\ rule.cost \in 0..C /\ rule.state \in RuleState
      /\ context \in Int /\ rule.cost + context \in 0..C
  <2>1. InContext(p, i, node.features) = rule.cost + context
    BY DEF InContext
  <2>2. QED
    BY <1>2, <2>1, ContextIs
<1>4. begin \in Position /\ end \in 0..N
  <2>1. \A n \in Nat : n % 2^PositionBits \in Nat /\ n % 2^PositionBits <= n
    <3> DEFINE m == 2^PositionBits
    <3>1. m \in Nat \ {0}
      BY SentenceAssumption
    <3> HIDE DEF m
    <3>2. \A n \in Nat : n % m \in Nat /\ n % m <= n
      BY <3>1
    <3>3. QED
      BY <3>2 DEF m
  <2>2. p[1] \in Nat /\ p[1] < N /\ p[1] + p[2] \in Nat /\ p[1] + p[2] <= N
    BY PhraseIs
  <2>3. QED
    BY <1>1, <2>1, <2>2 DEF Position
<1> HIDE DEF begin, end
<1>5. jump \in 0..JumpBound
  <2>1. begin - node.end \in Int /\ -N <= begin - node.end /\ begin - node.end <= N
    BY <1>1, <1>4 DEF Priced, Position
  <2>2. QED
    BY <2>1, JumpIs
<1>6. calculateRestCost(coverage, p[1] + p[2]) \in 0..RestBound(C)
  <2>1. PhrasesRestCost(coverage) \in 0 .. N * (N * C)
    BY PhrasesCostIsBounded
  <2>2. p[1] + p[2] \in 0..N
    BY PhraseIs
  <2>3. getRestCostForPosition(coverage, p[1] + p[2]) \in 0 .. N * JumpBound
    BY <2>2, PositionCostIsBounded
  <2> HIDE DEF coverage
  <2>4. PICK a \in Nat, b \in Nat : a = N * (N * C) /\ b = N * JumpBound
    BY <1>1
  <2>5. \A x \in 0..a, y \in 0..b : x + y \in 0 .. a + b /\ x + 0 \in 0 .. a + b
    OBVIOUS
  <2>6. RestBound(C) = a + b
    BY <2>4 DEF RestBound
  <2>7. QED
    BY <2>1, <2>3, <2>4, <2>5, <2>6 DEF calculateRestCost
<1>7. /\ new.features = rule.state /\ new.begin = begin /\ new.end = end
      /\ new.own = node.own + rule.cost + context + jump
      /\ new.cost = new.own + calculateRestCost(coverage, p[1] + p[2])
  BY DEF NewNode, begin, end
<1> HIDE DEF new, jump, context, rule, coverage
<1>8. new.own \in 0 .. k * StepBound(C)
  <2>1. PICK s \in Nat : s = StepBound(C) /\ s = C + JumpBound
    BY <1>1 DEF StepBound
  <2>2. (j + 1) * s = j * s + s /\ (j + 1) * s <= k * s /\ j * s \in Nat /\ k * s \in Nat
    BY Multiples
  <2>3. PICK a \in Nat, b \in Nat : a = j * s /\ b = k * s
    BY <2>2
  <2>4. node.own \in 0..a
    BY <2>1, <2>3 DEF Priced
  <2>5. a + s <= b
    BY <2>2, <2>3
  <2>6. new.own \in 0..b
    BY <1>1, <1>2, <1>3, <1>5, <1>7, <2>1, <2>4, <2>5
  <2>7. QED
    BY <2>1, <2>3, <2>6
<1>9. new.cost \in new.own .. new.own + RestBound(C)
  <2>1. PICK o \in Nat : o = new.own
    BY <1>8
  <2>2. QED
    BY <1>1, <1>6, <1>7, <2>1
<1>10. Priced(C, k, new)
  BY <1>3, <1>4, <1>7, <1>8, <1>9 DEF Priced
<1>11. QED
  BY <1>10 DEF new, rule

AllPriced(C) == \A k \in 0..N : \A s \in H!Stored(holder[k]) : Priced(C, k, s[2])

\* Only a step that offers new nodes stores any.
StoredStay ==
    \A k \in 0..N : H!Stored(holder'[k]) \subseteq H!Stored(holder[k])

LEMMA OtherStepsStoreNothing ==
    ASSUME SearchInv, [Next]_vars, \A node \in nodes : ~ExtendNode(node)
    PROVE  StoredStay
<1>1. CASE UNCHANGED holder
  BY <1>1 DEF StoredStay
<1>2. ASSUME NEW c, holder' = [holder EXCEPT ![NewCardinality] = c],
             H!Stored(c) \subseteq H!Stored(curr)
      PROVE  StoredStay
  <2>1. \A k \in 0..N : holder'[k] = IF k = NewCardinality THEN c ELSE holder[k]
    BY <1>2 DEF SearchInv, Sane
  <2>2. QED
    BY <1>2, <2>1 DEF StoredStay, curr
<1>3. CASE SelectPhrase
  <2> DEFINE coverage == PrevCoverage \cup phraseSpan
             c == H!Select(curr, coverage)
  <2>1. /\ holder' = [holder EXCEPT ![NewCardinality] = c] /\ pc = "positions"
        /\ NewPhraseBeginPos <= N - NewPhraseCardinality /\ phraseSpan \cap PrevCoverage = {}
    BY <1>3 DEF SelectPhrase, Fits, curr
  <2>2. NoneEmpty(curr) /\ coverage \in SUBSET Position
    BY <2>1, NewCoverageIs DEF SearchInv, LoopsInv
  <2> HIDE DEF coverage
  <2>3. H!Stored(c) = H!Stored(curr)
    BY <2>2, LoopFacts, SelectIs DEF NoneEmpty
  <2> HIDE DEF c
  <2>4. QED
    BY <1>2, <2>1, <2>3
<1>4. CASE EndPhrase
  <2> DEFINE c == H!Deselect(curr)
  <2>1. holder' = [holder EXCEPT ![NewCardinality] = c] /\ curr.selected \in curr.keys
    BY <1>4 DEF EndPhrase, curr, SearchInv, PhraseInv
  <2>2. H!Stored(c) = H!Stored(curr)
    BY <2>1, LoopFacts, DeselectIs
  <2> HIDE DEF c
  <2>3. QED
    BY <1>2, <2>1, <2>2
<1>5. CASE EndCardinality
  <2>1. PICK c \in H!prune(curr) : holder' = [holder EXCEPT ![NewCardinality] = c]
    BY <1>5 DEF EndCardinality, Finalized
  <2>2. NoneEmpty(curr)
    BY <1>5 DEF EndCardinality, SearchInv, LoopsInv
  <2>3. H!Stored(c) \subseteq H!Stored(curr)
    BY <2>2, LoopFacts, PruneIs DEF NoneEmpty, Less
  <2>4. QED
    BY <1>2, <2>1, <2>3
<1>6. QED
  BY <1>1, <1>3, <1>4, <1>5
     DEF Next, VisitCoverage, NextPrevCardinality, SkipPosition, EndCoverage, FindGoal, vars

\* What a step offers is a new node.
LEMMA ExtendNodeStores ==
    ASSUME SearchInv, NEW node \in nodes, ExtendNode(node), NEW k \in 0..N, NEW s \in H!Stored(holder'[k])
    PROVE  \/ s \in H!Stored(holder[k])
           \/ /\ k = NewCardinality
              /\ \E i \in DOMAIN candidates[phrase] :
                    s[2] = NewNode(node, phrase[1], phrase[2], candidates[phrase][i])
<1>1. CASE UNCHANGED holder
  BY <1>1
<1>2. ASSUME NEW c \in Offered(node), holder' = [holder EXCEPT ![NewCardinality] = c]
      PROVE  \/ s \in H!Stored(holder[k])
             \/ /\ k = NewCardinality
                /\ \E i \in DOMAIN candidates[phrase] :
                      s[2] = NewNode(node, phrase[1], phrase[2], candidates[phrase][i])
  <2>1. NewPhraseBeginPos <= N - NewPhraseCardinality /\ curr.selected \in curr.keys
    BY DEF ExtendNode, SearchInv, PhraseInv
  <2>2. OfferedTo(node, curr)
    BY <2>1, LoopFacts DEF OfferedTo
  <2>3. PICK n \in Nat : n = Len(candidates[phrase]) /\ DOMAIN candidates[phrase] = 1..n
    BY <2>1, PhraseFacts
  <2>4. OfferedTo(node, c)
    BY <2>2, <2>3, OfferedIs
  <2>5. holder'[k] = IF k = NewCardinality THEN c ELSE holder[k]
    BY <1>2 DEF SearchInv, Sane
  <2>6. CASE k = NewCardinality
    <3>1. s \in H!Stored(c)
      BY <2>5, <2>6
    <3>2. \/ s \in H!Stored(curr)
          \/ \E i \in DOMAIN candidates[phrase] :
                s = <<curr.selected, NewNode(node, phrase[1], phrase[2], candidates[phrase][i])>>
      BY <2>4, <3>1 DEF OfferedTo
    <3>3. QED
      BY <2>6, <3>2 DEF curr
  <2>7. CASE k # NewCardinality
    BY <2>5, <2>7
  <2>8. QED
    BY <2>6, <2>7
<1>3. QED
  BY <1>1, <1>2 DEF ExtendNode

\* The nodes that are extended are those of the previous cardinality.
LEMMA NodesAreStored ==
    ASSUME SearchInv, pc = "nodes", NEW node \in nodes
    PROVE  /\ \E s \in H!Stored(holder[PrevCardinality]) : s[2] = node
           /\ phrase \in Phrase
<1>1. /\ node \in holder[PrevCardinality].lex[PrevCoverage].nodes
      /\ PrevCoverage \in holder[PrevCardinality].keys
      /\ NewPhraseBeginPos <= N - NewPhraseCardinality
  BY DEF SearchInv, LoopsInv, PhraseInv
<1>2. <<PrevCoverage, node>> \in H!Stored(holder[PrevCardinality]) /\ <<PrevCoverage, node>>[2] = node
  BY <1>1, StoredIs
<1>3. phrase \in Phrase
  BY <1>1, PhraseFacts
<1>4. QED
  BY <1>2, <1>3

LEMMA OffersArePriced ==
    ASSUME NEW C, CostsUpTo(C), SearchInv, AllPriced(C), pc = "nodes", NEW node \in nodes,
           NEW i \in DOMAIN candidates[phrase]
    PROVE  Priced(C, NewCardinality, NewNode(node, phrase[1], phrase[2], candidates[phrase][i]))
<1>1. phrase \in Phrase /\ Priced(C, PrevCardinality, node)
  BY NodesAreStored, LoopFacts DEF AllPriced
<1>2. candidates \in CandidateTables
  BY DEF SearchInv, LoopsInv
<1>3. QED
  BY <1>1, <1>2, LoopFacts, NewNodeIsPriced

LEMMA AllStayPriced ==
    ASSUME NEW C, CostsUpTo(C)
    PROVE  Spec => []AllPriced(C)
<1>1. Init => AllPriced(C)
  <2> SUFFICES ASSUME Init, NEW k \in 0..N, NEW s \in H!Stored(holder[k]) PROVE Priced(C, k, s[2])
    BY DEF AllPriced
  <2>1. holder[k] = IF k = 0 THEN RootContainer ELSE H!EmptyContainer
    BY DEF Init
  <2>2. k = 0 /\ s = <<{}, RootNode>>
    BY <2>1, RootIs, EmptyIsClean
  <2>3. StepBound(C) \in Nat /\ RestBound(C) \in Nat /\ N \in Nat \ {0}
    BY BoundsAre DEF CostsUpTo
  <2>4. 0 * StepBound(C) = 0
    BY <2>3
  <2>5. RootNode.own = 0 /\ RootNode.cost = 0 /\ RootNode.features = RootState
        /\ RootNode.begin = 0 /\ RootNode.end = 0
    BY DEF RootNode
  <2>6. Priced(C, 0, RootNode)
    BY <2>3, <2>4, <2>5 DEF Priced, Position
  <2>7. QED
    BY <2>2, <2>6
<1>2. SearchInv /\ AllPriced(C) /\ [Next]_vars => AllPriced(C)'
  <2> SUFFICES ASSUME SearchInv, AllPriced(C), [Next]_vars,
                      NEW k \in 0..N, NEW s \in H!Stored(holder'[k])
               PROVE  Priced(C, k, s[2])
    BY DEF AllPriced, Priced
  <2>1. CASE s \in H!Stored(holder[k])
    BY <2>1 DEF AllPriced
  <2>2. CASE s \notin H!Stored(holder[k])
    <3>1. PICK node \in nodes : ExtendNode(node)
      BY <2>2, OtherStepsStoreNothing DEF StoredStay
    <3>2. k = NewCardinality /\ \E i \in DOMAIN candidates[phrase] :
                s[2] = NewNode(node, phrase[1], phrase[2], candidates[phrase][i])
      BY <2>2, <3>1, ExtendNodeStores
    <3>3. pc = "nodes"
      BY <3>1 DEF ExtendNode
    <3>4. QED
      BY <3>2, <3>3, OffersArePriced
  <2>3. QED
    BY <2>1, <2>2
<1>3. QED
  BY <1>1, <1>2, SearchIsInvariant, PTL DEF Spec

LEMMA PricedIsFinite ==
    ASSUME NEW C, CostsUpTo(C), NEW k \in 0..N, NEW node, Priced(C, k, node)
    PROVE  node.cost \in 0..Infinity-1 /\ node.own \in 0..node.cost
<1>1. N \in Nat /\ StepBound(C) \in Nat /\ RestBound(C) \in Nat /\ N * StepBound(C) + RestBound(C) < Infinity
  BY BoundsAre DEF CostsUpTo
<1>2. PICK a \in Nat, b \in Nat : a = k * StepBound(C) /\ b = N * StepBound(C) /\ a <= b
  BY <1>1, Multiples
<1>3. node.own \in 0..a /\ node.cost \in node.own .. node.own + RestBound(C)
  BY <1>2 DEF Priced
<1>4. b + RestBound(C) < Infinity /\ Infinity \in Nat
  BY <1>1, <1>2, ContainerAssumption
<1>5. QED
  BY <1>1, <1>2, <1>3, <1>4

\* In a sentence whose rules and states have bounded costs, of words that all have rules,
\* no hypothesis that is kept or offered ever costs Infinity.
THEOREM CostsStayFinite ==
    ASSUME NEW C, CostsUpTo(C)
    PROVE  Spec => []CostsAreFinite
<1>1. SearchInv /\ AllPriced(C) => CostsAreFinite
  <2> SUFFICES ASSUME SearchInv, AllPriced(C) PROVE CostsAreFinite
    OBVIOUS
  <2>1. ASSUME NEW k \in 0..N, NEW s \in H!Stored(holder[k])
        PROVE  s[2].cost \in 0..Infinity-1 /\ s[2].own \in 0..s[2].cost
    BY PricedIsFinite DEF AllPriced
  <2>2. ASSUME pc = "nodes", NEW node \in nodes, NEW i \in DOMAIN candidates[phrase]
        PROVE  NewNode(node, phrase[1], phrase[2], candidates[phrase][i]).cost \in 0..Infinity-1
    BY <2>2, OffersArePriced, LoopFacts, PricedIsFinite
  <2>3. QED
    BY <2>1, <2>2 DEF CostsAreFinite
<1>2. QED
  BY <1>1, SearchIsInvariant, AllStayPriced, PTL

\* Such a sentence is translated, however much is pruned by a beam width below one.
THEOREM SentenceIsTranslated ==
    ASSUME N < 2^PositionBits, LogBeamWidth < 0, NEW C, CostsUpTo(C)
    PROVE  Spec => []EmptyOnlyByTraining
BY TranslationIsFound, CostsStayFinite, PTL

-----------------------------------------------------------------------------
(* The rest cost of phrases is a lower bound.                                 *)

\* The place of most words that fails.
LEMMA FurthestPlace ==
    ASSUME NEW Bad \in SUBSET Place, Bad # {}
    PROVE  \E at \in Bad : \A to \in Place : Cardinality(at[1]) < Cardinality(to[1]) => to \notin Bad
<1> DEFINE S == {Cardinality(at[1]) : at \in Bad}
<1>1. S \in SUBSET (0..N) /\ S # {} /\ N \in Nat
  BY CoverageSize, SentenceAssumption DEF Place
<1>2. PICK m \in S : \A k \in S : k <= m
  <2> HIDE DEF S
  <2>1. QED
    BY <1>1, MaxIs
<1>3. PICK at \in Bad : Cardinality(at[1]) = m
  OBVIOUS
<1>4. ASSUME NEW to \in Bad, Cardinality(at[1]) < Cardinality(to[1]) PROVE FALSE
  <2>1. Cardinality(to[1]) <= m /\ m \in Nat /\ Cardinality(to[1]) \in Nat
    BY <1>1, <1>2
  <2>2. QED
    BY <1>3, <1>4, <2>1
<1>5. QED
  BY <1>4

\* What is left to translate costs at least the rest cost of its phrases, approximately.
LEMMA RestCostIsLower ==
    ASSUME NEW C, CostsUpTo(C), candidates \in CandidateTables
    PROVE  \A at \in Place : ApproximateCostToGo[at] \in Nat /\ PhrasesRestCost(at[1]) <= ApproximateCostToGo[at]
<1> DEFINE Right(at) == ApproximateCostToGo[at] \in Nat /\ PhrasesRestCost(at[1]) <= ApproximateCostToGo[at]
           Bad == {at \in Place : ~Right(at)}
<1>1. SUFFICES ASSUME Bad # {} PROVE FALSE
  OBVIOUS
<1>2. PICK at \in Bad : \A to \in Place : Cardinality(at[1]) < Cardinality(to[1]) => to \notin Bad
  <2>1. Bad \in SUBSET Place
    OBVIOUS
  <2> HIDE DEF Bad
  <2>2. QED
    BY <1>1, <2>1, FurthestPlace
<1>3. at \in Place /\ ~Right(at)
  OBVIOUS
<1>4. ApproximateCostToGo[at] = CheapestNext(3, ApproximateCostToGo, at)
  BY <1>3, ApproximateCostToGoIs
<1>5. PhrasesRestCost(at[1]) \in Nat /\ PhrasesRestCost(at[1]) <= Infinity
  <2>1. PhrasesRestCost(at[1]) \in 0 .. N * (N * C)
    BY PhrasesCostIsBounded
  <2>2. /\ N * (N * C) \in Nat /\ N * JumpBound \in Nat /\ N * StepBound(C) \in Nat
        /\ RestBound(C) = N * (N * C) + N * JumpBound
        /\ N * StepBound(C) + RestBound(C) < Infinity /\ Infinity \in Nat
    <3>1. C \in Nat /\ N * StepBound(C) + RestBound(C) < Infinity
      BY DEF CostsUpTo
    <3>2. N * StepBound(C) \in Nat
      BY <3>1, BoundsAre, Multiples
    <3>3. QED
      BY <3>1, <3>2, BoundsAre, ContainerAssumption DEF RestBound
  <2>3. PICK a \in Nat, b \in Nat, c \in Nat : a = N * (N * C) /\ b = N * JumpBound /\ c = N * StepBound(C)
    BY <2>2
  <2>4. c + (a + b) < Infinity /\ Infinity \in Nat
    BY <2>2, <2>3
  <2>5. QED
    BY <2>1, <2>3, <2>4
<1>6. CASE at[1] = Position
  <2>1. ApproximateCostToGo[at] = 0 /\ PhrasesRestCost(at[1]) = 0
    BY <1>4, <1>6, PhrasesCostRange DEF CheapestNext
  <2>2. QED
    BY <1>3, <2>1
<1>7. CASE at[1] # Position
  <2> DEFINE S == {t[3] + ApproximateCostToGo[t[1]] : t \in Translations(at)}
  <2>1. ApproximateCostToGo[at] = Least(S)
    BY <1>4, <1>7 DEF CheapestNext
  <2>2. ASSUME NEW t \in Translations(at)
        PROVE  t[3] + ApproximateCostToGo[t[1]] \in Nat /\ PhrasesRestCost(at[1]) <= t[3] + ApproximateCostToGo[t[1]]
    <3>1. PICK p \in Phrase : \E i \in DOMAIN candidates[p] :
              /\ Span(p[1], p[2]) \cap at[1] = {}
              /\ t[1] \in Place /\ t[1][1] = at[1] \cup Span(p[1], p[2])
              /\ Cardinality(at[1]) < Cardinality(t[1][1])
              /\ t[2] = candidates[p][i].cost + ContextCost[at[4], candidates[p][i].state]
                            + getJumpCost(Abs(p[1] - at[3]))
              /\ t[3] = candidates[p][i].cost + getJumpCost(Abs(p[1] - at[3]))
      BY <1>3, TranslationsAre
    <3>2. PICK i \in DOMAIN candidates[p] :
              /\ Span(p[1], p[2]) \cap at[1] = {}
              /\ t[1] \in Place /\ t[1][1] = at[1] \cup Span(p[1], p[2])
              /\ Cardinality(at[1]) < Cardinality(t[1][1])
              /\ t[3] = candidates[p][i].cost + getJumpCost(Abs(p[1] - at[3]))
      BY <3>1
    <3>3. Right(t[1])
      BY <1>2, <3>2
    <3>4. /\ candidates[p][i].cost \in Nat /\ candidates[p][i].state \in RuleState
          /\ bestApproximateCost(p) \in Nat /\ bestApproximateCost(p) <= candidates[p][i].cost
      BY RulesAre, BestIs
    <3>5. getJumpCost(Abs(p[1] - at[3])) \in Nat
      <4>1. at[3] \in 0..N
        BY <1>3 DEF Place
      <4>2. p[1] - at[3] \in Int /\ -N <= p[1] - at[3] /\ p[1] - at[3] <= N
        BY <4>1, PhraseIs
      <4>3. QED
        BY <4>2, JumpIs
    <3>6. t[3] \in Nat /\ bestApproximateCost(p) <= t[3]
      <4>1. PICK x \in Nat, z \in Nat :
               x = candidates[p][i].cost /\ z = getJumpCost(Abs(p[1] - at[3]))
        BY <3>4, <3>5
      <4>2. t[3] = x + z /\ bestApproximateCost(p) <= x /\ bestApproximateCost(p) \in Nat
        BY <3>2, <3>4, <4>1
      <4>3. QED
        BY <4>2
    <3>7. PhrasesRestCost(at[1]) <= bestApproximateCost(p) + PhrasesRestCost(t[1][1])
      <4>1. at[1] \in SUBSET Position
        BY <1>3 DEF Place
      <4>2. QED
        BY <3>2, <4>1, RestCostFallsByLess
    <3>8. PhrasesRestCost(t[1][1]) \in Nat /\ PhrasesRestCost(t[1][1]) <= ApproximateCostToGo[t[1]] /\ ApproximateCostToGo[t[1]] \in Nat
      BY <3>3, PhrasesCostRange
    <3>9. QED
      BY <1>5, <3>4, <3>6, <3>7, <3>8
  <2>3. S \in SUBSET Nat /\ \A k \in S : PhrasesRestCost(at[1]) <= k
    BY <2>2
  <2> HIDE DEF S
  <2>4. Least(S) \in Nat /\ (S = {} => Least(S) = Infinity) /\ (S # {} => Least(S) \in S)
    BY <2>3, LeastIs
  <2>5. Right(at)
    BY <1>5, <2>1, <2>3, <2>4
  <2>6. QED
    BY <1>3, <2>5
<1>8. QED
  BY <1>6, <1>7

\* Under the same conditions the rest cost of phrases never exceeds what the words that
\* are left cost at the approximate costs of their rules, however they are translated.
THEOREM RestCostsAreLowerBounds ==
    ASSUME NEW C, CostsUpTo(C)
    PROVE  Spec => []RestCostNeverExceeds
<1>1. SearchInv /\ AllPriced(C) => RestCostIsLowerBound
  <2> SUFFICES ASSUME SearchInv, AllPriced(C), NEW k \in 1..N, NEW s \in H!Stored(holder[k])
               PROVE  PhrasesRestCost(s[1]) <= ApproximateCostToGo[<<s[1], s[2].begin, s[2].end, s[2].features>>]
    BY DEF RestCostIsLowerBound
  <2> DEFINE at == <<s[1], s[2].begin, s[2].end, s[2].features>>
  <2>1. Priced(C, k, s[2]) /\ s[1] \in SUBSET Position
    <3>1. k \in 0..N
      OBVIOUS
    <3>2. QED
      BY <3>1, CoverageOfNode DEF AllPriced
  <2>2. at \in Place /\ at[1] = s[1]
    BY <2>1 DEF Priced, Place
  <2> HIDE DEF at
  <2>3. PhrasesRestCost(at[1]) <= ApproximateCostToGo[at]
    BY <2>2, RestCostIsLower DEF SearchInv, LoopsInv
  <2>4. QED
    BY <2>2, <2>3 DEF at
<1>2. CostsAreFinite /\ RestCostIsLowerBound => RestCostNeverExceeds
  BY DEF RestCostNeverExceeds
<1>3. QED
  BY <1>1, <1>2, SearchIsInvariant, AllStayPriced, CostsStayFinite, PTL
-----------------------------------------------------------------------------
(* The optimum of a search that prunes nothing.                               *)

\* What a node's record says of itself: its state is what it is recombined by, its cost is
\* its own and the rest cost of what it leaves open.
Told(node) ==
    /\ node.state = <<node.end, node.features>> /\ node.features \in RuleState
    /\ node.begin < node.end
    /\ calculateRestCost(node.coverage, node.end) = node.cost - node.own

AllTold == \A k \in 1..N : \A s \in H!Stored(holder[k]) : Told(s[2])

States == (0..N) \X RuleState

\* A container that has never been pruned: it counts what it stores, has no two nodes of a
\* coverage that are equal, and caches no best cost above that of a node.
Whole(c) ==
    /\ Clean(c) /\ IsFiniteSet(H!Stored(c)) /\ c.total = Cardinality(H!Stored(c))
    /\ \A s \in H!Stored(c) : s[2].state \in States /\ s[2].cost \in Int
    /\ \A v \in c.keys : c.lex[v].nodes # {} => c.lex[v].best \in Int
    /\ \A v \in c.keys : \A m \in c.lex[v].nodes :
          /\ c.lex[v].best <= m.cost
          /\ \A n \in c.lex[v].nodes : m.state = n.state => m = n

AllWhole == \A k \in 1..N : Whole(holder[k])

\* Where a hypothesis is in the reference.
PlaceOf(node) == <<node.coverage, node.begin, node.end, node.features>>
Start == <<{}, 0, 0, RootState>>

\* No translation through the node undercuts the reference, and one through it reaches it.
Sound(node) == CostToGo[Start] <= node.own + CostToGo[PlaceOf(node)]
OnTrack(node) == node.own + CostToGo[PlaceOf(node)] <= CostToGo[Start]

AllSound == \A k \in 0..N : \A s \in H!Stored(holder[k]) : Sound(s[2])

\* The node can be extended by the phrase, with the rule on a cheapest way.
CanTake(node, p) == Span(p[1], p[2]) \cap node.coverage = {} /\ Conforms(node, p[1], p[2])
Leads(node, p, i) == CanTake(node, p) /\ OnTrack(NewNode(node, p[1], p[2], candidates[p][i]))

\* The loops have still to extend the node, stored at cardinality k, by the phrase.
Pending(k, s, p) ==
    /\ Looping
    /\ \/ PrevCardinality < k
       \/ PrevCardinality = k /\ s[1] \in todo
       \/ /\ PrevCardinality = k /\ PrevCoverage = s[1] /\ pc # "coverages"
          /\ \/ NewPhraseBeginPos < p[1]
             \/ NewPhraseBeginPos = p[1] /\ (pc = "nodes" => s[2] \in nodes)

\* A hypothesis on a cheapest way has arrived, or will be extended along it.
Arrived(s) == s \in H!Stored(curr) /\ OnTrack(s[2])
Ahead(k, s) ==
    /\ k < NewCardinality /\ s \in H!Stored(holder[k])
    /\ \E p \in Phrase : \E i \in DOMAIN candidates[p] :
          /\ Leads(s[2], p, i) /\ NewCardinality <= k + p[2]
          /\ k + p[2] = NewCardinality => Pending(k, s, p)

Tracked ==
    \/ \E s \in H!Stored(curr) : Arrived(s)
    \/ \E k \in 0..N : \E s \in H!Stored(holder[k]) : Ahead(k, s)

\* A container has room for a hypothesis of every coverage and state.
RoomForAll ==
    /\ IsFiniteSet(RuleState)
    /\ Cardinality((SUBSET Position) \X States) <= MaxCardinalityContainerSize

\* A node equal to this one, and no dearer, is stored.
Covers(c, v, node) ==
    \E m : <<v, m>> \in H!Stored(c) /\ m.state = node.state /\ m.cost <= node.cost

\* A whole container has room for whatever is offered.
LEMMA WholeHasRoom ==
    ASSUME RoomForAll, NEW c, Whole(c)
    PROVE  /\ c.total \in Nat /\ c.total <= MaxCardinalityContainerSize
           /\ ~(c.total > MaxCardinalityContainerSize) /\ ~(c.total > H!MaxCardinalitySizeLazyPruning)
<1> DEFINE T == (SUBSET Position) \X States
           S == H!Stored(c)
           f == [s \in S |-> <<s[1], s[2].state>>]
<1>1. IsFiniteSet(T) /\ Cardinality(T) \in Nat
  <2>1. IsFiniteSet(Position) /\ IsFiniteSet(0..N)
    BY SentenceAssumption, FS_Interval DEF Position
  <2>2. IsFiniteSet(SUBSET Position)
    BY <2>1, FS_SUBSET
  <2>3. IsFiniteSet(States)
    BY <2>1, FS_Product DEF RoomForAll, States
  <2>4. IsFiniteSet(T)
    BY <2>2, <2>3, FS_Product
  <2>5. QED
    BY <2>4, FS_CardinalityType
<1>2. ASSUME NEW s \in S
      PROVE  /\ s = <<s[1], s[2]>> /\ s[1] \in c.keys /\ s[2] \in c.lex[s[1]].nodes
             /\ s[1] \in SUBSET Position /\ s[2].state \in States
  BY StoredIs DEF Whole, Clean
<1>3. f \in [S -> T]
  BY <1>2
<1>4. ASSUME NEW s \in S, NEW t \in S, f[s] = f[t] PROVE s = t
  <2>1. s[1] = t[1] /\ s[2].state = t[2].state
    BY <1>4
  <2>2. s[2] = t[2]
    BY <1>2, <2>1 DEF Whole
  <2>3. QED
    BY <1>2, <2>1, <2>2
<1>5. f \in Injection(S, T)
  <2> HIDE DEF f, S, T
  <2>1. QED
    BY <1>3, <1>4 DEF Injection, IsInjective
<1>6. Cardinality(S) \in Nat /\ Cardinality(S) <= Cardinality(T)
  <2> HIDE DEF f, T
  <2>1. IsFiniteSet(S) /\ Cardinality(S) <= Cardinality(T)
    BY <1>1, <1>5, FS_Injection
  <2>2. QED
    BY <2>1, FS_CardinalityType
<1> HIDE DEF S, T
<1>7. c.total = Cardinality(S) /\ Cardinality(T) <= MaxCardinalityContainerSize
  BY DEF Whole, RoomForAll, S, T
<1>8. MaxCardinalityContainerSize \in Nat \ {0} /\ PrimaryCoverageShare \in Nat
  BY ContainerAssumption
<1>9. H!MaxCardinalitySizeLazyPruning = 2 * MaxCardinalityContainerSize - 1 + PrimaryCoverageShare * 4
  BY DEF H!MaxCardinalitySizeLazyPruning
<1>10. QED
  BY <1>1, <1>6, <1>7, <1>8, <1>9

\* An insertion keeps what it does not replace by something cheaper.
LEMMA InsertedIsWhole ==
    ASSUME NEW c, Whole(c), Filled(c), c.selected \in c.keys,
           NEW node, node.cost \in Int, node.state \in States
    PROVE  LET d == H!Inserted(c, node)
           IN  /\ Whole(d) /\ Covers(d, c.selected, node)
               /\ \A s \in H!Stored(c) : Covers(d, s[1], s[2])
<1> DEFINE v == c.selected
           old == c.lex[v]
           new == H!insertHypothesis(old, node)
           d == H!Inserted(c, node)
           same == {m \in old.nodes : m.state = node.state}
           kept == IF \E m \in same : m.cost <= node.cost THEN CHOOSE m \in same : TRUE ELSE node
<1>1. v \in SUBSET Position /\ v \in c.keys /\ Clean(c)
  BY DEF Whole, Clean
<1>2. /\ Clean(d) /\ d.keys = c.keys
      /\ H!Stored(d) \subseteq H!Stored(c) \cup {<<v, node>>}
  BY <1>1, InsertedIs
<1>3. /\ d.lex[v] = new
      /\ \A u \in (SUBSET Position) \ {v} : d.lex[u] = c.lex[u]
      /\ d.total = c.total + H!Growth(old, new)
  <2>1. d.lex = [c.lex EXCEPT ![v] = new]
    BY <1>1 DEF H!Inserted, Clean
  <2>2. d.total = c.total + H!Growth(old, new)
    BY <1>1 DEF H!Inserted, Clean
  <2> HIDE DEF d, new, old
  <2>3. QED
    BY <1>1, <2>1, <2>2 DEF Clean
<1>4. /\ new.nodes = (old.nodes \ same) \cup {kept}
      /\ new.best = IF old.nodes = {} THEN node.cost ELSE H!MinOf(old.best, kept.cost)
  BY DEF H!insertHypothesis
<1> HIDE DEF d, new
<1>5. \A m \in old.nodes : m.cost \in Int /\ old.best \in Int /\ old.best <= m.cost
  <2>1. \A m \in old.nodes : <<v, m>> \in H!Stored(c)
    BY <1>1, StoredIs
  <2>2. ASSUME NEW m \in old.nodes PROVE m.cost \in Int
    <3>1. PICK s \in H!Stored(c) : s = <<v, m>>
      BY <2>1
    <3>2. QED
      BY <3>1 DEF Whole
  <2>3. QED
    BY <1>1, <2>2 DEF Whole
<1>6. \A m, n \in old.nodes : m.state = n.state => m = n
  BY <1>1 DEF Whole
<1>7. kept.state = node.state /\ kept.cost \in Int /\ (kept = node \/ kept \in same)
  <2>1. kept = node \/ kept \in same
    OBVIOUS
  <2>2. QED
    BY <1>5, <2>1
<1>8. kept.cost <= node.cost /\ \A m \in same : kept.cost <= m.cost
  <2>1. CASE \E m \in same : m.cost <= node.cost
    <3>1. kept \in same
      BY <2>1
    <3>2. \A m \in same : m = kept
      BY <1>6, <3>1
    <3> HIDE DEF kept, same
    <3>3. QED
      BY <1>7, <2>1, <3>2
  <2>2. CASE ~\E m \in same : m.cost <= node.cost
    <3>1. kept = node
      BY <2>2
    <3>2. QED
      BY <1>5, <2>2, <3>1
  <2>3. QED
    BY <2>1, <2>2
<1> HIDE DEF kept
<1>9. \A m, n \in new.nodes : m.state = n.state => m = n
  BY <1>4, <1>6, <1>7
<1>10. new.best \in Int /\ \A m \in new.nodes : new.best <= m.cost
  <2>1. CASE old.nodes = {}
    <3>1. kept = node /\ new.nodes = {node} /\ new.best = node.cost
      BY <1>4, <1>7, <2>1
    <3>2. QED
      BY <3>1
  <2>2. CASE old.nodes # {}
    <3>1. old.best \in Int
      BY <1>5, <2>2
    <3>2. new.best \in Int /\ new.best <= old.best /\ new.best <= kept.cost
      BY <1>4, <1>7, <2>2, <3>1 DEF H!MinOf
    <3>3. ASSUME NEW m \in old.nodes PROVE new.best <= m.cost
      BY <1>5, <3>1, <3>2
    <3> HIDE DEF same, old
    <3>4. QED
      BY <1>4, <3>2, <3>3
  <2>3. QED
    BY <2>1, <2>2
<1>11. \A u, m : <<u, m>> \in H!Stored(d) <=> u \in c.keys /\ m \in (IF u = v THEN new.nodes ELSE c.lex[u].nodes)
  <2>1. \A u \in c.keys : d.lex[u].nodes = IF u = v THEN new.nodes ELSE c.lex[u].nodes
    BY <1>1, <1>3 DEF Clean
  <2>2. QED
    BY <1>2, <2>1, StoredIs
<1>12. <<v, kept>> \in H!Stored(d)
  BY <1>1, <1>4, <1>11
<1>13. Covers(d, v, node)
  BY <1>7, <1>8, <1>12 DEF Covers
<1>14. ASSUME NEW s \in H!Stored(c) PROVE Covers(d, s[1], s[2])
  <2>1. s[1] \in c.keys /\ s[2] \in c.lex[s[1]].nodes /\ s[2].cost \in Int
    BY StoredIs DEF Whole
  <2>2. CASE s[1] = v /\ s[2] \in same
    BY <1>7, <1>8, <1>12, <2>2 DEF Covers
  <2>3. CASE ~(s[1] = v /\ s[2] \in same)
    <3>1. <<s[1], s[2]>> \in H!Stored(d)
      BY <1>4, <1>11, <2>1, <2>3
    <3>2. s[2].state = s[2].state /\ s[2].cost <= s[2].cost
      BY <2>1
    <3> HIDE DEF d
    <3>3. QED
      BY <3>1, <3>2 DEF Covers
  <2>4. QED
    BY <2>2, <2>3
<1>15. IsFiniteSet(H!Stored(d)) /\ \A s \in H!Stored(d) : s[2].state \in States /\ s[2].cost \in Int
  <2>1. IsFiniteSet(H!Stored(c) \cup {<<v, node>>})
    BY FS_AddElement DEF Whole
  <2>2. IsFiniteSet(H!Stored(d))
    BY <1>2, <2>1, FS_Subset
  <2>3. QED
    BY <1>2, <2>2 DEF Whole
<1>16. d.total = Cardinality(H!Stored(d))
  <2> DEFINE S == H!Stored(c)
             D == H!Stored(d)
  <2>1. IsFiniteSet(old.nodes) /\ Cardinality(old.nodes) \in Nat
    <3> DEFINE f == [m \in old.nodes |-> <<v, m>>]
    <3>1. f \in [old.nodes -> S]
      BY <1>1, StoredIs
    <3>2. f \in Injection(old.nodes, S)
      <4>1. \A m, n \in old.nodes : f[m] = f[n] => m = n
        OBVIOUS
      <4> HIDE DEF f, old, S
      <4>2. QED
        BY <3>1, <4>1 DEF Injection, IsInjective
    <3>3. IsFiniteSet(S)
      BY DEF Whole
    <3> HIDE DEF f, old, S
    <3>4. IsFiniteSet(old.nodes)
      BY <3>2, <3>3, FS_Injection
    <3>5. QED
      BY <3>4, FS_CardinalityType
  <2>2. IsFiniteSet(S) /\ Cardinality(S) \in Nat /\ c.total = Cardinality(S)
    BY FS_CardinalityType DEF Whole
  <2>3. \A u, m : <<u, m>> \in S <=> u \in c.keys /\ m \in c.lex[u].nodes
    BY StoredIs
  <2>4. (\A s \in S : s = <<s[1], s[2]>>) /\ (\A s \in D : s = <<s[1], s[2]>>)
    BY StoredIs
  <2>5. H!Growth(old, new) = Cardinality(new.nodes) - Cardinality(old.nodes)
    BY SameCardinality DEF H!Growth
  <2>6. CASE same = {}
    <3>1. kept = node /\ node \notin old.nodes /\ new.nodes = old.nodes \cup {node}
      BY <1>4, <1>7, <2>6
    <3>2. <<v, node>> \notin S
      BY <2>3, <3>1
    <3>3. D = S \cup {<<v, node>>}
      <4> HIDE DEF S, D
      <4>1. \A u, m : <<u, m>> \in D <=> <<u, m>> \in S \/ (u = v /\ m = node)
        <5>1. \A u, m : <<u, m>> \in D <=> u \in c.keys /\ m \in (IF u = v THEN new.nodes ELSE c.lex[u].nodes)
          BY <1>11 DEF D
        <5>2. QED
          BY <1>1, <2>3, <3>1, <5>1
      <4>2. QED
        BY <2>4, <4>1
    <3>4. Cardinality(D) = Cardinality(S) + 1 /\ Cardinality(new.nodes) = Cardinality(old.nodes) + 1
      <4> HIDE DEF S, D, old
      <4>1. QED
        BY <2>1, <2>2, <3>1, <3>2, <3>3, FS_AddElement
    <3> HIDE DEF S, D, old
    <3>5. QED
      BY <1>3, <2>1, <2>2, <2>5, <3>4 DEF D
  <2>7. CASE same # {}
    <3>1. PICK m \in same : TRUE
      BY <2>7
    <3>2. m \in old.nodes /\ same = {m}
      BY <1>6, <3>1
    <3>3. CASE kept = m
      <4>1. new.nodes = old.nodes
        BY <1>4, <3>2, <3>3
      <4>2. D = S
        <5> HIDE DEF S, D
        <5>1. \A u, n : <<u, n>> \in D <=> <<u, n>> \in S
          BY <1>11, <2>3, <4>1 DEF D
        <5>2. QED
          BY <2>4, <5>1
      <4> HIDE DEF S, D, old
      <4>3. QED
        BY <1>3, <2>1, <2>2, <2>5, <4>1, <4>2 DEF D
    <3>4. CASE kept # m
      <4>0. kept = node /\ node \notin old.nodes
        BY <1>7, <3>2, <3>4
      <4>1. new.nodes = (old.nodes \ {m}) \cup {node}
        BY <1>4, <3>2, <4>0
      <4>2. <<v, m>> \in S /\ <<v, node>> \notin S \ {<<v, m>>}
        BY <1>1, <2>3, <3>2, <4>0
      <4>3. D = (S \ {<<v, m>>}) \cup {<<v, node>>}
        <5> HIDE DEF S, D
        <5>1. \A u, n : <<u, n>> \in D <=> (<<u, n>> \in S /\ ~(u = v /\ n = m)) \/ (u = v /\ n = node)
          <6>1. \A u, n : <<u, n>> \in D <=> u \in c.keys /\ n \in (IF u = v THEN new.nodes ELSE c.lex[u].nodes)
            BY <1>11 DEF D
          <6>2. QED
            BY <1>1, <2>3, <3>2, <4>1, <6>1
        <5>2. QED
          BY <2>4, <5>1
      <4> HIDE DEF S, D, old
      <4>4. /\ IsFiniteSet(S \ {<<v, m>>}) /\ Cardinality(S \ {<<v, m>>}) = Cardinality(S) - 1
            /\ IsFiniteSet(old.nodes \ {m}) /\ Cardinality(old.nodes \ {m}) = Cardinality(old.nodes) - 1
        BY <2>1, <2>2, <3>2, <4>2, FS_RemoveElement
      <4>5. /\ Cardinality(D) = Cardinality(S) - 1 + 1
            /\ Cardinality(new.nodes) = Cardinality(old.nodes) - 1 + 1
        BY <4>0, <4>1, <4>2, <4>3, <4>4, FS_AddElement
      <4>6. QED
        BY <1>3, <2>1, <2>2, <2>5, <4>5 DEF D
    <3>5. QED
      BY <3>3, <3>4
  <2>8. QED
    BY <2>6, <2>7
<1>17. ASSUME NEW u \in d.keys
       PROVE  /\ d.lex[u].nodes # {} => d.lex[u].best \in Int
              /\ \A m \in d.lex[u].nodes :
                    /\ d.lex[u].best <= m.cost
                    /\ \A n \in d.lex[u].nodes : m.state = n.state => m = n
  <2>1. u \in c.keys /\ u \in SUBSET Position
    BY <1>1, <1>2 DEF Clean
  <2>2. CASE u = v
    BY <1>3, <1>9, <1>10, <2>2
  <2>3. CASE u # v
    <3>1. d.lex[u] = c.lex[u]
      BY <1>3, <2>1, <2>3
    <3>2. QED
      BY <2>1, <3>1 DEF Whole
  <2>4. QED
    BY <2>2, <2>3
<1>18. Whole(d)
  BY <1>2, <1>15, <1>16, <1>17 DEF Whole
<1>19. QED
  BY <1>13, <1>14, <1>18 DEF d

LEMMA CoversItself ==
    ASSUME NEW c, NEW s \in H!Stored(c), s[2].cost \in Int
    PROVE  Covers(c, s[1], s[2])
<1>1. <<s[1], s[2]>> \in H!Stored(c)
  BY StoredIs
<1>2. s[2].state = s[2].state /\ s[2].cost <= s[2].cost
  OBVIOUS
<1>3. QED
  BY <1>1, <1>2 DEF Covers

LEMMA CoversStill ==
    ASSUME NEW c, Whole(c), NEW d, Whole(d), \A s \in H!Stored(c) : Covers(d, s[1], s[2]),
           NEW v, NEW node, node.cost \in Int, Covers(c, v, node)
    PROVE  Covers(d, v, node)
<1>1. PICK m : <<v, m>> \in H!Stored(c) /\ m.state = node.state /\ m.cost <= node.cost
  BY DEF Covers
<1>2. PICK s \in H!Stored(c) : s = <<v, m>>
  BY <1>1
<1>3. m.cost \in Int /\ Covers(d, v, m)
  <2>1. s[1] = v /\ s[2] = m
    BY <1>2
  <2>2. s[2].cost \in Int /\ Covers(d, s[1], s[2])
    BY DEF Whole
  <2>3. QED
    BY <2>1, <2>2
<1>4. PICK n : <<v, n>> \in H!Stored(d) /\ n.state = m.state /\ n.cost <= m.cost
  BY <1>3 DEF Covers
<1>5. n.cost \in Int
  <2>1. PICK t \in H!Stored(d) : t = <<v, n>>
    BY <1>4
  <2>2. QED
    BY <2>1 DEF Whole
<1>6. n.state = node.state /\ n.cost <= node.cost
  BY <1>1, <1>3, <1>4, <1>5
<1>7. QED
  BY <1>4, <1>6 DEF Covers

\* With room for all and no test before insertion, an offer is an insertion.
LEMMA OfferIsWhole ==
    ASSUME RoomForAll, DoPrunePreInsertion = FALSE, NEW c, Whole(c), Filled(c), c.selected \in c.keys,
           NEW node, node.cost \in Int, node.state \in States, NEW d \in Offer(c, node)
    PROVE  /\ Whole(d) /\ Covers(d, c.selected, node)
           /\ \A s \in H!Stored(c) : Covers(d, s[1], s[2])
<1> DEFINE e == H!Inserted(c, node)
<1>1. /\ Whole(e) /\ Covers(e, c.selected, node)
      /\ \A s \in H!Stored(c) : Covers(e, s[1], s[2])
  BY InsertedIsWhole
<1>2. d \in IF e.total > H!MaxCardinalitySizeLazyPruning THEN H!prune(e) ELSE {e}
  BY DEF Offer, H!insertNewHypothesis
<1> HIDE DEF e
<1>3. ~(e.total > H!MaxCardinalitySizeLazyPruning)
  BY <1>1, WholeHasRoom
<1>4. d = e
  BY <1>2, <1>3
<1>5. QED
  BY <1>1, <1>4

\* After all rules of a phrase each of them is there, and what there was before.
LEMMA OfferedIsWhole ==
    ASSUME RoomForAll, DoPrunePreInsertion = FALSE,
           NEW node, NEW n \in Nat, n = Len(candidates[phrase]), DOMAIN candidates[phrase] = 1..n,
           OfferedTo(node, curr), Whole(curr),
           \A i \in 1..n : LET new == NewNode(node, phrase[1], phrase[2], candidates[phrase][i])
                           IN  new.cost \in Int /\ new.state \in States,
           NEW c \in Offered(node)
    PROVE  /\ Whole(c) /\ \A s \in H!Stored(curr) : Covers(c, s[1], s[2])
           /\ \A i \in 1..n : Covers(c, curr.selected, NewNode(node, phrase[1], phrase[2], candidates[phrase][i]))
<1> DEFINE new(i) == NewNode(node, phrase[1], phrase[2], candidates[phrase][i])
           good(d, i) == /\ OfferedTo(node, d) /\ Whole(d)
                         /\ \A s \in H!Stored(curr) : Covers(d, s[1], s[2])
                         /\ \A j \in 1..i : Covers(d, curr.selected, new(j))
<1>0. \A i \in 1..n : new(i).cost \in Int /\ new(i).state \in States
  OBVIOUS
<1>1. PICK f : /\ f[0] = {curr} /\ f[n] = Offered(node)
               /\ \A i \in 1..n : \A d \in f[i] : \E e \in f[i-1] : d \in Offer(e, new(i))
  BY IterationIs DEF Iteration
<1> HIDE DEF new
<1> DEFINE S == {i \in 0..n : \E d \in f[i] : ~good(d, i)}
<1>2. S = {}
  <2>1. SUFFICES ASSUME S # {} PROVE FALSE
    OBVIOUS
  <2>2. S \in SUBSET Nat /\ S \subseteq 0..n
    OBVIOUS
  <2>3. PICK m \in S : \A k \in S : m <= k
    <3> HIDE DEF S
    <3>1. QED
      BY <2>1, <2>2, LeastNumber
  <2>4. PICK d \in f[m] : ~good(d, m)
    OBVIOUS
  <2>5. m # 0
    <3>1. SUFFICES ASSUME m = 0 PROVE FALSE
      OBVIOUS
    <3>2. d = curr
      BY <1>1, <3>1
    <3>3. \A s \in H!Stored(curr) : Covers(curr, s[1], s[2])
      <4>1. \A s \in H!Stored(curr) : s[2].cost \in Int
        BY DEF Whole
      <4>2. QED
        BY <4>1, CoversItself
    <3>4. \A j \in 1..0 : FALSE
      OBVIOUS
    <3>5. QED
      BY <2>4, <3>1, <3>2, <3>3, <3>4
  <2>6. m \in 1..n /\ m - 1 \in 0..n /\ m - 1 < m
    BY <2>5
  <2>7. m - 1 \notin S
    <3> HIDE DEF S
    <3>1. QED
      BY <2>3, <2>6
  <2>8. PICK e \in f[m-1] : d \in Offer(e, new(m))
    BY <1>1, <2>4, <2>6
  <2>9. good(e, m-1)
    BY <2>6, <2>7, <2>8
  <2>10. OfferedTo(node, d)
    BY <2>6, <2>8, <2>9, OfferIs DEF new
  <2>11. new(m).cost \in Int /\ new(m).state \in States
    BY <1>0, <2>6
  <2>12. /\ Whole(d) /\ Covers(d, e.selected, new(m))
         /\ \A s \in H!Stored(e) : Covers(d, s[1], s[2])
    BY <2>8, <2>9, <2>11, OfferIsWhole DEF OfferedTo
  <2>13. e.selected = curr.selected
    BY <2>9 DEF OfferedTo
  <2>14. \A s \in H!Stored(curr) : Covers(d, s[1], s[2])
    <3>1. ASSUME NEW s \in H!Stored(curr) PROVE Covers(d, s[1], s[2])
      <4>1. s[2].cost \in Int /\ Covers(e, s[1], s[2])
        BY <2>9 DEF Whole
      <4>2. QED
        BY <2>9, <2>12, <4>1, CoversStill
    <3>2. QED
      BY <3>1
  <2>15. \A j \in 1..m : Covers(d, curr.selected, new(j))
    <3>1. ASSUME NEW j \in 1..m PROVE Covers(d, curr.selected, new(j))
      <4>1. CASE j = m
        BY <2>12, <2>13, <4>1
      <4>2. CASE j # m
        <5>1. j \in 1..m-1 /\ j \in 1..n
          BY <2>6, <4>2
        <5>2. Covers(e, curr.selected, new(j)) /\ new(j).cost \in Int
          BY <1>0, <2>9, <5>1
        <5>3. QED
          BY <2>9, <2>12, <5>2, CoversStill
      <4>3. QED
        BY <4>1, <4>2
    <3>2. QED
      BY <3>1
  <2>16. QED
    BY <2>4, <2>10, <2>12, <2>14, <2>15
<1>3. c \in f[n] /\ n \in 0..n
  BY <1>1
<1>4. good(c, n)
  BY <1>2, <1>3
<1>5. QED
  BY <1>4 DEF new

\* Containers that differ in what is selected, best or worst only.
LEMMA SameIsWhole ==
    ASSUME NEW c, Whole(c), NEW d, Clean(d), H!Stored(d) = H!Stored(c), d.lex = c.lex,
           d.total = c.total, \A v \in d.keys \ c.keys : c.lex[v].nodes = {}
    PROVE  Whole(d) /\ \A s \in H!Stored(c) : Covers(d, s[1], s[2])
<1>1. Whole(d)
  BY DEF Whole
<1>2. ASSUME NEW s \in H!Stored(c) PROVE Covers(d, s[1], s[2])
  BY CoversItself DEF Whole
<1>3. QED
  BY <1>1, <1>2

-----------------------------------------------------------------------------
(* What the steps of the search do to whole containers.                       *)

\* Nothing is pruned, positions fit a node, and costs have a bound.
KeepsAll(C) ==
    /\ N < 2^PositionBits /\ DoPrunePreInsertion = FALSE /\ RoomForAll /\ CostsUpTo(C)

\* A step changes the container of the new cardinality at most.
LEMMA OthersStay ==
    ASSUME SearchInv, [Next]_vars, NEW k \in 0..N, k # NewCardinality
    PROVE  holder'[k] = holder[k]
<1>1. ASSUME NEW c, holder' = [holder EXCEPT ![NewCardinality] = c]
      PROVE  holder'[k] = holder[k]
  BY <1>1 DEF SearchInv, Sane
<1>2. UNCHANGED holder \/ \E c : holder' = [holder EXCEPT ![NewCardinality] = c]
  BY DEF Next, VisitCoverage, NextPrevCardinality, SkipPosition, SelectPhrase, ExtendNode, EndPhrase,
         EndCoverage, EndCardinality, Finalized, FindGoal, vars
<1>3. QED
  BY <1>1, <1>2

\* The nodes that are offered can be stored.
LEMMA OffersAreStates ==
    ASSUME NEW C, KeepsAll(C), SearchInv, AllPriced(C), pc = "nodes", NEW node \in nodes,
           NEW i \in DOMAIN candidates[phrase]
    PROVE  LET new == NewNode(node, phrase[1], phrase[2], candidates[phrase][i])
           IN  new.cost \in Int /\ new.state \in States
<1> DEFINE new == NewNode(node, phrase[1], phrase[2], candidates[phrase][i])
<1>1. Priced(C, NewCardinality, new)
  BY OffersArePriced DEF KeepsAll
<1>2. new.state = <<new.end, new.features>> /\ new.features = candidates[phrase][i].state
  BY DEF NewNode, FutureState
<1>3. candidates[phrase][i].state \in RuleState
  BY NodesAreStored, RulesAre DEF SearchInv, LoopsInv
<1> HIDE DEF new
<1>4. new.end \in 0..N
  BY <1>1 DEF Priced
<1>5. new.cost \in Int
  <2>1. C \in Nat /\ StepBound(C) \in Nat /\ RestBound(C) \in Nat /\ NewCardinality \in Nat
    BY LoopFacts, BoundsAre DEF KeepsAll, CostsUpTo
  <2>2. PICK m \in Nat : m = NewCardinality * StepBound(C)
    BY <2>1, Multiples
  <2>3. new.own \in 0..m
    BY <1>1, <2>2 DEF Priced
  <2>4. new.cost \in new.own .. new.own + RestBound(C)
    BY <1>1 DEF Priced
  <2>5. QED
    BY <2>4
<1>6. QED
  BY <1>2, <1>3, <1>4, <1>5 DEF States, new

\* Extending a node within reach stores, for each rule, its node or a cheaper one.
LEMMA ExtendNodeCovers ==
    ASSUME NEW C, KeepsAll(C), SearchInv, AllPriced(C), AllWhole, NEW node \in nodes, ExtendNode(node)
    PROVE  /\ Whole(holder'[NewCardinality])
           /\ \A s \in H!Stored(curr) : Covers(holder'[NewCardinality], s[1], s[2])
           /\ Conforms(node, phrase[1], phrase[2]) =>
                \A i \in DOMAIN candidates[phrase] :
                    Covers(holder'[NewCardinality], curr.selected,
                           NewNode(node, phrase[1], phrase[2], candidates[phrase][i]))
<1>1. Whole(curr) /\ pc = "nodes"
  BY LoopFacts DEF AllWhole, curr, ExtendNode
<1>2. CASE ~Conforms(node, phrase[1], phrase[2])
  <2>1. holder'[NewCardinality] = curr
    BY <1>2 DEF ExtendNode, curr
  <2>2. \A s \in H!Stored(curr) : Covers(curr, s[1], s[2])
    <3>1. \A s \in H!Stored(curr) : s[2].cost \in Int
      BY <1>1 DEF Whole
    <3>2. QED
      BY <3>1, CoversItself
  <2>3. QED
    BY <1>1, <1>2, <2>1, <2>2
<1>3. CASE Conforms(node, phrase[1], phrase[2])
  <2>1. PICK c \in Offered(node) : holder' = [holder EXCEPT ![NewCardinality] = c]
    BY <1>3 DEF ExtendNode
  <2>2. NewPhraseBeginPos <= N - NewPhraseCardinality /\ curr.selected \in curr.keys
    BY <1>1 DEF SearchInv, PhraseInv
  <2>3. OfferedTo(node, curr)
    BY <2>2, LoopFacts DEF OfferedTo
  <2>4. PICK n \in Nat : n = Len(candidates[phrase]) /\ DOMAIN candidates[phrase] = 1..n
    BY <2>2, PhraseFacts
  <2>5. \A i \in 1..n : LET new == NewNode(node, phrase[1], phrase[2], candidates[phrase][i])
                        IN  new.cost \in Int /\ new.state \in States
    BY <1>1, <2>4, OffersAreStates
  <2>6. /\ Whole(c) /\ \A s \in H!Stored(curr) : Covers(c, s[1], s[2])
        /\ \A i \in 1..n : Covers(c, curr.selected, NewNode(node, phrase[1], phrase[2], candidates[phrase][i]))
    BY <1>1, <2>3, <2>4, <2>5, OfferedIsWhole DEF KeepsAll
  <2>7. holder'[NewCardinality] = c
    BY <2>1, LoopFacts DEF SearchInv, Sane
  <2>8. QED
    BY <2>4, <2>6, <2>7
<1>4. QED
  BY <1>2, <1>3

LEMMA CurrCovers ==
    ASSUME NEW C, KeepsAll(C), SearchInv, AllPriced(C), AllWhole, [Next]_vars
    PROVE  /\ Whole(holder'[NewCardinality])
           /\ \A s \in H!Stored(curr) : Covers(holder'[NewCardinality], s[1], s[2])
<1>1. Whole(curr) /\ Clean(curr) /\ Filled(curr)
  BY LoopFacts DEF AllWhole, curr
<1>2. ASSUME NEW c, holder' = [holder EXCEPT ![NewCardinality] = c],
             Clean(c), H!Stored(c) = H!Stored(curr), c.lex = curr.lex, c.total = curr.total,
             \A v \in c.keys \ curr.keys : curr.lex[v].nodes = {}
      PROVE  /\ Whole(holder'[NewCardinality])
             /\ \A s \in H!Stored(curr) : Covers(holder'[NewCardinality], s[1], s[2])
  <2>1. holder'[NewCardinality] = c
    BY <1>2, LoopFacts DEF SearchInv, Sane
  <2>2. QED
    BY <1>1, <1>2, <2>1, SameIsWhole
<1>3. CASE UNCHANGED holder
  <2>1. holder'[NewCardinality] = curr
    BY <1>3 DEF curr
  <2>2. QED
    BY <1>1, <2>1, SameIsWhole
<1>4. CASE SelectPhrase
  <2> DEFINE coverage == PrevCoverage \cup phraseSpan
             c == H!Select(curr, coverage)
  <2>1. /\ holder' = [holder EXCEPT ![NewCardinality] = c] /\ pc = "positions"
        /\ NewPhraseBeginPos <= N - NewPhraseCardinality /\ phraseSpan \cap PrevCoverage = {}
    BY <1>4 DEF SelectPhrase, Fits, curr
  <2>2. NoneEmpty(curr) /\ coverage \in SUBSET Position
    BY <2>1, NewCoverageIs DEF SearchInv, LoopsInv
  <2> HIDE DEF coverage
  <2>3. /\ H!Stored(c) = H!Stored(curr) /\ Clean(c) /\ c.lex = curr.lex
        /\ c.keys = curr.keys \cup {coverage}
    BY <1>1, <2>2, SelectIs DEF NoneEmpty
  <2>4. c.total = curr.total
    BY <1>1 DEF H!Select, Clean
  <2> HIDE DEF c
  <2>5. \A v \in c.keys \ curr.keys : curr.lex[v].nodes = {}
    BY <1>1, <2>2, <2>3 DEF Clean
  <2>6. QED
    BY <1>2, <2>1, <2>3, <2>4, <2>5
<1>5. CASE EndPhrase
  <2> DEFINE c == H!Deselect(curr)
  <2>1. holder' = [holder EXCEPT ![NewCardinality] = c] /\ curr.selected \in curr.keys
    BY <1>5 DEF EndPhrase, curr, SearchInv, PhraseInv
  <2>2. H!Stored(c) = H!Stored(curr) /\ Clean(c) /\ c.lex = curr.lex /\ c.keys \subseteq curr.keys
    BY <1>1, <2>1, DeselectIs
  <2>3. c.total = curr.total
    BY <1>1 DEF H!Deselect, Clean
  <2> HIDE DEF c
  <2>4. QED
    BY <1>2, <2>1, <2>2, <2>3
<1>6. CASE EndCardinality
  <2>1. PICK c \in H!prune(curr) : holder' = [holder EXCEPT ![NewCardinality] = c]
    BY <1>6 DEF EndCardinality, Finalized
  <2>2. curr.total <= MaxCardinalityContainerSize
    BY <1>1, WholeHasRoom DEF KeepsAll
  <2>3. c \in H!UpdateBestAndWorst(curr)
    BY <2>1, <2>2 DEF H!prune
  <2>4. Clean(c) /\ c.keys = curr.keys /\ c.lex = curr.lex /\ H!Stored(c) = H!Stored(curr)
    BY <1>1, <2>3, UpdateIs
  <2>5. c.total = curr.total
    <3>1. PICK b, w : c = [curr EXCEPT !.best = b, !.worst = w]
      BY <2>3 DEF H!UpdateBestAndWorst
    <3>2. QED
      BY <1>1, <3>1 DEF Clean
  <2>6. QED
    BY <1>2, <2>1, <2>4, <2>5
<1>7. ASSUME NEW node \in nodes, ExtendNode(node)
      PROVE  /\ Whole(holder'[NewCardinality])
             /\ \A s \in H!Stored(curr) : Covers(holder'[NewCardinality], s[1], s[2])
  BY <1>7, ExtendNodeCovers
<1>8. QED
  BY <1>3, <1>4, <1>5, <1>6, <1>7
     DEF Next, VisitCoverage, NextPrevCardinality, SkipPosition, EndCoverage, FindGoal, vars

LEMMA EmptyIsWhole == Whole(H!EmptyContainer)
<1> DEFINE c == H!EmptyContainer
<1>1. Clean(c) /\ H!Stored(c) = {} /\ c.keys = {} /\ c.total = 0
  BY EmptyIsClean DEF H!EmptyContainer
<1>2. IsFiniteSet({}) /\ Cardinality({}) = 0
  BY FS_EmptySet
<1> HIDE DEF c
<1>3. Whole(c)
  BY <1>1, <1>2 DEF Whole
<1>4. QED
  BY <1>3 DEF c

LEMMA AllStayWhole ==
    ASSUME NEW C, KeepsAll(C)
    PROVE  Spec => []AllWhole
<1>1. Init => AllWhole
  <2> SUFFICES ASSUME Init, NEW k \in 1..N PROVE Whole(holder[k])
    BY DEF AllWhole
  <2>1. holder[k] = H!EmptyContainer
    BY SentenceAssumption DEF Init
  <2>2. QED
    BY <2>1, EmptyIsWhole
<1>2. SearchInv /\ AllPriced(C) /\ AllWhole /\ [Next]_vars => AllWhole'
  <2> SUFFICES ASSUME SearchInv, AllPriced(C), AllWhole, [Next]_vars, NEW k \in 1..N
               PROVE  Whole(holder'[k])
    BY DEF AllWhole, Whole
  <2>1. CASE k = NewCardinality
    BY <2>1, CurrCovers
  <2>2. CASE k # NewCardinality
    <3>1. k \in 0..N
      BY SentenceAssumption
    <3>2. holder'[k] = holder[k]
      BY <2>2, <3>1, OthersStay
    <3>3. QED
      BY <3>2 DEF AllWhole
  <2>3. QED
    BY <2>1, <2>2
<1>3. CostsUpTo(C)
  BY DEF KeepsAll
<1>4. Spec => []AllPriced(C)
  BY <1>3, AllStayPriced
<1>5. QED
  BY <1>1, <1>2, <1>4, SearchIsInvariant, PTL DEF Spec

-----------------------------------------------------------------------------
(* The rules stay, and what is computed from them with them.                  *)

\* RestCostMatrix, PhrasesRestCost and CostToGo, of any table.
MatrixOf(table) ==
    LET cost[p \in Phrase] == Least({Least({table[p][i].cost : i \in DOMAIN table[p]})}
            \cup {cost[<<p[1], k>>] + cost[<<p[1] + k, p[2] - k>>] : k \in 1..p[2]-1})
    IN  cost
PhrasesCostOf(matrix, coverage) == MapThenSumSet(LAMBDA p : matrix[p], Gaps(coverage))
TranslationsOf(table, at) ==
    UNION {{<<<<at[1] \cup Span(p[1], p[2]), p[1], p[1] + p[2], table[p][i].state>>,
              table[p][i].cost + ContextCost[at[4], table[p][i].state]
                  + getJumpCost(Abs(p[1] - at[3])),
              table[p][i].cost + getJumpCost(Abs(p[1] - at[3]))>> : i \in DOMAIN table[p]} :
        p \in {q \in Phrase :
            /\ Span(q[1], q[2]) \cap at[1] = {}
            /\ conformsHardReorderingJumpLimit(at[1], at[2], at[3], q[1], q[1] + q[2])}}
CostToGoOf(table) ==
    LET togo[at \in (SUBSET Position) \X Position \X (0..N) \X (RuleState \cup {RootState})] ==
            IF at[1] = Position THEN 0
            ELSE Least({t[2] + togo[t[1]] : t \in TranslationsOf(table, at)})
    IN  togo

LEMMA PhrasesCostIsOf == \A v : PhrasesRestCost(v) = PhrasesCostOf(RestCostMatrix, v)
BY DEF PhrasesRestCost, PhrasesCostOf

LEMMA PhrasesCostWillBe == (\A v : PhrasesRestCost(v) = PhrasesCostOf(RestCostMatrix, v))'
BY PhrasesCostIsOf, PTL

LEMMA PositionCostStays == \A v, e : getRestCostForPosition(v, e)' = getRestCostForPosition(v, e)
OBVIOUS

LEMMA SameRules ==
    ASSUME candidates' = candidates
    PROVE  /\ CostToGo' = CostToGo
           /\ \A v, e : calculateRestCost(v, e)' = calculateRestCost(v, e)
<1>1. CostToGo' = CostToGo
  <2>1. CostToGo = CostToGoOf(candidates)
    BY DEF CostToGo, LeastToGo, Translations, CostToGoOf, TranslationsOf
  <2>2. CostToGo' = CostToGoOf(candidates')
    BY DEF CostToGo, LeastToGo, Translations, CostToGoOf, TranslationsOf
  <2>3. QED
    BY <2>1, <2>2
<1>2. RestCostMatrix' = RestCostMatrix
  <2>1. RestCostMatrix = MatrixOf(candidates)
    BY DEF RestCostMatrix, bestApproximateCost, MatrixOf
  <2>2. RestCostMatrix' = MatrixOf(candidates')
    BY DEF RestCostMatrix, bestApproximateCost, MatrixOf
  <2>3. QED
    BY <2>1, <2>2
<1>3. \A v : PhrasesRestCost(v)' = PhrasesRestCost(v)
  BY <1>2, PhrasesCostIsOf, PhrasesCostWillBe
<1>4. \A v, e : calculateRestCost(v, e)' = calculateRestCost(v, e)
  BY <1>3, PositionCostStays DEF calculateRestCost
<1>5. QED
  BY <1>1, <1>4

LEMMA RulesStay ==
    ASSUME [Next]_vars
    PROVE  /\ candidates' = candidates /\ CostToGo' = CostToGo
           /\ \A v, e : calculateRestCost(v, e)' = calculateRestCost(v, e)
<1>1. candidates' = candidates
  BY DEF Next, vars, VisitCoverage, NextPrevCardinality, SkipPosition, SelectPhrase, ExtendNode,
         EndPhrase, EndCoverage, EndCardinality, FindGoal
<1>2. QED
  BY <1>1, SameRules

-----------------------------------------------------------------------------
(* Hypotheses and places of the reference.                                    *)

\* NewNode, of a sentence whose positions fit.
OwnCost(node, b, rule) ==
    node.own + rule.cost + ContextCost[node.features, rule.state] + getJumpCost(Abs(b - node.end))
Made(node, rule, own, rest, v, b, e) ==
    [state |-> <<e, rule.state>>, features |-> rule.state, own |-> own, cost |-> own + rest,
     begin |-> b, end |-> e, coverage |-> v, prev |-> node]

LEMMA MadeIs ==
    ASSUME NEW node, NEW rule, NEW own, NEW rest, NEW v, NEW b, NEW e
    PROVE  LET new == Made(node, rule, own, rest, v, b, e)
           IN  /\ new.begin = b /\ new.end = e /\ new.features = rule.state
               /\ new.state = <<e, rule.state>> /\ new.own = own /\ new.cost = own + rest
               /\ new.coverage = v
BY DEF Made

LEMMA NewNodeMade ==
    ASSUME N < 2^PositionBits, NEW node, NEW p \in Phrase, NEW rule
    PROVE  LET v == node.coverage \cup Span(p[1], p[2])
               e == p[1] + p[2]
           IN  NewNode(node, p[1], p[2], rule)
                 = Made(node, rule, OwnCost(node, p[1], rule), calculateRestCost(v, e), v, p[1], e)
<1>1. p[1] % 2^PositionBits = p[1] /\ (p[1] + p[2]) % 2^PositionBits = p[1] + p[2]
  <2>1. p[1] \in Nat /\ p[1] < 2^PositionBits /\ p[1] + p[2] \in Nat /\ p[1] + p[2] < 2^PositionBits
    BY PhraseIs, Remainders
  <2>2. QED
    BY <2>1, Remainders
<1> DEFINE v == node.coverage \cup Span(p[1], p[2])
           made(b, e) == Made(node, rule, OwnCost(node, b, rule), calculateRestCost(v, p[1] + p[2]), v, b, e)
<1>2. NewNode(node, p[1], p[2], rule) = made(p[1] % 2^PositionBits, (p[1] + p[2]) % 2^PositionBits)
  BY DEF NewNode, FutureState, Made, OwnCost
<1> HIDE DEF made
<1>3. NewNode(node, p[1], p[2], rule) = made(p[1], p[1] + p[2])
  BY <1>1, <1>2
<1>4. QED
  BY <1>3 DEF made

\* What the node that extends another by a phrase with a rule is.
ExtendsBy(new, node, p, rule) ==
    /\ new.begin = p[1] /\ new.end = p[1] + p[2] /\ new.features = rule.state
    /\ new.state = <<p[1] + p[2], rule.state>>
    /\ new.coverage = node.coverage \cup Span(p[1], p[2])
    /\ new.own = OwnCost(node, p[1], rule)
    /\ new.cost = new.own + calculateRestCost(new.coverage, new.end)

LEMMA NewNodeIs ==
    ASSUME N < 2^PositionBits, NEW node, NEW p \in Phrase, NEW rule
    PROVE  ExtendsBy(NewNode(node, p[1], p[2], rule), node, p, rule)
<1> DEFINE v == node.coverage \cup Span(p[1], p[2])
           e == p[1] + p[2]
           own == OwnCost(node, p[1], rule)
           rest == calculateRestCost(v, e)
<1>1. NewNode(node, p[1], p[2], rule) = Made(node, rule, own, rest, v, p[1], e)
  BY NewNodeMade
<1> HIDE DEF v, e, own, rest
<1>2. LET new == NewNode(node, p[1], p[2], rule)
      IN  /\ new.begin = p[1] /\ new.end = e /\ new.features = rule.state
          /\ new.state = <<e, rule.state>> /\ new.coverage = v /\ new.own = own
          /\ new.cost = new.own + rest
  BY <1>1, MadeIs
<1>3. QED
  BY <1>2 DEF v, e, own, rest, ExtendsBy

LEMMA NewNodeIsTold ==
    ASSUME NEW C, KeepsAll(C), candidates \in CandidateTables,
           NEW j \in Nat, NEW k \in Nat, j < k, NEW node, Priced(C, j, node),
           NEW p \in Phrase, NEW i \in DOMAIN candidates[p]
    PROVE  Told(NewNode(node, p[1], p[2], candidates[p][i]))
<1> DEFINE new == NewNode(node, p[1], p[2], candidates[p][i])
           rest == calculateRestCost(new.coverage, new.end)
<1>0. N < 2^PositionBits
  BY DEF KeepsAll
<1>1. /\ new.begin = p[1] /\ new.end = p[1] + p[2] /\ new.features = candidates[p][i].state
      /\ new.state = <<p[1] + p[2], candidates[p][i].state>> /\ new.cost = new.own + rest
  <2>1. ExtendsBy(new, node, p, candidates[p][i])
    BY <1>0, NewNodeIs
  <2> HIDE DEF new
  <2>2. QED
    BY <2>1 DEF ExtendsBy
<1>2. Priced(C, k, new)
  BY NewNodeIsPriced DEF KeepsAll
<1>3. candidates[p][i].state \in RuleState
  BY RulesAre
<1>4. new.end \in 0..N
  BY <1>2 DEF Priced
<1>5. C \in Nat /\ CostsUpTo(C) /\ N \in Nat /\ N * (N * C) \in Nat /\ N * JumpBound \in Nat /\ StepBound(C) \in Nat
  BY BoundsAre DEF KeepsAll, CostsUpTo
<1>6. rest \in Int
  <2>1. PhrasesRestCost(new.coverage) \in 0 .. N * (N * C)
    BY <1>5, PhrasesCostIsBounded
  <2>2. getRestCostForPosition(new.coverage, new.end) \in 0 .. N * JumpBound
    BY <1>4, PositionCostIsBounded
  <2> HIDE DEF new
  <2>3. PICK a \in Int, b \in Int : a = PhrasesRestCost(new.coverage) /\ b = getRestCostForPosition(new.coverage, new.end)
    BY <1>5, <2>1, <2>2
  <2>4. QED
    BY <2>3 DEF calculateRestCost
<1>7. new.own \in Int
  <2>1. PICK m \in Nat : m = k * StepBound(C)
    BY <1>5, Multiples
  <2>2. new.own \in 0..m
    BY <1>2, <2>1 DEF Priced
  <2> HIDE DEF new
  <2>3. QED
    BY <2>2
<1>8. p[1] < p[1] + p[2]
  BY PhraseIs
<1> HIDE DEF new
<1>9. rest = new.cost - new.own
  BY <1>1, <1>6, <1>7
<1>10. Told(new)
  BY <1>1, <1>3, <1>8, <1>9 DEF Told
<1>11. QED
  BY <1>10 DEF new

LEMMA AllStayTold ==
    ASSUME NEW C, KeepsAll(C)
    PROVE  Spec => []AllTold
<1>1. Init => AllTold
  <2> SUFFICES ASSUME Init, NEW k \in 1..N, NEW s \in H!Stored(holder[k]) PROVE FALSE
    BY DEF AllTold
  <2>1. holder[k] = H!EmptyContainer
    BY SentenceAssumption DEF Init
  <2>2. QED
    BY <2>1, EmptyIsClean
<1>2. SearchInv /\ AllPriced(C) /\ AllTold /\ [Next]_vars => AllTold'
  <2> SUFFICES ASSUME SearchInv, AllPriced(C), AllTold, [Next]_vars,
                      NEW k \in 1..N, NEW s \in H!Stored(holder'[k])
               PROVE  Told(s[2])
    BY RulesStay DEF AllTold, Told
  <2>0. k \in 0..N
    BY SentenceAssumption
  <2>1. CASE s \in H!Stored(holder[k])
    BY <2>1 DEF AllTold
  <2>2. CASE s \notin H!Stored(holder[k])
    <3>1. PICK node \in nodes : ExtendNode(node)
      BY <2>0, <2>2, OtherStepsStoreNothing DEF StoredStay
    <3>2. PICK i \in DOMAIN candidates[phrase] :
                s[2] = NewNode(node, phrase[1], phrase[2], candidates[phrase][i])
      BY <2>0, <2>2, <3>1, ExtendNodeStores
    <3>3. pc = "nodes"
      BY <3>1 DEF ExtendNode
    <3>4. phrase \in Phrase /\ Priced(C, PrevCardinality, node)
      BY <3>3, NodesAreStored, LoopFacts DEF AllPriced
    <3>5. QED
      BY <3>2, <3>4, LoopFacts, NewNodeIsTold DEF SearchInv, LoopsInv
  <2>3. QED
    BY <2>1, <2>2
<1>3. Spec => []AllPriced(C)
  BY AllStayPriced DEF KeepsAll
<1>4. QED
  BY <1>1, <1>2, <1>3, SearchIsInvariant, PTL DEF Spec

\* Where the last phrase began makes no difference.
LEMMA BeginMakesNoDifference ==
    ASSUME candidates \in CandidateTables, NEW at \in Place, NEW to \in Place,
           at[1] = to[1], at[3] = to[3], at[4] = to[4], at[2] # at[3], to[2] # to[3]
    PROVE  CostToGo[at] = CostToGo[to]
<1>1. \A b, e : conformsHardReorderingJumpLimit(at[1], at[2], at[3], b, e)
                  <=> conformsHardReorderingJumpLimit(to[1], to[2], to[3], b, e)
  <2> SUFFICES ASSUME NEW b, NEW e
               PROVE  conformsHardReorderingJumpLimit(at[1], at[2], at[3], b, e)
                        <=> conformsHardReorderingJumpLimit(to[1], to[2], to[3], b, e)
    OBVIOUS
  <2>1. conformsHardReorderingJumpLimit(at[1], at[2], at[3], b, e) <=>
          Abs(at[3] - b) <= HardReorderingJumpLimit /\ Abs(e - FirstEmptyPosition(at[1])) <= HardReorderingJumpLimit
    BY DEF conformsHardReorderingJumpLimit
  <2>2. conformsHardReorderingJumpLimit(to[1], to[2], to[3], b, e) <=>
          Abs(to[3] - b) <= HardReorderingJumpLimit /\ Abs(e - FirstEmptyPosition(to[1])) <= HardReorderingJumpLimit
    BY DEF conformsHardReorderingJumpLimit
  <2>3. QED
    BY <2>1, <2>2
<1> DEFINE near(a) == {q \in Phrase : /\ Span(q[1], q[2]) \cap a[1] = {}
                                      /\ conformsHardReorderingJumpLimit(a[1], a[2], a[3], q[1], q[1] + q[2])}
           steps(a, S) ==
               UNION {{<<<<a[1] \cup Span(p[1], p[2]), p[1], p[1] + p[2], candidates[p][i].state>>,
                         candidates[p][i].cost + ContextCost[a[4], candidates[p][i].state]
                             + getJumpCost(Abs(p[1] - a[3])),
                         candidates[p][i].cost + getJumpCost(Abs(p[1] - a[3]))>> : i \in DOMAIN candidates[p]} : p \in S}
<1>2. Translations(at) = Translations(to)
  <2>1. near(at) = near(to)
    BY <1>1
  <2>2. \A S : steps(at, S) = steps(to, S)
    OBVIOUS
  <2>3. Translations(at) = steps(at, near(at)) /\ Translations(to) = steps(to, near(to))
    BY DEF Translations
  <2> HIDE DEF near, steps
  <2>4. QED
    BY <2>1, <2>2, <2>3
<1>3. CheapestNext(2, CostToGo, at) = CheapestNext(2, CostToGo, to)
  BY <1>2 DEF CheapestNext
<1>4. QED
  BY <1>3, CostToGoIs

-----------------------------------------------------------------------------
(* Steps of the search and of the reference.                                  *)

\* The step of the reference, as the node takes it.
StepBy(node, p, rule) ==
    <<<<node.coverage \cup Span(p[1], p[2]), p[1], p[1] + p[2], rule.state>>,
      rule.cost + ContextCost[node.features, rule.state] + getJumpCost(Abs(p[1] - node.end)),
      rule.cost + getJumpCost(Abs(p[1] - node.end))>>

LEMMA StepsOfNode ==
    ASSUME NEW node
    PROVE  \A t : t \in Translations(PlaceOf(node)) <=>
              \E p \in Phrase : \E i \in DOMAIN candidates[p] :
                  CanTake(node, p) /\ t = StepBy(node, p, candidates[p][i])
<1> DEFINE near(v, b, e, p) == /\ Span(p[1], p[2]) \cap v = {}
                               /\ conformsHardReorderingJumpLimit(v, b, e, p[1], p[1] + p[2])
           step(v, e, f, p, rule) ==
               <<<<v \cup Span(p[1], p[2]), p[1], p[1] + p[2], rule.state>>,
                 rule.cost + ContextCost[f, rule.state] + getJumpCost(Abs(p[1] - e)),
                 rule.cost + getJumpCost(Abs(p[1] - e))>>
<1>1. ASSUME NEW v, NEW b, NEW e, NEW f, NEW t
      PROVE  t \in Translations(<<v, b, e, f>>) <=>
               \E p \in Phrase : \E i \in DOMAIN candidates[p] :
                   near(v, b, e, p) /\ t = step(v, e, f, p, candidates[p][i])
  <2>1. Translations(<<v, b, e, f>>) =
          UNION {{step(v, e, f, p, candidates[p][i]) : i \in DOMAIN candidates[p]} :
                    p \in {q \in Phrase : near(v, b, e, q)}}
    BY DEF Translations
  <2> HIDE DEF near, step
  <2>2. QED
    BY <2>1
<1>2. \A p : near(node.coverage, node.begin, node.end, p) <=> CanTake(node, p)
  BY DEF CanTake, Conforms
<1>3. \A p, rule : step(node.coverage, node.end, node.features, p, rule) = StepBy(node, p, rule)
  BY DEF StepBy
<1> HIDE DEF near, step
<1>4. QED
  BY <1>1, <1>2, <1>3 DEF PlaceOf

LEMMA StepCosts ==
    ASSUME NEW C, CostsUpTo(C), candidates \in CandidateTables, NEW at \in Place,
           NEW p \in Phrase, NEW i \in DOMAIN candidates[p]
    PROVE  /\ candidates[p][i].cost \in Nat /\ ContextCost[at[4], candidates[p][i].state] \in Int
           /\ candidates[p][i].cost + ContextCost[at[4], candidates[p][i].state] \in Nat
           /\ getJumpCost(Abs(p[1] - at[3])) \in Nat
<1>1. at[4] \in RuleState \cup {RootState} /\ at[3] \in 0..N
  BY DEF Place
<1>2. /\ C \in Nat /\ candidates[p][i].cost \in 0..C
      /\ ContextCost[at[4], candidates[p][i].state] \in Int
      /\ candidates[p][i].cost + ContextCost[at[4], candidates[p][i].state] \in 0..C
  <2>1. InContext(p, i, at[4]) = candidates[p][i].cost + ContextCost[at[4], candidates[p][i].state]
    BY DEF InContext
  <2>2. QED
    BY <1>1, <2>1, ContextIs
<1>3. \A x \in 0..C : x \in Nat
  OBVIOUS
<1>4. getJumpCost(Abs(p[1] - at[3])) \in Nat
  BY <1>1, JumpIsNat
<1>5. QED
  BY <1>2, <1>3, <1>4

\* What is left to translate costs something.
LEMMA CostToGoIsNat ==
    ASSUME NEW C, CostsUpTo(C), candidates \in CandidateTables
    PROVE  \A at \in Place : CostToGo[at] \in Nat
<1> DEFINE Bad == {at \in Place : CostToGo[at] \notin Nat}
<1>1. SUFFICES ASSUME Bad # {} PROVE FALSE
  OBVIOUS
<1>2. PICK at \in Bad : \A to \in Place : Cardinality(at[1]) < Cardinality(to[1]) => to \notin Bad
  <2>1. Bad \in SUBSET Place
    OBVIOUS
  <2> HIDE DEF Bad
  <2>2. QED
    BY <1>1, <2>1, FurthestPlace
<1>3. at \in Place /\ CostToGo[at] \notin Nat
  OBVIOUS
<1>4. CostToGo[at] = CheapestNext(2, CostToGo, at)
  BY <1>3, CostToGoIs
<1>5. at[1] # Position
  BY <1>3, <1>4 DEF CheapestNext
<1> DEFINE S == {t[2] + CostToGo[t[1]] : t \in Translations(at)}
<1>6. CostToGo[at] = Least(S)
  BY <1>4, <1>5 DEF CheapestNext
<1>7. ASSUME NEW t \in Translations(at) PROVE t[2] + CostToGo[t[1]] \in Nat
  <2> DEFINE Is(p, i) == /\ t[1] \in Place /\ Cardinality(at[1]) < Cardinality(t[1][1])
                         /\ t[2] = candidates[p][i].cost + ContextCost[at[4], candidates[p][i].state]
                                       + getJumpCost(Abs(p[1] - at[3]))
  <2>1. PICK p \in Phrase : \E i \in DOMAIN candidates[p] : Is(p, i)
    <3>1. PICK p \in Phrase : \E i \in DOMAIN candidates[p] :
              /\ Span(p[1], p[2]) \cap at[1] = {}
              /\ t[1] \in Place /\ t[1][1] = at[1] \cup Span(p[1], p[2])
              /\ Cardinality(at[1]) < Cardinality(t[1][1])
              /\ t[2] = candidates[p][i].cost + ContextCost[at[4], candidates[p][i].state]
                            + getJumpCost(Abs(p[1] - at[3]))
              /\ t[3] = candidates[p][i].cost + getJumpCost(Abs(p[1] - at[3]))
      BY <1>3, TranslationsAre
    <3>2. QED
      BY <3>1
  <2>2. PICK i \in DOMAIN candidates[p] : Is(p, i)
    BY <2>1
  <2>3. t[1] \in Place /\ t[1] \notin Bad
    BY <1>2, <2>2
  <2>4. CostToGo[t[1]] \in Nat
    BY <2>3
  <2>5. t[2] \in Nat
    <3>1. PICK x \in Nat, z \in Nat :
             /\ x = candidates[p][i].cost + ContextCost[at[4], candidates[p][i].state]
             /\ z = getJumpCost(Abs(p[1] - at[3]))
      BY <1>3, StepCosts
    <3>2. t[2] = x + z
      BY <2>2, <3>1
    <3>3. QED
      BY <3>2
  <2>6. QED
    BY <2>4, <2>5
<1>8. S \in SUBSET Nat
  BY <1>7
<1> HIDE DEF S
<1>9. Least(S) \in Nat
  <2>1. Least(S) \in Nat /\ (S = {} => Least(S) = Infinity) /\ (S # {} => Least(S) \in S)
    BY <1>8, LeastIs
  <2>2. QED
    BY <2>1
<1>10. QED
  BY <1>3, <1>6, <1>9

\* The reference takes the cheapest step.
LEMMA CheapestStep ==
    ASSUME NEW C, KeepsAll(C), candidates \in CandidateTables, NEW at \in Place, at[1] # Position
    PROVE  /\ CostToGo[at] \in Nat
           /\ \A t \in Translations(at) :
                 /\ t[1] \in Place /\ t[2] \in Nat /\ CostToGo[t[1]] \in Nat
                 /\ CostToGo[at] <= t[2] + CostToGo[t[1]]
           /\ Translations(at) # {} =>
                 \E t \in Translations(at) : CostToGo[at] = t[2] + CostToGo[t[1]]
<1> DEFINE S == {t[2] + CostToGo[t[1]] : t \in Translations(at)}
<1>0. CostsUpTo(C)
  BY DEF KeepsAll
<1>1. CostToGo[at] \in Nat
  BY <1>0, CostToGoIsNat
<1>2. CostToGo[at] = Least(S)
  <2>1. CostToGo[at] = CheapestNext(2, CostToGo, at)
    BY CostToGoIs
  <2>2. QED
    BY <2>1 DEF CheapestNext
<1>3. ASSUME NEW t \in Translations(at)
      PROVE  t[1] \in Place /\ t[2] \in Nat /\ CostToGo[t[1]] \in Nat
  <2> DEFINE Is(p, i) == /\ t[1] \in Place
                         /\ t[2] = candidates[p][i].cost + ContextCost[at[4], candidates[p][i].state]
                                       + getJumpCost(Abs(p[1] - at[3]))
  <2>0. PICK p \in Phrase : \E i \in DOMAIN candidates[p] : Is(p, i)
    <3>1. PICK p \in Phrase : \E i \in DOMAIN candidates[p] :
              /\ Span(p[1], p[2]) \cap at[1] = {}
              /\ t[1] \in Place /\ t[1][1] = at[1] \cup Span(p[1], p[2])
              /\ Cardinality(at[1]) < Cardinality(t[1][1])
              /\ t[2] = candidates[p][i].cost + ContextCost[at[4], candidates[p][i].state]
                            + getJumpCost(Abs(p[1] - at[3]))
              /\ t[3] = candidates[p][i].cost + getJumpCost(Abs(p[1] - at[3]))
      BY TranslationsAre
    <3>2. QED
      BY <3>1
  <2>1. PICK i \in DOMAIN candidates[p] : Is(p, i)
    BY <2>0
  <2>2. t[2] \in Nat
    <3>1. PICK x \in Nat, z \in Nat :
             /\ x = candidates[p][i].cost + ContextCost[at[4], candidates[p][i].state]
             /\ z = getJumpCost(Abs(p[1] - at[3]))
      BY <1>0, StepCosts
    <3>2. t[2] = x + z
      BY <2>1, <3>1
    <3>3. QED
      BY <3>2
  <2>3. QED
    BY <1>0, <2>1, <2>2, CostToGoIsNat
<1>4. S \in SUBSET Nat
  BY <1>3
<1>5. ASSUME NEW t \in Translations(at) PROVE CostToGo[at] <= t[2] + CostToGo[t[1]]
  <2>1. t[2] + CostToGo[t[1]] \in S
    OBVIOUS
  <2>2. PICK k : k = t[2] + CostToGo[t[1]]
    OBVIOUS
  <2> HIDE DEF S
  <2>3. QED
    BY <1>2, <1>4, <2>1, <2>2, LeastIs
<1>6. ASSUME Translations(at) # {}
      PROVE  \E t \in Translations(at) : CostToGo[at] = t[2] + CostToGo[t[1]]
  <2>1. S # {}
    BY <1>6
  <2>2. Least(S) \in S
    <3> HIDE DEF S
    <3>1. QED
      BY <1>4, <2>1, LeastIs
  <2>3. QED
    BY <1>2, <2>2
<1>7. QED
  BY <1>1, <1>3, <1>5, <1>6

LEMMA SumInOrder ==
    ASSUME NEW o \in Int, NEW a \in Nat, NEW b \in Int, NEW c \in Nat, a + b \in Nat
    PROVE  a + b + c \in Nat /\ o + a + b + c = o + (a + b + c)
OBVIOUS

LEMMA StepIs ==
    ASSUME NEW C, KeepsAll(C), candidates \in CandidateTables, NEW k \in Nat, NEW node,
           Priced(C, k, node), node.coverage \in SUBSET Position,
           NEW p \in Phrase, NEW i \in DOMAIN candidates[p], CanTake(node, p)
    PROVE  LET new == NewNode(node, p[1], p[2], candidates[p][i])
               t == StepBy(node, p, candidates[p][i])
           IN  /\ PlaceOf(node) \in Place /\ node.coverage # Position /\ node.own \in Int
               /\ t \in Translations(PlaceOf(node)) /\ t[1] = PlaceOf(new)
               /\ t[2] \in Nat /\ new.own = node.own + t[2]
<1> DEFINE rule == candidates[p][i]
           new == NewNode(node, p[1], p[2], rule)
           t == StepBy(node, p, rule)
<1>1. PlaceOf(node) \in Place
  BY DEF PlaceOf, Place, Priced
<1>2. node.coverage # Position
  <2>1. p[1] \in Span(p[1], p[2]) /\ p[1] \in Position
    BY PhraseIs DEF Span, Position
  <2>2. QED
    BY <2>1 DEF CanTake
<1>3. node.own \in Int
  <2>1. C \in Nat /\ StepBound(C) \in Nat
    BY BoundsAre DEF KeepsAll, CostsUpTo
  <2>2. PICK m \in Nat : m = k * StepBound(C)
    BY <2>1, Multiples
  <2>3. node.own \in 0..m
    BY <2>2 DEF Priced
  <2>4. QED
    BY <2>3
<1>4. t \in Translations(PlaceOf(node))
  BY StepsOfNode
<1>5. ExtendsBy(new, node, p, rule)
  <2>1. N < 2^PositionBits
    BY DEF KeepsAll
  <2>2. QED
    BY <2>1, NewNodeIs
<1>6. PICK x \in Nat, y \in Int, z \in Nat :
         /\ x = rule.cost /\ y = ContextCost[node.features, rule.state]
         /\ z = getJumpCost(Abs(p[1] - node.end)) /\ x + y \in Nat
  <2>1. node.features \in RuleState \cup {RootState} /\ node.end \in 0..N
    BY DEF Priced
  <2>2. CostsUpTo(C)
    BY DEF KeepsAll
  <2>3. C \in Nat
    BY <2>2 DEF CostsUpTo
  <2>4. /\ rule.cost \in 0..C /\ ContextCost[node.features, rule.state] \in Int
        /\ rule.cost + ContextCost[node.features, rule.state] \in 0..C
    <3>1. InContext(p, i, node.features) = rule.cost + ContextCost[node.features, rule.state]
      BY DEF InContext
    <3>2. QED
      BY <2>1, <2>2, <3>1, ContextIs
  <2>5. getJumpCost(Abs(p[1] - node.end)) \in Nat
    BY <2>1, JumpIsNat
  <2>6. \A a \in 0..C : a \in Nat
    BY <2>3
  <2>7. QED
    BY <2>4, <2>5, <2>6
<1> HIDE DEF new, rule
<1>7. t[1] = PlaceOf(new)
  <2>1. t[1] = <<node.coverage \cup Span(p[1], p[2]), p[1], p[1] + p[2], rule.state>>
    BY DEF StepBy
  <2>2. QED
    BY <1>5, <2>1 DEF ExtendsBy, PlaceOf
<1>8. t[2] = x + y + z
  BY <1>6 DEF StepBy
<1>9. new.own = node.own + x + y + z
  BY <1>5, <1>6 DEF ExtendsBy, OwnCost
<1>10. t[2] \in Nat /\ new.own = node.own + t[2]
  <2>1. x + y \in Nat
    BY <1>6
  <2>2. x + y + z \in Nat /\ node.own + x + y + z = node.own + (x + y + z)
    BY <1>3, <2>1, SumInOrder
  <2>3. QED
    BY <1>8, <1>9, <2>2
<1>11. QED
  BY <1>1, <1>2, <1>3, <1>4, <1>7, <1>10 DEF new, rule

LEMMA StartIs ==
    ASSUME NEW C, KeepsAll(C), candidates \in CandidateTables
    PROVE  Start \in Place /\ CostToGo[Start] \in Nat
<1>1. Start \in Place
  BY SentenceAssumption DEF Start, Place, Position
<1>2. QED
  BY <1>1, CostToGoIsNat DEF KeepsAll

LEMMA NextIsSound ==
    ASSUME NEW C, KeepsAll(C), candidates \in CandidateTables, NEW k \in Nat, NEW node,
           Priced(C, k, node), node.coverage \in SUBSET Position, Sound(node),
           NEW p \in Phrase, NEW i \in DOMAIN candidates[p], CanTake(node, p)
    PROVE  Sound(NewNode(node, p[1], p[2], candidates[p][i]))
<1> DEFINE new == NewNode(node, p[1], p[2], candidates[p][i])
           t == StepBy(node, p, candidates[p][i])
           at == PlaceOf(node)
<1>1. /\ at \in Place /\ node.coverage # Position /\ node.own \in Int
      /\ t \in Translations(at) /\ t[1] = PlaceOf(new)
      /\ t[2] \in Nat /\ new.own = node.own + t[2]
  BY StepIs
<1>2. at[1] # Position
  BY <1>1 DEF PlaceOf
<1> HIDE DEF new, t
<1>3. CostToGo[at] \in Nat /\ CostToGo[t[1]] \in Nat /\ CostToGo[at] <= t[2] + CostToGo[t[1]]
  BY <1>1, <1>2, CheapestStep
<1>4. CostToGo[Start] \in Nat /\ CostToGo[Start] <= node.own + CostToGo[at]
  BY StartIs DEF Sound
<1>5. Sound(new)
  BY <1>1, <1>3, <1>4 DEF Sound
<1>6. QED
  BY <1>5 DEF new

\* A node on a cheapest way that can be extended can be extended along such a way.
LEMMA NextLeads ==
    ASSUME NEW C, KeepsAll(C), candidates \in CandidateTables, NEW k \in Nat, NEW node,
           Priced(C, k, node), node.coverage \in SUBSET Position, OnTrack(node),
           NEW q \in Phrase, NEW j \in DOMAIN candidates[q], CanTake(node, q)
    PROVE  \E p \in Phrase : \E i \in DOMAIN candidates[p] : Leads(node, p, i)
<1> DEFINE at == PlaceOf(node)
<1>1. /\ at \in Place /\ node.coverage # Position /\ node.own \in Int
      /\ Translations(at) # {}
  BY StepIs
<1>2. at[1] # Position
  BY <1>1 DEF PlaceOf
<1>3. PICK t \in Translations(at) : CostToGo[at] = t[2] + CostToGo[t[1]]
  BY <1>1, <1>2, CheapestStep
<1>4. PICK p \in Phrase : \E i \in DOMAIN candidates[p] : CanTake(node, p) /\ t = StepBy(node, p, candidates[p][i])
  BY StepsOfNode
<1>5. PICK i \in DOMAIN candidates[p] : CanTake(node, p) /\ t = StepBy(node, p, candidates[p][i])
  BY <1>4
<1> DEFINE new == NewNode(node, p[1], p[2], candidates[p][i])
           taken == StepBy(node, p, candidates[p][i])
<1>6. t[1] = PlaceOf(new) /\ t[2] \in Nat /\ new.own = node.own + t[2]
  <2>1. taken[1] = PlaceOf(new) /\ taken[2] \in Nat /\ new.own = node.own + taken[2]
    BY <1>5, StepIs
  <2>2. t = taken
    BY <1>5
  <2> HIDE DEF new, taken
  <2>3. QED
    BY <2>1, <2>2
<1> HIDE DEF new
<1>7. CostToGo[at] \in Nat /\ CostToGo[t[1]] \in Nat
  BY <1>1, <1>2, CheapestStep
<1>8. node.own + CostToGo[at] <= CostToGo[Start] /\ CostToGo[Start] \in Nat
  BY StartIs DEF OnTrack
<1>9. OnTrack(new)
  BY <1>1, <1>3, <1>6, <1>7, <1>8 DEF OnTrack
<1>10. QED
  BY <1>5, <1>9 DEF Leads, new

\* A node that is equal to one on a cheapest way, and no dearer, is on one too.
LEMMA CoveringIsOnTrack ==
    ASSUME NEW C, KeepsAll(C), candidates \in CandidateTables, NEW k \in Nat,
           NEW m, Priced(C, k, m), Told(m), NEW n, Priced(C, k, n), Told(n),
           m.coverage \in SUBSET Position, m.coverage = n.coverage, m.state = n.state,
           m.cost <= n.cost, OnTrack(n)
    PROVE  OnTrack(m)
<1>1. PlaceOf(m) \in Place /\ PlaceOf(n) \in Place
  BY DEF PlaceOf, Place, Priced
<1>2. m.end = n.end /\ m.features = n.features
  <2>1. <<m.end, m.features>> = <<n.end, n.features>>
    BY DEF Told
  <2>2. QED
    BY <2>1
<1>3. m.begin # m.end /\ n.begin # n.end
  <2>1. m.begin \in Nat /\ m.end \in Nat /\ n.begin \in Nat /\ n.end \in Nat
    BY SentenceAssumption DEF Priced, Position
  <2>2. QED
    BY <2>1 DEF Told
<1>4. CostToGo[PlaceOf(m)] = CostToGo[PlaceOf(n)]
  BY <1>1, <1>2, <1>3, BeginMakesNoDifference DEF PlaceOf
<1>5. CostToGo[PlaceOf(m)] \in Nat /\ CostToGo[Start] \in Nat
  BY <1>1, StartIs, CostToGoIsNat DEF KeepsAll
<1>6. m.own \in Int /\ n.own \in Int /\ m.cost \in Int /\ n.cost \in Int
  <2>1. C \in Nat /\ StepBound(C) \in Nat /\ RestBound(C) \in Nat
    BY BoundsAre DEF KeepsAll, CostsUpTo
  <2>2. PICK b \in Nat : b = k * StepBound(C)
    BY <2>1, Multiples
  <2>3. m.own \in 0..b /\ n.own \in 0..b
    BY <2>2 DEF Priced
  <2>4. m.cost \in m.own .. m.own + RestBound(C) /\ n.cost \in n.own .. n.own + RestBound(C)
    BY DEF Priced
  <2>5. QED
    BY <2>1, <2>3, <2>4
<1>7. m.cost - m.own = n.cost - n.own
  <2>1. calculateRestCost(m.coverage, m.end) = calculateRestCost(n.coverage, n.end)
    BY <1>2
  <2>2. QED
    BY <2>1 DEF Told
<1>8. m.own <= n.own
  BY <1>6, <1>7
<1>9. n.own + CostToGo[PlaceOf(m)] <= CostToGo[Start]
  BY <1>4 DEF OnTrack
<1>10. QED
  BY <1>5, <1>6, <1>8, <1>9 DEF OnTrack

-----------------------------------------------------------------------------
(* No hypothesis undercuts the reference.                                     *)

\* The node at hand, its phrase, and its coverage.
LEMMA NodeAtHand ==
    ASSUME SearchInv, pc = "nodes", NEW node \in nodes
    PROVE  /\ phrase \in Phrase /\ phrase[1] = NewPhraseBeginPos /\ phrase[2] = NewPhraseCardinality
           /\ <<PrevCoverage, node>> \in H!Stored(holder[PrevCardinality])
           /\ node.coverage = PrevCoverage /\ PrevCoverage \in SUBSET Position
           /\ Span(phrase[1], phrase[2]) \cap node.coverage = {}
           /\ curr.selected = node.coverage \cup Span(phrase[1], phrase[2])
<1>1. /\ node \in holder[PrevCardinality].lex[PrevCoverage].nodes
      /\ PrevCoverage \in holder[PrevCardinality].keys
      /\ NewPhraseBeginPos <= N - NewPhraseCardinality
      /\ phraseSpan \cap PrevCoverage = {} /\ curr.selected = PrevCoverage \cup phraseSpan
  BY DEF SearchInv, LoopsInv, PhraseInv
<1>2. PICK s \in H!Stored(holder[PrevCardinality]) : s = <<PrevCoverage, node>>
  BY <1>1, StoredIs
<1>3. s[2].coverage = s[1] /\ s[1] \in SUBSET Position
  BY LoopFacts, CoverageOfNode
<1>4. phrase \in Phrase /\ phraseSpan = Span(phrase[1], phrase[2])
      /\ phrase[1] = NewPhraseBeginPos /\ phrase[2] = NewPhraseCardinality
  BY <1>1, PhraseFacts
<1>5. QED
  BY <1>1, <1>2, <1>3, <1>4

LEMMA NewIsTaken ==
    ASSUME SearchInv, NEW node \in nodes, ExtendNode(node), NEW k \in 0..N,
           NEW s \in H!Stored(holder'[k]), s \notin H!Stored(holder[k])
    PROVE  /\ k = NewCardinality /\ CanTake(node, phrase)
           /\ \E i \in DOMAIN candidates[phrase] :
                 s[2] = NewNode(node, phrase[1], phrase[2], candidates[phrase][i])
<1>1. k = NewCardinality /\ \E i \in DOMAIN candidates[phrase] :
                 s[2] = NewNode(node, phrase[1], phrase[2], candidates[phrase][i])
  BY ExtendNodeStores
<1>2. Conforms(node, phrase[1], phrase[2])
  BY DEF ExtendNode
<1>3. QED
  BY <1>1, <1>2, NodeAtHand DEF CanTake, ExtendNode

LEMMA AllStaySound ==
    ASSUME NEW C, KeepsAll(C)
    PROVE  Spec => []AllSound
<1>1. Init => AllSound
  <2> SUFFICES ASSUME Init, NEW k \in 0..N, NEW s \in H!Stored(holder[k]) PROVE Sound(s[2])
    BY DEF AllSound
  <2>1. holder[k] = IF k = 0 THEN RootContainer ELSE H!EmptyContainer
    BY DEF Init
  <2>2. s = <<{}, RootNode>>
    BY <2>1, RootIs, EmptyIsClean
  <2>3. RootNode.own = 0 /\ PlaceOf(RootNode) = Start
    BY DEF RootNode, PlaceOf, Start
  <2>4. CostToGo[Start] \in Nat
    BY StartIs DEF Init
  <2>5. Sound(RootNode)
    BY <2>3, <2>4 DEF Sound
  <2>6. QED
    BY <2>2, <2>5
<1>2. SearchInv /\ AllPriced(C) /\ AllSound /\ [Next]_vars => AllSound'
  <2> SUFFICES ASSUME SearchInv, AllPriced(C), AllSound, [Next]_vars,
                      NEW k \in 0..N, NEW s \in H!Stored(holder'[k])
               PROVE  Sound(s[2])
    BY RulesStay DEF AllSound, Sound
  <2>1. CASE s \in H!Stored(holder[k])
    BY <2>1 DEF AllSound
  <2>2. CASE s \notin H!Stored(holder[k])
    <3>1. PICK node \in nodes : ExtendNode(node)
      BY <2>2, OtherStepsStoreNothing DEF StoredStay
    <3>2. CanTake(node, phrase) /\ \E i \in DOMAIN candidates[phrase] :
                 s[2] = NewNode(node, phrase[1], phrase[2], candidates[phrase][i])
      BY <2>2, <3>1, NewIsTaken
    <3>3. PICK i \in DOMAIN candidates[phrase] :
                 s[2] = NewNode(node, phrase[1], phrase[2], candidates[phrase][i])
      BY <3>2
    <3>4. pc = "nodes"
      BY <3>1 DEF ExtendNode
    <3>5. PICK t \in H!Stored(holder[PrevCardinality]) : t = <<PrevCoverage, node>>
      BY <3>4, NodeAtHand
    <3>6. Priced(C, PrevCardinality, node) /\ Sound(node) /\ PrevCardinality \in Nat
      <4>1. PrevCardinality \in 0..N /\ PrevCardinality \in Nat
        BY LoopFacts
      <4>2. Priced(C, PrevCardinality, t[2]) /\ Sound(t[2])
        BY <4>1 DEF AllPriced, AllSound
      <4>3. QED
        BY <3>5, <4>1, <4>2
    <3>7. phrase \in Phrase /\ node.coverage \in SUBSET Position
      BY <3>4, NodeAtHand
    <3>8. candidates \in CandidateTables
      BY DEF SearchInv, LoopsInv
    <3>9. QED
      BY <3>2, <3>3, <3>6, <3>7, <3>8, NextIsSound
  <2>3. QED
    BY <2>1, <2>2
<1>3. Spec => []AllPriced(C)
  BY AllStayPriced DEF KeepsAll
<1>4. QED
  BY <1>1, <1>2, <1>3, SearchIsInvariant, PTL DEF Spec

-----------------------------------------------------------------------------
(* A cheapest way is not lost.                                                *)

LEMMA NewNodeStays ==
    ASSUME [Next]_vars
    PROVE  \A node, b, l, rule : NewNode(node, b, l, rule)' = NewNode(node, b, l, rule)
<1> SUFFICES ASSUME NEW node, NEW b, NEW l, NEW rule
             PROVE  NewNode(node, b, l, rule)' = NewNode(node, b, l, rule)
  OBVIOUS
<1> DEFINE v == node.coverage \cup Span(b, l)
           begin == b % 2^PositionBits
           end == (b + l) % 2^PositionBits
           own == node.own + rule.cost + ContextCost[node.features, rule.state]
                      + getJumpCost(Abs(begin - node.end))
           made(rest) ==
               [state |-> FutureState(end, rule.state), features |-> rule.state, own |-> own,
                cost |-> own + rest, begin |-> begin, end |-> end, coverage |-> v, prev |-> node]
<1>1. NewNode(node, b, l, rule) = made(calculateRestCost(v, b + l))
  BY DEF NewNode
<1>2. NewNode(node, b, l, rule)' = made(calculateRestCost(v, b + l)')
  BY DEF NewNode
<1>3. calculateRestCost(v, b + l)' = calculateRestCost(v, b + l)
  BY RulesStay
<1> HIDE DEF made, v
<1>4. QED
  BY <1>1, <1>2, <1>3

LEMMA LeadsStay ==
    ASSUME [Next]_vars
    PROVE  /\ \A node : OnTrack(node)' <=> OnTrack(node)
           /\ \A node, p, i : Leads(node, p, i)' <=> Leads(node, p, i)
<1>1. \A node : OnTrack(node)' <=> OnTrack(node)
  BY RulesStay DEF OnTrack
<1>2. \A node, p : CanTake(node, p)' <=> CanTake(node, p)
  BY DEF CanTake
<1>3. \A node, p, i : Leads(node, p, i)' <=> Leads(node, p, i)
  BY <1>2, NewNodeStays, RulesStay DEF Leads, OnTrack
<1>4. QED
  BY <1>1, <1>3

\* Where a phrase is in the loops.
LEMMA PhraseAtHand ==
    ASSUME SearchInv, NEW p \in Phrase, PrevCardinality + p[2] = NewCardinality
    PROVE  /\ p[2] = NewPhraseCardinality /\ p[1] \in Nat /\ p[1] <= N - NewPhraseCardinality
           /\ NewPhraseBeginPos \in Nat
           /\ NewPhraseBeginPos = p[1] => p = phrase
<1>1. p[1] \in Nat /\ p[2] \in Nat /\ p[1] + p[2] <= N /\ N \in Nat
  BY PhraseIs
<1>2. PrevCardinality \in Nat /\ NewCardinality \in Nat /\ NewPhraseBeginPos \in Nat
  BY LoopFacts DEF SearchInv, LoopsInv
<1>3. p[2] = NewPhraseCardinality
  BY <1>1, <1>2 DEF NewPhraseCardinality
<1>4. p[1] <= N - NewPhraseCardinality
  BY <1>1, <1>3
<1>5. p = <<p[1], p[2]>>
  BY DEF Phrase
<1>6. NewPhraseBeginPos = p[1] => p = phrase
  BY <1>3, <1>5 DEF phrase
<1>7. QED
  BY <1>1, <1>2, <1>3, <1>4, <1>6

\* The loops do not pass by a node and a phrase that fit each other.
LEMMA PendingMoves ==
    ASSUME SearchInv, [Next]_vars, UNCHANGED NewCardinality, NEW k \in 0..N, NEW s \in H!Stored(holder[k]),
           NEW p \in Phrase, NEW i \in DOMAIN candidates[p], CanTake(s[2], p),
           k + p[2] = NewCardinality, Pending(k, s, p), ~EndCardinality,
           \A node \in nodes : ~(ExtendNode(node) /\ node = s[2] /\ p = phrase)
    PROVE  Pending(k, s, p)'
<1>1. /\ s[1] \in holder[k].keys /\ s[2] \in holder[k].lex[s[1]].nodes /\ s[2].coverage = s[1]
  BY StoredIs, CoverageOfNode
<1>2. /\ PrevCardinality \in Nat /\ k \in Nat /\ NewPhraseBeginPos \in Nat /\ p[1] \in Nat
  BY LoopFacts, PhraseIs DEF SearchInv, LoopsInv
<1>3. CASE \E coverage \in SUBSET Position : VisitCoverage(coverage)
  BY <1>2, <1>3 DEF VisitCoverage, Pending, Looping
<1>4. CASE NextPrevCardinality
  BY <1>1, <1>2, <1>4 DEF NextPrevCardinality, Pending, Looping
<1>5. CASE SkipPosition
  <2>1. ~(PrevCardinality = k /\ PrevCoverage = s[1] /\ NewPhraseBeginPos = p[1])
    <3> SUFFICES ASSUME PrevCardinality = k, PrevCoverage = s[1], NewPhraseBeginPos = p[1] PROVE FALSE
      OBVIOUS
    <3>1. p = phrase
      BY PhraseAtHand
    <3>2. NewPhraseBeginPos <= N - NewPhraseCardinality
      BY <1>5 DEF SkipPosition
    <3>3. phraseSpan = Span(p[1], p[2])
      BY <3>1, <3>2, PhraseFacts
    <3>4. candidates[phrase] # <<>>
      BY <3>1
    <3>5. Fits
      BY <1>1, <3>3, <3>4 DEF Fits, CanTake
    <3>6. QED
      BY <1>5, <3>5 DEF SkipPosition
  <2>2. QED
    BY <1>2, <1>5, <2>1 DEF SkipPosition, Pending, Looping
<1>6. CASE SelectPhrase
  BY <1>1, <1>6 DEF SelectPhrase, Pending, Looping
<1>7. ASSUME NEW node \in nodes, ExtendNode(node) PROVE Pending(k, s, p)'
  <2>1. ~(PrevCardinality = k /\ PrevCoverage = s[1] /\ NewPhraseBeginPos = p[1] /\ node = s[2])
    <3> SUFFICES ASSUME PrevCardinality = k, NewPhraseBeginPos = p[1], node = s[2] PROVE FALSE
      OBVIOUS
    <3>1. p = phrase
      BY PhraseAtHand
    <3>2. QED
      BY <1>7, <3>1
  <2>2. QED
    BY <1>7, <2>1 DEF ExtendNode, Pending, Looping
<1>8. CASE EndPhrase
  BY <1>2, <1>8 DEF EndPhrase, Pending, Looping
<1>9. CASE EndCoverage
  <2>1. ~(PrevCardinality = k /\ NewPhraseBeginPos <= p[1])
    <3> SUFFICES ASSUME PrevCardinality = k, NewPhraseBeginPos <= p[1] PROVE FALSE
      OBVIOUS
    <3>1. p[1] <= N - NewPhraseCardinality
      BY PhraseAtHand
    <3>2. NewPhraseBeginPos > N - NewPhraseCardinality
      BY <1>9 DEF EndCoverage
    <3>3. N - NewPhraseCardinality \in Int
      BY LoopFacts
    <3>4. QED
      BY <1>2, <3>1, <3>2, <3>3
  <2>2. QED
    BY <1>2, <1>9, <2>1 DEF EndCoverage, Pending, Looping
<1>10. CASE FindGoal
  BY <1>10 DEF FindGoal, Pending, Looping
<1>11. CASE UNCHANGED vars
  BY <1>11 DEF Pending, Looping, vars
<1>12. QED
  BY <1>3, <1>4, <1>5, <1>6, <1>7, <1>8, <1>9, <1>10, <1>11 DEF Next

\* What is known of the stored nodes.
AllPlaced ==
    \A k \in 0..N : \A s \in H!Stored(holder[k]) :
        s[2].coverage = s[1] /\ s[1] \in SUBSET Position /\ Cardinality(s[1]) = k
Known(C) == AllPriced(C) /\ AllTold /\ AllWhole /\ AllPlaced

LEMMA AllStaysKnown ==
    ASSUME NEW C, KeepsAll(C)
    PROVE  Spec => []Known(C)
<1>1. SearchInv => AllPlaced
  BY CoverageOfNode DEF AllPlaced
<1>2. AllPriced(C) /\ AllTold /\ AllWhole /\ AllPlaced => Known(C)
  BY DEF Known
<1>3. Spec => []AllPriced(C)
  BY AllStayPriced DEF KeepsAll
<1>4. QED
  BY <1>1, <1>2, <1>3, AllStayTold, AllStayWhole, SearchIsInvariant, PTL

LEMMA KnownNext ==
    ASSUME NEW C, Known(C)', [Next]_vars, NEW k \in 1..N, NEW s \in H!Stored(holder'[k])
    PROVE  /\ Priced(C, k, s[2]) /\ Told(s[2])
           /\ s[2].coverage = s[1] /\ s[1] \in SUBSET Position
<1>1. k \in 0..N
  OBVIOUS
<1>2. Priced(C, k, s[2])
  BY <1>1 DEF Known, AllPriced, Priced
<1>3. Told(s[2])
  BY RulesStay DEF Known, AllTold, Told
<1>4. s[2].coverage = s[1] /\ s[1] \in SUBSET Position
  BY <1>1 DEF Known, AllPlaced
<1>5. QED
  BY <1>2, <1>3, <1>4

\* What covers a node on a cheapest way is on one.
LEMMA CoveringArrives ==
    ASSUME NEW C, KeepsAll(C), SearchInv, Known(C)', [Next]_vars,
           NEW n, Priced(C, NewCardinality, n), Told(n), n.coverage \in SUBSET Position, OnTrack(n),
           Covers(holder'[NewCardinality], n.coverage, n)
    PROVE  \E t \in H!Stored(holder'[NewCardinality]) : OnTrack(t[2])
<1>1. PICK m : /\ <<n.coverage, m>> \in H!Stored(holder'[NewCardinality])
               /\ m.state = n.state /\ m.cost <= n.cost
  BY DEF Covers
<1>2. PICK t \in H!Stored(holder'[NewCardinality]) : t = <<n.coverage, m>>
  BY <1>1
<1>3. NewCardinality \in 1..N /\ NewCardinality \in Nat /\ candidates \in CandidateTables
  BY LoopFacts DEF SearchInv, LoopsInv
<1>4. Priced(C, NewCardinality, t[2]) /\ Told(t[2]) /\ t[2].coverage = t[1]
  BY <1>3, KnownNext
<1>5. t[1] = n.coverage /\ t[2] = m
  BY <1>2
<1>6. OnTrack(m)
  BY <1>1, <1>3, <1>4, <1>5, CoveringIsOnTrack
<1>7. QED
  BY <1>5, <1>6

LEMMA ArrivedStays ==
    ASSUME NEW C, KeepsAll(C), SearchInv, Known(C), Known(C)', [Next]_vars,
           NEW s \in H!Stored(curr), OnTrack(s[2])
    PROVE  \E t \in H!Stored(holder'[NewCardinality]) : OnTrack(t[2])
<1>1. Covers(holder'[NewCardinality], s[1], s[2])
  BY CurrCovers DEF Known
<1>2. NewCardinality \in 1..N /\ NewCardinality \in 0..N
  BY LoopFacts
<1>3. Priced(C, NewCardinality, s[2]) /\ Told(s[2]) /\ s[2].coverage = s[1] /\ s[1] \in SUBSET Position
  BY <1>2 DEF Known, AllPriced, AllTold, AllPlaced, curr
<1>4. QED
  BY <1>1, <1>3, CoveringArrives

\* Extending a node along a cheapest way arrives.
LEMMA ExtendNodeArrives ==
    ASSUME NEW C, KeepsAll(C), SearchInv, Known(C), Known(C)', [Next]_vars,
           NEW node \in nodes, ExtendNode(node), NEW i \in DOMAIN candidates[phrase],
           Leads(node, phrase, i)
    PROVE  \E t \in H!Stored(holder'[NewCardinality]) : OnTrack(t[2])
<1> DEFINE new == NewNode(node, phrase[1], phrase[2], candidates[phrase][i])
<1>1. pc = "nodes"
  BY DEF ExtendNode
<1>2. /\ phrase \in Phrase /\ <<PrevCoverage, node>> \in H!Stored(holder[PrevCardinality])
      /\ curr.selected = node.coverage \cup Span(phrase[1], phrase[2])
      /\ node.coverage \in SUBSET Position /\ Span(phrase[1], phrase[2]) \cap node.coverage = {}
  BY <1>1, NodeAtHand
<1>3. new.coverage = curr.selected
  <2>1. N < 2^PositionBits
    BY DEF KeepsAll
  <2>2. ExtendsBy(new, node, phrase, candidates[phrase][i])
    BY <1>2, <2>1, NewNodeIs
  <2> HIDE DEF new
  <2>3. QED
    BY <1>2, <2>2 DEF ExtendsBy
<1>4. new.coverage \in SUBSET Position
  BY <1>2, <1>3, SpanIs
<1>5. Covers(holder'[NewCardinality], curr.selected, new)
  <2>1. Conforms(node, phrase[1], phrase[2])
    BY DEF Leads, CanTake
  <2>2. QED
    BY <2>1, ExtendNodeCovers DEF Known
<1>6. Priced(C, NewCardinality, new)
  BY <1>1, OffersArePriced DEF Known, KeepsAll
<1>7. Told(new)
  <2>1. PICK t \in H!Stored(holder[PrevCardinality]) : t = <<PrevCoverage, node>>
    BY <1>2
  <2>2. /\ PrevCardinality \in 0..N /\ PrevCardinality \in Nat /\ NewCardinality \in Nat
        /\ PrevCardinality < NewCardinality /\ candidates \in CandidateTables
    BY LoopFacts DEF SearchInv, LoopsInv
  <2>3. Priced(C, PrevCardinality, t[2])
    BY <2>2 DEF Known, AllPriced
  <2>4. Priced(C, PrevCardinality, node)
    BY <2>1, <2>3
  <2>5. QED
    BY <1>2, <2>2, <2>4, NewNodeIsTold
<1>8. OnTrack(new)
  BY DEF Leads
<1> HIDE DEF new
<1>9. QED
  BY <1>3, <1>4, <1>5, <1>6, <1>7, <1>8, CoveringArrives

\* The end of a cardinality prunes nothing.
LEMMA EndCardinalityKeeps ==
    ASSUME NEW C, KeepsAll(C), SearchInv, AllWhole, EndCardinality
    PROVE  /\ H!Stored(holder'[NewCardinality]) = H!Stored(curr)
           /\ holder'[NewCardinality].keys = curr.keys
<1>1. Whole(curr) /\ Clean(curr)
  BY LoopFacts DEF AllWhole, curr
<1>2. PICK c \in H!prune(curr) : holder' = [holder EXCEPT ![NewCardinality] = c]
  BY DEF EndCardinality, Finalized
<1>3. curr.total <= MaxCardinalityContainerSize
  BY <1>1, WholeHasRoom DEF KeepsAll
<1>4. c \in H!UpdateBestAndWorst(curr)
  BY <1>2, <1>3 DEF H!prune
<1>5. c.keys = curr.keys /\ H!Stored(c) = H!Stored(curr)
  BY <1>1, <1>4, UpdateIs
<1>6. holder'[NewCardinality] = c
  BY <1>2, LoopFacts DEF SearchInv, Sane
<1>7. QED
  BY <1>5, <1>6

LEMMA LongestPhrase ==
    /\ MaxMatchingSourcePhraseCardinality \in 1..N
    /\ \A p \in Phrase : candidates[p] # <<>> => p[2] <= MaxMatchingSourcePhraseCardinality
<1> DEFINE S == {1} \cup {p[2] : p \in {q \in Phrase : candidates[q] # <<>>}}
<1>1. S \in SUBSET (0..N) /\ S # {} /\ N \in Nat
  <2>1. \A p \in Phrase : p[2] \in 0..N
    BY PhraseIs
  <2>2. N \in Nat \ {0}
    BY SentenceAssumption
  <2>3. QED
    BY <2>1, <2>2
<1>2. 1 \in S /\ \A p \in Phrase : candidates[p] # <<>> => p[2] \in S
  OBVIOUS
<1>3. MaxMatchingSourcePhraseCardinality = Max(S)
  BY DEF MaxMatchingSourcePhraseCardinality
<1> HIDE DEF S
<1>4. Max(S) \in S /\ \A k \in S : k <= Max(S)
  BY <1>1, MaxIs
<1>5. Max(S) \in 1..N
  <2>1. Max(S) \in 0..N /\ 1 <= Max(S)
    BY <1>1, <1>2, <1>4
  <2>2. QED
    BY <1>1, <2>1
<1>6. QED
  BY <1>2, <1>3, <1>4, <1>5

\* A node that words are left of can take one.
LEMMA WordIsLeft ==
    ASSUME NEW C, KeepsAll(C), SearchInv, NEW k \in 0..N-1, NEW s \in H!Stored(holder[k])
    PROVE  \E p \in Phrase : \E i \in DOMAIN candidates[p] : CanTake(s[2], p)
<1> DEFINE b == FirstEmptyPosition(s[1])
           p == <<b, 1>>
<1>1. b \in Position \ s[1] /\ Conforms(s[2], b, 1)
  BY FirstGapIsInReach DEF KeepsAll
<1>2. s[2].coverage = s[1]
  <2>1. k \in 0..N
    BY SentenceAssumption
  <2>2. QED
    BY <2>1, CoverageOfNode
<1> HIDE DEF b
<1>3. p \in Phrase /\ p[1] = b /\ p[2] = 1
  BY <1>1, SentenceAssumption DEF Phrase, Position
<1>4. Span(p[1], p[2]) \cap s[2].coverage = {}
  <2>1. Span(b, 1) = {b}
    BY <1>1, SentenceAssumption DEF Span, Position
  <2>2. QED
    BY <1>1, <1>2, <1>3, <2>1
<1>5. candidates \in CandidateTables /\ candidates \in [Phrase -> Seq([cost : Nat, state : RuleState])]
  BY TableAssumption DEF SearchInv, LoopsInv
<1>6. candidates[p] # <<>>
  <2>1. candidates[<<b, 1>>] # <<>>
    BY <1>1, <1>5 DEF KeepsAll, CostsUpTo
  <2>2. QED
    BY <2>1
<1>7. 1 \in DOMAIN candidates[p]
  <2>1. candidates[p] \in Seq([cost : Nat, state : RuleState])
    BY <1>3, <1>5
  <2> HIDE DEF p
  <2>2. QED
    BY <1>6, <2>1
<1>8. CanTake(s[2], p)
  BY <1>1, <1>3, <1>4 DEF CanTake
<1> HIDE DEF p
<1>9. QED
  BY <1>3, <1>7, <1>8

\* The words of a node and of the phrase it takes are not more than there are.
LEMMA TakesNoMore ==
    ASSUME SearchInv, NEW k \in 0..N, NEW s \in H!Stored(holder[k]), NEW p \in Phrase, CanTake(s[2], p)
    PROVE  k + p[2] <= N
<1>1. s[2].coverage = s[1] /\ s[1] \in SUBSET Position /\ Cardinality(s[1]) = k
  BY CoverageOfNode
<1>2. s[1] \cap Span(p[1], p[2]) = {}
  BY <1>1 DEF CanTake
<1>3. /\ s[1] \cup Span(p[1], p[2]) \in SUBSET Position
      /\ Cardinality(s[1] \cup Span(p[1], p[2])) = k + p[2]
  BY <1>1, <1>2, SpanIs
<1>4. Cardinality(s[1] \cup Span(p[1], p[2])) \in 0..N
  BY <1>3, CoverageSize
<1>5. QED
  BY <1>3, <1>4

\* After the end of a cardinality a node that leads on is ahead of the loops.
LEMMA AheadOfNext ==
    ASSUME SearchInv, [Next]_vars, EndCardinality, NewCardinality < N,
           NEW k \in 0..NewCardinality, NEW s \in H!Stored(holder'[k]),
           NEW p \in Phrase, NEW i \in DOMAIN candidates[p], Leads(s[2], p, i),
           NewCardinality + 1 <= k + p[2]
    PROVE  Tracked'
<1>1. /\ NewCardinality' = NewCardinality + 1 /\ pc' = "coverages"
      /\ PrevCardinality' = H!MaxOf(NewCardinality + 1 - MaxMatchingSourcePhraseCardinality, 0)
      /\ todo' = holder'[PrevCardinality'].keys
  BY DEF EndCardinality
<1>2. NewCardinality \in Nat /\ k \in Nat /\ p[2] \in Nat \ {0} /\ k \in 0..N /\ N \in Nat
  BY LoopFacts, PhraseIs
<1>3. /\ MaxMatchingSourcePhraseCardinality \in Nat /\ p[2] <= MaxMatchingSourcePhraseCardinality
  <2>1. candidates[p] # <<>>
    OBVIOUS
  <2>2. QED
    BY <1>2, <2>1, LongestPhrase
<1>4. ASSUME k + p[2] = NewCardinality + 1 PROVE Pending(k, s, p)'
  <2>1. PrevCardinality' \in Nat /\ PrevCardinality' <= k
    BY <1>1, <1>2, <1>3, <1>4 DEF H!MaxOf
  <2>2. s[1] \in holder'[k].keys
    BY StoredIs
  <2>3. QED
    BY <1>1, <1>2, <2>1, <2>2 DEF Pending, Looping
<1>5. Leads(s[2], p, i)' /\ candidates' = candidates
  BY LeadsStay, RulesStay
<1>6. k < NewCardinality'
  BY <1>1, <1>2
<1>7. Ahead(k, s)'
  BY <1>1, <1>4, <1>5, <1>6 DEF Ahead
<1>8. QED
  BY <1>2, <1>7 DEF Tracked

LEMMA EndCardinalityTracks ==
    ASSUME NEW C, KeepsAll(C), SearchInv, Known(C), Known(C)', Tracked, [Next]_vars, EndCardinality
    PROVE  Tracked'
<1>1. pc = "coverages" /\ todo = {} /\ PrevCardinality + 1 = NewCardinality
  BY DEF EndCardinality
<1>2. NewCardinality \in 1..N /\ NewCardinality \in 0..N /\ NewCardinality \in Nat /\ N \in Nat
      /\ PrevCardinality \in Nat /\ candidates \in CandidateTables
  BY LoopFacts DEF SearchInv, LoopsInv
<1>3. CASE \E s \in H!Stored(curr) : Arrived(s)
  <2>1. PICK s \in H!Stored(curr) : OnTrack(s[2])
    BY <1>3 DEF Arrived
  <2>2. CASE NewCardinality < N
    <3>1. s \in H!Stored(holder'[NewCardinality])
      BY EndCardinalityKeeps DEF Known
    <3>2. NewCardinality \in 0..N-1 /\ s \in H!Stored(holder[NewCardinality])
      BY <1>2, <2>2 DEF curr
    <3>3. PICK q \in Phrase : \E j \in DOMAIN candidates[q] : CanTake(s[2], q)
      BY <3>2, WordIsLeft
    <3>4. PICK j \in DOMAIN candidates[q] : CanTake(s[2], q)
      BY <3>3
    <3>5. Priced(C, NewCardinality, s[2]) /\ s[2].coverage \in SUBSET Position
      BY <1>2, <3>2 DEF Known, AllPriced, AllPlaced
    <3>6. PICK p \in Phrase : \E i \in DOMAIN candidates[p] : Leads(s[2], p, i)
      BY <1>2, <2>1, <3>4, <3>5, NextLeads
    <3>7. PICK i \in DOMAIN candidates[p] : Leads(s[2], p, i)
      BY <3>6
    <3>8. NewCardinality \in 0..NewCardinality /\ NewCardinality + 1 <= NewCardinality + p[2]
      BY <1>2, PhraseIs
    <3>9. QED
      BY <2>2, <3>1, <3>7, <3>8, AheadOfNext
  <2>3. CASE ~(NewCardinality < N)
    <3>1. NewCardinality' = NewCardinality
      BY <2>3 DEF EndCardinality
    <3>2. PICK t \in H!Stored(holder'[NewCardinality]) : OnTrack(t[2])
      BY <2>1, ArrivedStays
    <3>3. QED
      BY <3>1, <3>2, LeadsStay DEF Tracked, Arrived, curr
  <2>4. QED
    BY <2>2, <2>3
<1>4. CASE \E k \in 0..N : \E s \in H!Stored(holder[k]) : Ahead(k, s)
  <2>1. PICK k \in 0..N : \E s \in H!Stored(holder[k]) : Ahead(k, s)
    BY <1>4
  <2>2. PICK s \in H!Stored(holder[k]) : Ahead(k, s)
    BY <2>1
  <2>3. PICK p \in Phrase : \E i \in DOMAIN candidates[p] :
           /\ Leads(s[2], p, i) /\ NewCardinality <= k + p[2]
           /\ k + p[2] = NewCardinality => Pending(k, s, p)
    BY <2>2 DEF Ahead
  <2>4. PICK i \in DOMAIN candidates[p] :
           /\ Leads(s[2], p, i) /\ NewCardinality <= k + p[2]
           /\ k + p[2] = NewCardinality => Pending(k, s, p)
    BY <2>3
  <2>5. k < NewCardinality /\ k \in Nat /\ p[2] \in Nat
    BY <2>2, PhraseIs DEF Ahead
  <2>6. ~Pending(k, s, p)
    BY <1>1, <1>2, <2>5 DEF Pending
  <2>7. NewCardinality + 1 <= k + p[2]
    BY <1>2, <2>4, <2>5, <2>6
  <2>8. k + p[2] <= N
    BY <2>4, TakesNoMore DEF Leads
  <2>9. NewCardinality < N /\ k \in 0..NewCardinality
    BY <1>2, <2>5, <2>7, <2>8
  <2>10. s \in H!Stored(holder'[k])
    <3>1. holder'[k] = holder[k]
      BY <2>5, OthersStay
    <3>2. QED
      BY <3>1
  <2>11. QED
    BY <2>4, <2>7, <2>9, <2>10, AheadOfNext
<1>5. QED
  BY <1>3, <1>4 DEF Tracked

LEMMA StepTracks ==
    ASSUME NEW C, KeepsAll(C), SearchInv, Known(C), Known(C)', Tracked, [Next]_vars
    PROVE  Tracked'
<1>1. CASE EndCardinality
  BY <1>1, EndCardinalityTracks
<1>2. CASE ~EndCardinality
  <2>1. NewCardinality' = NewCardinality
    BY <1>2 DEF Next, vars, VisitCoverage, NextPrevCardinality, SkipPosition, SelectPhrase,
                ExtendNode, EndPhrase, EndCoverage, FindGoal
  <2>2. ASSUME NEW t \in H!Stored(holder'[NewCardinality]), OnTrack(t[2]) PROVE Tracked'
    BY <2>1, <2>2, LeadsStay DEF Tracked, Arrived, curr
  <2>3. CASE \E s \in H!Stored(curr) : Arrived(s)
    <3>1. PICK s \in H!Stored(curr) : OnTrack(s[2])
      BY <2>3 DEF Arrived
    <3>2. QED
      BY <2>2, <3>1, ArrivedStays
  <2>4. CASE \E k \in 0..N : \E s \in H!Stored(holder[k]) : Ahead(k, s)
    <3>1. PICK k \in 0..N : \E s \in H!Stored(holder[k]) : Ahead(k, s)
      BY <2>4
    <3>2. PICK s \in H!Stored(holder[k]) : Ahead(k, s)
      BY <3>1
    <3>3. PICK p \in Phrase : \E i \in DOMAIN candidates[p] :
             /\ Leads(s[2], p, i) /\ NewCardinality <= k + p[2]
             /\ k + p[2] = NewCardinality => Pending(k, s, p)
      BY <3>2 DEF Ahead
    <3>4. PICK i \in DOMAIN candidates[p] :
             /\ Leads(s[2], p, i) /\ NewCardinality <= k + p[2]
             /\ k + p[2] = NewCardinality => Pending(k, s, p)
      BY <3>3
    <3>5. CASE \E node \in nodes : ExtendNode(node) /\ node = s[2] /\ p = phrase
      <4>1. PICK node \in nodes : ExtendNode(node) /\ node = s[2] /\ p = phrase
        BY <3>5
      <4>2. i \in DOMAIN candidates[phrase] /\ Leads(node, phrase, i)
        BY <3>4, <4>1
      <4>3. QED
        BY <2>2, <4>1, <4>2, ExtendNodeArrives
    <3>6. CASE \A node \in nodes : ~(ExtendNode(node) /\ node = s[2] /\ p = phrase)
      <4>1. k + p[2] = NewCardinality => Pending(k, s, p)'
        BY <1>2, <2>1, <3>4, <3>6, PendingMoves DEF Leads
      <4>2. k # NewCardinality /\ k < NewCardinality
        BY <3>2, LoopFacts DEF Ahead
      <4>3. s \in H!Stored(holder'[k])
        <5>1. holder'[k] = holder[k]
          BY <4>2, OthersStay
        <5>2. QED
          BY <5>1
      <4>4. Leads(s[2], p, i)' /\ candidates' = candidates
        BY <3>4, LeadsStay, RulesStay
      <4>5. Ahead(k, s)'
        BY <2>1, <3>4, <4>1, <4>2, <4>3, <4>4 DEF Ahead
      <4>6. QED
        BY <4>3, <4>5 DEF Tracked
    <3>7. QED
      BY <3>5, <3>6
  <2>5. QED
    BY <2>3, <2>4 DEF Tracked
<1>3. QED
  BY <1>1, <1>2

\* The root node is on every way.
LEMMA InitTracks ==
    ASSUME NEW C, KeepsAll(C), Init, SearchInv, Known(C)
    PROVE  Tracked
<1> DEFINE s == <<{}, RootNode>>
<1>1. /\ NewCardinality = 1 /\ PrevCardinality = 0 /\ todo = {{}} /\ pc = "coverages"
      /\ 0 \in 0..N /\ N \in Nat \ {0} /\ holder[0] = RootContainer
      /\ candidates \in CandidateTables
  BY SentenceAssumption DEF Init
<1>2. s \in H!Stored(holder[0]) /\ s[1] = {} /\ s[2] = RootNode
  BY <1>1, RootIs
<1>3. OnTrack(s[2])
  <2>1. RootNode.own = 0 /\ PlaceOf(RootNode) = Start
    BY DEF RootNode, PlaceOf, Start
  <2>2. CostToGo[Start] \in Nat
    BY <1>1, StartIs
  <2>3. QED
    BY <1>2, <2>1, <2>2 DEF OnTrack
<1> HIDE DEF s
<1>4. 0 \in 0..N-1 /\ 0 \in Nat
  BY <1>1
<1>5. PICK q \in Phrase : \E j \in DOMAIN candidates[q] : CanTake(s[2], q)
  BY <1>2, <1>4, WordIsLeft
<1>6. PICK j \in DOMAIN candidates[q] : CanTake(s[2], q)
  BY <1>5
<1>7. Priced(C, 0, s[2]) /\ s[2].coverage \in SUBSET Position
  BY <1>1, <1>2 DEF Known, AllPriced, AllPlaced
<1>8. PICK p \in Phrase : \E i \in DOMAIN candidates[p] : Leads(s[2], p, i)
  BY <1>1, <1>3, <1>4, <1>6, <1>7, NextLeads
<1>9. PICK i \in DOMAIN candidates[p] : Leads(s[2], p, i)
  BY <1>8
<1>10. NewCardinality <= 0 + p[2] /\ 0 < NewCardinality
  BY <1>1, PhraseIs
<1>11. Pending(0, s, p)
  BY <1>1, <1>2 DEF Pending, Looping
<1>12. Ahead(0, s)
  BY <1>2, <1>9, <1>10, <1>11 DEF Ahead
<1>13. QED
  BY <1>1, <1>2, <1>12 DEF Tracked

LEMMA AlwaysTracked ==
    ASSUME NEW C, KeepsAll(C)
    PROVE  Spec => []Tracked
<1>1. Init /\ SearchInv /\ Known(C) => Tracked
  BY InitTracks
<1>2. SearchInv /\ Known(C) /\ Known(C)' /\ Tracked /\ [Next]_vars => Tracked'
  BY StepTracks
<1>3. Spec => []Known(C)
  BY AllStaysKnown
<1>4. QED
  BY <1>1, <1>2, <1>3, SearchIsInvariant, PTL DEF Spec

-----------------------------------------------------------------------------
(* The goal.                                                                  *)

\* The loops end at the full coverage, and the goal is one of its nodes of the best cost.
Ended ==
    /\ ~Looping => NewCardinality = N
    /\ pc = "done" =>
          LET full == holder[N].lex[Position]
          IN  full.nodes # {} => GoalNode \in full.nodes /\ GoalNode.cost = full.best

LEMMA EndsRight == Spec => []Ended
<1>1. Init => Ended
  BY DEF Init, Ended, Looping
<1>2. SearchInv /\ Ended /\ [Next]_vars => Ended'
  <2> SUFFICES ASSUME SearchInv, Ended, [Next]_vars PROVE Ended'
    OBVIOUS
  <2>1. CASE FindGoal
    BY <2>1 DEF FindGoal, Ended, Looping
  <2>2. CASE EndCardinality
    <3>1. NewCardinality \in 1..N /\ N \in Nat
      BY LoopFacts
    <3>2. QED
      BY <2>2, <3>1 DEF EndCardinality, Ended, Looping
  <2>3. CASE UNCHANGED vars
    BY <2>3 DEF Ended, Looping, vars
  <2>4. CASE Looping' /\ pc' # "done"
    BY <2>4 DEF Ended
  <2>5. QED
    BY <2>1, <2>2, <2>3, <2>4
       DEF Next, VisitCoverage, NextPrevCardinality, SkipPosition, SelectPhrase, ExtendNode,
           EndPhrase, EndCoverage, Looping
<1>3. QED
  BY <1>1, <1>2, SearchIsInvariant, PTL DEF Spec

\* At the end the way that was tracked has arrived.
LEMMA WayHasArrived ==
    ASSUME SearchInv, Ended, Tracked, pc = "done"
    PROVE  \E s \in H!Stored(holder[N]) : OnTrack(s[2])
<1>1. NewCardinality = N /\ ~Looping /\ N \in Nat
  BY LoopFacts DEF Ended, Looping
<1>2. CASE \E s \in H!Stored(curr) : Arrived(s)
  BY <1>1, <1>2 DEF Arrived, curr
<1>3. CASE \E k \in 0..N : \E s \in H!Stored(holder[k]) : Ahead(k, s)
  <2>1. PICK k \in 0..N : \E s \in H!Stored(holder[k]) : Ahead(k, s)
    BY <1>3
  <2>2. PICK s \in H!Stored(holder[k]) : Ahead(k, s)
    BY <2>1
  <2>3. PICK p \in Phrase : \E i \in DOMAIN candidates[p] :
           /\ Leads(s[2], p, i) /\ NewCardinality <= k + p[2]
           /\ k + p[2] = NewCardinality => Pending(k, s, p)
    BY <2>2 DEF Ahead
  <2>4. ~Pending(k, s, p)
    BY <1>1 DEF Pending
  <2>5. k + p[2] <= N
    BY <2>3, TakesNoMore DEF Leads
  <2>6. k + p[2] \in Nat
    BY PhraseIs
  <2>7. QED
    BY <1>1, <2>3, <2>4, <2>5, <2>6
<1>4. QED
  BY <1>2, <1>3 DEF Tracked

\* A node of the full coverage costs what it has cost, and has nothing to go.
LEMMA FullNodeIs ==
    ASSUME NEW C, KeepsAll(C), SearchInv, Known(C), NEW s \in H!Stored(holder[N])
    PROVE  /\ s[1] = Position /\ s[2] \in holder[N].lex[Position].nodes
           /\ s[2].cost = s[2].own /\ s[2].own \in Int /\ CostToGo[PlaceOf(s[2])] = 0
<1>1. N \in 1..N /\ N \in 0..N /\ N \in Nat /\ candidates \in CandidateTables
  BY SentenceAssumption DEF SearchInv, LoopsInv
<1>2. /\ Priced(C, N, s[2]) /\ Told(s[2]) /\ s[2].coverage = s[1]
      /\ s[1] \in SUBSET Position /\ Cardinality(s[1]) = N
  BY <1>1 DEF Known, AllPriced, AllTold, AllPlaced
<1>3. s[1] = Position
  BY <1>2, CoverageSize
<1>4. s[2] \in holder[N].lex[Position].nodes
  BY <1>3, StoredIs
<1>5. calculateRestCost(Position, s[2].end) = 0
  <2>1. PhrasesRestCost(Position) = 0 /\ Gaps(Position) = {}
    BY <1>1, PhrasesCostRange
  <2>2. s[2].end \in 0..N
    BY <1>2 DEF Priced
  <2>3. getRestCostForPosition(Position, s[2].end) = 0
    BY <2>1, <2>2, PositionCostIsBounded
  <2>4. QED
    BY <2>1, <2>3 DEF calculateRestCost
<1>6. s[2].own \in Int /\ s[2].cost \in Int
  <2>1. C \in Nat /\ StepBound(C) \in Nat /\ RestBound(C) \in Nat
    BY BoundsAre DEF KeepsAll, CostsUpTo
  <2>2. PICK b \in Nat : b = N * StepBound(C)
    BY <1>1, <2>1, Multiples
  <2>3. s[2].own \in 0..b
    BY <1>2, <2>2 DEF Priced
  <2>4. s[2].cost \in s[2].own .. s[2].own + RestBound(C)
    BY <1>2 DEF Priced
  <2>5. QED
    BY <2>1, <2>3, <2>4
<1>7. s[2].cost = s[2].own
  BY <1>2, <1>3, <1>5, <1>6 DEF Told
<1>8. CostToGo[PlaceOf(s[2])] = 0
  <2>1. PlaceOf(s[2]) \in Place /\ PlaceOf(s[2])[1] = Position
    BY <1>2, <1>3 DEF PlaceOf, Place, Priced
  <2>2. CostToGo[PlaceOf(s[2])] = CheapestNext(2, CostToGo, PlaceOf(s[2]))
    BY <1>1, <2>1, CostToGoIs
  <2>3. QED
    BY <2>1, <2>2 DEF CheapestNext
<1>9. QED
  BY <1>3, <1>4, <1>6, <1>7, <1>8

\* A search that has room for all hypotheses and prunes none before insertion finds a
\* cheapest translation, for any sentence, rules, costs and jump limits: recombination
\* loses no better continuation.
THEOREM UnprunedIsOptimal ==
    ASSUME NEW C, KeepsAll(C)
    PROVE  Spec => []GoalIsOptimal
<1>1. SearchInv /\ Known(C) /\ AllSound /\ Tracked /\ Ended => GoalIsOptimal
  <2> SUFFICES ASSUME SearchInv, Known(C), AllSound, Tracked, Ended, pc = "done"
               PROVE  GoalNode.cost = CostToGo[Start]
    BY DEF GoalIsOptimal, Start
  <2> DEFINE full == holder[N].lex[Position]
  <2>1. N \in 1..N /\ N \in 0..N /\ candidates \in CandidateTables
    BY SentenceAssumption DEF SearchInv, LoopsInv
  <2>2. CostToGo[Start] \in Nat
    BY <2>1, StartIs
  <2>3. PICK s \in H!Stored(holder[N]) : OnTrack(s[2])
    BY WayHasArrived
  <2>4. /\ s[1] = Position /\ s[2] \in full.nodes
        /\ s[2].cost = s[2].own /\ s[2].own \in Int /\ CostToGo[PlaceOf(s[2])] = 0
    BY FullNodeIs
  <2>5. s[2].cost <= CostToGo[Start]
    BY <2>2, <2>3, <2>4 DEF OnTrack
  <2>6. Position \in holder[N].keys /\ Whole(holder[N])
    BY <2>1, <2>4, StoredIs DEF Known, AllWhole
  <2>7. full.best \in Int /\ full.best <= s[2].cost
    BY <2>4, <2>6 DEF Whole
  <2>8. GoalNode \in full.nodes /\ GoalNode.cost = full.best
    BY <2>4 DEF Ended
  <2>9. PICK t \in H!Stored(holder[N]) : t = <<Position, GoalNode>>
    BY <2>6, <2>8, StoredIs
  <2>10. t[2] = GoalNode
    BY <2>9
  <2>11. GoalNode.cost = GoalNode.own /\ GoalNode.own \in Int /\ CostToGo[PlaceOf(GoalNode)] = 0
    BY <2>10, FullNodeIs
  <2>12. CostToGo[Start] <= GoalNode.own + CostToGo[PlaceOf(GoalNode)]
    BY <2>1, <2>10 DEF AllSound, Sound
  <2> HIDE DEF full
  <2>13. QED
    BY <2>2, <2>4, <2>5, <2>7, <2>8, <2>11, <2>12
<1>2. QED
  BY <1>1, SearchIsInvariant, AllStaysKnown, AllStaySound, AlwaysTracked, EndsRight, PTL
=============================================================================
