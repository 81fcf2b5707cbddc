--------------------------- MODULE CardinalityProofs ---------------------------
(***************************************************************************)
(* Proofs about the hypotheses of a cardinality, for any coverages, states *)
(* and costs, any beam and any number of hypotheses.                       *)
(***************************************************************************)
EXTENDS Cardinality, FiniteSetTheorems, TLAPS

\* The caches of a coverage that has nodes, and its states.
LexSound(l) ==
    l.nodes # {} =>
        /\ \A m \in l.nodes : l.best <= m.cost /\ m.cost <= l.worst
        /\ \E m \in l.nodes : m.cost = l.best
        /\ \A m, n \in l.nodes : m.state = n.state => m = n

\* A node whose state is new, and what a node that is not new does: it, or the one
\* that is there, takes the place.
IsNew(l, node) == \A m \in l.nodes : m.state # node.state
Replaced(l, new, node) ==
    \E m \in l.nodes, k \in {node} \cup l.nodes :
        k.state = m.state /\ new.nodes = (l.nodes \ {m}) \cup {k}

Container ==
    [keys : SUBSET Coverage, lex : [Coverage -> Lex],
     selected : Coverage \cup {NULL}, best : Coverage \cup {NULL},
     worst : Coverage \cup {NULL}, total : Nat, limit : Int]

\* What is stored, and counted; a coverage that is no key has nothing.
Counted(c) ==
    /\ c \in Container
    /\ \A v \in Coverage : LexSound(c.lex[v])
    /\ \A v \in Coverage \ c.keys : c.lex[v].nodes = {}
    /\ IsFiniteSet(Stored(c)) /\ c.total <= Cardinality(Stored(c))

Points(c, p) ==
    /\ p \in c.keys \cup {NULL}
    /\ p = NULL <=> Stored(c) = {}
    /\ p # NULL => c.lex[p].nodes # {}

Sound(c) == Counted(c) /\ Points(c, c.best) /\ Points(c, c.worst) /\ c.selected \in c.keys \cup {NULL}

-----------------------------------------------------------------------------
(* Numbers, and what is stored.                                               *)

LEMMA CostTypes ==
    /\ Infinity \in Int /\ LogBeamWidth \in Int
    /\ \A c \in Cost : c \in Int /\ c < Infinity /\ c - LogBeamWidth < Infinity
    /\ \A c \in Cost \cup {Infinity} : c \in Int /\ c <= Infinity
    /\ \A n \in Node : n.cost \in Cost /\ n.cost \in Int /\ n.state \in State
<1>1. Infinity \in Int /\ LogBeamWidth \in Int
  BY CostAssumption
<1>2. \A c \in Cost : c \in Int /\ c < Infinity /\ c - LogBeamWidth < Infinity
  BY CardinalityAssumption
<1>3. \A c \in Cost \cup {Infinity} : c \in Int /\ c <= Infinity
  BY <1>1, <1>2
<1>4. \A n \in Node : n.cost \in Cost /\ n.state \in State
  BY DEF Node
<1>5. QED
  BY <1>1, <1>2, <1>3, <1>4

LEMMA MinMax ==
    /\ \A a, b \in Int : /\ MinOf(a, b) \in {a, b} /\ MinOf(a, b) <= a /\ MinOf(a, b) <= b
                         /\ MaxOf(a, b) \in {a, b} /\ MaxOf(a, b) >= a /\ MaxOf(a, b) >= b
BY DEF MinOf, MaxOf

LEMMA StoredIs ==
    ASSUME NEW c \in Container
    PROVE  /\ \A v, m : <<v, m>> \in Stored(c) <=> v \in c.keys /\ m \in c.lex[v].nodes
           /\ \A s \in Stored(c) : /\ s = <<s[1], s[2]>> /\ s[1] \in c.keys /\ s[1] \in Coverage
                                   /\ s[2] \in c.lex[s[1]].nodes /\ s[2] \in Node
                                   /\ s[2].cost \in Cost /\ s[2].cost \in Int
<1>1. \A v, m : <<v, m>> \in Stored(c) <=> v \in c.keys /\ m \in c.lex[v].nodes
  BY DEF Stored
<1>2. \A s \in Stored(c) : s = <<s[1], s[2]>> /\ s[1] \in c.keys /\ s[2] \in c.lex[s[1]].nodes
  BY DEF Stored
<1>3. c.keys \subseteq Coverage /\ \A v \in Coverage : c.lex[v].nodes \subseteq Node
  BY DEF Container, Lex
<1>4. QED
  BY <1>1, <1>2, <1>3, CostTypes

-----------------------------------------------------------------------------
(* A coverage: insertion and recombination.                                   *)

LEMMA InsertionIsSound ==
    ASSUME NEW l \in Lex, LexSound(l), NEW node \in Node
    PROVE  LET new == insertHypothesis(l, node)
           IN  /\ new \in Lex /\ LexSound(new) /\ new.nodes # {}
               /\ new.best <= node.cost
               /\ l.nodes # {} => new.best <= l.best
               /\ \A m \in new.nodes : m = node \/ m \in l.nodes
               /\ IsNew(l, node) => node \notin l.nodes /\ new.nodes = l.nodes \cup {node}
               /\ ~IsNew(l, node) => Replaced(l, new, node)
<1> DEFINE same == {m \in l.nodes : m.state = node.state}
           kept == IF \E m \in same : m.cost <= node.cost THEN CHOOSE m \in same : TRUE ELSE node
           new == insertHypothesis(l, node)
<1>1. /\ new.nodes = (l.nodes \ same) \cup {kept}
      /\ new.best = IF l.nodes = {} THEN node.cost ELSE MinOf(l.best, kept.cost)
      /\ new.worst = IF l.nodes = {} THEN node.cost ELSE MaxOf(l.worst, kept.cost)
      /\ new = [nodes |-> new.nodes, best |-> new.best, worst |-> new.worst]
  BY DEF insertHypothesis
<1>2. /\ l.nodes \subseteq Node /\ l.best \in Cost \cup {Infinity} /\ l.worst \in Cost \cup {Infinity}
      /\ l.best \in Int /\ l.worst \in Int /\ node.cost \in Int /\ node.cost \in Cost
  BY CostTypes DEF Lex
<1>3. \A m, n \in same : m = n
  BY DEF LexSound
<1>4. /\ kept \in Node /\ kept.state = node.state /\ kept.cost <= node.cost
      /\ kept = node \/ kept \in same
      /\ kept.cost \in Cost /\ kept.cost \in Int
  <2>1. CASE \E m \in same : m.cost <= node.cost
    <3>1. PICK m \in same : m.cost <= node.cost
      BY <2>1
    <3>2. kept = m
      BY <1>3, <2>1, <3>1
    <3>3. QED
      BY <1>2, <3>1, <3>2, CostTypes
  <2>2. CASE ~\E m \in same : m.cost <= node.cost
    BY <1>2, <2>2, CostTypes
  <2>3. QED
    BY <2>1, <2>2
<1>5. \A m \in same : kept.cost <= m.cost
  <2>1. CASE \E m \in same : m.cost <= node.cost
    <3>1. kept \in same
      BY <2>1
    <3>2. QED
      BY <1>2, <1>3, <3>1, CostTypes
  <2>2. CASE ~\E m \in same : m.cost <= node.cost
    BY <1>2, <2>2, CostTypes
  <2>3. QED
    BY <2>1, <2>2
<1> HIDE DEF same, kept, new
<1>6. new.nodes # {} /\ new.nodes \subseteq Node /\ kept \in new.nodes
  BY <1>1, <1>2, <1>4
<1>7. /\ new.best \in Cost /\ new.best \in Int /\ new.best <= node.cost /\ new.best <= kept.cost
      /\ l.nodes # {} => new.best <= l.best
  <2>1. CASE l.nodes = {}
    <3>1. kept = node
      BY <1>4, <2>1 DEF same
    <3>2. QED
      BY <1>1, <1>2, <2>1, <3>1
  <2>2. CASE l.nodes # {}
    <3>1. l.best \in Cost
      BY <1>2, <2>2, CostTypes DEF LexSound
    <3>2. new.best = MinOf(l.best, kept.cost)
      BY <1>1, <2>2
    <3>3. QED
      BY <1>2, <1>4, <2>2, <3>1, <3>2, MinMax
  <2>3. QED
    BY <2>1, <2>2
<1>8. new.worst \in Cost \cup {Infinity} /\ new.worst \in Int
  BY <1>1, <1>2, <1>4, MinMax
<1>9. new \in Lex
  BY <1>1, <1>6, <1>7, <1>8 DEF Lex
<1>10. ASSUME NEW m \in new.nodes PROVE new.best <= m.cost /\ m.cost <= new.worst
  <2>1. CASE l.nodes = {}
    <3>1. m = node
      BY <1>1, <1>4, <2>1 DEF same
    <3>2. QED
      BY <1>1, <1>2, <2>1, <3>1
  <2>2. CASE l.nodes # {}
    <3>1. new.best = MinOf(l.best, kept.cost) /\ new.worst = MaxOf(l.worst, kept.cost)
      BY <1>1, <2>2
    <3>2. m.cost \in Int
      BY <1>6, CostTypes
    <3>3. CASE m = kept
      BY <1>2, <1>4, <3>1, <3>3, MinMax
    <3>4. CASE m \in l.nodes
      <4>1. l.best <= m.cost /\ m.cost <= l.worst
        BY <3>4 DEF LexSound
      <4>2. new.best <= l.best /\ l.worst <= new.worst
        BY <1>2, <1>4, <3>1, MinMax
      <4>3. QED
        BY <1>2, <1>7, <1>8, <3>2, <4>1, <4>2
    <3>5. QED
      BY <1>1, <3>3, <3>4
  <2>3. QED
    BY <2>1, <2>2
<1>11. \E m \in new.nodes : m.cost = new.best
  <2>1. CASE l.nodes = {}
    BY <1>1, <1>4, <2>1 DEF same
  <2>2. CASE l.nodes # {}
    <3>1. new.best = MinOf(l.best, kept.cost)
      BY <1>1, <2>2
    <3>2. CASE new.best = kept.cost
      BY <1>6, <3>2
    <3>3. CASE new.best = l.best /\ l.best # kept.cost
      <4>1. PICK m \in l.nodes : m.cost = l.best
        BY <2>2 DEF LexSound
      <4>2. m \notin same
        BY <1>2, <1>4, <1>5, <1>7, <3>3, <4>1
      <4>3. QED
        BY <1>1, <3>3, <4>1, <4>2
    <3>4. QED
      BY <1>2, <1>4, <3>1, <3>2, <3>3, MinMax
  <2>3. QED
    BY <2>1, <2>2
<1>12. \A m, n \in new.nodes : m.state = n.state => m = n
  <2>1. \A m \in l.nodes \ same : m.state # kept.state
    BY <1>4 DEF same
  <2>2. QED
    BY <1>1, <2>1 DEF LexSound
<1>13. LexSound(new)
  BY <1>10, <1>11, <1>12 DEF LexSound
<1>14. IsNew(l, node) => node \notin l.nodes /\ new.nodes = l.nodes \cup {node}
  BY <1>1, <1>4 DEF same, IsNew
<1>15. ASSUME ~IsNew(l, node) PROVE Replaced(l, new, node)
  <2>1. PICK m \in l.nodes : m.state = node.state
    BY <1>15 DEF IsNew
  <2>2. same = {m}
    BY <1>3, <2>1 DEF same
  <2>3. kept \in {node} \cup l.nodes /\ kept.state = m.state
    BY <1>4, <2>1 DEF same
  <2>4. QED
    BY <1>1, <2>2, <2>3 DEF Replaced
<1>16. \A m \in new.nodes : m = node \/ m \in l.nodes
  BY <1>1, <1>4 DEF same
<1>17. QED
  BY <1>6, <1>7, <1>9, <1>13, <1>14, <1>15, <1>16 DEF new

-----------------------------------------------------------------------------
(* The container: insertion.                                                  *)

LEMMA NodesAreFinite ==
    ASSUME NEW c \in Container, IsFiniteSet(Stored(c)), NEW v \in c.keys
    PROVE  IsFiniteSet(c.lex[v].nodes) /\ Cardinality(c.lex[v].nodes) \in Nat
<1> DEFINE nodes == c.lex[v].nodes  S == {v} \X nodes  f == [s \in S |-> s[2]]
<1>1. S \in SUBSET Stored(c)
  BY StoredIs
<1>2. IsFiniteSet(S)
  BY <1>1, FS_Subset
<1>3. f \in Surjection(S, nodes)
  <2>1. f \in [S -> nodes]
    OBVIOUS
  <2>2. ASSUME NEW t \in nodes PROVE \E s \in S : f[s] = t
    <3>1. <<v, t>> \in S /\ f[<<v, t>>] = t
      OBVIOUS
    <3>2. QED
      BY <3>1
  <2>3. QED
    BY <2>1, <2>2 DEF Surjection
<1>4. IsFiniteSet(nodes)
  BY <1>2, <1>3, FS_Surjection
<1>5. QED
  BY <1>4, FS_CardinalityType

\* Replacing a member of a finite set leaves its size.
LEMMA Exchange ==
    ASSUME NEW S, IsFiniteSet(S), NEW m \in S, NEW k, k \notin S \ {m}
    PROVE  /\ IsFiniteSet((S \ {m}) \cup {k})
           /\ Cardinality((S \ {m}) \cup {k}) = Cardinality(S)
<1> DEFINE rest == S \ {m}
<1>1. IsFiniteSet(rest) /\ Cardinality(rest) = Cardinality(S) - 1 /\ k \notin rest
      /\ Cardinality(S) \in Nat
  BY FS_RemoveElement, FS_CardinalityType
<1> HIDE DEF rest
<1>2. IsFiniteSet(rest \cup {k}) /\ Cardinality(rest \cup {k}) = Cardinality(rest) + 1
  BY <1>1, FS_AddElement
<1>3. QED
  BY <1>1, <1>2 DEF rest

\* A new node is counted, a recombined one is not.
LEMMA GrowthIs ==
    ASSUME NEW l \in Lex, LexSound(l), IsFiniteSet(l.nodes), NEW node \in Node
    PROVE  Growth(l, insertHypothesis(l, node)) = IF IsNew(l, node) THEN 1 ELSE 0
<1> DEFINE new == insertHypothesis(l, node)
<1>1. /\ IsNew(l, node) => node \notin l.nodes /\ new.nodes = l.nodes \cup {node}
      /\ ~IsNew(l, node) => Replaced(l, new, node)
      /\ Cardinality(l.nodes) \in Nat
  BY InsertionIsSound, FS_CardinalityType
<1> HIDE DEF new
<1>2. CASE IsNew(l, node)
  <2>1. Cardinality(new.nodes) = Cardinality(l.nodes) + 1
    BY <1>1, <1>2, FS_AddElement
  <2>2. QED
    BY <1>1, <1>2, <2>1 DEF Growth, new
<1>3. CASE ~IsNew(l, node)
  <2>1. PICK m \in l.nodes, k \in {node} \cup l.nodes :
                 k.state = m.state /\ new.nodes = (l.nodes \ {m}) \cup {k}
    BY <1>1, <1>3 DEF Replaced
  <2>2. k \notin l.nodes \ {m}
    BY <2>1 DEF LexSound
  <2>3. Cardinality(new.nodes) = Cardinality(l.nodes)
    BY <2>1, <2>2, Exchange
  <2>4. QED
    BY <1>1, <1>3, <2>3 DEF Growth, new
<1>4. QED
  BY <1>2, <1>3

\* What is stored after an insertion is counted.
LEMMA InsertionIsCounted ==
    ASSUME NEW c, Counted(c), NEW v \in c.keys, NEW node \in Node,
           NEW d \in Container, d.keys = c.keys,
           d.lex = [c.lex EXCEPT ![v] = insertHypothesis(c.lex[v], node)],
           d.total = c.total + (IF IsNew(c.lex[v], node) THEN 1 ELSE 0)
    PROVE  Counted(d)
<1> DEFINE old == c.lex[v]
           new == insertHypothesis(old, node)
<1>0. /\ c \in Container /\ v \in Coverage /\ old \in Lex /\ c.lex \in [Coverage -> Lex]
      /\ c.total \in Nat
  BY DEF Counted, Container
<1>1. /\ LexSound(old) /\ IsFiniteSet(Stored(c)) /\ c.total <= Cardinality(Stored(c))
      /\ Cardinality(Stored(c)) \in Nat
  BY <1>0, FS_CardinalityType DEF Counted
<1>2. /\ new \in Lex /\ LexSound(new)
      /\ IsNew(old, node) => node \notin old.nodes /\ new.nodes = old.nodes \cup {node}
      /\ ~IsNew(old, node) => Replaced(old, new, node)
  BY <1>0, <1>1, InsertionIsSound
<1>3. d.lex[v] = new /\ \A u \in Coverage \ {v} : d.lex[u] = c.lex[u]
  BY <1>0
<1> HIDE DEF new, old
<1>4. \A u, m : <<u, m>> \in Stored(d) <=>
                   u \in c.keys /\ m \in (IF u = v THEN new.nodes ELSE c.lex[u].nodes)
  BY <1>3, StoredIs DEF Container
<1>5. \A u, m : <<u, m>> \in Stored(c) <=> u \in c.keys /\ m \in c.lex[u].nodes
  BY <1>0, StoredIs
<1>6. /\ \A s \in Stored(c) : s = <<s[1], s[2]>>
      /\ \A s \in Stored(d) : s = <<s[1], s[2]>>
  BY <1>0, StoredIs
<1>7. IsFiniteSet(Stored(d)) /\ d.total <= Cardinality(Stored(d))
  <2>1. CASE IsNew(old, node)
    <3>1. Stored(d) = Stored(c) \cup {<<v, node>>} /\ <<v, node>> \notin Stored(c)
      BY <1>2, <1>4, <1>5, <1>6, <2>1 DEF old
    <3>2. IsFiniteSet(Stored(d)) /\ Cardinality(Stored(d)) = Cardinality(Stored(c)) + 1
      BY <1>1, <3>1, FS_AddElement
    <3>3. d.total = c.total + 1
      BY <2>1 DEF old
    <3>4. QED
      BY <1>0, <1>1, <3>2, <3>3
  <2>2. CASE ~IsNew(old, node)
    <3>1. PICK m \in old.nodes, k \in {node} \cup old.nodes :
                   k.state = m.state /\ new.nodes = (old.nodes \ {m}) \cup {k}
      BY <1>2, <2>2 DEF Replaced
    <3>2. k \notin old.nodes \ {m}
      BY <1>1, <3>1 DEF LexSound
    <3>3. /\ Stored(d) = (Stored(c) \ {<<v, m>>}) \cup {<<v, k>>}
          /\ <<v, m>> \in Stored(c) /\ <<v, k>> \notin Stored(c) \ {<<v, m>>}
      BY <1>4, <1>5, <1>6, <3>1, <3>2 DEF old
    <3>4. IsFiniteSet(Stored(d)) /\ Cardinality(Stored(d)) = Cardinality(Stored(c))
      BY <1>1, <3>3, Exchange
    <3>5. d.total = c.total
      BY <1>0, <2>2 DEF old
    <3>6. QED
      BY <1>0, <1>1, <3>4, <3>5
  <2>3. QED
    BY <2>1, <2>2
<1>8. QED
  BY <1>0, <1>2, <1>3, <1>7 DEF Counted

LEMMA InsertedIsSound ==
    ASSUME NEW c, Sound(c), c.selected # NULL, NEW node \in Node
    PROVE  LET d == Inserted(c, node)
           IN  /\ Sound(d) /\ d.keys = c.keys /\ d.selected = c.selected
               /\ d.lex[d.selected].nodes # {}
               /\ \A u \in Coverage : c.lex[u].nodes # {} => d.lex[u].nodes # {}
               /\ d.limit = MinOf(c.limit, node.cost - LogBeamWidth)
               /\ Stored(d) \subseteq Stored(c) \cup {<<c.selected, node>>}
               /\ \E s \in Stored(d) : s[2].cost <= node.cost
               /\ \A t \in Stored(c) : \E s \in Stored(d) : s[2].cost <= t[2].cost
<1> DEFINE v == c.selected
           old == c.lex[v]
           new == insertHypothesis(old, node)
           d == Inserted(c, node)
<1>0. /\ c \in Container /\ Counted(c) /\ v \in c.keys /\ v \in Coverage /\ old \in Lex
      /\ LexSound(old) /\ c.lex \in [Coverage -> Lex] /\ c.limit \in Int /\ c.total \in Nat
  BY DEF Sound, Counted, Container
<1>1. /\ new \in Lex /\ LexSound(new) /\ new.nodes # {} /\ new.best <= node.cost
      /\ old.nodes # {} => new.best <= old.best
      /\ \A m \in new.nodes : m = node \/ m \in old.nodes
      /\ IsNew(old, node) => new.nodes = old.nodes \cup {node}
  BY <1>0, InsertionIsSound
<1>2. /\ d = [c EXCEPT !.lex = d.lex, !.limit = d.limit, !.total = d.total, !.best = d.best, !.worst = d.worst]
      /\ d.lex = [c.lex EXCEPT ![v] = new]
      /\ d.limit = MinOf(c.limit, node.cost - LogBeamWidth)
      /\ d.total = c.total + Growth(old, new)
      /\ d.best = c.best \/ (d.best = v /\ IsNew(old, node))
      /\ d.worst = c.worst \/ (d.worst = v /\ IsNew(old, node))
      /\ IsNew(old, node) /\ c.best = NULL => d.best = v
      /\ IsNew(old, node) /\ c.worst = NULL => d.worst = v
      /\ d.keys = c.keys /\ d.selected = v
  BY <1>0 DEF Inserted, IsNew, Container
<1> HIDE DEF d, new
<1>3. d.lex \in [Coverage -> Lex] /\ d.lex[v] = new /\ \A u \in Coverage \ {v} : d.lex[u] = c.lex[u]
  BY <1>0, <1>1, <1>2
<1>4. d.total = c.total + (IF IsNew(old, node) THEN 1 ELSE 0) /\ d.total \in Nat
  <2>1. IsFiniteSet(old.nodes)
    BY <1>0, NodesAreFinite DEF Counted
  <2>2. Growth(old, new) = IF IsNew(old, node) THEN 1 ELSE 0
    BY <1>0, <2>1, GrowthIs DEF new
  <2>3. QED
    BY <1>0, <1>2, <2>2
<1>5. d.limit \in Int
  <2>1. node.cost \in Int /\ LogBeamWidth \in Int
    BY CostTypes
  <2>2. node.cost - LogBeamWidth \in Int
    BY <2>1
  <2>3. QED
    BY <1>0, <1>2, <2>2, MinMax
<1>6. d \in Container /\ d.best \in d.keys \cup {NULL} /\ d.worst \in d.keys \cup {NULL}
  <2>1. c.best \in c.keys \cup {NULL} /\ c.worst \in c.keys \cup {NULL}
    BY DEF Sound, Points
  <2>2. d.best \in c.keys \cup {NULL} /\ d.worst \in c.keys \cup {NULL}
    BY <1>0, <1>2, <2>1
  <2>3. c.keys \subseteq Coverage
    BY <1>0 DEF Container
  <2>4. QED
    BY <1>0, <1>2, <1>3, <1>4, <1>5, <2>2, <2>3 DEF Container
<1>7. Counted(d)
  BY <1>0, <1>2, <1>4, <1>6, InsertionIsCounted DEF new
<1>8. /\ \A u, m : <<u, m>> \in Stored(d) <=>
                   u \in c.keys /\ m \in (IF u = v THEN new.nodes ELSE c.lex[u].nodes)
      /\ \A u, m : <<u, m>> \in Stored(c) <=> u \in c.keys /\ m \in c.lex[u].nodes
      /\ \A s \in Stored(c) : s = <<s[1], s[2]>> /\ s[1] \in c.keys /\ s[1] \in Coverage
                              /\ s[2] \in c.lex[s[1]].nodes /\ s[2].cost \in Int
      /\ \A s \in Stored(d) : s = <<s[1], s[2]>>
  BY <1>0, <1>2, <1>3, <1>6, StoredIs
<1>9. d.lex[v].nodes # {} /\ \A u \in Coverage : c.lex[u].nodes # {} => d.lex[u].nodes # {}
  BY <1>1, <1>3
<1>10. Stored(d) # {} /\ Points(d, d.best) /\ Points(d, d.worst)
  <2>1. PICK m \in new.nodes : TRUE
    BY <1>1
  <2>2. <<v, m>> \in Stored(d)
    BY <1>0, <1>8, <2>1
  <2>3. ASSUME NEW p \in d.keys \cup {NULL}, NEW q, Points(c, q),
               p = q \/ p = v, IsNew(old, node) /\ q = NULL => p = v
        PROVE  Points(d, p)
    <3>1. q = NULL => IsNew(old, node)
      <4>1. q = NULL => \A m1 \in old.nodes : FALSE
        BY <1>0, <1>8, <2>3 DEF Points
      <4>2. QED
        BY <4>1 DEF IsNew
    <3>2. v # NULL
      BY <1>0, NullAssumption
    <3>3. p # NULL
      BY <2>3, <3>1, <3>2
    <3>4. d.lex[p].nodes # {}
      <4>1. CASE p = v
        BY <1>9, <4>1
      <4>2. CASE p = q
        <5>1. c.lex[p].nodes # {} /\ p \in Coverage
          BY <1>0, <1>2, <2>3, <3>3, <4>2 DEF Points, Container
        <5>2. QED
          BY <1>9, <5>1
      <4>3. QED
        BY <2>3, <4>1, <4>2
    <3>5. QED
      BY <2>2, <2>3, <3>3, <3>4 DEF Points
  <2>4. Points(c, c.best) /\ Points(c, c.worst)
    BY DEF Sound
  <2>5. Points(d, d.best)
    BY <1>2, <1>6, <2>3, <2>4
  <2>6. Points(d, d.worst)
    BY <1>2, <1>6, <2>3, <2>4
  <2>7. QED
    BY <2>2, <2>5, <2>6
<1>11. Stored(d) \subseteq Stored(c) \cup {<<v, node>>}
  <2>1. ASSUME NEW s \in Stored(d) PROVE s \in Stored(c) \cup {<<v, node>>}
    <3>1. s = <<s[1], s[2]>>
      BY <1>8
    <3>2. s[1] \in c.keys /\ s[2] \in (IF s[1] = v THEN new.nodes ELSE c.lex[s[1]].nodes)
      BY <1>8, <3>1
    <3>3. s[2] \in c.lex[s[1]].nodes \/ (s[1] = v /\ s[2] = node)
      BY <1>1, <3>2
    <3>4. QED
      BY <1>8, <3>1, <3>2, <3>3
  <2>2. QED
    BY <2>1
<1>12. PICK b \in new.nodes : b.cost = new.best
  BY <1>1 DEF LexSound
<1>13. <<v, b>> \in Stored(d) /\ <<v, b>>[2].cost = new.best
  BY <1>0, <1>8, <1>12
<1>14. ASSUME NEW t \in Stored(c) PROVE \E s \in Stored(d) : s[2].cost <= t[2].cost
  <2>1. CASE t[1] = v
    <3>1. t[2] \in old.nodes
      BY <1>8, <2>1
    <3>2. old.best <= t[2].cost /\ new.best <= old.best
      BY <1>0, <1>1, <3>1 DEF LexSound
    <3>3. old.best \in Int /\ new.best \in Int /\ t[2].cost \in Int
      BY <1>0, <1>1, <1>8, CostTypes DEF Lex
    <3>4. new.best <= t[2].cost
      BY <3>2, <3>3
    <3>5. QED
      BY <1>13, <3>4
  <2>2. CASE t[1] # v
    <3>1. t = <<t[1], t[2]>> /\ t[1] \in c.keys /\ t[2] \in c.lex[t[1]].nodes /\ t[2].cost \in Int
      BY <1>8
    <3>2. <<t[1], t[2]>> \in Stored(d)
      BY <1>8, <2>2, <3>1
    <3>3. QED
      BY <3>1, <3>2
  <2>3. QED
    BY <2>1, <2>2
<1>15. \E s \in Stored(d) : s[2].cost <= node.cost
  BY <1>1, <1>13
<1>16. Sound(d)
  BY <1>0, <1>2, <1>7, <1>10 DEF Sound
<1>17. QED
  BY <1>2, <1>9, <1>11, <1>14, <1>15, <1>16 DEF d

-----------------------------------------------------------------------------
(* The container: pruning.                                                    *)

LEMMA UpdateIsSound ==
    ASSUME NEW c, Counted(c), c.selected \in c.keys \cup {NULL}, NEW d \in UpdateBestAndWorst(c)
    PROVE  /\ Sound(d) /\ d.keys = c.keys /\ d.lex = c.lex /\ d.selected = c.selected
           /\ d.total = c.total /\ d.limit = c.limit /\ Stored(d) = Stored(c)
<1> DEFINE full == {v \in c.keys : c.lex[v].nodes # {}}
<1>0. c \in Container /\ c.keys \subseteq Coverage
  BY DEF Counted, Container
<1>1. PICK b, w : /\ d = [c EXCEPT !.best = b, !.worst = w]
                  /\ full = {} => b = NULL /\ w = NULL
                  /\ full # {} => b \in full /\ w \in full
  <2>1. CASE full = {}
    <3>1. d = [c EXCEPT !.best = NULL, !.worst = NULL]
      BY <2>1 DEF UpdateBestAndWorst
    <3>2. QED
      BY <2>1, <3>1
  <2>2. CASE full # {}
    <3>1. PICK p \in full \X full : d = [c EXCEPT !.best = p[1], !.worst = p[2]]
      BY <2>2 DEF UpdateBestAndWorst
    <3>2. QED
      BY <2>2, <3>1
  <2>3. QED
    BY <2>1, <2>2
<1>2. /\ d.best = b /\ d.worst = w /\ d.keys = c.keys /\ d.lex = c.lex /\ d.selected = c.selected
      /\ d.total = c.total /\ d.limit = c.limit
  BY <1>0, <1>1 DEF Container
<1>3. d \in Container
  BY <1>0, <1>1 DEF Container
<1>4. Stored(d) = Stored(c)
  BY <1>2 DEF Stored
<1>5. Stored(c) = {} <=> full = {}
  BY <1>0, StoredIs
<1>6. Counted(d)
  BY <1>2, <1>3, <1>4 DEF Counted
<1>7. b \in c.keys \cup {NULL} /\ (b = NULL <=> Stored(c) = {}) /\ (b # NULL => c.lex[b].nodes # {})
  BY <1>0, <1>1, <1>5, NullAssumption
<1>8. w \in c.keys \cup {NULL} /\ (w = NULL <=> Stored(c) = {}) /\ (w # NULL => c.lex[w].nodes # {})
  BY <1>0, <1>1, <1>5, NullAssumption
<1>9. Points(d, d.best) /\ Points(d, d.worst)
  BY <1>2, <1>4, <1>7, <1>8 DEF Points
<1>10. QED
  BY <1>2, <1>4, <1>6, <1>9 DEF Sound

\* The n cheapest of a finite pool have a cheapest of the pool among them.
LEMMA CheapestHasCheapest ==
    ASSUME NEW pool, IsFiniteSet(pool), NEW P \in SUBSET pool, NEW n \in Nat \ {0}, Cheapest(P, pool, n),
           \A s \in pool : s[2].cost \in Int,
           NEW m \in pool, \A s \in pool : m[2].cost <= s[2].cost
    PROVE  \E p \in P : p[2].cost = m[2].cost
<1>1. Cardinality(P) = MinOf(n, Cardinality(pool)) /\ \A p \in P, q \in pool \ P : p[2].cost <= q[2].cost
  BY DEF Cheapest
<1>2. Cardinality(pool) \in Nat \ {0}
  <2>1. Cardinality(pool) \in Nat
    BY FS_CardinalityType
  <2>2. {m} \in SUBSET pool /\ Cardinality({m}) = 1
    BY FS_Singleton
  <2>3. Cardinality({m}) <= Cardinality(pool)
    BY <2>2, FS_Subset
  <2>4. QED
    BY <2>1, <2>2, <2>3
<1>3. Cardinality(P) # 0
  BY <1>1, <1>2 DEF MinOf
<1>4. P # {}
  BY <1>3, FS_EmptySet
<1>5. CASE m \in P
  BY <1>5
<1>6. CASE m \notin P
  <2>1. PICK p \in P : TRUE
    BY <1>4
  <2>2. p[2].cost <= m[2].cost /\ m[2].cost <= p[2].cost
    BY <1>1, <1>6
  <2>3. p[2].cost \in Int /\ m[2].cost \in Int
    OBVIOUS
  <2>4. QED
    BY <2>2, <2>3
<1>7. QED
  BY <1>5, <1>6

\* The picks: a share of each coverage, then the cheapest of the rest.
Room(P) == MaxOf(MaxCardinalityContainerSize - Cardinality(P), 0)
Rest(c, P) == {s \in Stored(c) \ P : s[2].cost < Beam(c)}

LEMMA PicksAre ==
    ASSUME NEW c, NEW K \in Picks(c)
    PROVE  \E P \in SUBSET Stored(c) : \E F \in SUBSET Rest(c, P) :
              /\ K = P \cup F
              /\ \A v \in c.keys : Cheapest(Of(P, v), Of(Stored(c), v), PrimaryCoverageShare)
              /\ Cheapest(F, Rest(c, P), Room(P))
BY DEF Picks, Rest, Room

\* The beam is measured from a hypothesis that is stored.
LEMMA BeamIs ==
    ASSUME NEW c, Sound(c), Stored(c) # {}
    PROVE  /\ Beam(c) \in Int
           /\ \E s \in Stored(c) : Beam(c) = s[2].cost - LogBeamWidth
<1>1. /\ c \in Container /\ c.best \in c.keys /\ c.best \in Coverage
      /\ c.lex[c.best].nodes # {} /\ LexSound(c.lex[c.best])
  BY DEF Sound, Points, Counted, Container
<1>2. PICK b \in c.lex[c.best].nodes : b.cost = c.lex[c.best].best
  BY <1>1 DEF LexSound
<1>3. <<c.best, b>> \in Stored(c) /\ <<c.best, b>>[2].cost \in Int
  BY <1>1, <1>2, StoredIs
<1>4. Beam(c) = b.cost - LogBeamWidth
  BY <1>2 DEF Beam
<1>5. QED
  BY <1>3, <1>4, CostTypes

\* A coverage that is picked from keeps a cheapest node.
LEMMA PickedCoverages ==
    ASSUME NEW c, Sound(c), NEW K \in Picks(c), NEW v \in c.keys, Of(K, v) # {}
    PROVE  \E s \in Of(K, v) : s[2].cost = c.lex[v].best
<1> DEFINE all == Of(Stored(c), v)  share == PrimaryCoverageShare
<1>0. c \in Container /\ v \in Coverage /\ LexSound(c.lex[v]) /\ IsFiniteSet(Stored(c))
  BY DEF Sound, Counted, Container
<1>1. PICK P \in SUBSET Stored(c) : \E F \in SUBSET Rest(c, P) :
              /\ K = P \cup F
              /\ \A u \in c.keys : Cheapest(Of(P, u), Of(Stored(c), u), share)
              /\ Cheapest(F, Rest(c, P), Room(P))
  BY PicksAre
<1>2. PICK F \in SUBSET Rest(c, P) :
              /\ K = P \cup F
              /\ \A u \in c.keys : Cheapest(Of(P, u), Of(Stored(c), u), share)
              /\ Cheapest(F, Rest(c, P), Room(P))
  BY <1>1
<1>3. all \in SUBSET Stored(c) /\ IsFiniteSet(all) /\ Of(P, v) \in SUBSET all /\ Of(K, v) \subseteq all
  <2>1. all \in SUBSET Stored(c) /\ Of(P, v) \in SUBSET all /\ Of(K, v) \subseteq all
    BY <1>2 DEF Of, Rest
  <2>2. QED
    BY <1>0, <2>1, FS_Subset
<1>4. \A s \in all : s[1] = v /\ s[2] \in c.lex[v].nodes /\ s[2].cost \in Int /\ c.lex[v].best <= s[2].cost
  <2>1. \A s \in all : s \in Stored(c) /\ s[1] = v
    BY DEF Of
  <2>2. \A s \in all : s[2] \in c.lex[v].nodes /\ s[2].cost \in Int
    BY <1>0, <2>1, StoredIs
  <2>3. QED
    BY <1>0, <2>1, <2>2 DEF LexSound
<1>5. c.lex[v].nodes # {} /\ c.lex[v].best \in Int
  BY <1>0, <1>3, <1>4, CostTypes DEF Container, Lex
<1>6. PICK b \in c.lex[v].nodes : b.cost = c.lex[v].best
  BY <1>0, <1>5 DEF LexSound
<1> DEFINE m == <<v, b>>
<1>7. m \in all /\ m[2].cost = c.lex[v].best
  BY <1>0, <1>6, StoredIs DEF Of
<1> HIDE DEF all, m
<1>8. CASE share # 0
  <2>1. share \in Nat \ {0} /\ Cheapest(Of(P, v), all, share)
    BY <1>2, <1>8, SizeAssumption DEF all
  <2>2. \A s \in all : s[2].cost \in Int /\ m[2].cost <= s[2].cost
    BY <1>4, <1>7
  <2>3. \E p \in Of(P, v) : p[2].cost = m[2].cost
    BY <1>3, <1>7, <2>1, <2>2, CheapestHasCheapest
  <2>4. Of(P, v) \subseteq Of(K, v)
    BY <1>2 DEF Of
  <2>5. QED
    BY <1>7, <2>3, <2>4
<1>9. CASE share = 0
  <2>1. PICK p \in Of(K, v) : TRUE
    OBVIOUS
  <2>2. Of(P, v) = {}
    <3>1. Cardinality(Of(P, v)) = MinOf(0, Cardinality(all)) /\ IsFiniteSet(Of(P, v))
      BY <1>2, <1>3, <1>9, FS_Subset DEF Cheapest, all
    <3>2. Cardinality(all) \in Nat
      BY <1>3, FS_CardinalityType
    <3>3. Cardinality(Of(P, v)) = 0
      BY <3>1, <3>2 DEF MinOf
    <3>4. QED
      BY <3>1, <3>3, FS_EmptySet, FS_CardinalityType
  <2>3. p \in F /\ p \in all
    BY <1>2, <1>3, <2>1, <2>2 DEF Of
  <2>4. p[2].cost < Beam(c) /\ m[2].cost <= p[2].cost /\ m[2].cost \in Int /\ p[2].cost \in Int
    BY <1>2, <1>4, <1>7, <2>3 DEF Rest
  <2>5. Beam(c) \in Int
    BY <1>3, <1>7, BeamIs
  <2>6. m \in Rest(c, P)
    BY <1>3, <1>7, <2>2, <2>4, <2>5 DEF Rest, Of, all
  <2>7. m \in F \/ p[2].cost <= m[2].cost
    BY <1>2, <2>3, <2>6 DEF Cheapest
  <2>8. CASE m \in F
    BY <1>2, <1>7, <2>8 DEF Of, all
  <2>9. CASE p[2].cost <= m[2].cost
    BY <1>7, <2>1, <2>4, <2>9
  <2>10. QED
    BY <2>7, <2>8, <2>9
<1>10. QED
  BY <1>8, <1>9

\* With a beam below its own width the cheapest hypothesis of all is picked.
LEMMA PicksHaveCheapest ==
    ASSUME NEW c, Sound(c), NEW K \in Picks(c), LogBeamWidth < 0,
           NEW m \in Stored(c), \A s \in Stored(c) : m[2].cost <= s[2].cost
    PROVE  \E s \in K : s[2].cost = m[2].cost
<1> DEFINE share == PrimaryCoverageShare  v == m[1]
<1>0. /\ c \in Container /\ IsFiniteSet(Stored(c)) /\ v \in c.keys
      /\ \A s \in Stored(c) : s[2].cost \in Int /\ s[1] \in c.keys
  BY StoredIs DEF Sound, Counted
<1>1. PICK P \in SUBSET Stored(c) : \E F \in SUBSET Rest(c, P) :
              /\ K = P \cup F
              /\ \A u \in c.keys : Cheapest(Of(P, u), Of(Stored(c), u), share)
              /\ Cheapest(F, Rest(c, P), Room(P))
  BY PicksAre
<1>2. PICK F \in SUBSET Rest(c, P) :
              /\ K = P \cup F
              /\ \A u \in c.keys : Cheapest(Of(P, u), Of(Stored(c), u), share)
              /\ Cheapest(F, Rest(c, P), Room(P))
  BY <1>1
<1>3. \A u : Of(Stored(c), u) \in SUBSET Stored(c) /\ IsFiniteSet(Of(Stored(c), u))
             /\ Of(P, u) \in SUBSET Of(Stored(c), u) /\ IsFiniteSet(Of(P, u))
  <2>1. \A u : Of(Stored(c), u) \in SUBSET Stored(c) /\ Of(P, u) \in SUBSET Of(Stored(c), u)
    BY DEF Of
  <2>2. QED
    BY <1>0, <2>1, FS_Subset
<1>4. CASE share # 0
  <2> DEFINE all == Of(Stored(c), v)
  <2>1. /\ share \in Nat \ {0} /\ Cheapest(Of(P, v), all, share) /\ IsFiniteSet(all)
        /\ Of(P, v) \in SUBSET all
    BY <1>0, <1>2, <1>3, <1>4, SizeAssumption
  <2>2. m \in all /\ \A s \in all : s[2].cost \in Int /\ m[2].cost <= s[2].cost
    BY <1>0 DEF Of
  <2> HIDE DEF all
  <2>3. \E p \in Of(P, v) : p[2].cost = m[2].cost
    BY <2>1, <2>2, CheapestHasCheapest
  <2>4. QED
    BY <1>2, <2>3 DEF Of
<1>5. CASE share = 0
  <2> DEFINE pool == Rest(c, P)
  <2>1. \A u \in c.keys : Of(P, u) = {}
    <3> SUFFICES ASSUME NEW u \in c.keys PROVE Of(P, u) = {}
      OBVIOUS
    <3>1. Cardinality(Of(P, u)) = MinOf(0, Cardinality(Of(Stored(c), u)))
      BY <1>2, <1>5 DEF Cheapest
    <3>2. Cardinality(Of(Stored(c), u)) \in Nat
      BY <1>3, FS_CardinalityType
    <3>3. Cardinality(Of(P, u)) = 0
      BY <3>1, <3>2 DEF MinOf
    <3>4. QED
      BY <1>3, <3>3, FS_EmptySet, FS_CardinalityType
  <2>2. P = {}
    BY <1>0, <2>1 DEF Of
  <2>3. Room(P) \in Nat \ {0}
    <3>1. Room(P) = MaxOf(MaxCardinalityContainerSize - 0, 0)
      BY <2>2, FS_EmptySet DEF Room
    <3>2. QED
      BY <3>1, SizeAssumption DEF MaxOf
  <2>4. PICK s \in Stored(c) : Beam(c) = s[2].cost - LogBeamWidth
    BY BeamIs
  <2>5. m[2].cost < Beam(c)
    BY <1>0, <2>4, CostTypes
  <2>6. m \in pool /\ pool \in SUBSET Stored(c)
    BY <2>2, <2>5 DEF Rest
  <2>7. IsFiniteSet(pool) /\ \A t \in pool : t[2].cost \in Int /\ m[2].cost <= t[2].cost
    BY <1>0, <2>6, FS_Subset
  <2>8. F \in SUBSET pool /\ Cheapest(F, pool, Room(P))
    BY <1>2
  <2> HIDE DEF pool
  <2>9. \E p \in F : p[2].cost = m[2].cost
    BY <2>3, <2>6, <2>7, <2>8, CheapestHasCheapest
  <2>10. QED
    BY <1>2, <2>9
<1>6. QED
  BY <1>4, <1>5

LEMMA PrunedIsSound ==
    ASSUME NEW c, Sound(c), NEW K \in Picks(c)
    PROVE  LET d == Pruned(c, K)
           IN  /\ Counted(d) /\ d.keys \subseteq c.keys /\ d.selected = c.selected
               /\ d.selected \in d.keys \cup {NULL} /\ d.limit = c.limit
               /\ \A v \in d.keys : c.lex[v].nodes # {} => d.lex[v].nodes # {}
               /\ K \subseteq Stored(d) /\ Stored(d) \subseteq Stored(c)
               /\ d.total = Cardinality(K) /\ IsFiniteSet(K)
<1> DEFINE d == Pruned(c, K)  keeps == Keeps(c, K)
           left(v) == IF Of(K, v) # {} THEN [c.lex[v] EXCEPT !.nodes = {s[2] : s \in Of(K, v)}]
                      ELSE IF v \in keeps THEN c.lex[v] ELSE EmptyLex
<1>0. /\ c \in Container /\ IsFiniteSet(Stored(c)) /\ c.keys \subseteq Coverage
      /\ \A v \in Coverage : c.lex[v] \in Lex /\ LexSound(c.lex[v])
      /\ \A v \in Coverage \ c.keys : c.lex[v].nodes = {}
      /\ c.selected \in c.keys \cup {NULL} /\ c.limit \in Int
  BY DEF Sound, Counted, Container
<1>1. K \in SUBSET Stored(c)
  <2>1. \E P \in SUBSET Stored(c) : \E F \in SUBSET Rest(c, P) : K = P \cup F
    BY PicksAre
  <2>2. \A P : Rest(c, P) \in SUBSET Stored(c)
    BY DEF Rest
  <2>3. QED
    BY <2>1, <2>2
<1>2. IsFiniteSet(K) /\ Cardinality(K) \in Nat
  BY <1>0, <1>1, FS_Subset, FS_CardinalityType
<1>3. /\ \A s \in K : s = <<s[1], s[2]>> /\ s[1] \in c.keys /\ s[1] \in Coverage
                      /\ s[2] \in c.lex[s[1]].nodes /\ s[2] \in Node
      /\ \A v : Of(K, v) # {} => v \in c.keys /\ v \in keeps
  BY <1>0, <1>1, StoredIs DEF Of, Keeps
<1>4. /\ d = [c EXCEPT !.lex = d.lex, !.keys = keeps, !.total = Cardinality(K)]
      /\ d.lex = [v \in Coverage |-> left(v)]
      /\ d.keys = keeps /\ d.total = Cardinality(K)
      /\ d.selected = c.selected /\ d.limit = c.limit
  BY <1>0 DEF Pruned, Container
<1> HIDE DEF d
<1>5. keeps \subseteq c.keys /\ c.selected \in keeps \cup {NULL}
  BY <1>0 DEF Keeps
<1>6. ASSUME NEW v \in Coverage
      PROVE  /\ left(v) \in Lex /\ LexSound(left(v))
             /\ left(v).nodes \subseteq c.lex[v].nodes
             /\ v \notin keeps => left(v).nodes = {}
             /\ v \in keeps /\ c.lex[v].nodes # {} => left(v).nodes # {}
             /\ \A n : <<v, n>> \in K => n \in left(v).nodes
  <2>1. CASE Of(K, v) # {}
    <3> DEFINE picked == {s[2] : s \in Of(K, v)}
    <3>1. /\ picked # {} /\ picked \subseteq c.lex[v].nodes /\ v \in c.keys /\ v \in keeps
          /\ \A n : <<v, n>> \in K => n \in picked
      <4>1. \A s \in Of(K, v) : s \in K /\ s[1] = v
        BY DEF Of
      <4>2. \A n : <<v, n>> \in K => <<v, n>> \in Of(K, v) /\ <<v, n>>[2] = n
        BY DEF Of
      <4>3. QED
        BY <1>3, <2>1, <4>1, <4>2
    <3>2. left(v) = [c.lex[v] EXCEPT !.nodes = picked]
      BY <2>1
    <3>3. PICK s \in Of(K, v) : s[2].cost = c.lex[v].best
      BY <2>1, <3>1, PickedCoverages
    <3>4. \E n \in picked : n.cost = c.lex[v].best
      BY <3>3
    <3> HIDE DEF picked, left
    <3>5. /\ left(v).nodes = picked /\ left(v).best = c.lex[v].best /\ left(v).worst = c.lex[v].worst
          /\ left(v) \in Lex
      BY <1>0, <3>1, <3>2 DEF Lex
    <3>6. LexSound(left(v))
      BY <1>0, <3>1, <3>4, <3>5 DEF LexSound
    <3>7. QED
      BY <3>1, <3>5, <3>6
  <2>2. CASE Of(K, v) = {} /\ v \in keeps
    <3>1. left(v) = c.lex[v]
      BY <2>2
    <3>2. \A n : <<v, n>> \notin K
      BY <2>2 DEF Of
    <3> HIDE DEF left, keeps
    <3>3. QED
      BY <1>0, <2>2, <3>1, <3>2
  <2>3. CASE Of(K, v) = {} /\ v \notin keeps
    <3>1. left(v) = EmptyLex
      BY <2>3
    <3>2. \A n : <<v, n>> \notin K
      BY <2>3 DEF Of
    <3>3. EmptyLex \in Lex /\ LexSound(EmptyLex) /\ EmptyLex.nodes = {}
      BY DEF EmptyLex, Lex, LexSound
    <3> HIDE DEF left, keeps
    <3>4. QED
      BY <2>3, <3>1, <3>2, <3>3
  <2>4. QED
    BY <2>1, <2>2, <2>3
<1> HIDE DEF left, keeps
<1>7. d \in Container
  <2>1. d.lex \in [Coverage -> Lex] /\ d.keys \in SUBSET Coverage /\ d.total \in Nat
    BY <1>0, <1>2, <1>4, <1>5, <1>6
  <2>2. QED
    BY <1>0, <1>4, <2>1 DEF Container
<1>8. \A v \in Coverage : d.lex[v] = left(v)
  BY <1>4
<1>9. /\ \A v, n : <<v, n>> \in Stored(d) <=> v \in keeps /\ n \in d.lex[v].nodes
      /\ \A v, n : <<v, n>> \in Stored(c) <=> v \in c.keys /\ n \in c.lex[v].nodes
      /\ \A s \in Stored(d) : s = <<s[1], s[2]>> /\ s[1] \in Coverage
  BY <1>0, <1>4, <1>7, StoredIs
<1>10. Stored(d) \in SUBSET Stored(c)
  <2>1. ASSUME NEW s \in Stored(d) PROVE s \in Stored(c)
    <3>1. s = <<s[1], s[2]>> /\ s[1] \in Coverage /\ s[1] \in c.keys /\ s[2] \in d.lex[s[1]].nodes
      BY <1>5, <1>9
    <3>2. s[2] \in c.lex[s[1]].nodes
      BY <1>6, <1>8, <3>1
    <3>3. QED
      BY <1>9, <3>1, <3>2
  <2>2. QED
    BY <2>1
<1>11. K \in SUBSET Stored(d)
  <2>1. ASSUME NEW s \in K PROVE s \in Stored(d)
    <3>1. s = <<s[1], s[2]>> /\ s[1] \in Coverage /\ s \in Of(K, s[1])
      BY <1>3 DEF Of
    <3>2. s[2] \in d.lex[s[1]].nodes /\ s[1] \in keeps
      BY <1>3, <1>6, <1>8, <3>1
    <3>3. QED
      BY <1>9, <3>1, <3>2
  <2>2. QED
    BY <2>1
<1>12. IsFiniteSet(Stored(d)) /\ d.total <= Cardinality(Stored(d))
  <2>1. IsFiniteSet(Stored(d))
    BY <1>0, <1>10, FS_Subset
  <2>2. Cardinality(K) <= Cardinality(Stored(d))
    BY <1>11, <2>1, FS_Subset
  <2>3. QED
    BY <1>4, <2>1, <2>2
<1>13. Counted(d)
  BY <1>4, <1>6, <1>7, <1>8, <1>12 DEF Counted
<1>14. \A v \in d.keys : c.lex[v].nodes # {} => d.lex[v].nodes # {}
  BY <1>0, <1>4, <1>5, <1>6, <1>8
<1>15. QED
  BY <1>2, <1>4, <1>5, <1>10, <1>11, <1>13, <1>14 DEF d

LEMMA PruneIsSound ==
    ASSUME NEW c, Sound(c), NEW d \in prune(c)
    PROVE  /\ Sound(d) /\ d.keys \subseteq c.keys /\ d.selected = c.selected
           /\ \A v \in d.keys : c.lex[v].nodes # {} => d.lex[v].nodes # {}
           /\ Stored(d) \subseteq Stored(c)
           /\ d.limit = c.limit \/ \E s \in Stored(d) : s[2].cost <= d.limit
           /\ \A m \in Stored(c) : LogBeamWidth < 0 /\ (\A s \in Stored(c) : m[2].cost <= s[2].cost)
                                      => \E s \in Stored(d) : s[2].cost = m[2].cost
<1>0. Counted(c) /\ c.selected \in c.keys \cup {NULL}
  BY DEF Sound
<1>1. CASE c.total <= MaxCardinalityContainerSize
  <2>1. d \in UpdateBestAndWorst(c)
    BY <1>1 DEF prune
  <2>2. QED
    BY <1>0, <2>1, UpdateIsSound
<1>2. CASE ~(c.total <= MaxCardinalityContainerSize)
  <2>1. PICK K \in Picks(c) : \E e \in UpdateBestAndWorst(Pruned(c, K)) :
                 d = [e EXCEPT !.limit = IF e.total > 0 THEN e.lex[e.worst].worst ELSE @]
    BY <1>2 DEF prune
  <2>2. PICK e \in UpdateBestAndWorst(Pruned(c, K)) :
                 d = [e EXCEPT !.limit = IF e.total > 0 THEN e.lex[e.worst].worst ELSE @]
    BY <2>1
  <2> DEFINE p == Pruned(c, K)
  <2>3. /\ Counted(p) /\ p.keys \subseteq c.keys /\ p.selected = c.selected
        /\ p.selected \in p.keys \cup {NULL} /\ p.limit = c.limit
        /\ \A v \in p.keys : c.lex[v].nodes # {} => p.lex[v].nodes # {}
        /\ K \subseteq Stored(p) /\ Stored(p) \subseteq Stored(c)
        /\ p.total = Cardinality(K) /\ IsFiniteSet(K)
    BY PrunedIsSound
  <2> HIDE DEF p
  <2>4. /\ Sound(e) /\ e.keys = p.keys /\ e.lex = p.lex /\ e.selected = p.selected
        /\ e.total = p.total /\ e.limit = p.limit /\ Stored(e) = Stored(p)
    BY <2>2, <2>3, UpdateIsSound DEF p
  <2>5. /\ e \in Container /\ e.worst \in e.keys \cup {NULL} /\ (e.worst = NULL <=> Stored(e) = {})
        /\ e.worst # NULL => e.lex[e.worst].nodes # {}
    BY <2>4 DEF Sound, Counted, Points
  <2>6. e.total > 0 => /\ e.worst \in e.keys /\ e.worst \in Coverage
                       /\ e.lex[e.worst].worst \in Int
                       /\ \E s \in Stored(e) : s[2].cost <= e.lex[e.worst].worst
    <3> SUFFICES ASSUME e.total > 0
                 PROVE  /\ e.worst \in e.keys /\ e.worst \in Coverage
                        /\ e.lex[e.worst].worst \in Int
                        /\ \E s \in Stored(e) : s[2].cost <= e.lex[e.worst].worst
      OBVIOUS
    <3>1. K # {}
      BY <2>3, <2>4, FS_EmptySet
    <3>2. e.worst # NULL
      BY <2>3, <2>4, <2>5, <3>1
    <3>3. e.worst \in e.keys /\ e.worst \in Coverage /\ e.lex[e.worst] \in Lex
      BY <2>5, <3>2 DEF Container
    <3>4. PICK n \in e.lex[e.worst].nodes : TRUE
      BY <2>5, <3>2
    <3>5. n.cost <= e.lex[e.worst].worst
      BY <2>4, <3>3, <3>4 DEF Sound, Counted, LexSound
    <3>6. <<e.worst, n>> \in Stored(e) /\ <<e.worst, n>>[2] = n
      BY <2>5, <3>3, <3>4, StoredIs
    <3>7. e.lex[e.worst].worst \in Int
      BY <3>3, CostTypes DEF Lex
    <3>8. QED
      BY <3>3, <3>5, <3>6, <3>7
  <2>7. /\ d = [e EXCEPT !.limit = d.limit]
        /\ d.keys = e.keys /\ d.lex = e.lex /\ d.selected = e.selected /\ d.total = e.total
        /\ d.best = e.best /\ d.worst = e.worst
        /\ d.limit = IF e.total > 0 THEN e.lex[e.worst].worst ELSE e.limit
    BY <2>2, <2>5 DEF Container
  <2>8. d \in Container
    <3>1. d.limit \in Int
      BY <2>5, <2>6, <2>7 DEF Container
    <3>2. QED
      BY <2>5, <2>7, <3>1 DEF Container
  <2>9. Stored(d) = Stored(e)
    BY <2>7 DEF Stored
  <2>10. Sound(d)
    BY <2>4, <2>7, <2>8, <2>9 DEF Sound, Counted, Points
  <2>11. d.limit = c.limit \/ \E s \in Stored(d) : s[2].cost <= d.limit
    BY <2>3, <2>4, <2>6, <2>7, <2>9
  <2>12. ASSUME NEW m \in Stored(c), LogBeamWidth < 0, \A s \in Stored(c) : m[2].cost <= s[2].cost
         PROVE  \E s \in Stored(d) : s[2].cost = m[2].cost
    <3>1. \E s \in K : s[2].cost = m[2].cost
      BY <2>12, PicksHaveCheapest
    <3>2. QED
      BY <2>3, <2>4, <2>9, <3>1
  <2>13. QED
    BY <2>3, <2>4, <2>7, <2>9, <2>10, <2>11, <2>12
<1>3. QED
  BY <1>1, <1>2

-----------------------------------------------------------------------------
(* The inductive invariant.                                                   *)

\* No hypothesis is stored that is cheaper than the cheapest offered; with a beam wider
\* than nothing one of that cost is, and the limit lets such a hypothesis in.
LeastStored(c, least) ==
    /\ least \in Cost \cup {Infinity}
    /\ \A s \in Stored(c) : least <= s[2].cost
    /\ LogBeamWidth < 0 => /\ least <= c.limit
                           /\ least # Infinity => \E s \in Stored(c) : s[2].cost = least

NoneEmpty(c) == \A v \in c.keys : c.lex[v].nodes # {}

IInv ==
    /\ phase \in {"idle", "inserting", "final"} /\ offers \in 0..MaxOffers
    /\ Sound(card) /\ LeastStored(card, cheapest)
    /\ NoEmptyCoverage
    /\ phase = "inserting" => card.selected # NULL

LEMMA PruneKeepsLeast ==
    ASSUME NEW c, Sound(c), NEW least, LeastStored(c, least), NEW d \in prune(c)
    PROVE  LeastStored(d, least)
<1>0. /\ Sound(d) /\ Stored(d) \subseteq Stored(c) /\ least \in Int
      /\ d \in Container /\ d.limit \in Int
      /\ \A s \in Stored(d) : s[2].cost \in Int
      /\ \A s \in Stored(c) : s[2].cost \in Int
  BY PruneIsSound, StoredIs, CostTypes DEF Sound, Counted, LeastStored, Container
<1>1. \A s \in Stored(d) : least <= s[2].cost
  BY <1>0 DEF LeastStored
<1>2. ASSUME LogBeamWidth < 0 PROVE least <= d.limit
  <2>1. CASE d.limit = c.limit
    BY <1>2, <2>1 DEF LeastStored
  <2>2. CASE \E s \in Stored(d) : s[2].cost <= d.limit
    BY <1>0, <1>1, <2>2
  <2>3. QED
    BY <2>1, <2>2, PruneIsSound
<1>3. ASSUME LogBeamWidth < 0, least # Infinity PROVE \E s \in Stored(d) : s[2].cost = least
  <2>1. PICK m \in Stored(c) : m[2].cost = least
    BY <1>3 DEF LeastStored
  <2>2. \A s \in Stored(c) : m[2].cost <= s[2].cost
    BY <2>1 DEF LeastStored
  <2>3. QED
    BY <1>3, <2>1, <2>2, PruneIsSound
<1>4. QED
  BY <1>1, <1>2, <1>3 DEF LeastStored

LEMMA InsertedKeepsLeast ==
    ASSUME NEW c, Sound(c), c.selected # NULL, NEW least, LeastStored(c, least), NEW node \in Node
    PROVE  LeastStored(Inserted(c, node), MinOf(least, node.cost))
<1> DEFINE d == Inserted(c, node)  now == MinOf(least, node.cost)
<1>0. /\ Sound(d) /\ d.limit = MinOf(c.limit, node.cost - LogBeamWidth)
      /\ Stored(d) \subseteq Stored(c) \cup {<<c.selected, node>>}
      /\ \E s \in Stored(d) : s[2].cost <= node.cost
      /\ \A t \in Stored(c) : \E s \in Stored(d) : s[2].cost <= t[2].cost
  BY InsertedIsSound
<1> HIDE DEF d
<1>1. /\ d \in Container /\ c \in Container /\ c.limit \in Int
      /\ \A s \in Stored(d) : s[2].cost \in Int
      /\ \A s \in Stored(c) : s[2].cost \in Int
  BY <1>0, StoredIs DEF Sound, Counted, Container
<1>2. /\ least \in Int /\ node.cost \in Int /\ node.cost \in Cost /\ LogBeamWidth \in Int
      /\ node.cost - LogBeamWidth \in Int
  BY CostTypes DEF LeastStored
<1>3. now \in Int /\ now \in Cost \cup {Infinity} /\ now <= least /\ now <= node.cost /\ now \in {least, node.cost}
  BY <1>2, MinMax DEF LeastStored
<1> HIDE DEF now
<1>4. ASSUME NEW s \in Stored(d) PROVE now <= s[2].cost
  <2>1. CASE s \in Stored(c)
    BY <1>1, <1>2, <1>3, <2>1 DEF LeastStored
  <2>2. CASE s = <<c.selected, node>>
    BY <1>3, <2>2
  <2>3. QED
    BY <1>0, <2>1, <2>2
<1>5. ASSUME LogBeamWidth < 0 PROVE now <= d.limit
  <2>1. now <= c.limit
    BY <1>1, <1>2, <1>3, <1>5 DEF LeastStored
  <2>2. now <= node.cost - LogBeamWidth
    BY <1>2, <1>3, <1>5
  <2>3. QED
    BY <1>0, <1>1, <1>2, <2>1, <2>2, MinMax
<1>6. ASSUME LogBeamWidth < 0 PROVE \E s \in Stored(d) : s[2].cost = now
  <2>1. CASE now = node.cost
    <3>1. PICK s \in Stored(d) : s[2].cost <= node.cost
      BY <1>0
    <3>2. s[2].cost = now
      BY <1>1, <1>2, <1>4, <2>1, <3>1
    <3>3. QED
      BY <3>2
  <2>2. CASE now = least /\ now # node.cost
    <3>1. least # Infinity
      BY <1>2, <1>3, <2>2, CostTypes
    <3>2. PICK t \in Stored(c) : t[2].cost = least
      BY <1>6, <3>1 DEF LeastStored
    <3>3. PICK s \in Stored(d) : s[2].cost <= t[2].cost
      BY <1>0
    <3>4. s[2].cost = now
      BY <1>1, <1>2, <1>4, <2>2, <3>2, <3>3
    <3>5. QED
      BY <3>4
  <2>3. QED
    BY <1>3, <2>1, <2>2
<1>7. LeastStored(d, now)
  BY <1>3, <1>4, <1>5, <1>6 DEF LeastStored
<1>8. QED
  BY <1>7 DEF d, now

-----------------------------------------------------------------------------
(* The steps.                                                                 *)

LEMMA InitIInv == Init => IInv
<1> SUFFICES ASSUME Init PROVE IInv
  OBVIOUS
<1> DEFINE c == EmptyContainer
<1>1. EmptyLex \in Lex /\ LexSound(EmptyLex) /\ EmptyLex.nodes = {}
  BY DEF EmptyLex, Lex, LexSound
<1>2. /\ c.keys = {} /\ c.lex = [v \in Coverage |-> EmptyLex] /\ c.selected = NULL /\ c.best = NULL
      /\ c.worst = NULL /\ c.total = 0 /\ c.limit = Infinity
  BY DEF EmptyContainer
<1>3. c \in Container
  BY <1>1, CostAssumption DEF EmptyContainer, Container
<1>4. Stored(c) = {}
  BY <1>2 DEF Stored
<1>5. Counted(c)
  BY <1>1, <1>2, <1>3, <1>4, FS_EmptySet DEF Counted
<1>6. Sound(c)
  BY <1>2, <1>4, <1>5 DEF Sound, Points
<1>7. LeastStored(c, Infinity)
  BY <1>2, <1>4, CostTypes DEF LeastStored
<1> HIDE DEF c
<1>8. QED
  BY <1>2, <1>6, <1>7, CardinalityAssumption DEF Init, IInv, NoEmptyCoverage, c

LEMMA SelectStep ==
    ASSUME IInv, NEW v \in Coverage, setLexicalHypothesis(v)
    PROVE  IInv'
<1> DEFINE d == Select(card, v)
<1>0. /\ card \in Container /\ Sound(card) /\ Counted(card) /\ card' = d /\ phase = "idle"
      /\ phase' = "inserting" /\ UNCHANGED <<offers, cheapest>>
  BY DEF IInv, Sound, Counted, setLexicalHypothesis
<1>1. /\ d = [card EXCEPT !.selected = v, !.keys = d.keys] /\ d.keys = card.keys \cup {v}
      /\ d.selected = v /\ d.lex = card.lex /\ d.best = card.best /\ d.worst = card.worst
      /\ d.total = card.total /\ d.limit = card.limit
  BY <1>0 DEF Select, Container
<1>2. d \in Container
  BY <1>0 DEF Select, Container
<1> HIDE DEF d
<1>3. Stored(d) = Stored(card)
  <2>1. v \in card.keys \/ card.lex[v].nodes = {}
    BY <1>0 DEF Counted
  <2>2. /\ \A u, n : <<u, n>> \in Stored(d) <=> <<u, n>> \in Stored(card)
        /\ \A s \in Stored(d) : s = <<s[1], s[2]>>
        /\ \A s \in Stored(card) : s = <<s[1], s[2]>>
    BY <1>0, <1>1, <1>2, <2>1, StoredIs
  <2>3. QED
    BY <2>2
<1>4. Sound(d)
  BY <1>0, <1>1, <1>2, <1>3 DEF Sound, Counted, Points
<1>5. LeastStored(d, cheapest)
  BY <1>1, <1>3 DEF IInv, LeastStored
<1>6. \A u \in d.keys : d.lex[u].nodes = {} => u = d.selected
  BY <1>0, <1>1 DEF IInv, NoEmptyCoverage
<1>7. v # NULL
  BY NullAssumption
<1>8. NoEmptyCoverage'
  BY <1>0, <1>6 DEF NoEmptyCoverage
<1>9. QED
  BY <1>0, <1>1, <1>4, <1>5, <1>7, <1>8 DEF IInv

LEMMA OfferStep ==
    ASSUME IInv, NEW node \in Node, offer(node)
    PROVE  IInv'
<1> DEFINE now == MinOf(cheapest, node.cost)  d == Inserted(card, node)
<1>0. /\ Sound(card) /\ LeastStored(card, cheapest) /\ NoEmptyCoverage /\ card.selected # NULL
      /\ card \in Container /\ card.limit \in Int
      /\ phase = "inserting" /\ phase' = phase /\ cheapest' = now /\ offers' \in 0..MaxOffers
  BY CardinalityAssumption DEF IInv, offer, Sound, Counted, Container
<1>1. /\ cheapest \in Int /\ node.cost \in Int /\ node.cost \in Cost
      /\ now \in Int /\ now \in Cost \cup {Infinity} /\ now \in {cheapest, node.cost} /\ now <= cheapest
      /\ cheapest <= Infinity /\ node.cost < Infinity
  BY <1>0, CostTypes, MinMax DEF LeastStored
<1> HIDE DEF now
<1>2. CASE DoPrunePreInsertion /\ mustBePruned(card, node.cost)
  <2>1. card' = card /\ node.cost > card.limit
    BY <1>2 DEF offer, mustBePruned
  <2>2. LogBeamWidth < 0 => now = cheapest
    BY <1>0, <1>1, <2>1 DEF LeastStored, now, MinOf
  <2>3. \A s \in Stored(card) : now <= s[2].cost
    BY <1>0, <1>1, StoredIs DEF LeastStored
  <2>4. LeastStored(card, now)
    BY <1>0, <1>1, <2>2, <2>3 DEF LeastStored
  <2>5. NoEmptyCoverage'
    BY <1>0, <2>1 DEF NoEmptyCoverage
  <2>6. QED
    BY <1>0, <2>1, <2>4, <2>5 DEF IInv
<1>3. CASE ~(DoPrunePreInsertion /\ mustBePruned(card, node.cost))
  <2>1. card' = d \/ card' \in prune(d)
    BY <1>3 DEF offer, insertNewHypothesis
  <2>2. /\ Sound(d) /\ d.keys = card.keys /\ d.selected = card.selected
        /\ d.lex[d.selected].nodes # {}
        /\ \A u \in Coverage : card.lex[u].nodes # {} => d.lex[u].nodes # {}
    BY <1>0, InsertedIsSound
  <2>3. LeastStored(d, now)
    BY <1>0, InsertedKeepsLeast DEF now
  <2> HIDE DEF d
  <2>4. NoneEmpty(d)
    BY <1>0, <2>2 DEF NoneEmpty, NoEmptyCoverage, Container
  <2>5. Sound(card') /\ LeastStored(card', now) /\ NoneEmpty(card') /\ card'.selected = card.selected
    <3>1. CASE card' = d
      BY <2>2, <2>3, <2>4, <3>1
    <3>2. CASE card' \in prune(d)
      <4>1. LeastStored(card', now)
        BY <2>2, <2>3, <3>2, PruneKeepsLeast
      <4>2. /\ Sound(card') /\ card'.keys \subseteq d.keys /\ card'.selected = d.selected
            /\ \A v \in card'.keys : d.lex[v].nodes # {} => card'.lex[v].nodes # {}
        BY <2>2, <3>2, PruneIsSound
      <4>3. QED
        BY <2>2, <2>4, <4>1, <4>2 DEF NoneEmpty
    <3>3. QED
      BY <2>1, <3>1, <3>2
  <2>6. NoEmptyCoverage'
    BY <2>5 DEF NoEmptyCoverage, NoneEmpty
  <2>7. QED
    BY <1>0, <2>5, <2>6 DEF IInv
<1>4. QED
  BY <1>2, <1>3

LEMMA DeselectStep ==
    ASSUME IInv, removeSelectedLexicalHypothesisIfEmpty
    PROVE  IInv'
<1> DEFINE v == card.selected  d == Deselect(card)
<1>0. /\ Sound(card) /\ Counted(card) /\ LeastStored(card, cheapest) /\ NoEmptyCoverage
      /\ v \in card.keys /\ v # NULL /\ card \in Container /\ card' = d
      /\ phase' = "idle" /\ UNCHANGED <<offers, cheapest>>
      /\ Points(card, card.best) /\ Points(card, card.worst)
  BY DEF IInv, removeSelectedLexicalHypothesisIfEmpty, Sound, Counted
<1>1. CASE card.lex[v].nodes # {}
  <2>1. card' = card
    BY <1>0, <1>1 DEF Deselect
  <2>2. NoEmptyCoverage'
    BY <1>0, <1>1, <2>1 DEF NoEmptyCoverage
  <2>3. QED
    BY <1>0, <2>1, <2>2 DEF IInv
<1>2. CASE card.lex[v].nodes = {}
  <2>1. /\ d = [card EXCEPT !.keys = d.keys, !.selected = NULL] /\ d.keys = card.keys \ {v}
        /\ d.selected = NULL /\ d.lex = card.lex /\ d.best = card.best /\ d.worst = card.worst
        /\ d.total = card.total /\ d.limit = card.limit
    BY <1>0, <1>2 DEF Deselect, Container
  <2>2. d \in Container
    BY <1>0, <1>2 DEF Deselect, Container
  <2> HIDE DEF d
  <2>3. Stored(d) = Stored(card)
    <3>1. /\ \A u, n : <<u, n>> \in Stored(d) <=> <<u, n>> \in Stored(card)
          /\ \A s \in Stored(d) : s = <<s[1], s[2]>>
          /\ \A s \in Stored(card) : s = <<s[1], s[2]>>
      BY <1>0, <1>2, <2>1, <2>2, StoredIs
    <3>2. QED
      BY <3>1
  <2>4. Counted(d)
    BY <1>0, <1>2, <2>1, <2>2, <2>3 DEF Counted
  <2>5. Points(d, d.best) /\ Points(d, d.worst)
    BY <1>0, <1>2, <2>1, <2>3 DEF Points
  <2>6. LeastStored(d, cheapest)
    BY <1>0, <2>1, <2>3 DEF LeastStored
  <2>7. NoEmptyCoverage'
    BY <1>0, <2>1 DEF NoEmptyCoverage
  <2>8. QED
    BY <1>0, <2>1, <2>4, <2>5, <2>6, <2>7 DEF IInv, Sound
<1>3. QED
  BY <1>1, <1>2

LEMMA FinalPruneStep ==
    ASSUME IInv, finlizePruningAndcleanUp
    PROVE  IInv'
<1>0. /\ Sound(card) /\ LeastStored(card, cheapest) /\ NoEmptyCoverage /\ phase = "idle"
      /\ card' \in prune(card) /\ phase' = "final" /\ UNCHANGED <<offers, cheapest>>
  BY DEF IInv, finlizePruningAndcleanUp
<1>1. LeastStored(card', cheapest)
  BY <1>0, PruneKeepsLeast
<1>2. /\ Sound(card') /\ card'.keys \subseteq card.keys
      /\ \A v \in card'.keys : card.lex[v].nodes # {} => card'.lex[v].nodes # {}
  BY <1>0, PruneIsSound
<1>3. NoEmptyCoverage'
  BY <1>0, <1>2 DEF NoEmptyCoverage
<1>4. QED
  BY <1>0, <1>1, <1>2, <1>3 DEF IInv

LEMMA NextIInv == IInv /\ [Next]_vars => IInv'
<1> SUFFICES ASSUME IInv, [Next]_vars PROVE IInv'
  OBVIOUS
<1>1. CASE UNCHANGED vars
  BY <1>1 DEF IInv, NoEmptyCoverage, vars
<1>2. QED
  BY <1>1, SelectStep, OfferStep, DeselectStep, FinalPruneStep DEF Next

LEMMA Invariance == Spec => []IInv
<1>1. QED
  BY InitIInv, NextIInv, PTL DEF Spec

-----------------------------------------------------------------------------
(* Theorems.                                                                  *)

\* The container and what it counts keep their types.
THEOREM ContainerTypes == Spec => []TypeOK
<1>1. IInv => TypeOK
  BY DEF IInv, TypeOK, LeastStored, Sound, Counted, Container
<1>2. QED
  BY <1>1, Invariance, PTL

\* The raw pointers of clsCardinalityHypothesisContainer point to entries of its map,
\* the best and the worst one to coverages with hypotheses, whatever is pruned when.
THEOREM PointersAreValid == Spec => []NoDanglingPointer
<1>1. IInv => NoDanglingPointer
  <2> SUFFICES ASSUME IInv PROVE NoDanglingPointer
    OBVIOUS
  <2>1. Points(card, card.best) /\ Points(card, card.worst) /\ card.selected \in card.keys \cup {NULL}
    BY DEF IInv, Sound
  <2>2. phase = "inserting" => card.selected # NULL
    BY DEF IInv
  <2>3. QED
    BY <2>1, <2>2 DEF NoDanglingPointer, Points
<1>2. QED
  BY <1>1, Invariance, PTL

\* The cached cost of BestNode is that of the cheapest node of its coverage, through any
\* sequence of recombinations and prunings.  That of WorstNode is only a bound, which no
\* node exceeds: it is left as it is when the dearest node is erased.  No two nodes of a
\* coverage have the same future.
THEOREM BestIsCheapestWorstIsBound == Spec => []CachedCosts
<1>1. IInv => CachedCosts
  <2> SUFFICES ASSUME IInv, NEW v \in card.keys PROVE LexSound(card.lex[v])
    BY DEF CachedCosts, LexSound
  <2>1. v \in Coverage /\ Counted(card)
    BY DEF IInv, Sound, Counted, Container
  <2>2. QED
    BY <2>1 DEF Counted
<1>2. QED
  BY <1>1, Invariance, PTL

\* For every beam wider than nothing the cheapest hypothesis offered is stored.
THEOREM CheapestSurvives == Spec => []BestSurvives
<1>1. IInv => BestSurvives
  BY DEF IInv, LeastStored, BestSurvives
<1>2. QED
  BY <1>1, Invariance, PTL

\* Outside of an insertion no coverage is empty, as decode asserts.
THEOREM CoveragesAreFull == Spec => []NoEmptyCoverage
<1>1. IInv => NoEmptyCoverage
  BY DEF IInv
<1>2. QED
  BY <1>1, Invariance, PTL

\* TotalSearchGraphNodeCount is never more than what is stored.  It may be less: prune
\* leaves the nodes of the selected coverage uncounted.
THEOREM CountIsNeverTooHigh == Spec => []CountedIsStored
<1>1. IInv => CountedIsStored
  BY DEF IInv, Sound, Counted, CountedIsStored
<1>2. QED
  BY <1>1, Invariance, PTL

=============================================================================
