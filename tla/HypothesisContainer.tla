------------------------ MODULE HypothesisContainer ------------------------
(***************************************************************************)
(* The operations of clsCardinalityHypothesisContainer: the hypotheses of  *)
(* the decoder that translate the same number of source words, grouped by  *)
(* coverage in clsLexicalHypothesisContainers, recombined by future state, *)
(* and pruned lazily to the beam.                                          *)
(*                                                                         *)
(* A hypothesis is a record with its future state (what operator< of       *)
(* clsSearchGraphNode compares: the end of its source range and the states *)
(* of the feature functions) and its total cost.  Where the code takes the *)
(* first of several equal costs in the order of its containers, any of     *)
(* them may be taken.  CombinedNodes, the hypotheses recombined into a     *)
(* better one, are not represented: they take no part in the search.       *)
(***************************************************************************)
EXTENDS Integers, FiniteSets

CONSTANTS
    Coverage,                     \* the sets of translated positions
    Infinity,                     \* INFINITY, the initial CostLimit
    NULL,
    MaxCardinalityContainerSize,
    PrimaryCoverageShare,
    LogBeamWidth                  \* log(SearchBeamWidth), rounded: negative for widths below 1

ASSUME SizeAssumption ==
    MaxCardinalityContainerSize \in Nat \ {0} /\ PrimaryCoverageShare \in Nat
ASSUME CostAssumption == Infinity \in Int /\ LogBeamWidth \in Int
ASSUME NullAssumption == NULL \notin Coverage

MinOf(a, b) == IF a <= b THEN a ELSE b
MaxOf(a, b) == IF a >= b THEN a ELSE b

\* setHardReorderingJumpLimit: the size at which pruning is worth its time.  The
\* cross-validator that calls it passes _item.toVariant().Int, which is not the
\* value of HardReorderingJumpLimit but the enumerator QVariant::Int, 2.
MaxCardinalitySizeLazyPruning == 2 * MaxCardinalityContainerSize - 1 + PrimaryCoverageShare * 2^2

-----------------------------------------------------------------------------
(* clsLexicalHypothesisContainer and its clsLexicalHypoNodeSet: SortedByState
   and the costs of the cached BestNode and WorstNode.                        *)

EmptyLex == [nodes |-> {}, best |-> Infinity, worst |-> Infinity]

\* Mutant: recombination does not update BestNode.
insertHypothesis_StaleBest(l, node) ==
    LET same == {m \in l.nodes : m.state = node.state}
        kept == IF \E m \in same : m.cost <= node.cost THEN CHOOSE m \in same : TRUE ELSE node
    IN  [nodes |-> (l.nodes \ same) \cup {kept},
         best  |-> IF l.nodes = {} THEN node.cost ELSE IF same = {} THEN MinOf(l.best, kept.cost) ELSE l.best,
         worst |-> IF l.nodes = {} THEN node.cost ELSE MaxOf(l.worst, kept.cost)]

\* insert: a node whose state is new is added; otherwise the cheaper of the
\* two takes the place.  BestNode and WorstNode are updated, never recomputed.
insertHypothesis(l, node) ==
    LET same == {m \in l.nodes : m.state = node.state}
        kept == IF \E m \in same : m.cost <= node.cost THEN CHOOSE m \in same : TRUE ELSE node
    IN  [nodes |-> (l.nodes \ same) \cup {kept},
         best  |-> IF l.nodes = {} THEN node.cost ELSE MinOf(l.best, kept.cost),
         worst |-> IF l.nodes = {} THEN node.cost ELSE MaxOf(l.worst, kept.cost)]

-----------------------------------------------------------------------------
(* The container, as a record: lex has a value for every coverage, keys are
   the coverages that are in the QMap; best and worst are the coverages that
   BestLexicalHypothesis and WorstLexicalHypothesis point to.                 *)

EmptyContainer ==
    [keys |-> {}, lex |-> [v \in Coverage |-> EmptyLex], selected |-> NULL,
     best |-> NULL, worst |-> NULL, total |-> 0, limit |-> Infinity]

Stored(c) == UNION {{v} \X c.lex[v].nodes : v \in c.keys}

\* updateBestAndWorstNodes, by the cached costs of the containers.
UpdateBestAndWorst(c) ==
    LET full == {v \in c.keys : c.lex[v].nodes # {}}
        Bests == {v \in full : \A u \in full : c.lex[v].best  <= c.lex[u].best}
        Worsts == {v \in full : \A u \in full : c.lex[v].worst >= c.lex[u].worst}
    IN  IF full = {} THEN {[c EXCEPT !.best = NULL, !.worst = NULL]}
        ELSE {[c EXCEPT !.best = p[1], !.worst = p[2]] : p \in Bests \X Worsts}

\* P, part of the pool, are its n cheapest members.
Cheapest(P, pool, n) ==
    /\ Cardinality(P) = MinOf(n, Cardinality(pool))
    /\ \A p \in P, q \in pool \ P : p[2].cost <= q[2].cost

Of(S, v) == {s \in S : s[1] = v}

\* Mutant: the sign of the logarithm.
Beam_WrongSign(c) == c.lex[c.best].best + LogBeamWidth

\* The cost a node must stay below to be picked for its cost.
Beam(c) == c.lex[c.best].best - LogBeamWidth

\* prune's choice: first the primary share of every coverage, then the
\* cheapest of the rest that are inside the beam, up to the maximum.
Picks(c) ==
    LET Primary == {P \in SUBSET Stored(c) : \A v \in c.keys :
                       Cheapest(Of(P, v), Of(Stored(c), v), PrimaryCoverageShare)}
        Filled(P) == LET pool == {s \in Stored(c) \ P : s[2].cost < Beam(c)}
                         room == MaxOf(MaxCardinalityContainerSize - Cardinality(P), 0)
                     IN  {P \cup F : F \in {E \in SUBSET pool : Cheapest(E, pool, room)}}
    IN  UNION {Filled(P) : P \in Primary}

\* Mutant: the selected coverage is removed like the others.
Keeps_NotSelected(c, K) == {v \in c.keys : Of(K, v) # {}}

\* The coverages that survive the picks K: those with a pick and the selected one.
Keeps(c, K) == {v \in c.keys : Of(K, v) # {} \/ v = c.selected}

\* A coverage keeps its picked nodes; the selected one keeps all of its nodes,
\* uncounted, when none was picked.  The cached WorstNode is not recomputed.
Pruned(c, K) ==
    LET left(v) == IF Of(K, v) # {} THEN [c.lex[v] EXCEPT !.nodes = {s[2] : s \in Of(K, v)}]
                   ELSE IF v \in Keeps(c, K) THEN c.lex[v] ELSE EmptyLex
    IN  [c EXCEPT !.lex = [v \in Coverage |-> left(v)], !.keys = Keeps(c, K), !.total = Cardinality(K)]

prune(c) ==
    IF c.total <= MaxCardinalityContainerSize THEN UpdateBestAndWorst(c)
    ELSE {[d EXCEPT !.limit = IF d.total > 0 THEN d.lex[d.worst].worst ELSE @] :
             d \in UNION {UpdateBestAndWorst(Pruned(c, K)) : K \in Picks(c)}}

\* setLexicalHypothesis
Select(c, v) == [c EXCEPT !.selected = v, !.keys = @ \cup {v}]

\* Mutant: the empty coverage is not removed.
Deselect_KeepsKey(c) ==
    IF c.lex[c.selected].nodes = {} THEN [c EXCEPT !.selected = NULL] ELSE c

\* removeSelectedLexicalHypothesisIfEmpty
Deselect(c) ==
    IF c.lex[c.selected].nodes = {} THEN [c EXCEPT !.keys = @ \ {c.selected}, !.selected = NULL]
    ELSE c

mustBePruned(c, cost) == cost > c.limit

\* Mutant: the sizes are swapped.
Growth_Swapped(old, new) == Cardinality(old.nodes) - Cardinality(new.nodes)

\* Mutant: a recombined node is counted like a new one.
Growth_CountsRecombined(old, new) == 1

\* What an insertion adds to TotalSearchGraphNodeCount.
Growth(old, new) == Cardinality(new.nodes) - Cardinality(old.nodes)

\* insertNewHypothesis up to its call of prune: the best and worst coverages
\* are looked at only when the node took a place of its own.
Inserted(c, node) ==
    LET v    == c.selected
        old  == c.lex[v]
        new  == insertHypothesis(old, node)
        lex  == [c.lex EXCEPT ![v] = new]
        done == \A m \in old.nodes : m.state # node.state
    IN  [c EXCEPT !.lex = lex,
                  !.limit = MinOf(@, node.cost - LogBeamWidth),
                  !.total = @ + Growth(old, new),
                  !.best  = IF done /\ (@ = NULL \/ node.cost < lex[@].best)  THEN v ELSE @,
                  !.worst = IF done /\ (@ = NULL \/ node.cost > lex[@].worst) THEN v ELSE @]

insertNewHypothesis(c, node) ==
    LET d == Inserted(c, node)
    IN  IF d.total > MaxCardinalitySizeLazyPruning THEN prune(d) ELSE {d}
=============================================================================
