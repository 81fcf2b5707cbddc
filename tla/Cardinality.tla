---------------------------- MODULE Cardinality ----------------------------
(***************************************************************************)
(* The life of one clsCardinalityHypothesisContainer under the calls of    *)
(* clsSearchGraph::decode, for every sequence of coverages and hypotheses: *)
(* select a coverage, offer hypotheses to it, drop it when it stayed empty,*)
(* and at the end of the cardinality prune to the maximum.  SearchGraph    *)
(* makes the same calls with the hypotheses of a sentence.                 *)
(***************************************************************************)
EXTENDS HypothesisContainer

CONSTANTS
    State,                \* future states of hypotheses
    Cost,                 \* their total costs
    DoPrunePreInsertion,
    MaxOffers             \* bound: hypotheses offered to the container

ASSUME CardinalityAssumption ==
    /\ Cost \subseteq Int
    /\ \A c \in Cost : c < Infinity /\ c - LogBeamWidth < Infinity
    /\ DoPrunePreInsertion \in BOOLEAN
    /\ MaxOffers \in Nat

Node == [state : State, cost : Cost]

VARIABLES
    card,       \* the container
    phase,      \* "idle", "inserting" into the selected coverage, "final"
    offers,     \* number of hypotheses offered so far
    cheapest    \* history: least total cost of a hypothesis offered so far

vars == <<card, phase, offers, cheapest>>

Init ==
    /\ card = EmptyContainer
    /\ phase = "idle"
    /\ offers = 0
    /\ cheapest = Infinity

setLexicalHypothesis(v) ==
    /\ phase = "idle" /\ offers < MaxOffers
    /\ card' = Select(card, v)
    /\ phase' = "inserting"
    /\ UNCHANGED <<offers, cheapest>>

\* A new node is ignored by the pre-insertion test or inserted.
offer(node) ==
    /\ phase = "inserting" /\ offers < MaxOffers
    /\ IF DoPrunePreInsertion /\ mustBePruned(card, node.cost) THEN UNCHANGED card
       ELSE card' \in insertNewHypothesis(card, node)
    /\ offers' = offers + 1
    /\ cheapest' = MinOf(cheapest, node.cost)
    /\ UNCHANGED phase

removeSelectedLexicalHypothesisIfEmpty ==
    /\ phase = "inserting"
    /\ card' = Deselect(card)
    /\ phase' = "idle"
    /\ UNCHANGED <<offers, cheapest>>

finlizePruningAndcleanUp ==
    /\ phase = "idle"
    /\ card' \in prune(card)
    /\ phase' = "final"
    /\ UNCHANGED <<offers, cheapest>>

Next ==
    \/ \E v \in Coverage : setLexicalHypothesis(v)
    \/ \E node \in Node : offer(node)
    \/ removeSelectedLexicalHypothesisIfEmpty
    \/ finlizePruningAndcleanUp
    \/ phase = "final" /\ UNCHANGED vars

Spec == Init /\ [][Next]_vars

-----------------------------------------------------------------------------
Lex == [nodes : SUBSET Node, best : Cost \cup {Infinity}, worst : Cost \cup {Infinity}]

\* The container, with what it stores, and the ghost of the cheapest offer.
TypeOK ==
    /\ card \in [keys : SUBSET Coverage, lex : [Coverage -> Lex],
                 selected : Coverage \cup {NULL}, best : Coverage \cup {NULL},
                 worst : Coverage \cup {NULL}, total : Nat, limit : Int]
    /\ phase \in {"idle", "inserting", "final"}
    /\ offers \in 0..MaxOffers
    /\ cheapest \in Cost \cup {Infinity}

\* The three raw pointers into the QMap never outlive the entry they point to,
\* across prune and removeSelectedLexicalHypothesisIfEmpty; and the best and
\* worst ones are set exactly while something is stored, so that prune and
\* localUpdateBestAndWorstNodes may dereference them.
NoDanglingPointer ==
    /\ {card.selected, card.best, card.worst} \subseteq card.keys \cup {NULL}
    /\ phase = "inserting" => card.selected # NULL
    /\ card.best = NULL <=> Stored(card) = {}
    /\ card.worst = NULL <=> Stored(card) = {}
    /\ card.best # NULL => card.lex[card.best].nodes # {} /\ card.lex[card.worst].nodes # {}

\* The caches of a coverage: BestNode is its cheapest node whatever was
\* recombined or erased; WorstNode may be stale, but only upwards.  No two
\* nodes have the same future.
CachedCosts ==
    \A v \in card.keys : LET l == card.lex[v] IN l.nodes # {} =>
        /\ \A m \in l.nodes : l.best <= m.cost /\ m.cost <= l.worst
        /\ \E m \in l.nodes : m.cost = l.best
        /\ \A m, n \in l.nodes : m.state = n.state => m = n

\* With a beam wider than nothing (SearchBeamWidth below 1) the cheapest
\* hypothesis ever offered is still stored: neither the pre-insertion test nor
\* recombination nor any of the prunings loses it.
BestSurvives ==
    LogBeamWidth < 0 /\ cheapest # Infinity => \E s \in Stored(card) : s[2].cost = cheapest

\* The assertions of updateBestAndWorstNodes and decode: outside of an
\* insertion no coverage is left without nodes.
NoEmptyCoverage ==
    \A v \in card.keys : card.lex[v].nodes = {} => phase = "inserting" /\ v = card.selected

\* The counter never claims more than is stored: what it misses are the nodes
\* of a selected coverage prune left alone.
CountedIsStored == card.total <= Cardinality(Stored(card))

=============================================================================
