---------------------------- MODULE SearchGraph ----------------------------
(***************************************************************************)
(* clsSearchGraph::decode: the stack decoder.  For every cardinality, in   *)
(* ascending order, each hypothesis of a smaller cardinality is extended   *)
(* by every phrase that fits its coverage, and the new hypotheses go to    *)
(* the container of the cardinality, with the operations of module         *)
(* HypothesisContainer.                                                    *)
(*                                                                         *)
(* The rule table and most feature functions are data: candidates gives the*)
(* usable target rules of each phrase, a rule has an approximate cost and  *)
(* leaves the feature functions in a state.  The approximation scores the  *)
(* rule alone, getLanguageModelCost with no history; the search scores it  *)
(* after the words before it, and ContextCost is the difference: positive, *)
(* or negative where the history makes a rule cheaper than alone.  The     *)
(* reordering jump, the one feature that has a rest cost for a position,   *)
(* is computed.                                                            *)
(***************************************************************************)
EXTENDS Integers, Sequences, FiniteSets, FiniteSetsExt

CONSTANTS
    N,                            \* Sentence.size()
    CandidateTables,              \* the collections collectPhraseCandidates may find
    RuleState, RootState,         \* states of the feature functions
    ContextCost,                  \* what a state costs more after another, or less
    HardReorderingJumpLimit,
    MaximumJumpWidth, DoComputePositionSpecificRestCosts,
    PositionBits,                 \* width of a position in a node: 8
    DoPrunePreInsertion,
    Infinity, NULL, MaxCardinalityContainerSize, PrimaryCoverageShare, LogBeamWidth

ASSUME SentenceAssumption ==
    /\ N \in Nat \ {0}
    /\ HardReorderingJumpLimit \in 1..64 /\ MaximumJumpWidth \in 1..100
    /\ DoComputePositionSpecificRestCosts \in BOOLEAN
    /\ PositionBits \in Nat /\ 2^PositionBits \in Nat \ {0}

Position == 0..N-1

ASSUME ContainerAssumption ==
    /\ MaxCardinalityContainerSize \in Nat \ {0} /\ PrimaryCoverageShare \in Nat
    /\ Infinity \in Nat /\ LogBeamWidth \in Int
    /\ \A coverage \in SUBSET Position : coverage # NULL

H == INSTANCE HypothesisContainer WITH Coverage <- SUBSET Position

VARIABLES
    candidates,       \* PhraseCandidateCollections: [begin, length] -> rules
    holder,           \* HypothesisHolder: a container for each cardinality
    NewCardinality, PrevCardinality,
    todo,             \* coverages of PrevCardinality still to be extended
    PrevCoverage,
    NewPhraseBeginPos,
    nodes,            \* nodes of PrevCoverage still to be extended by the phrase
    pc, GoalNode

vars == <<candidates, holder, NewCardinality, PrevCardinality, todo, PrevCoverage,
          NewPhraseBeginPos, nodes, pc, GoalNode>>

-----------------------------------------------------------------------------
(* Rest costs.                                                                *)

Phrase == {p \in Position \X (1..N) : p[1] + p[2] <= N}

ASSUME TableAssumption ==
    CandidateTables \subseteq [Phrase -> Seq([cost : Nat, state : RuleState])]

Span(b, l) == b .. b+l-1
Least(S) == IF S = {} THEN Infinity ELSE Min(S)

bestApproximateCost(p) == Least({candidates[p][i].cost : i \in DOMAIN candidates[p]})

\* Mutant: the length of a phrase is taken to be the distance of its ends.
MaxMatchingSourcePhraseCardinality_Distance ==
    Max({0} \cup {p[2] - 1 : p \in {q \in Phrase : candidates[q] # <<>>}})

\* The length of the longest phrase that has a rule, at least 1.
MaxMatchingSourcePhraseCardinality ==
    Max({1} \cup {p[2] : p \in {q \in Phrase : candidates[q] # <<>>}})

\* Mutant: the last split point is forgotten.
RestCostMatrix_OffByOne ==
    LET cost[p \in Phrase] == Least({bestApproximateCost(p)}
            \cup {cost[<<p[1], k>>] + cost[<<p[1] + k, p[2] - k>>] : k \in 1..p[2]-2})
    IN  cost

\* initializeRestCostsMatrix: the phrase as a whole, or split in two.
RestCostMatrix ==
    LET cost[p \in Phrase] == Least({bestApproximateCost(p)}
            \cup {cost[<<p[1], k>>] + cost[<<p[1] + k, p[2] - k>>] : k \in 1..p[2]-1})
    IN  cost

\* The maximal runs of untranslated words.
Gaps(coverage) ==
    {p \in Phrase : /\ Span(p[1], p[2]) \cap coverage = {}
                    /\ p[1] = 0 \/ p[1] - 1 \in coverage
                    /\ p[1] + p[2] = N \/ p[1] + p[2] \in coverage}

Abs(i) == IF i < 0 THEN -i ELSE i
getJumpCost(width) == IF width > MaximumJumpWidth THEN width + width * width ELSE width

\* A jump to each gap from the end of the one before.  The first starts at the
\* last translated word and not behind it; a gap of nothing but the first word of
\* the sentence is not jumped from.
getRestCostForPosition(coverage, endPos) ==
    LET before(p) == {q[1] + q[2] : q \in {g \in Gaps(coverage) : g[1] < p[1] /\ g # <<0, 1>>}}
        LastPos(p) == IF before(p) = {} THEN endPos - 1 ELSE Max(before(p))
    IN  MapThenSumSet(LAMBDA p : getJumpCost(Abs(LastPos(p) - p[1])), Gaps(coverage))

\* The part of the rest cost that does not depend on the end of the phrase.
PhrasesRestCost(coverage) == MapThenSumSet(LAMBDA p : RestCostMatrix[p], Gaps(coverage))

calculateRestCost(coverage, endPos) ==
    PhrasesRestCost(coverage)
        + IF DoComputePositionSpecificRestCosts THEN getRestCostForPosition(coverage, endPos) ELSE 0

-----------------------------------------------------------------------------
(* Nodes.  A node keeps the node it extends.  Positions are truncated to the
   quint8 parameters of clsSearchGraphNodeData.                               *)

RootNode == [state |-> <<0, RootState>>, features |-> RootState, cost |-> 0, own |-> 0, begin |-> 0, end |-> 0,
             coverage |-> {}]

\* Mutant: operator< does not compare the states of the feature functions.
FutureState_NoFeatures(end, ruleState) == <<end, RootState>>

\* What operator< compares: nodes equal in it are recombined.
FutureState(end, ruleState) == <<end, ruleState>>

NewNode(prev, b, l, rule) ==
    LET coverage == prev.coverage \cup Span(b, l)
        begin == b % 2^PositionBits
        end == (b + l) % 2^PositionBits
        own == prev.own + rule.cost + ContextCost[prev.features, rule.state]
                   + getJumpCost(Abs(begin - prev.end))
    IN  [state |-> FutureState(end, rule.state), features |-> rule.state, own |-> own,
         cost |-> own + calculateRestCost(coverage, b + l),
         begin |-> begin, end |-> end, coverage |-> coverage, prev |-> prev]

FirstEmptyPosition(coverage) == Min((0..N) \ coverage)

\* Mutant: the first untranslated word is not looked at.
conformsHardReorderingJumpLimit_NoGap(coverage, prevStart, prevEnd, start, end) ==
    IF prevStart = prevEnd THEN end <= HardReorderingJumpLimit
    ELSE Abs(prevEnd - start) <= HardReorderingJumpLimit

conformsHardReorderingJumpLimit(coverage, prevStart, prevEnd, start, end) ==
    IF prevStart = prevEnd THEN end <= HardReorderingJumpLimit
    ELSE /\ Abs(prevEnd - start) <= HardReorderingJumpLimit
         /\ Abs(end - FirstEmptyPosition(coverage)) <= HardReorderingJumpLimit

Conforms(node, b, l) ==
    conformsHardReorderingJumpLimit(node.coverage, node.begin, node.end, b, b + l)

RootContainer ==
    [H!EmptyContainer EXCEPT !.keys = {{}},
        !.lex = [@ EXCEPT ![{}] = [nodes |-> {RootNode}, best |-> 0, worst |-> 0]]]

-----------------------------------------------------------------------------
Init ==
    /\ candidates \in CandidateTables
    /\ holder = [k \in 0..N |-> IF k = 0 THEN RootContainer ELSE H!EmptyContainer]
    /\ NewCardinality = 1
    /\ PrevCardinality = 0
    /\ todo = {{}}
    /\ PrevCoverage = {}
    /\ NewPhraseBeginPos = 0
    /\ nodes = {}
    /\ pc = "coverages"
    /\ GoalNode = NULL

curr == holder[NewCardinality]
NewPhraseCardinality == NewCardinality - PrevCardinality
phrase == <<NewPhraseBeginPos, NewPhraseCardinality>>
phraseSpan == Span(NewPhraseBeginPos, NewPhraseCardinality)

\* Mutant: only the first word of the phrase is looked up in the coverage.
Fits_FirstWord == NewPhraseBeginPos \notin PrevCoverage /\ candidates[phrase] # <<>>

\* The phrase does not overlap the coverage and has a rule.
Fits == phraseSpan \cap PrevCoverage = {} /\ candidates[phrase] # <<>>

\* The next coverage of the previous cardinality.
VisitCoverage(coverage) ==
    /\ pc = "coverages"
    /\ coverage \in todo
    /\ todo' = todo \ {coverage}
    /\ PrevCoverage' = coverage
    /\ NewPhraseBeginPos' = 0
    /\ pc' = "positions"
    /\ UNCHANGED <<candidates, holder, NewCardinality, PrevCardinality, nodes, GoalNode>>

\* The next previous cardinality, none of whose coverages is done.
NextPrevCardinality ==
    /\ pc = "coverages"
    /\ todo = {}
    /\ PrevCardinality + 1 < NewCardinality
    /\ PrevCardinality' = PrevCardinality + 1
    /\ todo' = holder[PrevCardinality + 1].keys
    /\ UNCHANGED <<candidates, holder, NewCardinality, PrevCoverage, NewPhraseBeginPos, nodes, pc,
                   GoalNode>>

\* A position where the phrase does not fit.
SkipPosition ==
    /\ pc = "positions"
    /\ NewPhraseBeginPos <= N - NewPhraseCardinality
    /\ ~Fits
    /\ NewPhraseBeginPos' = NewPhraseBeginPos + 1
    /\ UNCHANGED <<candidates, holder, NewCardinality, PrevCardinality, todo, PrevCoverage, nodes,
                   pc, GoalNode>>

\* A phrase that fits: select the new coverage and go through the nodes.
SelectPhrase ==
    /\ pc = "positions"
    /\ NewPhraseBeginPos <= N - NewPhraseCardinality
    /\ Fits
    /\ holder' = [holder EXCEPT ![NewCardinality] = H!Select(@, PrevCoverage \cup phraseSpan)]
    /\ nodes' = holder[PrevCardinality].lex[PrevCoverage].nodes
    /\ pc' = "nodes"
    /\ UNCHANGED <<candidates, NewCardinality, PrevCardinality, todo, PrevCoverage,
                   NewPhraseBeginPos, GoalNode>>

\* A hypothesis that is too dear is dropped before it is inserted.
Offer(c, new) ==
    IF DoPrunePreInsertion /\ H!mustBePruned(c, new.cost) THEN {c} ELSE H!insertNewHypothesis(c, new)

\* The containers after offering all rules of the phrase for one node, in turn.
Offered(node) ==
    LET after[i \in 0..Len(candidates[phrase])] ==
            IF i = 0 THEN {curr}
            ELSE UNION {Offer(c, NewNode(node, phrase[1], phrase[2], candidates[phrase][i])) :
                           c \in after[i-1]}
    IN  after[Len(candidates[phrase])]

\* The next node, in the order of total costs, with all rules of the phrase;
\* none when the phrase is too far from the node.
ExtendNode(node) ==
    /\ pc = "nodes"
    /\ node \in nodes
    /\ \A other \in nodes : node.cost <= other.cost
    /\ nodes' = nodes \ {node}
    /\ IF Conforms(node, phrase[1], phrase[2])
       THEN \E c \in Offered(node) : holder' = [holder EXCEPT ![NewCardinality] = c]
       ELSE UNCHANGED holder
    /\ UNCHANGED <<candidates, NewCardinality, PrevCardinality, todo, PrevCoverage,
                   NewPhraseBeginPos, pc, GoalNode>>

EndPhrase ==
    /\ pc = "nodes"
    /\ nodes = {}
    /\ holder' = [holder EXCEPT ![NewCardinality] = H!Deselect(@)]
    /\ NewPhraseBeginPos' = NewPhraseBeginPos + 1
    /\ pc' = "positions"
    /\ UNCHANGED <<candidates, NewCardinality, PrevCardinality, todo, PrevCoverage, nodes, GoalNode>>

EndCoverage ==
    /\ pc = "positions"
    /\ NewPhraseBeginPos > N - NewPhraseCardinality
    /\ pc' = "coverages"
    /\ UNCHANGED <<candidates, holder, NewCardinality, PrevCardinality, todo, PrevCoverage,
                   NewPhraseBeginPos, nodes, GoalNode>>

\* Mutant: the container of the previous cardinality is cleaned up again.
Finalized_PrevToo ==
    {[holder EXCEPT ![NewCardinality] = c, ![PrevCardinality] = H!Pruned(@, {})] : c \in H!prune(curr)}

\* finlizePruningAndcleanUp of the current container.
Finalized == {[holder EXCEPT ![NewCardinality] = c] : c \in H!prune(curr)}

\* The end of a cardinality, and the next one if there is one.
EndCardinality ==
    /\ pc = "coverages"
    /\ todo = {}
    /\ PrevCardinality + 1 = NewCardinality
    /\ holder' \in Finalized
    /\ IF NewCardinality < N
       THEN /\ NewCardinality' = NewCardinality + 1
            /\ PrevCardinality' = H!MaxOf(NewCardinality + 1 - MaxMatchingSourcePhraseCardinality, 0)
            /\ todo' = holder'[PrevCardinality'].keys
            /\ UNCHANGED pc
       ELSE /\ pc' = "goal"
            /\ UNCHANGED <<NewCardinality, PrevCardinality, todo>>
    /\ UNCHANGED <<candidates, PrevCoverage, NewPhraseBeginPos, nodes, GoalNode>>

\* The best node of the full coverage is the goal, if there is one.
FindGoal ==
    /\ pc = "goal"
    /\ LET full == holder[N].lex[Position]
       IN  IF full.nodes = {} THEN GoalNode' = NULL
           ELSE \E node \in full.nodes : node.cost = full.best /\ GoalNode' = node
    /\ pc' = "done"
    /\ UNCHANGED <<candidates, holder, NewCardinality, PrevCardinality, todo, PrevCoverage,
                   NewPhraseBeginPos, nodes>>

Next ==
    \/ \E coverage \in SUBSET Position : VisitCoverage(coverage)
    \/ NextPrevCardinality \/ SkipPosition \/ SelectPhrase
    \/ \E node \in nodes : ExtendNode(node)
    \/ EndPhrase \/ EndCoverage \/ EndCardinality \/ FindGoal
    \/ pc = "done" /\ UNCHANGED vars

Spec == Init /\ [][Next]_vars

-----------------------------------------------------------------------------
(* Properties.                                                                *)

\* The loop variables of decode stay in their ranges, and what the containers hold are
\* hypotheses of this sentence, whose positions have the width of a node's.
TypeOK ==
    /\ NewCardinality \in 1..N /\ PrevCardinality \in 0..NewCardinality-1
    /\ todo \subseteq SUBSET Position /\ PrevCoverage \subseteq Position
    /\ NewPhraseBeginPos \in 0..N
    /\ pc \in {"coverages", "positions", "nodes", "goal", "done"}
    /\ \A k \in 0..N : \A s \in H!Stored(holder[k]) :
          s[1] \subseteq Position /\ {s[2].begin, s[2].end} \subseteq 0..2^PositionBits-1

\* A node refers to the node it extends by address.  That node is still where it
\* was, in a coverage of a smaller cardinality: nothing recombines, prunes or
\* removes it after it was extended.
PrevNodeStays ==
    \A k \in 1..N : \A s \in H!Stored(holder[k]) :
        LET prev == s[2].prev
        IN  /\ Cardinality(prev.coverage) \in 0..k-1
            /\ <<prev.coverage, prev>> \in H!Stored(holder[Cardinality(prev.coverage)])

\* Each hypothesis translates every word of its coverage once: it is stored under
\* its coverage, at its cardinality, and adds exactly its own source range.
CoverageIsPartition ==
    \A k \in 0..N : \A s \in H!Stored(holder[k]) :
        LET node == s[2] IN
        /\ node.coverage = s[1] /\ Cardinality(s[1]) = k
        /\ k > 0 => /\ node.prev.coverage \cap (node.begin .. node.end-1) = {}
                    /\ node.coverage = node.prev.coverage \cup (node.begin .. node.end-1)

\* The jump limits never paint the search into a corner: every hypothesis with
\* untranslated words can go on with one of them.  And a coverage that is extended
\* has a hypothesis, "Q_ASSERT(PrevLexHypoContainer.nodes().size())".
NoDeadEnd ==
    /\ \A coverage \in todo : holder[PrevCardinality].lex[coverage].nodes # {}
    /\ \A k \in 0..N-1 : \A s \in H!Stored(holder[k]) :
          \E b \in Position \ s[1] : Conforms(s[2], b, 1)

\* Costs, of the hypotheses that are kept and of those that are offered, never reach
\* INFINITY, with which the search marks what has no cost.
CostsAreFinite ==
    /\ \A k \in 0..N : \A s \in H!Stored(holder[k]) :
          s[2].cost \in 0..Infinity-1 /\ s[2].own \in 0..s[2].cost
    /\ pc = "nodes" =>
          \A node \in nodes : \A i \in DOMAIN candidates[phrase] :
              NewNode(node, phrase[1], phrase[2], candidates[phrase][i]).cost \in 0..Infinity-1

EveryWordHasRule == \A b \in Position : candidates[<<b, 1>>] # <<>>

\* decode of an empty previous cardinality: "This happens when we have for ex. 2
\* bi-grams and a quad-gram but no similar 3-gram. due to bad training".  When
\* every word has a rule no finished cardinality is empty, and there is a goal.
EmptyOnlyByTraining ==
    EveryWordHasRule =>
        /\ \A k \in 0..NewCardinality-1 : H!Stored(holder[k]) # {}
        /\ pc = "done" => GoalNode \in holder[N].lex[Position].nodes

-----------------------------------------------------------------------------
(* Reference: the least cost of translating what a coverage leaves open, over
   all orders and segmentations within the jump limits, with no containers.   *)

\* One step of a translation, as a relation on <<coverage, begin, end, state>>, with what
\* it costs in its context and what it approximately costs.
Translations(at) ==
    UNION {{<<<<at[1] \cup Span(p[1], p[2]), p[1], p[1] + p[2], candidates[p][i].state>>,
              candidates[p][i].cost + ContextCost[at[4], candidates[p][i].state]
                  + getJumpCost(Abs(p[1] - at[3])),
              candidates[p][i].cost + getJumpCost(Abs(p[1] - at[3]))>> : i \in DOMAIN candidates[p]} :
        p \in {q \in Phrase :
            /\ Span(q[1], q[2]) \cap at[1] = {}
            /\ conformsHardReorderingJumpLimit(at[1], at[2], at[3], q[1], q[1] + q[2])}}

\* The least sum of the k-th members of the steps.
LeastToGo(k) ==
    LET togo[at \in (SUBSET Position) \X Position \X (0..N) \X (RuleState \cup {RootState})] ==
            IF at[1] = Position THEN 0
            ELSE Least({t[k] + togo[t[1]] : t \in Translations(at)})
    IN  togo

CostToGo == LeastToGo(2)
ApproximateCostToGo == LeastToGo(3)

\* Without pruning the goal is a cheapest translation: recombining by end of
\* source range and feature states, and in favour of the lower total cost, loses
\* no better continuation.
GoalIsOptimal == pc = "done" => GoalNode.cost = CostToGo[<<{}, 0, 0, RootState>>]

\* The rest cost without its jumps never exceeds what the remaining words cost at the
\* approximate costs of their rules, in whatever order and segmentation they can still be
\* translated: the matrix misses no cheaper way to split a gap, and counts no gap twice.
\* In its context a rule may cost less, so of the real cost it is an estimate and no
\* bound.  The root node has no rest cost.
RestCostIsLowerBound ==
    \A k \in 1..N : \A s \in H!Stored(holder[k]) :
        PhrasesRestCost(s[1]) <= ApproximateCostToGo[<<s[1], s[2].begin, s[2].end, s[2].features>>]

\* Costs stay below Infinity, so that it marks nothing but a missing cost, and the rest
\* costs of phrases are lower bounds of the approximate costs.
RestCostNeverExceeds == CostsAreFinite /\ RestCostIsLowerBound
=============================================================================
