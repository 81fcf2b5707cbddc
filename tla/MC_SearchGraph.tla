--------------------------- MODULE MC_SearchGraph ---------------------------
(***************************************************************************)
(* Instances of SearchGraph for TLC: the rules of a few small languages,   *)
(* and two settings of the decoder.  With DoPrune the constants are those  *)
(* of the cfg; without, fewer sentences are translated with containers     *)
(* that keep every hypothesis.                                             *)
(***************************************************************************)
EXTENDS SearchGraph

NarrowBeam == -2
WideBeam   == 1

Rule(cost, state) == [cost |-> cost, state |-> state]

\* Cheap and dear translations of a word, in one or both states.
WordRules == {<<Rule(1, "a")>>, <<Rule(3, "b"), Rule(1, "a")>>}

\* A phrase of several words may have a rule.
PhraseRules == {<<>>, <<Rule(3, "b")>>}

\* Every word has a rule; phrases of two words have one or not, and so does the
\* whole sentence.
Tables ==
    {t \in [Phrase -> WordRules \cup PhraseRules] :
        \A p \in Phrase : t[p] \in IF p[2] = 1 THEN WordRules
                                   ELSE IF p[2] \in {2, N} THEN PhraseRules ELSE {<<>>}}

\* States prefer to alternate, which makes a rule cheaper than it approximately is, and b
\* is dear at the start of the sentence, so that the cheapest hypothesis of a coverage is
\* not always the one to go on from.
Context ==
    [s \in {"root", "a", "b"} \X {"a", "b"} |->
        IF s[1] = s[2] THEN 3
        ELSE CASE s[1] = "root" -> IF s[2] = "b" THEN 4 ELSE 3
               [] s[1] = "a"    -> -2
               [] s[1] = "b"    -> -1]

\* Without pruning, sentences whose last words are like the first two.
FewTables ==
    {t \in Tables : /\ \A p, q \in DOMAIN t : q[1] = p[1] + 2 /\ q[2] = p[2] => t[q] = t[p]
                    /\ t[1, 2] = <<>>}

Unpruned == INSTANCE SearchGraph WITH
    CandidateTables <- FewTables, DoPrunePreInsertion <- FALSE,
    MaxCardinalityContainerSize <- 160

VARIABLE DoPrune

MCInit ==
    \/ DoPrune = TRUE /\ Init
    \/ DoPrune = FALSE /\ Unpruned!Init

MCNext ==
    /\ UNCHANGED DoPrune
    /\ \/ DoPrune /\ Next
       \/ ~DoPrune /\ Unpruned!Next

MCSpec == MCInit /\ [][MCNext]_<<vars, DoPrune>>

-----------------------------------------------------------------------------
(* A property of the search without pruning; those of SearchGraph hold in both *)
(* settings.                                                                  *)

\* The goal is a cheapest translation of the reference recursion.
UnprunedGoalIsOptimal == ~DoPrune => Unpruned!GoalIsOptimal
=============================================================================
