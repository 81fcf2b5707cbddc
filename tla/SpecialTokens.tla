---------------------------- MODULE SpecialTokens ----------------------------
(***************************************************************************)
(* SpecialTokensRegistry and its callers: the translation threads give an  *)
(* unknown word an index of its own above the vocabulary, keep the token   *)
(* in a bounded cache, and store the rule node that the handlers made of   *)
(* it under its index, where the search looks it up.  When the last copy   *)
(* of a cached token is destroyed its rule node goes and its index is used *)
(* again.                                                                  *)
(*                                                                         *)
(* Every method of the registry holds its mutex, so that a call is a step; *)
(* between two calls other threads may run.  The destructor runs without   *)
(* the mutex.  That it may do so in the middle of another call is a race   *)
(* on two containers whose outcomes are not enumerated here.               *)
(*                                                                         *)
(* A rule node stands for the token it was made of.  The order in which a  *)
(* hash is evicted decides the order of AvailableWordIndexes, so that the  *)
(* first of them is any of them.                                           *)
(***************************************************************************)
EXTENDS BoundedCache, Integers, Sequences

CONSTANTS
    Thread,            \* translation threads
    Token,             \* words that some handler has a rule for
    InVocabulary,      \* those of SourceVocab, which come with a tag
    VocabIndex,        \* their indexes
    WordIndexOffset,   \* one more than the size of SourceVocab
    Day,               \* milliseconds of a day, in ticks
    MaxSentence,       \* bound: special tokens of a sentence
    LastTick,          \* bound: the clock
    NULL

ASSUME TokensAssumption ==
    /\ InVocabulary \subseteq Token
    /\ WordIndexOffset \in Nat
    /\ VocabIndex \in [InVocabulary -> 0..WordIndexOffset-1]
    /\ Day \in Nat \ {0} /\ MaxSentence \in Nat /\ LastTick \in Nat
    /\ IsFiniteSet(Thread)

VARIABLES
    SpecialTokens,         \* the cache: for each token the object with its index
    HandledSpecialTokens,  \* for each index a rule node
    AvailableWordIndexes,
    now,
    pc, token, index,      \* of each thread: where it is, its token and the index obtained for it
    held,                  \* of each thread: its copy of a cached object
    sentence               \* of each thread: the tokens and indexes it has parsed

registry == <<SpecialTokens, HandledSpecialTokens, AvailableWordIndexes>>
vars == <<registry, now, pc, token, index, held, sentence>>

Init ==
    /\ SpecialTokens = EmptyCache
    /\ HandledSpecialTokens = << >>
    /\ AvailableWordIndexes = {}
    /\ now = 0
    /\ pc = [t \in Thread |-> "parse"]
    /\ token = [t \in Thread |-> NULL]
    /\ index = [t \in Thread |-> NULL]
    /\ held = [t \in Thread |-> NULL]
    /\ sentence = [t \in Thread |-> << >>]

currentTime == now % Day
Goto(t, label) == pc' = [pc EXCEPT ![t] = label]

HeldBy(ts) == {held[t] : t \in ts} \ {NULL}
Live == Values(SpecialTokens) \cup HeldBy(Thread)

\* A new object is none of those that are still there.
NewObject(i) ==
    [id |-> CHOOSE n \in 0..Cardinality(Live) : \A o \in Live : o.id # n, index |-> i]

\* Mutant: the rule node of an index that is free again stays.
removeWordIndexes_KeepsRule(objects) ==
    LET indexes == {o.index : o \in objects}
    IN  /\ UNCHANGED HandledSpecialTokens
        /\ AvailableWordIndexes' = AvailableWordIndexes \cup {i \in indexes : i >= WordIndexOffset}

\* The destructor of these objects.
removeWordIndexes(objects) ==
    LET indexes == {o.index : o \in objects}
    IN  /\ HandledSpecialTokens' = Without(HandledSpecialTokens, indexes)
        /\ AvailableWordIndexes' = AvailableWordIndexes \cup {i \in indexes : i >= WordIndexOffset}

-----------------------------------------------------------------------------
(* OOVHandler::getWordIndexOptions, and IXMLTagHandler::process for tokens of
   the vocabulary: one step for each call to the registry.                    *)

Sentence(t) == [sentence EXCEPT ![t] = Append(@, [token |-> token'[t], index |-> index'[t]])]

\* getExpirableSpecialToken.  A default object for a token that is not stored
\* has no index and leaves nothing behind.
Get(t, k) ==
    /\ pc[t] = "parse" /\ Len(sentence[t]) < MaxSentence
    /\ token' = [token EXCEPT ![t] = k]
    /\ SpecialTokens' = touch(SpecialTokens, k, currentTime)
    /\ IF k \in Keys(SpecialTokens)
       THEN held' = [held EXCEPT ![t] = SpecialTokens.value[k]] /\ Goto(t, "found")
       ELSE Goto(t, "obtain") /\ UNCHANGED held
    /\ UNCHANGED <<HandledSpecialTokens, AvailableWordIndexes, now, index, sentence>>

\* The indexes are returned and the copy of the object is dropped, which may be the
\* last one if the cache has lost its own.
Found(t) ==
    /\ pc[t] = "found"
    /\ index' = [index EXCEPT ![t] = held[t].index] /\ UNCHANGED token
    /\ sentence' = Sentence(t)
    /\ held' = [held EXCEPT ![t] = NULL]
    /\ removeWordIndexes({held[t]} \ (Values(SpecialTokens) \cup HeldBy(Thread \ {t})))
    /\ Goto(t, "parse")
    /\ UNCHANGED <<SpecialTokens, now>>

\* Mutant: indexes that are free again are forgotten by the count.
obtainWordIndex_Count == {WordIndexOffset + Cardinality(Keys(SpecialTokens))}

obtainWordIndex ==
    IF AvailableWordIndexes # {} THEN AvailableWordIndexes
    ELSE {WordIndexOffset + Cardinality(Keys(SpecialTokens))}

\* A word of the vocabulary keeps its index.
Obtain(t) ==
    /\ pc[t] = "obtain"
    /\ \E i \in IF token[t] \in InVocabulary THEN {VocabIndex[token[t]]} ELSE obtainWordIndex :
          /\ index' = [index EXCEPT ![t] = i]
          /\ AvailableWordIndexes' = AvailableWordIndexes \ {i}
    /\ Goto(t, "insertToken")
    /\ UNCHANGED <<SpecialTokens, HandledSpecialTokens, now, token, held, sentence>>

\* insertExpirableSpecialToken: what is evicted, and an object that was stored
\* under the same token, is destroyed unless a thread still has a copy.
InsertToken(t) ==
    /\ pc[t] = "insertToken"
    /\ SpecialTokens' = insert(SpecialTokens, token[t], NewObject(index[t]), currentTime)
    /\ removeWordIndexes(Values(SpecialTokens) \ (Values(SpecialTokens') \cup HeldBy(Thread)))
    /\ Goto(t, "insertRule")
    /\ UNCHANGED <<now, token, index, held, sentence>>

insertRuleNode(t) ==
    /\ pc[t] = "insertRule"
    /\ HandledSpecialTokens' = Assign(HandledSpecialTokens, index[t], token[t])
    /\ UNCHANGED <<token, index>>
    /\ sentence' = Sentence(t)
    /\ Goto(t, "parse")
    /\ UNCHANGED <<SpecialTokens, AvailableWordIndexes, now, held>>

-----------------------------------------------------------------------------
(* The search.                                                                *)

EndOfSentence(t) ==
    /\ pc[t] = "parse" /\ sentence[t] # << >>
    /\ Goto(t, "search")
    /\ UNCHANGED <<registry, now, token, index, held, sentence>>

\* The rule node of an index: an invalid one when there is none.
getRuleNode(i) == IF i \in DOMAIN HandledSpecialTokens THEN HandledSpecialTokens[i] ELSE NULL

\* collectPhraseCandidates, which reads the rule node of one token after another.
LookUp(t) ==
    /\ pc[t] = "search" /\ sentence[t] # << >>
    /\ sentence' = [sentence EXCEPT ![t] = Tail(@)]
    /\ UNCHANGED <<registry, now, pc, token, index, held>>

\* A translation takes a tick, at least.
Translated(t) ==
    /\ pc[t] = "search" /\ sentence[t] = << >>
    /\ now < LastTick /\ now' = now + 1
    /\ Goto(t, "parse")
    /\ token' = [token EXCEPT ![t] = NULL] /\ index' = [index EXCEPT ![t] = NULL]
    /\ UNCHANGED <<registry, held, sentence>>

Tick ==
    /\ now < LastTick /\ now' = now + 1
    /\ UNCHANGED <<registry, pc, token, index, held, sentence>>

\* Nothing is looked at after the last tick.
ClockStops == now = LastTick /\ UNCHANGED vars

Next ==
    \/ \E t \in Thread :
          \/ \E k \in Token : Get(t, k)
          \/ Found(t) \/ Obtain(t) \/ InsertToken(t) \/ insertRuleNode(t)
          \/ EndOfSentence(t) \/ LookUp(t) \/ Translated(t)
    \/ Tick \/ ClockStops

Spec == Init /\ [][Next]_vars

-----------------------------------------------------------------------------
(* Properties                                                                 *)

Index == 0..WordIndexOffset + MaxItems
Object == [id : Nat, index : Index]
IndexOf(k) == SpecialTokens.value[k].index

\* Tokens, indexes and objects are where they belong, and each cached token has a
\* time of access.  Indexes are used again before new ones are made: however many
\* unknown words come, none is further above the vocabulary than the cache is large.
TypeOK ==
    /\ Keys(SpecialTokens) \subseteq Token /\ Values(SpecialTokens) \subseteq Object
    /\ DOMAIN SpecialTokens.accessed = Keys(SpecialTokens)
    /\ \A k \in Keys(SpecialTokens) : SpecialTokens.accessed[k] \in Nat
    /\ AvailableWordIndexes \subseteq Index
    /\ now \in 0..LastTick
    /\ \A t \in Thread :
          /\ pc[t] \in {"parse", "found", "obtain", "insertToken", "insertRule", "search"}
          /\ token[t] \in Token \cup {NULL} /\ index[t] \in Index \cup {NULL}
          /\ held[t] \in Object \cup {NULL}
          /\ sentence[t] \in Seq([token : Token, index : Index])

\* An index is of one word: no two cached tokens have the same, and no cached token
\* has one that is free to be given away (getWordIndexOptions, "Word index of input
\* OOV word").
UniqueIndex ==
    /\ \A j, k \in Keys(SpecialTokens) : IndexOf(j) = IndexOf(k) => j = k
    /\ \A k \in Keys(SpecialTokens) : IndexOf(k) \notin AvailableWordIndexes

\* A cached token has its own rule node under its index, but for the moment between
\* the two insertions, and no rule node outlives its token.
RuleOfToken ==
    /\ \A k \in Keys(SpecialTokens) :
          \/ getRuleNode(IndexOf(k)) = k
          \/ \E t \in Thread : pc[t] = "insertRule" /\ token[t] = k
    /\ DOMAIN HandledSpecialTokens \subseteq {IndexOf(k) : k \in Keys(SpecialTokens)}

\* The tokens of a sentence keep their rules until the search has looked them up:
\* none is evicted by another of the same sentence, unless they are more than half
\* of the cache.
SentenceKeepsRules ==
    \A t \in Thread : pc[t] = "search" =>
        \A n \in 1..Len(sentence[t]) : getRuleNode(sentence[t][n].index) = sentence[t][n].token

=============================================================================
