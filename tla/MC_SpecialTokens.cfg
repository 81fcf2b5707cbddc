\* One thread, six unknown words, a cache of four: with two words a sentence the cache
\* is full in the third, and later ones meet words that were evicted.
CONSTANTS
    NULL = NULL
    Thread = {t1}
    Token = {a, b, c, d, e, f}
    InVocabulary = {}
    VocabIndex <- MCVocabIndex
    WordIndexOffset = 10
    MaxItems = 4
    Day = 100
    MaxSentence = 2
    LastTick = 5
SPECIFICATION Spec
SYMMETRY Symmetry
INVARIANTS TypeOK UniqueIndex RuleOfToken SentenceKeepsRules
