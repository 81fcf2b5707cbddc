\* Two translation threads, two unknown words and a word of the vocabulary.
CONSTANTS
    NULL = NULL
    Thread = {t1, t2}
    Token = {a, b, v}
    InVocabulary = {v}
    VocabIndex <- MCVocabIndex
    WordIndexOffset = 10
    MaxItems = 4
    Day = 100
    MaxSentence = 2
    LastTick = 2
SPECIFICATION Spec
INVARIANTS UniqueIndex
