-------------------------- MODULE MC_SpecialTokens --------------------------
(* SpecialTokens for TLC: a vocabulary of InVocabulary and nothing else.      *)
EXTENDS SpecialTokens, SequencesExt, TLC

MCVocabIndex ==
    LET words == SetToSeq(InVocabulary)
    IN  [w \in InVocabulary |-> CHOOSE n \in 0..Len(words)-1 : words[n+1] = w]

\* Unknown words are interchangeable.
Symmetry == Permutations(Token \ InVocabulary)

=============================================================================
