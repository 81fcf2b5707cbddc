--------------------------- MODULE MC_Cardinality ---------------------------
(***************************************************************************)
(* Instances of Cardinality for TLC.                                       *)
(***************************************************************************)
EXTENDS Cardinality, TLC

\* SearchBeamWidth below 1, above 1: a cfg has no negative numbers.
NarrowBeam == -2
WideBeam   == 2

\* Neither coverages nor states are told apart by the container.
Symmetry == Permutations(Coverage) \cup Permutations(State)
=============================================================================
