---------------------------- MODULE MC_NBestPaths ----------------------------
(* Lattices for TLC: the cost of an arc is a small number made of its states,  *)
(* its label and its layer, so that equal costs, and cheap paths through nodes *)
(* that are expensive so far, both occur.                                      *)
EXTENDS NBestPaths

States == 0..1
Labels == 0..1

Table(a, b, c, d) ==
    [n \in Node |-> (2 + a * n.from + b * n.to * n.layer + c * n.label + d * n.from * n.label) % 4]
Tables == {Table(a, b, c, d) : a, b, c, d \in 0..3}

=============================================================================
