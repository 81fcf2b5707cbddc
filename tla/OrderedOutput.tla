--------------------------- MODULE OrderedOutput ---------------------------
(***************************************************************************)
(* What the console promises of its output: whatever the order in which    *)
(* the translations finish, line k of the output is the translation of     *)
(* line k of the input, and the output only grows at its end.              *)
(***************************************************************************)
EXTENDS Naturals, Sequences

CONSTANT Lines      \* number of lines of the input

VARIABLE output     \* output[k] = i: the k-th line is the translation of line i

Init == output = <<>>

Write == /\ Len(output) < Lines
         /\ output' = Append(output, Len(output) + 1)

Spec == Init /\ [][Write]_output
=============================================================================
