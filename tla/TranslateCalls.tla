--------------------------- MODULE TranslateCalls ---------------------------
(***************************************************************************)
(* What a client of the load balancer is promised for a translation call:  *)
(* it ends once, with an answer only if some server was given the text and *)
(* translated it, or with an exception.                                    *)
(***************************************************************************)
CONSTANTS Call
VARIABLES outcome, translated

Failure == {"NoDirection", "NoResources", "TimedOut", "MaxTriesFailed"}

Init == outcome = [c \in Call |-> "pending"] /\ translated = {}

\* A server translates the text of a call; the call may be over by then.
Translate(c) == translated' = translated \cup {c} /\ UNCHANGED outcome

Return(c) == outcome[c] = "pending" /\ c \in translated /\ outcome' = [outcome EXCEPT ![c] = "answered"]
             /\ UNCHANGED translated
Throw(c)  == outcome[c] = "pending" /\ \E f \in Failure : outcome' = [outcome EXCEPT ![c] = f]
             /\ UNCHANGED translated

Next == \E c \in Call : Translate(c) \/ Return(c) \/ Throw(c)
Spec == Init /\ [][Next]_<<outcome, translated>>
=============================================================================
