---------------------------- MODULE OptionRegister ----------------------------
(***************************************************************************)
(* What an administrator of a running program is promised of an option: it *)
(* has at every moment a value that its validators accept, a query answers *)
(* that value, a set changes it at once or not at all and says which to a  *)
(* client that is still there, and nothing else changes it.                *)
(***************************************************************************)
CONSTANTS
    Client,
    Valid        \* values that are in range and pass the cross validator

VARIABLES
    option,
    answer       \* the last answer to each client on its connection

vars == <<option, answer>>

Init == option \in Valid /\ answer = [c \in Client |-> "none"]

Answer(c, a) == answer' = [answer EXCEPT ![c] = a]

Query(c) == Answer(c, option) /\ UNCHANGED option
Set(c, v) == v \in Valid /\ option' = v /\ Answer(c, v)
SetUnheard(v) == v \in Valid /\ option' = v /\ UNCHANGED answer
Refuse(c) == Answer(c, "error") /\ UNCHANGED option
Other(c) == Answer(c, "ok") /\ UNCHANGED option
Disconnected(c) == Answer(c, "none") /\ UNCHANGED option

Next ==
    \/ \E c \in Client : Query(c) \/ Refuse(c) \/ Other(c) \/ Disconnected(c)
    \/ \E v \in Valid : SetUnheard(v) \/ \E c \in Client : Set(c, v)

Spec == Init /\ [][Next]_vars

=============================================================================
