---------------------------- MODULE MC_ConfigServer ----------------------------
(***************************************************************************)
(* Instances of ConfigServer for TLC.                                      *)
(***************************************************************************)
EXTENDS ConfigServer

Plain(name) == [name |-> name, new |-> NULL, long |-> FALSE]
SetTo(v) == [name |-> "set", new |-> v, long |-> FALSE]

\* Every kind of line, a line that is too long, and a set that is.
Lines ==
    {Plain(name) : name \in {"blank", "garbage", "ping", "login", "query", "other"}}
      \cup {SetTo(v) : v \in Value}
      \cup {[Plain("ping") EXCEPT !.long = TRUE]}
      \cup {[SetTo(v) EXCEPT !.long = TRUE] : v \in CrossInvalid}

=============================================================================
