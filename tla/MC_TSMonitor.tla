---------------------------- MODULE MC_TSMonitor ----------------------------
(***************************************************************************)
(* Instances of TSMonitor for TLC.                                         *)
(***************************************************************************)
EXTENDS TSMonitor

\* An idle server and a busy one.
IdleAndBusy == {[L1 |-> 10, L15 |-> 10, FM |-> 50, TQ |-> 0], [L1 |-> 90, L15 |-> 80, FM |-> 5, TQ |-> 100]}
Equal == [s \in Server |-> 0]
=============================================================================
