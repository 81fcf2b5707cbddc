----------------------------- MODULE TSManager -----------------------------
(***************************************************************************)
(* TSManager::baseTranslation and TSMonitor::bestServerIndex of the load   *)
(* balancer: each translation call, in the thread of its client, chooses a *)
(* server by the scores that the monitor's thread writes meanwhile, opens a*)
(* connection of its own, logs in, sends the text and polls for the answer *)
(* until MaxTranslationTime.                                               *)
(*                                                                         *)
(* The monitor and the servers are the environment here: scores change in  *)
(* any way, servers go down and come up.                                   *)
(***************************************************************************)
EXTENDS TranslationServer, Integers, FiniteSets

CONSTANTS
    Call,
    Servers,              \* number of servers of the direction
    Active,               \* indices of those configured as active
    Score,                \* values of TotalScore
    MaxRetries,
    MaxChanges            \* bound: changes of a score or of a server

ASSUME ManagerAssumption ==
    /\ Servers \in Nat \ {0} /\ Active \subseteq 0..Servers-1
    /\ Score \subseteq Nat /\ 0 \in Score
    /\ MaxRetries \in Nat \ {0} /\ MaxChanges \in Nat

Index == 0..Servers-1

VARIABLES
    score, up, changes,   \* TotalScore and state of each server, changes made so far
    LastUsedServer,
    pc, pref,             \* of each call: where it is, PreferedServerInex
    scan,                 \* of each call: the variables of bestServerIndex
    tries, conn,
    outcome,              \* of each call: "pending", how it ended
    translated            \* history: calls whose text a server has translated

callVars == <<pc, pref, scan, tries, conn, outcome, translated>>
vars == <<score, up, changes, LastUsedServer, callVars>>

\* Mutant: the scan starts behind the last server.
StartScan_PastEnd == [at |-> Servers, best |-> 0, index |-> 0, next |-> -1]

StartScan == [at |-> Servers-1, best |-> 0, index |-> 0, next |-> -1]

Init ==
    /\ score \in [Index -> Score]
    /\ up \in [Index -> BOOLEAN]
    /\ changes = 0
    /\ LastUsedServer = -1
    /\ pc = [c \in Call |-> "start"]
    /\ pref = [c \in Call |-> -1]
    /\ scan = [c \in Call |-> StartScan]
    /\ tries = [c \in Call |-> 0]
    /\ conn = [c \in Call |-> NewConnection]
    /\ outcome = [c \in Call |-> "pending"]
    /\ translated = {}

Goto(c, label) == pc' = [pc EXCEPT ![c] = label]

End(c, result) ==
    /\ Goto(c, "ended")
    /\ outcome' = [outcome EXCEPT ![c] = result]

-----------------------------------------------------------------------------
(* baseTranslation up to the connection.                                      *)

UnknownDirection(c) ==
    /\ pc[c] = "start"
    /\ End(c, "NoDirection")
    /\ UNCHANGED <<score, up, changes, LastUsedServer, pref, scan, tries, conn, translated>>

\* The client may prefer a server; one that is not there or not active counts
\* as no preference.
Begin(c, p) ==
    /\ pc[c] = "start"
    /\ IF p \in Active THEN Goto(c, "connect") /\ pref' = [pref EXCEPT ![c] = p]
       ELSE Goto(c, "read") /\ UNCHANGED pref
    /\ UNCHANGED <<score, up, changes, LastUsedServer, scan, tries, conn, outcome, translated>>

\* bestServerIndex reads each TotalScore, from the last server to the first ...
ReadScore(c) ==
    /\ pc[c] = "read" /\ scan[c].at >= 0
    /\ IF score[scan[c].at] > scan[c].best
       THEN Goto(c, "readAgain") /\ UNCHANGED scan
       ELSE scan' = [scan EXCEPT ![c].at = @ - 1] /\ UNCHANGED pc
    /\ UNCHANGED <<score, up, changes, LastUsedServer, pref, tries, conn, outcome, translated>>

\* ... and once more when it is better, without a lock in between.
ReadScoreAgain(c) ==
    /\ pc[c] = "readAgain"
    /\ scan' = [scan EXCEPT ![c] = [at |-> @.at - 1, best |-> score[@.at], index |-> @.at,
                                    next |-> @.index]]
    /\ Goto(c, "read")
    /\ UNCHANGED <<score, up, changes, LastUsedServer, pref, tries, conn, outcome, translated>>

\* The exception of bestServerIndex becomes one of baseTranslation.
NoServerAvailable(c) ==
    /\ pc[c] = "read" /\ scan[c].at < 0 /\ scan[c].best = 0
    /\ End(c, "NoResources")
    /\ UNCHANGED <<score, up, changes, LastUsedServer, pref, scan, tries, conn, translated>>

\* Not the best server twice in a row, under LastUsedServerLock.
Chosen(c) ==
    IF LastUsedServer # scan[c].index THEN scan[c].index
    ELSE IF scan[c].next < 0 THEN scan[c].index ELSE scan[c].next

ChooseServer(c) ==
    /\ pc[c] = "read" /\ scan[c].at < 0 /\ scan[c].best # 0
    /\ LastUsedServer' = Chosen(c)
    /\ pref' = [pref EXCEPT ![c] = Chosen(c)]
    /\ Goto(c, "connect")
    /\ UNCHANGED <<score, up, changes, scan, tries, conn, outcome, translated>>

Connect(c) ==
    /\ pc[c] = "connect"
    /\ conn' = [conn EXCEPT ![c] = connect(NewConnection)]
    /\ Goto(c, "wait")
    /\ UNCHANGED <<score, up, changes, LastUsedServer, pref, scan, tries, outcome, translated>>

-----------------------------------------------------------------------------
(* Events of the connection, and its server.                                  *)

waiting(c) == pc[c] = "wait"

Accepted(c) ==
    /\ waiting(c) /\ conn[c].sock = "connecting" /\ up[pref[c]]
    /\ conn' = [conn EXCEPT ![c] = slotConnected(@)]
    /\ UNCHANGED <<score, up, changes, LastUsedServer, pc, pref, scan, tries, outcome, translated>>

\* slotError; nothing else hears of it.
Refused(c) ==
    /\ waiting(c) /\ conn[c].sock = "connecting" /\ ~up[pref[c]]
    /\ conn' = [conn EXCEPT ![c].sock = "closed"]
    /\ UNCHANGED <<score, up, changes, LastUsedServer, pc, pref, scan, tries, outcome, translated>>

\* Mutant: the answer to the login is not waited for.
AfterRead_NoLogin(c) == sendRequest(slotReadyRead(c), "rpcTranslate")

\* sigReadyForFirstRequest after the login: slotSendPredefinedRequest.
AfterRead(c) ==
    IF Reaction(c) = "login" THEN sendRequest(slotReadyRead(c), "rpcTranslate") ELSE slotReadyRead(c)

ReadyRead(c, n) ==
    /\ waiting(c) /\ conn[c].sock = "connected"
    /\ n \in 1..Len(conn[c].replies)
    /\ conn' = [conn EXCEPT ![c] = AfterRead(Arrived(@, n))]
    /\ UNCHANGED <<score, up, changes, LastUsedServer, pc, pref, scan, tries, outcome, translated>>

\* disconnected is forwarded to sigDisconnected, which nothing of a translation
\* is connected to; slotDisconnected, that would set SERVER_DISCONNECTED, is
\* connected to nothing either.
Closed(c) == [c EXCEPT !.sock = "closed"]

Disconnected(c) ==
    /\ waiting(c) /\ conn[c].sock = "connected" /\ ~conn[c].peer
    /\ conn' = [conn EXCEPT ![c] = Closed(@)]
    /\ UNCHANGED <<score, up, changes, LastUsedServer, pc, pref, scan, tries, outcome, translated>>

\* The server answers: to the login, or it has translated or failed to.
Answer(c, ok) ==
    /\ conn[c].requests # <<>>
    /\ conn' = [conn EXCEPT ![c] = Answered(@, ok)]
    /\ translated' = IF ok /\ Head(conn[c].requests).rpc = "rpcTranslate" THEN translated \cup {c}
                     ELSE translated
    /\ UNCHANGED <<score, up, changes, LastUsedServer, pc, pref, scan, tries, outcome>>

-----------------------------------------------------------------------------
(* The poll.                                                                  *)

\* getSafeResponse has a response: return it, or try again if it says that the
\* connection was lost.
TakeResponse(c) ==
    /\ waiting(c) /\ conn[c].response # "none"
    /\ conn' = [conn EXCEPT ![c] = NewConnection]
    /\ IF conn[c].response # "SERVER_DISCONNECTED"
       THEN End(c, "answered") /\ UNCHANGED <<pref, scan, tries>>
       ELSE /\ tries' = [tries EXCEPT ![c] = @ + 1]
            /\ pref' = [pref EXCEPT ![c] = -1]
            /\ scan' = [scan EXCEPT ![c] = StartScan]
            /\ IF tries[c] + 1 < MaxRetries THEN Goto(c, "read") /\ UNCHANGED outcome
               ELSE End(c, "MaxTriesFailed")
    /\ UNCHANGED <<score, up, changes, LastUsedServer, translated>>

\* Mutant: only a call that is connected times out.
CanTimeOut_Connected(c) == waiting(c) /\ conn[c].sock = "connected"

\* At any poll, also with a response that came since the one before.
CanTimeOut(c) == waiting(c)

\* MaxTranslationTime is over.  A server that has the request is not told.
TimeOut(c) ==
    /\ CanTimeOut(c)
    /\ conn' = [conn EXCEPT ![c] = [NewConnection EXCEPT !.requests = conn[c].requests]]
    /\ End(c, "TimedOut")
    /\ UNCHANGED <<score, up, changes, LastUsedServer, pref, scan, tries, translated>>

-----------------------------------------------------------------------------
(* The monitor and the servers.                                               *)

ScoreChanges(i, value) ==
    /\ changes < MaxChanges /\ value # score[i]
    /\ score' = [score EXCEPT ![i] = value]
    /\ changes' = changes + 1
    /\ UNCHANGED <<up, LastUsedServer, callVars>>

ServerChanges(i) ==
    /\ changes < MaxChanges
    /\ up' = [up EXCEPT ![i] = ~@]
    /\ changes' = changes + 1
    /\ conn' = [c \in Call |-> IF up[i] /\ pref[c] = i THEN Abandoned(conn[c]) ELSE conn[c]]
    /\ UNCHANGED <<score, LastUsedServer, pc, pref, scan, tries, outcome, translated>>

Step(c) ==
    \/ UnknownDirection(c) \/ \E p \in -1..Servers : Begin(c, p)
    \/ ReadScore(c) \/ ReadScoreAgain(c) \/ NoServerAvailable(c) \/ ChooseServer(c) \/ Connect(c)
    \/ TakeResponse(c) \/ TimeOut(c)

Event(c) == Accepted(c) \/ Refused(c) \/ Disconnected(c)
            \/ (\E n \in 1..2 : ReadyRead(c, n)) \/ \E ok \in BOOLEAN : Answer(c, ok)

AllEnded == \A c \in Call : pc[c] = "ended"

Next ==
    \/ \E c \in Call : Step(c) \/ Event(c)
    \/ \E i \in Index : ServerChanges(i) \/ \E value \in Score : ScoreChanges(i, value)
    \/ AllEnded /\ UNCHANGED vars

Spec == Init /\ [][Next]_vars

\* Each call runs in a thread of its own; servers owe nothing.
FairSpec == Spec /\ \A c \in Call : WF_vars(Step(c))

-----------------------------------------------------------------------------
(* Properties.                                                                *)

\* The variables of the calls and of what they share have their types; a call that
\* connects or polls has a server.
TypeOK ==
    /\ score \in [Index -> Score] /\ up \in [Index -> BOOLEAN] /\ changes \in 0..MaxChanges
    /\ LastUsedServer \in -1..Servers-1
    /\ pc \in [Call -> {"start", "read", "readAgain", "connect", "wait", "ended"}]
    /\ pref \in [Call -> -1..Servers-1]
    /\ \A c \in Call : pc[c] \in {"connect", "wait"} => pref[c] \in Index
    /\ scan \in [Call -> [at : -1..Servers-1, best : Score, index : Index, next : -1..Servers-1]]
    /\ tries \in [Call -> 0..MaxRetries]
    /\ conn \in [Call -> Connection]
    /\ outcome \in [Call -> {"pending", "answered", "NoDirection", "NoResources", "TimedOut",
                             "MaxTriesFailed"}]
    /\ translated \subseteq Call

\* Every call ends once, answered only by the translation of its text: not by the
\* answer to its login, or by an error, whenever the connection breaks or the
\* time runs out.
Calls == INSTANCE TranslateCalls
ImplementsTranslateCalls == Calls!Spec

\* The text is sent to no server before it has answered the login.
TextAfterLogin ==
    \A c \in Call : waiting(c) =>
        \A i \in DOMAIN InFlight(conn[c]) : InFlight(conn[c])[i].rpc = "rpcTranslate" => conn[c].loggedIn

\* No call waits forever, for a server that refuses, hangs up, answers with an
\* error or not at all.
CallsEnd == \A c \in Call : <>(outcome[c] # "pending")

-----------------------------------------------------------------------------
(* What the README says.                                                      *)

\* README: "monitors translation servers and load-balances requests between them".
\* No request goes to a server the monitor knows to be out while another is not.
AvailableIsChosen ==
    [][\A c \in Call : ChooseServer(c) /\ changes = 0 => score[LastUsedServer'] > 0]_vars
=============================================================================
