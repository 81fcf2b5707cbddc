----------------------------- MODULE TSMonitor -----------------------------
(***************************************************************************)
(* Modules/TSMonitor of the load balancer: a connection to every           *)
(* translation server, over which statistics are requested once in an      *)
(* UpdateInterval, and the score each server gets from them.  A server     *)
(* without a positive score gets no translations.                          *)
(*                                                                         *)
(* All slots run in the monitor's thread, one event after the other.  Time *)
(* is measured in ticks of the timer: LastRequestTime is never, of this    *)
(* tick, of the last one or older, and it may be of yesterday: secsTo of   *)
(* QTime is a difference of times of day, negative across midnight.        *)
(***************************************************************************)
EXTENDS TranslationServer, FiniteSets

CONSTANTS
    Server,
    Statistics,           \* what a server may answer: L1, L15, FM, TQ in percent
    AbsoluteScore,        \* of each server
    MaxInFlight           \* bound: messages on one connection when the timer fires

Percent == 0..100
ASSUME StatisticsAssumption ==
    /\ Statistics \subseteq [L1 : Percent, L15 : Percent, FM : Percent, TQ : Percent]
    /\ AbsoluteScore \in [Server -> Percent]
    /\ MaxInFlight \in Nat \ {0}

VARIABLES
    up,           \* the server runs and can be reached
    conn,         \* its clsTranslationServer
    score,        \* TotalScore
    asked,        \* LastRequestTime, in ticks ago: 0, 1, 2 (or more), Never
    yesterday     \* LastRequestTime is a time of the day before

vars == <<up, conn, score, asked, yesterday>>

\* slotProcessResponse; the code keeps it in a quint16, so modulo 2^16.
ScoreOf(absolute, st) ==
    (absolute * 10 + (100 - st.L1) * 8 + (100 - st.TQ) * (IF st.L15 < 70 THEN 6 ELSE 4) + st.FM) % 65536

Never == 3

Init ==
    /\ up \in [Server -> BOOLEAN]
    /\ conn = [s \in Server |-> connect(NewConnection)]
    /\ score = [s \in Server |-> 0]
    /\ asked = [s \in Server |-> Never]
    /\ yesterday = [s \in Server |-> FALSE]

\* secsTo(currentTime) < UpdateInterval may hold, may fail.  The timer is coarse:
\* at the tick after a request, the request may be too recent or not.
MayBeRecent(age, ofYesterday) == age # Never /\ (ofYesterday \/ age <= 1)
MayBeDue(age, ofYesterday)    == ~ofYesterday /\ age >= 1

-----------------------------------------------------------------------------
(* The timer.                                                                 *)

\* Mutant: a connection that does not come up is left alone.
Reconnected_Never(s) == conn[s]

\* slotUpdateInfo for a server it is not connected to, also one it is still
\* connecting to.
Reconnected(s) == connect(reset(conn[s]))

\* timerEvent, slotUpdateInfo; sends is the set of servers whose slotSendRequest
\* does not find their last request too recent.
slotUpdateInfo(sends) ==
    LET ready == {s \in Server : conn[s].sock = "connected" /\ conn[s].loggedIn}
        age(s) == IF asked[s] < 2 THEN asked[s] + 1 ELSE asked[s]
    IN
    /\ \A s \in Server : Len(InFlight(conn[s])) < MaxInFlight
    /\ sends \subseteq {s \in ready : MayBeDue(age(s), yesterday[s])}
    /\ \A s \in ready \ sends : MayBeRecent(age(s), yesterday[s])
    /\ score' = [s \in Server |-> 0]
    /\ conn' = [s \in Server |->
          IF conn[s].sock # "connected" THEN Reconnected(s)
          ELSE IF s \in sends THEN sendRequest(conn[s], "rpcGetStatistics") ELSE conn[s]]
    /\ asked' = [s \in Server |-> IF s \in sends THEN 0 ELSE age(s)]
    /\ UNCHANGED <<up, yesterday>>

Midnight ==
    /\ yesterday' = [s \in Server |-> asked[s] # Never]
    /\ UNCHANGED <<up, conn, score, asked>>

\* The time of day of the last request has come again, and there is still an
\* UpdateInterval left of the day.
NextEvening(s) ==
    /\ yesterday[s]
    /\ yesterday' = [yesterday EXCEPT ![s] = FALSE]
    /\ UNCHANGED <<up, conn, score, asked>>

-----------------------------------------------------------------------------
(* The socket.                                                                *)

Accepted(s) ==
    /\ conn[s].sock = "connecting" /\ up[s]
    /\ conn' = [conn EXCEPT ![s] = slotConnected(@)]
    /\ UNCHANGED <<up, score, asked, yesterday>>

\* slotError of a connection attempt.
Refused(s) ==
    /\ conn[s].sock = "connecting" /\ ~up[s]
    /\ conn' = [conn EXCEPT ![s].sock = "closed"]
    /\ UNCHANGED <<up, score, asked, yesterday>>

\* The first line of what has arrived when n more replies did.
Incoming(s, n) == Arrived(conn[s], n)

CanRead(s, n) == conn[s].sock = "connected" /\ n \in 1..Len(conn[s].replies)

\* An error or an old answer.
IgnoreLine(s, n) ==
    /\ CanRead(s, n) /\ Reaction(Incoming(s, n)) = "ignore"
    /\ conn' = [conn EXCEPT ![s] = slotReadyRead(Incoming(s, n))]
    /\ UNCHANGED <<up, score, asked, yesterday>>

\* sigResponse: slotProcessResponse.
slotProcessResponse(s, n, st) ==
    /\ CanRead(s, n) /\ Reaction(Incoming(s, n)) = "response"
    /\ conn' = [conn EXCEPT ![s] = slotReadyRead(Incoming(s, n))]
    /\ score' = [score EXCEPT ![s] = ScoreOf(AbsoluteScore[s], st)]
    /\ UNCHANGED <<up, asked, yesterday>>

\* sigReadyForFirstRequest after the login: slotSendRequest, which returns early
\* when the last request, of the connection before, is too recent.
LoginDone(s, n) ==
    /\ CanRead(s, n) /\ Reaction(Incoming(s, n)) = "login"
    /\ LET d == slotReadyRead(Incoming(s, n)) IN
          \/ /\ MayBeDue(asked[s], yesterday[s])
             /\ conn' = [conn EXCEPT ![s] = sendRequest(d, "rpcGetStatistics")]
             /\ score' = [score EXCEPT ![s] = 0]
             /\ asked' = [asked EXCEPT ![s] = 0]
          \/ /\ MayBeRecent(asked[s], yesterday[s])
             /\ conn' = [conn EXCEPT ![s] = d]
             /\ UNCHANGED <<score, asked>>
    /\ UNCHANGED <<up, yesterday>>

\* disconnected: slotServerDisconnected.
Disconnected(s) ==
    /\ conn[s].sock = "connected" /\ ~conn[s].peer
    /\ conn' = [conn EXCEPT ![s] = reset(@)]
    /\ score' = [score EXCEPT ![s] = 0]
    /\ UNCHANGED <<up, asked, yesterday>>

-----------------------------------------------------------------------------
(* The servers.                                                               *)

Answer(s) ==
    /\ up[s] /\ conn[s].requests # <<>>
    /\ conn' = [conn EXCEPT ![s] = Answered(@, TRUE)]
    /\ UNCHANGED <<up, score, asked, yesterday>>

\* An error, also to the login: checkLogin throws, and the connection stays open.
AnswerError(s) ==
    /\ up[s] /\ conn[s].requests # <<>>
    /\ conn' = [conn EXCEPT ![s] = Answered(@, FALSE)]
    /\ UNCHANGED <<up, score, asked, yesterday>>

\* The server ends one connection and goes on: sendError, or it has MaxConnections already.
EndConnection(s) ==
    /\ up[s] /\ conn[s].peer
    /\ conn' = [conn EXCEPT ![s] = Abandoned(@)]
    /\ UNCHANGED <<up, score, asked, yesterday>>

GoesDown(s) ==
    /\ up[s]
    /\ up' = [up EXCEPT ![s] = FALSE]
    /\ conn' = [conn EXCEPT ![s] = Abandoned(@)]
    /\ UNCHANGED <<score, asked, yesterday>>

ComesUp(s) ==
    /\ ~up[s]
    /\ up' = [up EXCEPT ![s] = TRUE]
    /\ UNCHANGED <<conn, score, asked, yesterday>>

Tick == \E sends \in SUBSET Server : slotUpdateInfo(sends)
Reads(s) == \E n \in 1..MaxInFlight : IgnoreLine(s, n) \/ LoginDone(s, n)
                                     \/ \E st \in Statistics : slotProcessResponse(s, n, st)

Next ==
    \/ Tick \/ Midnight
    \/ \E s \in Server : \/ NextEvening(s) \/ Accepted(s) \/ Refused(s) \/ Reads(s)
                         \/ Disconnected(s) \/ Answer(s) \/ AnswerError(s) \/ EndConnection(s)
                         \/ GoesDown(s) \/ ComesUp(s)

Spec == Init /\ [][Next]_vars

\* The timer, the event loop and servers that are up go on, and a server that is asked
\* again and again does not answer with an error every time; nothing makes a server
\* come up, go down, end a connection or the day end.
Fairness ==
    /\ WF_vars(Tick)
    /\ \A s \in Server : /\ WF_vars(Accepted(s)) /\ WF_vars(Refused(s)) /\ WF_vars(Reads(s))
                         /\ WF_vars(Disconnected(s)) /\ SF_vars(Answer(s))

FairSpec == Spec /\ Fairness

-----------------------------------------------------------------------------
(* Properties.                                                                *)

\* The monitor's variables have their types; a connection that is not established has
\* nothing on its way.
TypeOK ==
    /\ up \in [Server -> BOOLEAN]
    /\ conn \in [Server -> Connection]
    /\ \A s \in Server : conn[s].sock # "connected" =>
          conn[s] = [NewConnection EXCEPT !.sock = conn[s].sock, !.response = conn[s].response]
    /\ score \in [Server -> Nat]
    /\ asked \in [Server -> 0..Never]
    /\ yesterday \in [Server -> BOOLEAN]

\* A server has a score only while the monitor is logged in to it and its last
\* request has been answered: never from an answer to a request of an earlier
\* tick or an earlier connection.
ScoreIsCurrent ==
    \A s \in Server : score[s] > 0 =>
        /\ conn[s].sock = "connected" /\ conn[s].loggedIn
        /\ \A i \in DOMAIN InFlight(conn[s]) : ~InFlight(conn[s])[i].current

\* On no connection is anything but the login on its way before the login was
\* answered, and no login after, whatever was reset and reconnected in between.
AskedAfterLogin ==
    \A s \in Server : \A i \in DOMAIN InFlight(conn[s]) :
        InFlight(conn[s])[i].rpc = "login" <=> ~conn[s].loggedIn

\* The connection reads answers to earlier requests only.  A readyRead for two
\* lines reads one, and every later one reads the line left from before.
Behind(s) == \E i \in DOMAIN InFlight(conn[s]) : ~InFlight(conn[s])[i].current

\* The server runs and holds its end of the connection there is.
Serves(s) == up[s] /\ (conn[s].sock = "connected" => conn[s].peer)

\* The server has answered the login with an error.  The connection is open and
\* nothing is on its way; slotUpdateInfo sends nothing before a login and logs in
\* on new connections only.
LoginRefused(s) ==
    conn[s].sock = "connected" /\ conn[s].peer /\ ~conn[s].loggedIn /\ InFlight(conn[s]) = <<>>

\* A server that stays up and ends no connection is given a score again and again,
\* whatever happened to it before, unless its connection keeps lagging behind, the day
\* ended, or it has refused the login: then it never gets one on this connection.
Recovers ==
    \A s \in Server :
        <>[](Serves(s) /\ ~Behind(s) /\ ~yesterday[s]) => <>[]LoginRefused(s) \/ []<>(score[s] > 0)

\* UpdateInterval: "Interval to collect information from servers", from one that
\* serves and has not refused the login.
CollectsInformation ==
    \A s \in Server :
        <>[](Serves(s) /\ ~Behind(s) /\ ~LoginRefused(s)) => []<>(conn[s].requests # <<>>)
=============================================================================
