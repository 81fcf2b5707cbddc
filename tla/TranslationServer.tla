------------------------- MODULE TranslationServer -------------------------
(***************************************************************************)
(* clsTranslationServer: the load balancer's end of a connection to a      *)
(* translation server, and the two directions of its TCP stream.  TSMonitor*)
(* keeps one for each server, TSManager opens one for each translation.    *)
(*                                                                         *)
(* A message carries the UUID of its request; what the code asks of a UUID *)
(* is only whether it equals LastRequestUUID, so a message is "current"    *)
(* while no later request was sent.                                        *)
(***************************************************************************)
EXTENDS Naturals, Sequences

RPC == {"login", "rpcGetStatistics", "rpcTranslate"}
Message == [rpc : RPC, ok : BOOLEAN, current : BOOLEAN]

\* requests and replies are on the way, lines have arrived and are not read;
\* peer: the server holds its end of the connection; response: the RPC that
\* Response answers, when IsResponseReady.
Connection ==
    [sock : {"closed", "connecting", "connected"}, peer : BOOLEAN, loggedIn : BOOLEAN,
     requests : Seq(Message), replies : Seq(Message), lines : Seq(Message),
     response : RPC \cup {"none", "SERVER_DISCONNECTED"}]

NewConnection ==
    [sock |-> "closed", peer |-> FALSE, loggedIn |-> FALSE,
     requests |-> <<>>, replies |-> <<>>, lines |-> <<>>, response |-> "none"]

InFlight(c) == c.requests \o c.replies \o c.lines

\* Mutant: LoggedIn outlives the socket.
reset_KeepsLogin(c) == [NewConnection EXCEPT !.response = c.response, !.loggedIn = c.loggedIn]

\* reset: a new socket; what the old one had is gone.
reset(c) == [NewConnection EXCEPT !.response = c.response]

\* connect, of a connection that was never connected or was reset.
connect(c) == [c EXCEPT !.sock = "connecting", !.response = "none"]

Outdated(q) == [i \in DOMAIN q |-> [q[i] EXCEPT !.current = FALSE]]

\* sendRequest: a new LastRequestUUID; written to a server that is gone it is lost.
sendRequest(c, rpc) ==
    LET request == [rpc |-> rpc, ok |-> TRUE, current |-> TRUE]
    IN  [c EXCEPT !.requests = IF c.peer THEN Append(Outdated(@), request) ELSE @,
                  !.replies = Outdated(@), !.lines = Outdated(@)]

\* The connection is established: slotConnected logs in.
slotConnected(c) == sendRequest([c EXCEPT !.sock = "connected", !.peer = TRUE], "login")

\* The server answers the oldest request.
Answered(c, ok) ==
    [c EXCEPT !.requests = Tail(@), !.replies = Append(@, [Head(c.requests) EXCEPT !.ok = ok])]

\* The server, or the way to it, is gone with all that was on the way.
Abandoned(c) == [c EXCEPT !.peer = FALSE, !.requests = <<>>, !.replies = <<>>]

\* n replies arrive together; readyRead is signalled once for them.
Arrived(c, n) ==
    [c EXCEPT !.lines = @ \o SubSeq(c.replies, 1, n),
              !.replies = SubSeq(@, n + 1, Len(@))]

\* Mutant: the UUID is not looked at.
Reaction_AnyUUID(c) ==
    IF ~Head(c.lines).ok THEN "ignore" ELSE IF c.loggedIn THEN "response" ELSE "login"

\* Mutant: every answer is the response.
Reaction_NoLogin(c) ==
    IF ~Head(c.lines).ok \/ ~Head(c.lines).current THEN "ignore" ELSE "response"

\* slotReadyRead reads one line: an error and an answer to an old request are
\* ignored, others are the response, or the answer to the login.
Reaction(c) ==
    IF ~Head(c.lines).ok \/ ~Head(c.lines).current THEN "ignore"
    ELSE IF c.loggedIn THEN "response" ELSE "login"

slotReadyRead(c) ==
    LET read == [c EXCEPT !.lines = Tail(@)]
    IN  CASE Reaction(c) = "ignore"   -> read
          [] Reaction(c) = "response" -> [read EXCEPT !.response = Head(c.lines).rpc]
          [] Reaction(c) = "login"    -> [read EXCEPT !.loggedIn = TRUE]
=============================================================================
