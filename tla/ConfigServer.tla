----------------------------- MODULE ConfigServer -----------------------------
(***************************************************************************)
(* The configuration server: clsLegacyConfigOverTCPServer accepts          *)
(* administrators up to MaxConnections and gives each a clsClientThread    *)
(* with its own event loop, which answers the requests of its socket; one  *)
(* of them is clsBaseConfigOverNet::set, which writes an option, validates *)
(* it and writes the old value again if the validator objects.             *)
(*                                                                         *)
(* The server, and the slots of the thread objects, run in the main        *)
(* thread: disconnected and finished are signals queued to it.             *)
(*                                                                         *)
(* There is one option.  Clients send lines without waiting for answers, as *)
(* the monitor of the load balancer does.  The lines that arrive together   *)
(* make one notification, and a notification reads one line: the others     *)
(* stay in the buffer of the socket until a further line arrives.  A line   *)
(* that arrives in pieces is a line that cannot be parsed.  The name of a   *)
(* client is used again when the thread of its last connection is gone.     *)
(***************************************************************************)
EXTENDS Naturals, Sequences, FiniteSets

CONSTANTS
    Client,
    MaxConnections,
    Valid,            \* values that are in range and pass the cross validator
    CrossInvalid,     \* values that are in range and do not
    OutOfRange,       \* values that setFromVariant throws for
    Requests,         \* the lines that clients send
    MaxLines,         \* bound: lines of a client that are not handled, or not answered
    NULL

InRange == Valid \cup CrossInvalid
Value == InRange \cup OutOfRange

\* What a line asks for: "garbage" does not parse, "other" is a walk, a call of a
\* module or an unknown request.  "long" is more than 20000 bytes.
Request ==
    [name : {"blank", "garbage", "ping", "login", "query", "other"}, new : {NULL}, long : BOOLEAN]
      \cup [name : {"set"}, new : Value, long : BOOLEAN]

ASSUME ConfigAssumption ==
    /\ MaxConnections \in Nat \ {0} /\ IsFiniteSet(Client)
    /\ Requests \subseteq Request /\ MaxLines \in Nat

VARIABLES
    ConnectedClients,
    peer,              \* of each client: "away", "refused", "connected" or "gone" without a word
    thread,            \* of each client: "none", "starting", "running" or "finished"
    Socket,            \* of each thread: "none", "open" or "closed"
    disconnected,      \* threads whose signal disconnected is not delivered yet
    exiting,           \* threads told to leave their event loop
    sent,              \* of each client: its lines that have not arrived
    unread,            \* of each client: its lines in the buffer of the socket
    line,              \* of each thread: the line that it handles
    asked,             \* of each client: the requests that it waits for
    AllowedToView, AllowedToChange,
    pc,                \* of each thread: "idle", or where it is in slotReadyRead and set
    OldValue,          \* of each thread
    value,             \* of the option
    answer             \* of each client: what it was told last

network == <<peer, thread, Socket, disconnected, exiting, sent, unread>>
rights == <<AllowedToView, AllowedToChange>>
vars == <<ConnectedClients, network, line, asked, rights, pc, OldValue, value, answer>>

Init ==
    /\ ConnectedClients = 0
    /\ peer = [c \in Client |-> "away"]
    /\ thread = [c \in Client |-> "none"]
    /\ Socket = [c \in Client |-> "none"]
    /\ disconnected = {} /\ exiting = {}
    /\ sent = [c \in Client |-> <<>>] /\ unread = [c \in Client |-> <<>>]
    /\ line = [c \in Client |-> NULL]
    /\ asked = [c \in Client |-> 0]
    /\ AllowedToView = {} /\ AllowedToChange = {}
    /\ pc = [c \in Client |-> "idle"]
    /\ OldValue = [c \in Client |-> NULL]
    /\ value \in Valid
    /\ answer = [c \in Client |-> "none"]

Goto(c, label) == pc' = [pc EXCEPT ![c] = label]

-----------------------------------------------------------------------------
(* The server, in the main thread.                                            *)

\* Mutant: MaxConnections is allowed to be exceeded.
CanAccept_Equal == ConnectedClients <= MaxConnections

CanAccept == ConnectedClients < MaxConnections

incomingConnection(c) ==
    /\ peer[c] \in {"away", "refused"} /\ thread[c] = "none"
    /\ IF CanAccept
       THEN /\ peer' = [peer EXCEPT ![c] = "connected"]
            /\ thread' = [thread EXCEPT ![c] = "starting"]
            /\ ConnectedClients' = ConnectedClients + 1
       ELSE /\ peer' = [peer EXCEPT ![c] = "refused"]
            /\ UNCHANGED <<thread, ConnectedClients>>
    /\ UNCHANGED <<Socket, disconnected, exiting, sent, unread, line, asked, rights, pc, OldValue, value, answer>>

\* The signal finished of a thread.
slotClientDisconnected(c) ==
    /\ thread[c] = "finished"
    /\ ConnectedClients' = ConnectedClients - 1
    /\ thread' = [thread EXCEPT ![c] = "none"]
    /\ peer' = [peer EXCEPT ![c] = "away"]
    /\ Socket' = [Socket EXCEPT ![c] = "none"]
    /\ disconnected' = disconnected \ {c} /\ exiting' = exiting \ {c}
    /\ sent' = [sent EXCEPT ![c] = <<>>] /\ unread' = [unread EXCEPT ![c] = <<>>]
    /\ line' = [line EXCEPT ![c] = NULL] /\ asked' = [asked EXCEPT ![c] = 0]
    /\ AllowedToView' = AllowedToView \ {c} /\ AllowedToChange' = AllowedToChange \ {c}
    /\ answer' = [answer EXCEPT ![c] = "none"]
    /\ UNCHANGED <<pc, OldValue, value>>

\* Mutant: the event loop is not left.
slotDisconnected_NoExit(c) ==
    /\ c \in disconnected
    /\ disconnected' = disconnected \ {c}
    /\ UNCHANGED <<ConnectedClients, peer, thread, Socket, exiting, sent, unread, line, asked, rights, pc, OldValue, value, answer>>

\* clsClientThread::slotDisconnected.
slotDisconnected(c) ==
    /\ c \in disconnected
    /\ disconnected' = disconnected \ {c} /\ exiting' = exiting \cup {c}
    /\ UNCHANGED <<ConnectedClients, peer, thread, Socket, sent, unread, line, asked, rights, pc, OldValue, value, answer>>

-----------------------------------------------------------------------------
(* clsClientThread: run and the event loop.                                   *)

\* setSocketDescriptor may fail for a connection that has broken already.
run(c) ==
    /\ thread[c] = "starting"
    /\ \/ /\ thread' = [thread EXCEPT ![c] = "running"]
          /\ Socket' = [Socket EXCEPT ![c] = "open"]
       \/ /\ peer[c] = "gone"
          /\ thread' = [thread EXCEPT ![c] = "finished"] /\ UNCHANGED Socket
    /\ UNCHANGED <<ConnectedClients, peer, disconnected, exiting, sent, unread, line, asked, rights, pc, OldValue, value, answer>>

inEventLoop(c) == thread[c] = "running" /\ pc[c] = "idle"

\* exit(0) ends the event loop between two handlers.
LeaveEventLoop(c) ==
    /\ inEventLoop(c) /\ c \in exiting
    /\ thread' = [thread EXCEPT ![c] = "finished"]
    /\ UNCHANGED <<ConnectedClients, peer, Socket, disconnected, exiting, sent, unread, line, asked, rights, pc, OldValue, value, answer>>

-----------------------------------------------------------------------------
(* The socket.                                                                *)

\* An answer on a connection that is closed or broken is lost.
Hears(c) == Socket[c] = "open" /\ peer[c] = "connected"

Write(c, a) == answer' = IF Hears(c) THEN [answer EXCEPT ![c] = a] ELSE answer

\* Lines that were not read are lost with the connection.
Closes(c) ==
    /\ Socket' = [Socket EXCEPT ![c] = "closed"]
    /\ disconnected' = IF Socket[c] = "open" THEN disconnected \cup {c} ELSE disconnected
    /\ sent' = [sent EXCEPT ![c] = <<>>] /\ unread' = [unread EXCEPT ![c] = <<>>]
    /\ asked' = [asked EXCEPT ![c] = 0]

sendResult(c, a) ==
    /\ Write(c, a) /\ Goto(c, "idle")
    /\ asked' = [asked EXCEPT ![c] = IF @ = 0 THEN 0 ELSE @ - 1]
    /\ UNCHANGED <<Socket, disconnected, sent, unread>>

sendError(c) == Write(c, "error") /\ Closes(c) /\ Goto(c, "idle")

\* The connection is found broken.
ConnectionLost(c) ==
    /\ inEventLoop(c) /\ Socket[c] = "open" /\ peer[c] = "gone"
    /\ Closes(c)
    /\ UNCHANGED <<ConnectedClients, peer, thread, exiting, line, rights, pc, OldValue, value, answer>>

-----------------------------------------------------------------------------
(* slotReadyRead.                                                             *)

\* Less than three bytes are left in the buffer: one or two lines with nothing in them.
MayBeTooShort(buffer) ==
    Len(buffer) < 3 /\ \A i \in DOMAIN buffer : buffer[i].name = "blank" /\ ~buffer[i].long

TooLong(buffer) == \E i \in DOMAIN buffer : buffer[i].long

\* The next n lines arrive: one notification, for which the first line that is there
\* is read.
readyRead(c, n) ==
    /\ inEventLoop(c) /\ Socket[c] = "open"
    /\ sent' = [sent EXCEPT ![c] = SubSeq(@, n + 1, Len(@))]
    /\ LET buffer == unread[c] \o SubSeq(sent[c], 1, n)
       IN \/ /\ MayBeTooShort(buffer)
             /\ unread' = [unread EXCEPT ![c] = buffer]
             /\ UNCHANGED <<line, pc>>
          \/ /\ unread' = [unread EXCEPT ![c] = Tail(buffer)]
             /\ line' = [line EXCEPT ![c] = Head(buffer)]
             /\ Goto(c, IF TooLong(buffer) THEN "tooLong" ELSE "handle")
    /\ UNCHANGED <<ConnectedClients, peer, thread, Socket, disconnected, exiting, asked, rights,
                   OldValue, value, answer>>

Handles(c, names) == thread[c] = "running" /\ pc[c] = "handle" /\ line[c].name \in names

\* The handler is done with its line.
LineIsRead(c) == line' = [line EXCEPT ![c] = NULL] /\ OldValue' = [OldValue EXCEPT ![c] = NULL]

\* Too much data is an error, and the handler goes on with the first line of it.
StreamTooLong(c) ==
    /\ pc[c] = "tooLong"
    /\ Write(c, "error") /\ Closes(c) /\ Goto(c, "handle")
    /\ UNCHANGED <<ConnectedClients, peer, thread, exiting, line, rights, OldValue, value>>

BlankLine(c) ==
    /\ Handles(c, {"blank"})
    /\ LineIsRead(c) /\ Goto(c, "idle")
    /\ UNCHANGED <<ConnectedClients, network, asked, rights, value, answer>>

\* Mutant: the exception is swallowed.
ParseFails_Silent(c) ==
    /\ Handles(c, {"garbage"})
    /\ LineIsRead(c) /\ Goto(c, "idle")
    /\ UNCHANGED <<ConnectedClients, network, asked, rights, value, answer>>

ParseFails(c) ==
    /\ Handles(c, {"garbage"})
    /\ LineIsRead(c) /\ sendError(c)
    /\ UNCHANGED <<ConnectedClients, peer, thread, exiting, rights, value>>

\* Pings are answered without a login.
Ping(c) ==
    /\ Handles(c, {"ping"})
    /\ LineIsRead(c) /\ sendResult(c, "ok")
    /\ UNCHANGED <<ConnectedClients, peer, thread, exiting, rights, value>>

\* sigValidateAgent sets both rights, or throws and has taken them away.
Login(c) ==
    /\ Handles(c, {"login"})
    /\ LineIsRead(c)
    /\ \E view, change, throws \in BOOLEAN :
          /\ throws => ~view /\ ~change
          /\ AllowedToView' = IF view THEN AllowedToView \cup {c} ELSE AllowedToView \ {c}
          /\ AllowedToChange' = IF change THEN AllowedToChange \cup {c} ELSE AllowedToChange \ {c}
          /\ IF view THEN sendResult(c, "ok")
             ELSE IF throws THEN sendResult(c, "error")
             ELSE sendError(c)
    /\ UNCHANGED <<ConnectedClients, peer, thread, exiting, value>>

NotLoggedIn(c) ==
    /\ Handles(c, {"query", "set", "other"}) /\ c \notin AllowedToView
    /\ LineIsRead(c) /\ sendError(c)
    /\ UNCHANGED <<ConnectedClients, peer, thread, exiting, rights, value>>

query(c) ==
    /\ Handles(c, {"query"}) /\ c \in AllowedToView
    /\ LineIsRead(c) /\ sendResult(c, value)
    /\ UNCHANGED <<ConnectedClients, peer, thread, exiting, rights, value>>

OtherRequest(c) ==
    /\ Handles(c, {"other"}) /\ c \in AllowedToView
    /\ LineIsRead(c) /\ sendResult(c, "ok")
    /\ UNCHANGED <<ConnectedClients, peer, thread, exiting, rights, value>>

-----------------------------------------------------------------------------
(* set: the value is read, written, validated and perhaps restored, in the    *)
(* thread of the client and without a lock.                                   *)

NotAllowedToSet(c) ==
    /\ Handles(c, {"set"}) /\ c \in AllowedToView /\ c \notin AllowedToChange
    /\ LineIsRead(c) /\ sendResult(c, "error")
    /\ UNCHANGED <<ConnectedClients, peer, thread, exiting, rights, value>>

ReadOldValue(c) ==
    /\ Handles(c, {"set"}) /\ c \in AllowedToView /\ c \in AllowedToChange
    /\ OldValue' = [OldValue EXCEPT ![c] = value]
    /\ Goto(c, "write")
    /\ UNCHANGED <<ConnectedClients, network, line, asked, rights, value, answer>>

\* Mutant: the range is not looked at.
validate_Anything(v) == TRUE

validate(v) == v \in InRange

WriteValue(c) ==
    /\ pc[c] = "write"
    /\ IF validate(line[c].new)
       THEN /\ value' = line[c].new
            /\ Goto(c, "validate")
            /\ UNCHANGED <<Socket, disconnected, sent, unread, line, asked, OldValue, answer>>
       ELSE LineIsRead(c) /\ sendResult(c, "error") /\ UNCHANGED value
    /\ UNCHANGED <<ConnectedClients, peer, thread, exiting, rights>>

\* The cross validator reads the option again.
crossValidate(c) ==
    /\ pc[c] = "validate"
    /\ IF value \in Valid THEN LineIsRead(c) /\ sendResult(c, line[c].new)
       ELSE /\ Goto(c, "restore")
            /\ UNCHANGED <<Socket, disconnected, sent, unread, line, asked, OldValue, answer>>
    /\ UNCHANGED <<ConnectedClients, peer, thread, exiting, rights, value>>

\* Mutant: the rejected value stays.
Restored_New(c) == value

Restored(c) == OldValue[c]

RestoreValue(c) ==
    /\ pc[c] = "restore"
    /\ value' = Restored(c)
    /\ LineIsRead(c) /\ sendResult(c, "error")
    /\ UNCHANGED <<ConnectedClients, peer, thread, exiting, rights>>

-----------------------------------------------------------------------------
(* The clients.                                                               *)

\* A line may be sent before the thread has the socket, and before earlier ones are
\* answered.
Send(c, r) ==
    /\ peer[c] = "connected" /\ Socket[c] # "closed"
    /\ Len(sent[c]) + Len(unread[c]) < MaxLines /\ asked[c] < MaxLines
    /\ sent' = [sent EXCEPT ![c] = Append(@, r)]
    /\ asked' = IF r.name = "blank" THEN asked ELSE [asked EXCEPT ![c] = @ + 1]
    /\ UNCHANGED <<ConnectedClients, peer, thread, Socket, disconnected, exiting, unread, line, rights,
                   pc, OldValue, value, answer>>

Leave(c) ==
    /\ peer[c] = "connected"
    /\ peer' = [peer EXCEPT ![c] = "gone"] /\ asked' = [asked EXCEPT ![c] = 0]
    /\ UNCHANGED <<ConnectedClients, thread, Socket, disconnected, exiting, sent, unread, line, rights,
                   pc, OldValue, value, answer>>

-----------------------------------------------------------------------------
Handler(c) ==
    \/ StreamTooLong(c) \/ BlankLine(c) \/ ParseFails(c) \/ Ping(c) \/ Login(c) \/ NotLoggedIn(c)
    \/ query(c) \/ OtherRequest(c)
    \/ NotAllowedToSet(c) \/ ReadOldValue(c) \/ WriteValue(c) \/ crossValidate(c) \/ RestoreValue(c)

ThreadStep(c) ==
    \/ run(c) \/ ConnectionLost(c) \/ LeaveEventLoop(c)
    \/ \E n \in 1 .. Len(sent[c]) : readyRead(c, n)
    \/ Handler(c)
MainStep(c) == slotClientDisconnected(c) \/ slotDisconnected(c)

Next ==
    \E c \in Client :
        \/ incomingConnection(c) \/ MainStep(c) \/ ThreadStep(c)
        \/ \E r \in Requests : Send(c, r)
        \/ Leave(c)

Spec == Init /\ [][Next]_vars

\* Threads are scheduled and the main thread returns to its event loop.  Clients owe
\* nothing.
Fairness == \A c \in Client : WF_vars(ThreadStep(c)) /\ WF_vars(MainStep(c))
FairSpec == Spec /\ Fairness

-----------------------------------------------------------------------------
(* Properties                                                                 *)

\* Connections, threads and what they keep are where they belong.
TypeOK ==
    /\ ConnectedClients \in Nat
    /\ peer \in [Client -> {"away", "refused", "connected", "gone"}]
    /\ thread \in [Client -> {"none", "starting", "running", "finished"}]
    /\ Socket \in [Client -> {"none", "open", "closed"}]
    /\ disconnected \subseteq Client /\ exiting \subseteq Client
    /\ sent \in [Client -> Seq(Request)] /\ unread \in [Client -> Seq(Request)]
    /\ line \in [Client -> Request \cup {NULL}]
    /\ asked \in [Client -> 0 .. MaxLines]
    /\ AllowedToView \subseteq Client /\ AllowedToChange \subseteq Client
    /\ pc \in [Client -> {"idle", "tooLong", "handle", "write", "validate", "restore"}]
    /\ OldValue \in [Client -> InRange \cup {NULL}]
    /\ value \in InRange
    /\ answer \in [Client -> {"none", "ok", "error"} \cup Value]

\* Threads that were started and have not been counted down.
Threads == {c \in Client : thread[c] # "none"}

\* The count, which is kept by two slots of the main thread, is that of the threads
\* there are, and never exceeds MaxConnections (incomingConnection).
ConnectionsCounted ==
    ConnectedClients = Cardinality(Threads) /\ Cardinality(Threads) <= MaxConnections

\* With one connection, the default, the option behaves as one that changes at
\* once: the value while a thread is between writing and validating is still the
\* old one, and no administrator is ever told of another.  That rests on the count,
\* which must keep a thread in the middle of a set until it is done.
Validating(c) == pc[c] \in {"validate", "restore"}
Option ==
    IF \E c \in Client : Validating(c) THEN OldValue[CHOOSE c \in Client : Validating(c)] ELSE value
Register == INSTANCE OptionRegister WITH option <- Option
ImplementsOption == Register!Spec

\* A connection that is closed or broken gives its place to another one.
SlotsAreFreed ==
    \A c \in Client : (peer[c] = "gone" \/ Socket[c] = "closed") ~> (thread[c] = "none")

\* All that has arrived is in the buffer, and no further notification makes the thread
\* read it.
Lagging(c) == sent[c] = <<>> /\ line[c] = NULL /\ unread[c] # <<>>

\* A client that waits for answers gets the next one, or its connection is closed, as
\* long as lines arrive; only one that stops sending may be left with lines that are
\* never read, those which arrived together with others (slotReadyRead).
RequestsAnswered ==
    \A c \in Client :
        []<>(asked[c] = 0) \/ []<><<asked[c]' < asked[c]>>_vars \/ <>[]Lagging(c)

=============================================================================
