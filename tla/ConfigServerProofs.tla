-------------------------- MODULE ConfigServerProofs --------------------------
(***************************************************************************)
(* Proofs about the configuration server, for any number of clients, any   *)
(* MaxConnections and any values of the option.                            *)
(***************************************************************************)
EXTENDS ConfigServer, Integers, FiniteSetTheorems, SequenceTheorems, TLAPS

\* A thread that is in a handler is running and has the line it handles; in set that
\* is a set, with the old value read, and later a new value that is in range.
ThreadSound(c) ==
    /\ pc[c] # "idle" => thread[c] = "running" /\ line[c] \in Request
    /\ pc[c] \in {"write", "validate", "restore"} =>
          OldValue[c] \in InRange /\ line[c].new \in Value
    /\ pc[c] \in {"validate", "restore"} => line[c].new \in InRange

\* The inductive invariant.
IInv == TypeOK /\ ConnectionsCounted /\ \A c \in Client : ThreadSound(c)

-----------------------------------------------------------------------------
(* The requests.                                                              *)

LEMMA RequestTypes ==
    /\ \A r \in Request : r.name = "set" => r.new \in Value
    /\ InRange \subseteq Value /\ Valid \subseteq InRange
BY DEF Request, Value, InRange

\* Answers keep the types of what they change.
LEMMA WriteTypes ==
    ASSUME TypeOK, NEW c \in Client, NEW a \in {"ok", "error"} \cup Value, Write(c, a)
    PROVE  answer' \in [Client -> {"none", "ok", "error"} \cup Value]
BY DEF TypeOK, Write

\* So do what closes a connection and what leaves it open.
ConnectionTypes ==
    /\ Socket' \in [Client -> {"none", "open", "closed"}]
    /\ disconnected' \subseteq Client
    /\ sent' \in [Client -> Seq(Request)] /\ unread' \in [Client -> Seq(Request)]
    /\ asked' \in [Client -> 0 .. MaxLines]

LEMMA CloseTypes ==
    ASSUME TypeOK, NEW c \in Client, Closes(c)
    PROVE  ConnectionTypes
BY ConfigAssumption DEF TypeOK, Closes, ConnectionTypes

LEMMA ResultTypes ==
    ASSUME TypeOK, NEW c \in Client, NEW a, sendResult(c, a)
    PROVE  ConnectionTypes
<1>1. asked[c] \in 0 .. MaxLines /\ MaxLines \in Nat
  BY ConfigAssumption DEF TypeOK
<1>2. (IF asked[c] = 0 THEN 0 ELSE asked[c] - 1) \in 0 .. MaxLines
  BY <1>1
<1>3. asked' = [asked EXCEPT ![c] = IF asked[c] = 0 THEN 0 ELSE asked[c] - 1]
  BY DEF sendResult
<1>4. asked' \in [Client -> 0 .. MaxLines]
  BY <1>2, <1>3 DEF TypeOK
<1>5. QED
  BY <1>4 DEF TypeOK, sendResult, ConnectionTypes

LEMMA Nothing == 0 \in 0 .. MaxLines /\ <<>> \in Seq(Request)
BY ConfigAssumption

LEMMA OneChanged ==
    ASSUME NEW S, NEW f \in [Client -> S], NEW c \in Client, NEW x \in S
    PROVE  [f EXCEPT ![c] = x] \in [Client -> S]
OBVIOUS

LEMMA SubSeqOf ==
    ASSUME NEW S, NEW s \in Seq(S), NEW n \in 1 .. Len(s)
    PROVE  /\ SubSeq(s, 1, n) \in Seq(S) /\ Len(SubSeq(s, 1, n)) = n
           /\ SubSeq(s, n + 1, Len(s)) \in Seq(S)
<1>1. Len(s) \in Nat /\ n \in Nat /\ 1 <= n /\ n <= Len(s)
  OBVIOUS
<1>2. \A i \in 1 .. Len(s) : s[i] \in S
  OBVIOUS
<1>3. \A i \in 1 .. n : s[i] \in S
  BY <1>1, <1>2
<1>4. \A i \in n + 1 .. Len(s) : s[i] \in S
  BY <1>1, <1>2
<1>5. QED
  BY <1>1, <1>3, <1>4, SubSeqProperties

\* A step of one client leaves the handlers of the others alone.
LEMMA OneClient ==
    ASSUME IInv, NEW c \in Client, TypeOK', ConnectionsCounted', ThreadSound(c)',
           \A d \in Client \ {c} :
              /\ pc'[d] = pc[d] /\ thread'[d] = thread[d] /\ line'[d] = line[d]
              /\ OldValue'[d] = OldValue[d]
    PROVE  IInv'
<1>1. ASSUME NEW d \in Client \ {c} PROVE ThreadSound(d)'
  BY DEF IInv, ThreadSound
<1>2. QED
  BY <1>1 DEF IInv

\* Threads that neither come nor go are counted as before.
LEMMA SameThreads ==
    ASSUME ConnectionsCounted, UNCHANGED ConnectedClients,
           \A d \in Client : thread'[d] # "none" <=> thread[d] # "none"
    PROVE  ConnectionsCounted'
<1>1. Threads' = Threads
  BY DEF Threads
<1>2. QED
  BY <1>1 DEF ConnectionsCounted

\* Handlers that are done with their line, with an answer or none.
Ends(c) ==
    \/ Goto(c, "idle") /\ UNCHANGED <<asked, answer, Socket, disconnected, sent, unread>>
    \/ \E a \in {"ok", "error"} \cup Value : sendResult(c, a)
    \/ sendError(c)

LEMMA HandlerEnds ==
    ASSUME IInv, NEW c \in Client, LineIsRead(c), Ends(c),
           UNCHANGED <<ConnectedClients, peer, thread, exiting>>,
           AllowedToView' \subseteq Client, AllowedToChange' \subseteq Client, value' \in InRange
    PROVE  IInv'
<1>0. TypeOK /\ ConnectionsCounted
  BY DEF IInv
<1> DEFINE Ended == /\ answer' \in [Client -> {"none", "ok", "error"} \cup Value]
                    /\ pc' = [pc EXCEPT ![c] = "idle"]
                    /\ ConnectionTypes
<1>1. Ended
  <2>1. CASE Goto(c, "idle") /\ UNCHANGED <<asked, answer, Socket, disconnected, sent, unread>>
    BY <1>0, <2>1 DEF TypeOK, Goto, ConnectionTypes
  <2>2. ASSUME NEW a \in {"ok", "error"} \cup Value, sendResult(c, a)
        PROVE  Ended
    BY <1>0, <2>2, WriteTypes, ResultTypes DEF sendResult, Goto
  <2>3. CASE sendError(c)
    BY <1>0, <2>3, WriteTypes, CloseTypes DEF sendError, Goto
  <2>4. QED
    BY <2>1, <2>2, <2>3 DEF Ends
<1>2. line' = [line EXCEPT ![c] = NULL] /\ OldValue' = [OldValue EXCEPT ![c] = NULL]
  BY DEF LineIsRead
<1>3. TypeOK'
  BY <1>0, <1>1, <1>2 DEF TypeOK, ConnectionTypes
<1>4. ThreadSound(c)'
  BY <1>0, <1>1 DEF TypeOK, ThreadSound
<1>5. ConnectionsCounted'
  BY <1>0, SameThreads
<1>6. QED
  BY <1>0, <1>1, <1>2, <1>3, <1>4, <1>5, OneClient DEF TypeOK

-----------------------------------------------------------------------------
(* The handlers.                                                              *)

LEMMA HandlerStep ==
    ASSUME IInv, NEW c \in Client, Handler(c)
    PROVE  IInv'
<1>0. TypeOK /\ ConnectionsCounted /\ ThreadSound(c) /\ line[c] \in Request \cup {NULL}
      /\ value \in InRange /\ value \in Value
  BY RequestTypes DEF IInv, TypeOK
<1>1. CASE StreamTooLong(c)
  <2>1. ConnectionTypes /\ answer' \in [Client -> {"none", "ok", "error"} \cup Value]
    BY <1>0, <1>1, CloseTypes, WriteTypes DEF StreamTooLong
  <2>2. pc' = [pc EXCEPT ![c] = "handle"]
        /\ UNCHANGED <<ConnectedClients, peer, thread, exiting, line, AllowedToView, AllowedToChange,
                       OldValue, value>>
    BY <1>1 DEF StreamTooLong, Goto, rights
  <2>3. TypeOK'
    BY <1>0, <2>1, <2>2 DEF TypeOK, ConnectionTypes
  <2>4. ThreadSound(c)'
    BY <1>0, <1>1, <2>2 DEF StreamTooLong, TypeOK, ThreadSound
  <2>5. ConnectionsCounted'
    BY <1>0, <2>2, SameThreads
  <2>6. QED
    BY <1>0, <2>2, <2>3, <2>4, <2>5, OneClient DEF TypeOK
<1>2. CASE BlankLine(c)
  BY <1>0, <1>2, HandlerEnds DEF BlankLine, Ends, network, rights, TypeOK
<1>3. CASE ParseFails(c) \/ NotLoggedIn(c)
  BY <1>0, <1>3, HandlerEnds DEF ParseFails, NotLoggedIn, Ends, rights, TypeOK
<1>4. CASE Ping(c) \/ OtherRequest(c) \/ NotAllowedToSet(c)
  BY <1>0, <1>4, HandlerEnds DEF Ping, OtherRequest, NotAllowedToSet, Ends, rights, TypeOK
<1>5. CASE Login(c)
  <2>1. AllowedToView' \subseteq Client /\ AllowedToChange' \subseteq Client
    BY <1>0, <1>5 DEF Login, TypeOK
  <2>2. Ends(c)
    BY <1>5 DEF Login, Ends
  <2>3. QED
    BY <1>0, <1>5, <2>1, <2>2, HandlerEnds DEF Login
<1>6. CASE query(c)
  BY <1>0, <1>6, HandlerEnds DEF query, Ends, rights, TypeOK
<1>7. CASE ReadOldValue(c)
  <2>1. line[c] \in Request /\ line[c].new \in Value /\ thread[c] = "running"
    BY <1>0, <1>7, RequestTypes DEF ReadOldValue, Handles, ThreadSound
  <2>2. TypeOK'
    BY <1>0, <1>7 DEF ReadOldValue, Goto, TypeOK, network, rights
  <2>3. ThreadSound(c)'
    BY <1>0, <1>7, <2>1 DEF ReadOldValue, Goto, TypeOK, network, ThreadSound
  <2>4. ConnectionsCounted'
    BY <1>0, <1>7, SameThreads DEF ReadOldValue, network
  <2>5. QED
    BY <1>0, <1>7, <2>2, <2>3, <2>4, OneClient DEF ReadOldValue, TypeOK, Goto, network
<1>8. CASE WriteValue(c)
  <2>1. CASE validate(line[c].new)
    <3>1. TypeOK'
      BY <1>0, <1>8, <2>1 DEF WriteValue, validate, Goto, TypeOK, rights
    <3>2. ThreadSound(c)'
      BY <1>0, <1>8, <2>1 DEF WriteValue, validate, Goto, TypeOK, ThreadSound
    <3>3. ConnectionsCounted'
      BY <1>0, <1>8, SameThreads DEF WriteValue
    <3>4. QED
      BY <1>0, <1>8, <2>1, <3>1, <3>2, <3>3, OneClient DEF WriteValue, TypeOK, Goto
  <2>2. CASE ~validate(line[c].new)
    BY <1>0, <1>8, <2>2, HandlerEnds DEF WriteValue, Ends, rights, TypeOK
  <2>3. QED
    BY <2>1, <2>2
<1>9. CASE crossValidate(c)
  <2>1. CASE value \in Valid
    <3>1. line[c].new \in Value
      BY <1>0, <1>9 DEF crossValidate, ThreadSound
    <3>2. QED
      BY <1>0, <1>9, <2>1, <3>1, HandlerEnds DEF crossValidate, Ends, rights, TypeOK
  <2>2. CASE value \notin Valid
    <3>1. TypeOK'
      BY <1>0, <1>9, <2>2 DEF crossValidate, Goto, TypeOK, rights
    <3>2. ThreadSound(c)'
      BY <1>0, <1>9, <2>2 DEF crossValidate, Goto, TypeOK, ThreadSound
    <3>3. ConnectionsCounted'
      BY <1>0, <1>9, SameThreads DEF crossValidate
    <3>4. QED
      BY <1>0, <1>9, <2>2, <3>1, <3>2, <3>3, OneClient DEF crossValidate, TypeOK, Goto
  <2>3. QED
    BY <2>1, <2>2
<1>10. CASE RestoreValue(c)
  <2>1. Restored(c) \in InRange
    BY <1>0, <1>10 DEF RestoreValue, Restored, ThreadSound
  <2>2. QED
    BY <1>0, <1>10, <2>1, HandlerEnds DEF RestoreValue, Ends, rights, TypeOK
<1>11. QED
  BY <1>1, <1>2, <1>3, <1>4, <1>5, <1>6, <1>7, <1>8, <1>9, <1>10 DEF Handler

-----------------------------------------------------------------------------
(* Connections that come and go.                                              *)

\* A new thread makes one more, the end of one makes one less.
LEMMA ThreadsComeAndGo ==
    ASSUME TypeOK, ConnectionsCounted, NEW c \in Client, incomingConnection(c) \/ slotClientDisconnected(c)
    PROVE  ConnectionsCounted' /\ ConnectedClients' \in Nat
<1>1. Threads \subseteq Client /\ IsFiniteSet(Threads) /\ Cardinality(Threads) \in Nat
      /\ MaxConnections \in Nat \ {0}
  BY ConfigAssumption, FS_Subset, FS_CardinalityType DEF Threads
<1>2. CASE incomingConnection(c) /\ CanAccept
  <2>1. c \notin Threads /\ Threads' = Threads \cup {c}
    BY <1>2 DEF incomingConnection, Threads, TypeOK
  <2>2. Cardinality(Threads') = Cardinality(Threads) + 1
    BY <1>1, <2>1, FS_AddElement
  <2>3. ConnectedClients' = ConnectedClients + 1 /\ ConnectedClients < MaxConnections
    BY <1>2 DEF incomingConnection, CanAccept
  <2>4. QED
    BY <1>1, <2>2, <2>3 DEF ConnectionsCounted
<1>3. CASE incomingConnection(c) /\ ~CanAccept
  <2>1. UNCHANGED <<thread, ConnectedClients>>
    BY <1>3 DEF incomingConnection
  <2>2. QED
    BY <2>1, SameThreads DEF TypeOK
<1>4. CASE slotClientDisconnected(c)
  <2>1. c \in Threads /\ Threads' = Threads \ {c}
    BY <1>4 DEF slotClientDisconnected, Threads, TypeOK
  <2>2. Cardinality(Threads') = Cardinality(Threads) - 1 /\ IsFiniteSet(Threads')
    BY <1>1, <2>1, FS_RemoveElement
  <2>3. Cardinality(Threads') \in Nat
    BY <2>2, FS_CardinalityType
  <2>4. ConnectedClients' = ConnectedClients - 1
    BY <1>4 DEF slotClientDisconnected
  <2>5. QED
    BY <1>1, <2>2, <2>3, <2>4 DEF ConnectionsCounted
<1>5. QED
  BY <1>2, <1>3, <1>4

LEMMA ConnectionStep ==
    ASSUME IInv, NEW c \in Client, incomingConnection(c) \/ slotClientDisconnected(c)
    PROVE  IInv'
<1>0. TypeOK /\ ConnectionsCounted /\ ThreadSound(c)
  BY DEF IInv
<1>1. ConnectionsCounted' /\ ConnectedClients' \in Nat
  BY <1>0, ThreadsComeAndGo
<1>2. CASE incomingConnection(c)
  <2>1. TypeOK'
    BY <1>0, <1>1, <1>2 DEF incomingConnection, TypeOK, rights
  <2>2. ThreadSound(c)'
    BY <1>0, <1>2 DEF incomingConnection, TypeOK, ThreadSound
  <2>3. QED
    BY <1>0, <1>1, <1>2, <2>1, <2>2, OneClient DEF incomingConnection, TypeOK
<1>3. CASE slotClientDisconnected(c)
  <2>1. TypeOK'
    BY <1>0, <1>1, <1>3, Nothing DEF slotClientDisconnected, TypeOK
  <2>2. ThreadSound(c)'
    BY <1>0, <1>3 DEF slotClientDisconnected, TypeOK, ThreadSound
  <2>3. QED
    BY <1>0, <1>1, <1>3, <2>1, <2>2, OneClient DEF slotClientDisconnected, TypeOK
<1>4. QED
  BY <1>2, <1>3

LEMMA EventStep ==
    ASSUME IInv, NEW c \in Client,
           \/ slotDisconnected(c) \/ run(c) \/ ConnectionLost(c) \/ LeaveEventLoop(c)
           \/ (\E n \in 1 .. Len(sent[c]) : readyRead(c, n))
           \/ Leave(c) \/ \E r \in Requests : Send(c, r)
    PROVE  IInv'
<1>0. TypeOK /\ ConnectionsCounted /\ ThreadSound(c)
  BY DEF IInv
<1>1. CASE slotDisconnected(c) \/ Leave(c)
  <2>1. TypeOK'
    <3>1. CASE slotDisconnected(c)
      BY <1>0, <3>1 DEF slotDisconnected, TypeOK, rights
    <3>2. CASE Leave(c)
      BY <1>0, <3>2, Nothing DEF Leave, TypeOK, rights
    <3>3. QED
      BY <1>1, <3>1, <3>2
  <2>2. ConnectionsCounted'
    BY <1>0, <1>1, SameThreads DEF slotDisconnected, Leave
  <2>3. QED
    BY <1>0, <1>1, <2>1, <2>2, OneClient DEF slotDisconnected, Leave, ThreadSound
<1>2. CASE run(c) \/ LeaveEventLoop(c)
  <2>1. TypeOK'
    BY <1>0, <1>2 DEF run, LeaveEventLoop, TypeOK, rights
  <2>2. ThreadSound(c)'
    BY <1>0, <1>2 DEF run, LeaveEventLoop, inEventLoop, TypeOK, ThreadSound
  <2>3. \A d \in Client : thread'[d] # "none" <=> thread[d] # "none"
    BY <1>0, <1>2 DEF run, LeaveEventLoop, inEventLoop, TypeOK
  <2>4. ConnectionsCounted'
    BY <1>0, <1>2, <2>3, SameThreads DEF run, LeaveEventLoop
  <2>5. QED
    BY <1>0, <1>2, <2>1, <2>2, <2>4, OneClient DEF run, LeaveEventLoop, TypeOK
<1>3. CASE ConnectionLost(c)
  <2>1. ConnectionTypes
    BY <1>0, <1>3, CloseTypes DEF ConnectionLost
  <2>2. TypeOK'
    BY <1>0, <1>3, <2>1 DEF ConnectionLost, ConnectionTypes, TypeOK, rights
  <2>3. ThreadSound(c)'
    BY <1>0, <1>3 DEF ConnectionLost, ThreadSound
  <2>4. ConnectionsCounted'
    BY <1>0, <1>3, SameThreads DEF ConnectionLost
  <2>5. QED
    BY <1>0, <1>3, <2>2, <2>3, <2>4, OneClient DEF ConnectionLost, TypeOK
<1>4. ASSUME NEW r \in Requests, Send(c, r) PROVE IInv'
  <2>1. asked' \in [Client -> 0 .. MaxLines]
    <3>1. asked[c] \in 0 .. MaxLines /\ MaxLines \in Nat /\ asked[c] < MaxLines
      BY <1>0, <1>4, ConfigAssumption DEF TypeOK, Send
    <3>2. asked[c] + 1 \in 0 .. MaxLines
      BY <3>1
    <3>3. asked' = asked \/ asked' = [asked EXCEPT ![c] = asked[c] + 1]
      BY <1>4 DEF Send
    <3>4. QED
      BY <1>0, <3>2, <3>3 DEF TypeOK
  <2>2. sent' \in [Client -> Seq(Request)]
    <3>1. sent[c] \in Seq(Request) /\ r \in Request
      BY <1>0, ConfigAssumption DEF TypeOK
    <3>2. Append(sent[c], r) \in Seq(Request)
      BY <3>1
    <3>3. sent' = [sent EXCEPT ![c] = Append(sent[c], r)]
      BY <1>4 DEF Send
    <3>4. QED
      BY <1>0, <3>2, <3>3 DEF TypeOK
  <2>3. TypeOK'
    BY <1>0, <1>4, <2>1, <2>2 DEF Send, TypeOK, rights
  <2>4. ThreadSound(c)'
    BY <1>0, <1>4 DEF Send, ThreadSound
  <2>5. ConnectionsCounted'
    BY <1>0, <1>4, SameThreads DEF Send
  <2>6. QED
    BY <1>0, <1>4, <2>3, <2>4, <2>5, OneClient DEF Send
<1>5. ASSUME NEW n \in 1 .. Len(sent[c]), readyRead(c, n) PROVE IInv'
  <2> DEFINE buffer == unread[c] \o SubSeq(sent[c], 1, n)
             rest == SubSeq(sent[c], n + 1, Len(sent[c]))
  <2>1. /\ buffer \in Seq(Request) /\ buffer # <<>> /\ rest \in Seq(Request)
        /\ Tail(buffer) \in Seq(Request) /\ Head(buffer) \in Request
    <3>1. unread[c] \in Seq(Request) /\ sent[c] \in Seq(Request)
      BY <1>0 DEF TypeOK
    <3>2. n \in Nat /\ 1 <= n /\ n <= Len(sent[c]) /\ Len(sent[c]) \in Nat
      BY <3>1
    <3>3. SubSeq(sent[c], 1, n) \in Seq(Request) /\ Len(SubSeq(sent[c], 1, n)) = n
          /\ rest \in Seq(Request)
      BY <3>1, <3>2, SubSeqOf
    <3>4. buffer \in Seq(Request) /\ Len(buffer) = Len(unread[c]) + n
      BY <3>1, <3>3, ConcatProperties
    <3>5. Len(unread[c]) \in Nat
      BY <3>1
    <3>6. buffer # <<>>
      BY <3>2, <3>4, <3>5, EmptySeq
    <3>7. QED
      BY <3>3, <3>4, <3>6, HeadTailProperties
  <2> HIDE DEF buffer, rest
  <2>2. /\ sent' = [sent EXCEPT ![c] = rest] /\ pc[c] = "idle" /\ thread[c] = "running"
        /\ UNCHANGED <<ConnectedClients, peer, thread, Socket, disconnected, exiting, asked,
                       AllowedToView, AllowedToChange, OldValue, value, answer>>
        /\ \/ unread' = [unread EXCEPT ![c] = buffer] /\ line' = line /\ pc' = pc
           \/ /\ unread' = [unread EXCEPT ![c] = Tail(buffer)]
              /\ line' = [line EXCEPT ![c] = Head(buffer)]
              /\ pc' = [pc EXCEPT ![c] = "tooLong"] \/ pc' = [pc EXCEPT ![c] = "handle"]
    BY <1>5 DEF readyRead, inEventLoop, Goto, rights, buffer, rest
  <2>3. TypeOK'
    <3>0. /\ sent \in [Client -> Seq(Request)] /\ unread \in [Client -> Seq(Request)]
          /\ line \in [Client -> Request \cup {NULL}]
          /\ pc \in [Client -> {"idle", "tooLong", "handle", "write", "validate", "restore"}]
      BY <1>0 DEF TypeOK
    <3>1. sent' \in [Client -> Seq(Request)]
      BY <2>1, <2>2, <3>0, OneChanged
    <3>2. unread' \in [Client -> Seq(Request)]
      BY <2>1, <2>2, <3>0, OneChanged
    <3>3. line' \in [Client -> Request \cup {NULL}]
      <4>1. Head(buffer) \in Request \cup {NULL}
        BY <2>1
      <4>2. line' = line \/ line' = [line EXCEPT ![c] = Head(buffer)]
        BY <2>2
      <4>3. QED
        BY <3>0, <4>1, <4>2, OneChanged
    <3>4. pc' \in [Client -> {"idle", "tooLong", "handle", "write", "validate", "restore"}]
      BY <2>2, <3>0
    <3>5. QED
      BY <1>0, <2>2, <3>1, <3>2, <3>3, <3>4 DEF TypeOK
  <2>4. ThreadSound(c)'
    BY <1>0, <2>1, <2>2 DEF TypeOK, ThreadSound
  <2>5. ConnectionsCounted'
    BY <1>0, <2>2, SameThreads
  <2>6. \A d \in Client \ {c} :
           pc'[d] = pc[d] /\ thread'[d] = thread[d] /\ line'[d] = line[d] /\ OldValue'[d] = OldValue[d]
    <3>1. DOMAIN pc = Client /\ DOMAIN line = Client
      BY <1>0 DEF TypeOK
    <3>2. QED
      BY <2>2, <3>1
  <2>7. QED
    BY <2>3, <2>4, <2>5, <2>6, OneClient
<1>6. QED
  BY <1>1, <1>2, <1>3, <1>4, <1>5

-----------------------------------------------------------------------------
(* The invariant.                                                             *)

LEMMA InitIInv == Init => IInv
<1> SUFFICES ASSUME Init PROVE IInv
  OBVIOUS
<1>1. TypeOK
  BY RequestTypes, Nothing DEF Init, TypeOK
<1>2. Threads = {}
  BY DEF Init, Threads
<1>3. ConnectionsCounted
  BY <1>2, FS_EmptySet, ConfigAssumption DEF Init, ConnectionsCounted
<1>4. \A c \in Client : ThreadSound(c)
  BY DEF Init, ThreadSound
<1>5. QED
  BY <1>1, <1>3, <1>4 DEF IInv

LEMMA NextIInv == IInv /\ [Next]_vars => IInv'
<1> SUFFICES ASSUME IInv, [Next]_vars PROVE IInv'
  OBVIOUS
<1>1. ASSUME NEW c \in Client,
             \/ incomingConnection(c) \/ MainStep(c) \/ ThreadStep(c)
             \/ (\E r \in Requests : Send(c, r)) \/ Leave(c)
      PROVE  IInv'
  BY <1>1, ConnectionStep, EventStep, HandlerStep DEF MainStep, ThreadStep
<1>2. CASE UNCHANGED vars
  <2>1. TypeOK' /\ Threads' = Threads
    BY <1>2 DEF IInv, TypeOK, Threads, vars, network, rights
  <2>2. ConnectionsCounted'
    BY <1>2, <2>1 DEF IInv, ConnectionsCounted, vars
  <2>3. ASSUME NEW c \in Client PROVE ThreadSound(c)'
    BY <1>2 DEF IInv, ThreadSound, vars, network
  <2>4. QED
    BY <2>1, <2>2, <2>3 DEF IInv
<1>3. QED
  BY <1>1, <1>2 DEF Next

LEMMA Invariance == Spec => []IInv
<1>1. QED
  BY InitIInv, NextIInv, PTL DEF Spec

\* The variables of the server and of its threads keep their types; the option always
\* has a value that its range accepts.
THEOREM ConfigTypes == Spec => []TypeOK
<1>1. IInv => TypeOK
  BY DEF IInv
<1>2. QED
  BY <1>1, Invariance, PTL

\* ConnectedClients is the number of client threads and never above MaxConnections,
\* whenever clients come, break off or are thrown out.
THEOREM ConnectionsStayCounted == Spec => []ConnectionsCounted
<1>1. IInv => ConnectionsCounted
  BY DEF IInv
<1>2. QED
  BY <1>1, Invariance, PTL

-----------------------------------------------------------------------------
(* One connection: the option is a register.                                  *)

\* What a set has done so far.
SetSound(c) ==
    /\ pc[c] = "write" => OldValue[c] = value
    /\ Validating(c) => OldValue[c] \in Valid
    /\ pc[c] = "validate" => value = line[c].new

RegisterInv == (\A c \in Client : SetSound(c)) /\ ((\A c \in Client : ~Validating(c)) => value \in Valid)

LEMMA OneThread ==
    ASSUME IInv, MaxConnections = 1, NEW c \in Client, thread[c] # "none"
    PROVE  /\ \A d \in Client \ {c} : thread[d] = "none" /\ pc[d] = "idle"
           /\ (\A d \in Client : Validating(d) => d = c)
<1>1. Threads \subseteq Client /\ IsFiniteSet(Threads) /\ Cardinality(Threads) <= 1
  BY ConfigAssumption, FS_Subset DEF Threads, IInv, ConnectionsCounted
<1>2. ASSUME NEW d \in Client \ {c}, thread[d] # "none" PROVE FALSE
  <2>1. {c, d} \in SUBSET Threads
    BY <1>2 DEF Threads
  <2>2. Cardinality({c, d}) <= Cardinality(Threads)
    BY <1>1, <2>1, FS_Subset
  <2>3. {c, d} = {c} \cup {d} /\ d \notin {c} /\ IsFiniteSet({c}) /\ Cardinality({c}) = 1
    BY FS_Singleton
  <2>4. Cardinality({c} \cup {d}) = 2
    BY <2>3, FS_AddElement
  <2>5. Cardinality(Threads) \in Nat
    BY <1>1, FS_CardinalityType
  <2>6. QED
    BY <1>1, <2>2, <2>3, <2>4, <2>5
<1>3. \A d \in Client \ {c} : thread[d] = "none" /\ pc[d] = "idle"
  BY <1>2 DEF IInv, ThreadSound
<1>4. QED
  BY <1>3 DEF Validating

\* The value that administrators see, before and after a step.
LEMMA OptionIs ==
    /\ (\A d \in Client : ~Validating(d)) => Option = value
    /\ (\A d \in Client : ~Validating(d)') => Option' = value'
    /\ \A c \in Client : Validating(c) /\ (\A d \in Client : Validating(d) => d = c) => Option = OldValue[c]
    /\ \A c \in Client :
          Validating(c)' /\ (\A d \in Client : Validating(d)' => d = c) => Option' = OldValue'[c]
<1>1. ASSUME NEW c \in Client, Validating(c), \A d \in Client : Validating(d) => d = c
      PROVE  (CHOOSE d \in Client : Validating(d)) = c
  BY <1>1
<1>2. ASSUME NEW c \in Client, Validating(c)', \A d \in Client : Validating(d)' => d = c
      PROVE  (CHOOSE d \in Client : Validating(d)') = c
  BY <1>2
<1>3. QED
  BY <1>1, <1>2 DEF Option

Simulated == RegisterInv' /\ [Register!Next]_<<Option, answer>>

\* Steps outside of the handlers.
LEMMA OutsideHandlers ==
    ASSUME IInv, RegisterInv, MaxConnections = 1,
           UNCHANGED <<pc, value>>,
           UNCHANGED answer \/ \E c \in Client : answer' = [answer EXCEPT ![c] = "none"],
           \A d \in Client : pc[d] # "idle" => OldValue'[d] = OldValue[d] /\ line'[d] = line[d]
    PROVE  Simulated
<1>1. \A d \in Client : Validating(d)' <=> Validating(d)
  BY DEF Validating
<1>2. \A d \in Client : SetSound(d)'
  BY DEF RegisterInv, SetSound, Validating
<1>3. Option' = Option
  <2>1. CASE \A d \in Client : ~Validating(d)
    BY <1>1, <2>1, OptionIs
  <2>2. ASSUME NEW c \in Client, Validating(c) PROVE Option' = Option
    <3>1. thread[c] # "none" /\ OldValue'[c] = OldValue[c]
      BY <2>2 DEF IInv, ThreadSound, Validating
    <3>2. \A d \in Client : Validating(d) => d = c
      BY <3>1, OneThread
    <3>3. QED
      BY <1>1, <2>2, <3>1, <3>2, OptionIs
  <2>3. QED
    BY <2>1, <2>2
<1>4. RegisterInv'
  BY <1>1, <1>2 DEF RegisterInv
<1>5. QED
  BY <1>3, <1>4 DEF Simulated, Register!Next, Register!Disconnected, Register!Answer

\* Handlers that do not set.
LEMMA OutsideSet ==
    ASSUME IInv, RegisterInv, MaxConnections = 1, NEW c \in Client, thread[c] # "none",
           pc[c] \in {"idle", "tooLong", "handle"}, pc'[c] \in {"idle", "tooLong", "handle"},
           \A d \in Client \ {c} : pc'[d] = pc[d],
           UNCHANGED value,
           answer' = answer \/ \E a \in {"ok", "error", value} : answer' = [answer EXCEPT ![c] = a]
    PROVE  Simulated
<1>1. \A d \in Client \ {c} : pc[d] = "idle"
  BY OneThread
<1>2. \A d \in Client : ~Validating(d) /\ ~Validating(d)' /\ SetSound(d)'
  BY <1>1 DEF Validating, SetSound
<1>3. Option = value /\ Option' = Option /\ value \in Valid
  BY <1>2, OptionIs DEF RegisterInv
<1>4. RegisterInv'
  BY <1>2, <1>3 DEF RegisterInv
<1>5. QED
  BY <1>3, <1>4 DEF Simulated, Register!Next, Register!Query, Register!Refuse, Register!Other,
                    Register!Answer

\* The steps of set.
LEMMA InsideSet ==
    ASSUME IInv, RegisterInv, MaxConnections = 1, NEW c \in Client,
           ReadOldValue(c) \/ WriteValue(c) \/ crossValidate(c) \/ RestoreValue(c)
    PROVE  Simulated
<1>0. TypeOK /\ ThreadSound(c) /\ SetSound(c)
  BY DEF IInv, RegisterInv
<1>1. thread[c] # "none"
  BY <1>0 DEF ReadOldValue, Handles, WriteValue, crossValidate, RestoreValue, ThreadSound
<1>2. \A d \in Client \ {c} : pc[d] = "idle" /\ pc'[d] = "idle"
  BY <1>0, <1>1, OneThread DEF ReadOldValue, WriteValue, crossValidate, RestoreValue,
     sendResult, Goto, TypeOK
<1>3. \A d \in Client \ {c} : ~Validating(d) /\ ~Validating(d)' /\ SetSound(d)'
  BY <1>2 DEF Validating, SetSound
<1>4. /\ Option = IF Validating(c) THEN OldValue[c] ELSE value
      /\ Option' = IF Validating(c)' THEN OldValue'[c] ELSE value'
  BY <1>3, OptionIs
<1>5. SetSound(c)' /\ (~Validating(c)' => value' \in Valid) => RegisterInv'
  BY <1>3 DEF RegisterInv
<1>6. ~Validating(c) => value \in Valid
  BY <1>3 DEF RegisterInv
<1>7. CASE ReadOldValue(c)
  <2>1. /\ pc[c] = "handle" /\ pc'[c] = "write" /\ OldValue'[c] = value
        /\ value' = value /\ answer' = answer
    BY <1>0, <1>7 DEF ReadOldValue, Handles, Goto, TypeOK
  <2>2. ~Validating(c) /\ ~Validating(c)' /\ SetSound(c)'
    BY <2>1 DEF Validating, SetSound
  <2>3. QED
    BY <1>4, <1>5, <1>6, <2>1, <2>2 DEF Simulated
<1>8. CASE WriteValue(c) /\ validate(line[c].new)
  <2>1. /\ pc[c] = "write" /\ pc'[c] = "validate" /\ OldValue' = OldValue /\ line' = line
        /\ value' = line[c].new /\ answer' = answer
    BY <1>0, <1>8 DEF WriteValue, Goto, TypeOK
  <2>2. ~Validating(c) /\ Validating(c)' /\ OldValue[c] = value
    BY <1>0, <2>1 DEF Validating, SetSound
  <2>3. SetSound(c)'
    BY <1>6, <2>1, <2>2 DEF SetSound
  <2>4. QED
    BY <1>4, <1>5, <2>1, <2>2, <2>3 DEF Simulated
<1>9. CASE WriteValue(c) /\ ~validate(line[c].new)
  <2>1. /\ pc[c] = "write" /\ pc'[c] = "idle" /\ value' = value
        /\ answer' = answer \/ answer' = [answer EXCEPT ![c] = "error"]
    BY <1>0, <1>9 DEF WriteValue, sendResult, Write, Goto, TypeOK
  <2>2. ~Validating(c) /\ ~Validating(c)' /\ SetSound(c)'
    BY <2>1 DEF Validating, SetSound
  <2>3. QED
    BY <1>4, <1>5, <1>6, <2>1, <2>2 DEF Simulated, Register!Next, Register!Refuse, Register!Answer
<1>10. CASE crossValidate(c) /\ value \in Valid
  <2>1. /\ pc[c] = "validate" /\ pc'[c] = "idle" /\ value' = value /\ value = line[c].new
        /\ answer' = answer \/ answer' = [answer EXCEPT ![c] = value]
    BY <1>0, <1>10 DEF crossValidate, sendResult, Write, Goto, TypeOK, SetSound
  <2>2. ~Validating(c)' /\ SetSound(c)'
    BY <2>1 DEF Validating, SetSound
  <2>3. Option' = value /\ value \in Valid
    BY <1>4, <1>10, <2>1, <2>2
  <2>4. QED
    BY <1>5, <2>1, <2>2, <2>3 DEF Simulated, Register!Next, Register!Set, Register!SetUnheard, Register!Answer
<1>11. CASE crossValidate(c) /\ value \notin Valid
  <2>1. /\ pc[c] = "validate" /\ pc'[c] = "restore" /\ value' = value /\ OldValue' = OldValue
        /\ answer' = answer
    BY <1>0, <1>11 DEF crossValidate, Goto, TypeOK
  <2>2. Validating(c) /\ Validating(c)' /\ SetSound(c)'
    BY <1>0, <2>1 DEF Validating, SetSound
  <2>3. QED
    BY <1>4, <1>5, <2>1, <2>2 DEF Simulated
<1>12. CASE RestoreValue(c)
  <2>1. /\ pc[c] = "restore" /\ pc'[c] = "idle" /\ value' = OldValue[c]
        /\ answer' = answer \/ answer' = [answer EXCEPT ![c] = "error"]
    BY <1>0, <1>12 DEF RestoreValue, Restored, sendResult, Write, Goto, TypeOK
  <2>2. Validating(c) /\ ~Validating(c)' /\ SetSound(c)' /\ OldValue[c] \in Valid
    BY <1>0, <2>1 DEF Validating, SetSound
  <2>3. QED
    BY <1>4, <1>5, <2>1, <2>2 DEF Simulated, Register!Next, Register!Refuse, Register!Answer
<1>13. QED
  BY <1>7, <1>8, <1>9, <1>10, <1>11, <1>12

LEMMA RegisterStep ==
    ASSUME IInv, RegisterInv, MaxConnections = 1, [Next]_vars
    PROVE  Simulated
<1>0. TypeOK /\ \A d \in Client : ThreadSound(d)
  BY DEF IInv
<1>1. ASSUME NEW c \in Client, incomingConnection(c) \/ MainStep(c) \/ run(c) \/ LeaveEventLoop(c) \/ Leave(c)
      PROVE  Simulated
  <2>1. /\ UNCHANGED <<pc, value>>
        /\ UNCHANGED answer \/ answer' = [answer EXCEPT ![c] = "none"]
    BY <1>1 DEF incomingConnection, MainStep, slotClientDisconnected, slotDisconnected, run,
                LeaveEventLoop, Leave
  <2>2. \A d \in Client : pc[d] # "idle" => OldValue'[d] = OldValue[d] /\ line'[d] = line[d]
    <3>1. CASE slotClientDisconnected(c)
      BY <1>0, <3>1 DEF slotClientDisconnected, ThreadSound, TypeOK
    <3>2. CASE ~slotClientDisconnected(c)
      BY <1>1, <3>2 DEF incomingConnection, MainStep, slotDisconnected, run, LeaveEventLoop, Leave
    <3>3. QED
      BY <3>1, <3>2
  <2>3. QED
    BY <2>1, <2>2, OutsideHandlers
<1>2. ASSUME NEW c \in Client, ConnectionLost(c) \/ \E r \in Requests : Send(c, r)
      PROVE  Simulated
  <2>1. UNCHANGED <<pc, value, answer, OldValue, line>>
    BY <1>2 DEF ConnectionLost, Send
  <2>2. QED
    BY <2>1, OutsideHandlers
<1>3. ASSUME NEW c \in Client,
             \/ StreamTooLong(c) \/ BlankLine(c) \/ ParseFails(c) \/ Ping(c) \/ Login(c) \/ NotLoggedIn(c)
             \/ query(c) \/ OtherRequest(c) \/ NotAllowedToSet(c)
             \/ (\E n \in 1 .. Len(sent[c]) : readyRead(c, n))
      PROVE  Simulated
  <2>1. thread[c] # "none" /\ pc[c] \in {"idle", "tooLong", "handle"}
    BY <1>0, <1>3 DEF StreamTooLong, ThreadSound, inEventLoop, readyRead, BlankLine, ParseFails, Ping, Login, NotLoggedIn,
                query, OtherRequest, NotAllowedToSet, Handles
  <2>2. /\ UNCHANGED value
        /\ UNCHANGED pc \/ Goto(c, "idle") \/ Goto(c, "handle") \/ Goto(c, "tooLong")
    BY <1>3 DEF StreamTooLong, readyRead, BlankLine, ParseFails, Ping, Login, NotLoggedIn,
                query, OtherRequest, NotAllowedToSet, sendResult, sendError
  <2>3. pc'[c] \in {"idle", "tooLong", "handle"} /\ \A d \in Client \ {c} : pc'[d] = pc[d]
    BY <1>0, <2>1, <2>2 DEF Goto, TypeOK
  <2>4. answer' = answer \/ \E a \in {"ok", "error", value} : answer' = [answer EXCEPT ![c] = a]
    BY <1>3 DEF StreamTooLong, readyRead, BlankLine, ParseFails, Ping, Login, NotLoggedIn,
                query, OtherRequest, NotAllowedToSet, sendResult, sendError, Write
  <2>5. QED
    BY <2>1, <2>2, <2>3, <2>4, OutsideSet
<1>4. ASSUME NEW c \in Client, ThreadStep(c) PROVE Simulated
  BY <1>1, <1>2, <1>3, <1>4, InsideSet DEF ThreadStep, Handler
<1>5. CASE UNCHANGED vars
  BY <1>5, OutsideHandlers DEF vars
<1>6. QED
  BY <1>1, <1>2, <1>4, <1>5 DEF Next

\* With MaxConnections at its default of 1 the option behaves as one that a set
\* changes at once or not at all, as clsBaseConfigOverNet::set means it to.
THEOREM OneConnectionKeepsPromise ==
    ASSUME MaxConnections = 1
    PROVE  Spec => ImplementsOption
<1>1. Init => RegisterInv /\ Register!Init
  <2> SUFFICES ASSUME Init PROVE RegisterInv /\ Register!Init
    OBVIOUS
  <2>1. \A c \in Client : ~Validating(c)
    BY DEF Init, Validating
  <2>2. RegisterInv
    BY DEF Init, RegisterInv, SetSound, Validating
  <2>3. Register!Init
    BY <2>1, OptionIs DEF Init, Register!Init
  <2>4. QED
    BY <2>2, <2>3
<1>2. IInv /\ RegisterInv /\ [Next]_vars => RegisterInv' /\ [Register!Next]_(Register!vars)
  BY RegisterStep DEF Simulated, Register!vars
<1>3. QED
  BY <1>1, <1>2, Invariance, PTL DEF Spec, ImplementsOption, Register!Spec

=============================================================================
