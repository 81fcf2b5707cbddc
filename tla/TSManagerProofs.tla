--------------------------- MODULE TSManagerProofs ---------------------------
(***************************************************************************)
(* Proofs about the translation calls of the load balancer, for any number *)
(* of calls and servers, any scores, and any number of changes of them.    *)
(***************************************************************************)
EXTENDS TSManager, TLAPS

\* A connection that is new, or whose socket was refused, has nothing on its way.
Fresh(c) == c = [NewConnection EXCEPT !.sock = c.sock, !.response = c.response]

\* The queues of a connection, whether or not its socket is still open: until the login is
\* answered there is one message at most and it is of the login; then there is none of it.
Logins == {m \in Message : m.rpc = "login"}
Texts  == {m \in Message : m.rpc # "login"}
OnTheWay(c) == IF c.loggedIn THEN Texts ELSE Logins

Alone(c) ==
    \/ c.requests = <<>> /\ c.replies = <<>> /\ Len(c.lines) <= 1
    \/ c.requests = <<>> /\ c.lines = <<>> /\ Len(c.replies) <= 1
    \/ c.replies = <<>> /\ c.lines = <<>> /\ Len(c.requests) <= 1

Queued(c) ==
    /\ c.requests \in Seq(OnTheWay(c)) /\ c.replies \in Seq(OnTheWay(c)) /\ c.lines \in Seq(OnTheWay(c))
    /\ ~c.loggedIn => Alone(c)

\* What a call may ask a server, and what it may be answered: a translation only
\* when a server has made it.
Question == {m \in Message : m.rpc \in {"login", "rpcTranslate"}}
Reply(done) == {m \in Message : m.ok => m.rpc = "login" \/ (m.rpc = "rpcTranslate" /\ done)}

Honest(c, done) ==
    /\ c.requests \in Seq(Question)
    /\ c.replies \in Seq(Reply(done)) /\ c.lines \in Seq(Reply(done))
    /\ c.response = "none" \/ (c.response = "rpcTranslate" /\ done)

\* The inductive invariant.  A call that polls has its queues in order; the queues of
\* all are honest; no call has been tried again, for no response ever says that the
\* connection was lost.
CallSound(c) ==
    /\ waiting(c) => Queued(conn[c]) /\ (conn[c].sock = "connecting" => Fresh(conn[c]))
    /\ Honest(conn[c], c \in translated)
    /\ tries[c] = 0 /\ outcome[c] # "MaxTriesFailed"
    /\ outcome[c] = "pending" <=> pc[c] # "ended"
    /\ scan[c].at < 0 => pc[c] # "readAgain"

IInv == TypeOK /\ \A c \in Call : CallSound(c)

-----------------------------------------------------------------------------
(* Connections.                                                               *)

LEMMA ConnectionFields ==
    ASSUME NEW c \in Connection
    PROVE  /\ c.requests \in Seq(Message) /\ c.replies \in Seq(Message) /\ c.lines \in Seq(Message)
           /\ c.peer \in BOOLEAN /\ c.loggedIn \in BOOLEAN
           /\ c.sock \in {"closed", "connecting", "connected"}
           /\ c.response \in RPC \cup {"none", "SERVER_DISCONNECTED"}
BY DEF Connection

LEMMA FreshFields ==
    ASSUME NEW c, Fresh(c)
    PROVE  ~c.loggedIn /\ ~c.peer /\ c.requests = <<>> /\ c.replies = <<>> /\ c.lines = <<>>
BY DEF Fresh, NewConnection

\* A queue with one message, or none.
LEMMA SingleQueue ==
    /\ <<>> \in Seq(Message) /\ Len(<<>>) <= 1
    /\ \A q \in Seq(Message) :
          /\ Len(q) \in Nat /\ (q = <<>> <=> Len(q) = 0)
          /\ q # <<>> /\ Len(q) <= 1 => Tail(q) = <<>>
          /\ <<>> \o q = q
    /\ \A m \in Message : Len(Append(<<>>, m)) <= 1
<1>1. ASSUME NEW m \in Message PROVE Len(Append(<<>>, m)) <= 1
  OBVIOUS
<1>2. ASSUME NEW q \in Seq(Message), q # <<>>, Len(q) <= 1 PROVE Tail(q) = <<>>
  <2> DEFINE t == Tail(q)
  <2>1. Len(q) \in Nat /\ Len(q) # 0 /\ t \in Seq(Message) /\ Len(t) = Len(q) - 1
    BY <1>2
  <2>2. \A r \in Seq(Message) : Len(r) = 0 => r = <<>>
    OBVIOUS
  <2>3. \A k \in Nat : k # 0 /\ k <= 1 => k - 1 = 0
    OBVIOUS
  <2> HIDE DEF t
  <2>4. Len(t) = 0
    BY <1>2, <2>1, <2>3
  <2>5. t = <<>>
    BY <2>1, <2>2, <2>4
  <2>6. QED
    BY <2>5 DEF t
<1>3. QED
  BY <1>1, <1>2

LEMMA FreshIsQueued ==
    ASSUME NEW c, Fresh(c)
    PROVE  Queued(c)
<1>1. <<>> \in Seq(Logins)
  OBVIOUS
<1>2. QED
  BY <1>1, FreshFields, SingleQueue DEF Queued, Alone, OnTheWay

LEMMA ConnectIsFresh ==
    /\ connect(NewConnection) \in Connection /\ Fresh(connect(NewConnection))
<1>1. <<>> \in Seq(Message)
  OBVIOUS
<1>2. QED
  BY <1>1 DEF connect, NewConnection, Connection, Fresh

LEMMA ClosedIsQueued ==
    ASSUME NEW c \in Connection, Queued(c)
    PROVE  Closed(c) \in Connection /\ Closed(c).sock = "closed" /\ Queued(Closed(c))
BY DEF Closed, Queued, Alone, OnTheWay, Connection

\* The oldest request becomes the newest reply.
LEMMA AnsweredIsQueued ==
    ASSUME NEW c \in Connection, Queued(c), c.requests # <<>>, NEW ok \in BOOLEAN
    PROVE  Queued(Answered(c, ok))
<1> DEFINE T == OnTheWay(c)
           m == [Head(c.requests) EXCEPT !.ok = ok]
           d == Answered(c, ok)
<1>1. c.requests \in Seq(T) /\ c.replies \in Seq(T) /\ c.lines \in Seq(T)
  BY DEF Queued
<1>2. \A n \in T : [n EXCEPT !.ok = ok] \in T
  BY DEF OnTheWay, Logins, Texts, Message
<1>3. /\ d.requests = Tail(c.requests) /\ d.replies = Append(c.replies, m) /\ d.lines = c.lines
      /\ d.loggedIn = c.loggedIn
  BY DEF Answered, Connection
<1> HIDE DEF T, d
<1>4. Head(c.requests) \in T
  BY <1>1
<1>5. m \in T
  BY <1>2, <1>4
<1> HIDE DEF m
<1>6. Tail(c.requests) \in Seq(T) /\ Append(c.replies, m) \in Seq(T)
  BY <1>1, <1>5
<1>7. Alone(c) => Alone(d)
  <2>1. m \in Message /\ c.requests \in Seq(Message)
    BY <1>5, ConnectionFields DEF T, OnTheWay, Logins, Texts
  <2>2. QED
    BY <1>3, <2>1, SingleQueue DEF Alone
<1>8. OnTheWay(d) = T
  BY <1>3 DEF OnTheWay, T
<1>9. QED
  BY <1>1, <1>3, <1>6, <1>7, <1>8 DEF Queued, d

LEMMA AbandonedIsQueued ==
    ASSUME NEW c \in Connection, Queued(c)
    PROVE  Queued(Abandoned(c))
<1> DEFINE d == Abandoned(c)
<1>1. d.requests = <<>> /\ d.replies = <<>> /\ d.lines = c.lines /\ d.loggedIn = c.loggedIn
  BY DEF Abandoned, Connection
<1> HIDE DEF d
<1>2. OnTheWay(d) = OnTheWay(c) /\ <<>> \in Seq(OnTheWay(c))
  BY <1>1 DEF OnTheWay
<1>3. Alone(c) => Alone(d)
  BY <1>1, SingleQueue DEF Alone
<1>4. QED
  BY <1>1, <1>2, <1>3 DEF Queued, d

\* Replies become lines.
LEMMA ArrivedIsQueued ==
    ASSUME NEW c \in Connection, Queued(c), NEW n \in 1..Len(c.replies)
    PROVE  LET d == Arrived(c, n)
           IN  d \in Connection /\ d.sock = c.sock /\ Queued(d) /\ d.lines # <<>>
<1> DEFINE d == Arrived(c, n)
           head == SubSeq(c.replies, 1, n)
           left == SubSeq(c.replies, n + 1, Len(c.replies))
<1>1. ASSUME NEW T, c.replies \in Seq(T), c.lines \in Seq(T)
      PROVE  c.lines \o head \in Seq(T) /\ left \in Seq(T)
  <2>1. head \in Seq(T) /\ left \in Seq(T)
    BY <1>1
  <2> HIDE DEF head, left
  <2>2. QED
    BY <1>1, <2>1
<1>2. c.requests \in Seq(Message) /\ c.replies \in Seq(Message) /\ c.lines \in Seq(Message)
  BY ConnectionFields
<1>3. d = [c EXCEPT !.lines = c.lines \o head, !.replies = left]
  BY DEF Arrived
<1> HIDE DEF d, head, left
<1>4. /\ d.requests = c.requests /\ d.replies = left /\ d.lines = c.lines \o head
      /\ d.sock = c.sock /\ d.loggedIn = c.loggedIn
  BY <1>3 DEF Connection
<1>5. d \in Connection
  BY <1>1, <1>2, <1>3 DEF Connection
<1>6. OnTheWay(d) = OnTheWay(c)
  BY <1>4 DEF OnTheWay
<1>7. d.replies \in Seq(OnTheWay(c)) /\ d.lines \in Seq(OnTheWay(c))
  BY <1>1, <1>4 DEF Queued
<1>8. c.lines \o head # <<>>
  <2> DEFINE q == c.replies  r == c.lines
  <2>1. q \in Seq(Message) /\ r \in Seq(Message) /\ Len(q) \in Nat /\ Len(r) \in Nat /\ n \in 1..Len(q)
    BY <1>2
  <2>2. head \in Seq(Message) /\ Len(head) = n
    BY <2>1 DEF head
  <2> HIDE DEF q, r
  <2>3. Len(r \o head) = Len(r) + n /\ n # 0 /\ n \in Nat
    BY <2>1, <2>2
  <2>4. Len(r \o head) # 0 /\ r \o head \in Seq(Message)
    BY <2>1, <2>2, <2>3
  <2>5. QED
    BY <2>4 DEF r
<1>9. Alone(c) => Alone(d)
  <2> SUFFICES ASSUME Alone(c) PROVE Alone(d)
    OBVIOUS
  <2> DEFINE q == c.replies
  <2>1. q \in Seq(Message) /\ Len(q) \in Nat /\ n \in 1..Len(q) /\ Len(q) # 0
    BY <1>2
  <2>2. Len(q) <= 1 /\ c.requests = <<>> /\ c.lines = <<>>
    <3>1. q # <<>>
      BY <2>1, SingleQueue
    <3>2. QED
      BY <3>1 DEF Alone
  <2>3. Len(q) = 1 /\ n = 1
    <3>1. \A k \in Nat : k # 0 /\ k <= 1 => k = 1 /\ 1..k = {1}
      OBVIOUS
    <3> HIDE DEF q
    <3>2. Len(q) = 1 /\ 1..Len(q) = {1}
      BY <2>1, <2>2, <3>1
    <3>3. QED
      BY <2>1, <3>2
  <2>4. head = q /\ left = <<>>
    BY <2>1, <2>3 DEF head, left
  <2>5. <<>> \o q = q
    BY <2>1
  <2>6. d.requests = <<>> /\ d.replies = <<>> /\ d.lines = q
    BY <1>4, <2>2, <2>4, <2>5
  <2>7. QED
    BY <2>2, <2>6 DEF Alone
<1>10. QED
  BY <1>4, <1>5, <1>6, <1>7, <1>8, <1>9 DEF Queued, d

\* Reading the answer to the login empties the queues; after it no line is of the login.
LEMMA ReadIsQueued ==
    ASSUME NEW c \in Connection, Queued(c), c.lines # <<>>
    PROVE  LET d == slotReadyRead(c)
           IN  /\ d \in Connection /\ d.sock = c.sock /\ Queued(d)
               /\ Reaction(c) = "login" => d.loggedIn
               /\ c.loggedIn => Head(c.lines).rpc # "login"
<1> DEFINE d == slotReadyRead(c)
<1>1. /\ c.requests \in Seq(Message) /\ c.replies \in Seq(Message) /\ c.lines \in Seq(Message)
      /\ c.loggedIn \in BOOLEAN
  BY ConnectionFields
<1>2. /\ Head(c.lines) \in Message /\ Head(c.lines) \in OnTheWay(c)
      /\ Tail(c.lines) \in Seq(Message) /\ Tail(c.lines) \in Seq(OnTheWay(c))
  BY <1>1 DEF Queued
<1>3. /\ d.requests = c.requests /\ d.replies = c.replies /\ d.lines = Tail(c.lines)
      /\ d.sock = c.sock /\ d.loggedIn = (c.loggedIn \/ Reaction(c) = "login")
      /\ d \in Connection
  BY <1>2 DEF slotReadyRead, Connection, Reaction, Message
<1>4. Reaction(c) = "login" => ~c.loggedIn
  BY DEF Reaction
<1>5. c.loggedIn => Head(c.lines).rpc # "login"
  BY <1>2 DEF OnTheWay, Texts
<1> HIDE DEF d
<1>6. CASE Reaction(c) = "login"
  <2>1. Alone(c)
    BY <1>4, <1>6 DEF Queued
  <2>2. d.requests = <<>> /\ d.replies = <<>> /\ d.lines = <<>>
    BY <1>1, <1>3, <2>1, SingleQueue DEF Alone
  <2>3. <<>> \in Seq(Texts)
    OBVIOUS
  <2>4. d.requests \in Seq(Texts) /\ d.replies \in Seq(Texts) /\ d.lines \in Seq(Texts)
    BY <2>2, <2>3
  <2>5. d.loggedIn
    BY <1>3, <1>6
  <2>6. QED
    BY <1>3, <1>5, <2>4, <2>5 DEF Queued, OnTheWay, d
<1>7. CASE Reaction(c) # "login"
  <2>1. d.loggedIn = c.loggedIn
    BY <1>1, <1>3, <1>7
  <2>2. OnTheWay(d) = OnTheWay(c)
    BY <2>1 DEF OnTheWay
  <2>3. Alone(c) => Alone(d)
    <3>1. Tail(c.lines) \in Seq(Message) /\ Len(c.lines) # 0
      BY <1>1, <1>2
    <3>2. QED
      BY <1>1, <1>3, SingleQueue DEF Alone
  <2>4. QED
    BY <1>2, <1>3, <1>5, <1>7, <2>1, <2>2, <2>3 DEF Queued, d
<1>8. QED
  BY <1>6, <1>7

\* A request is sent: the login first, when nothing else is on the way, and the text after it.
LEMMA SentIsQueued ==
    ASSUME NEW c \in Connection, NEW rpc \in {"login", "rpcTranslate"},
           \/ rpc = "login" /\ ~c.loggedIn /\ c.requests = <<>> /\ c.replies = <<>> /\ c.lines = <<>>
           \/ rpc = "rpcTranslate" /\ c.loggedIn /\ Queued(c)
    PROVE  LET d == sendRequest(c, rpc)
           IN  d \in Connection /\ d.sock = c.sock /\ Queued(d)
<1> DEFINE T == OnTheWay(c)
           request == [rpc |-> rpc, ok |-> TRUE, current |-> TRUE]
           d == sendRequest(c, rpc)
<1>1. /\ c.requests \in Seq(T) /\ c.replies \in Seq(T) /\ c.lines \in Seq(T)
      /\ T \subseteq Message /\ request \in T
  <2>1. <<>> \in Seq(T)
    OBVIOUS
  <2>2. T \subseteq Message /\ request \in T
    BY DEF OnTheWay, Logins, Texts, Message, RPC
  <2>3. QED
    BY <2>1, <2>2 DEF Queued
<1>2. ASSUME NEW q \in Seq(T)
      PROVE  Outdated(q) \in Seq(T) /\ (q = <<>> => Outdated(q) = <<>>)
  <2>1. Len(q) \in Nat /\ DOMAIN q = 1..Len(q) /\ \A i \in DOMAIN q : q[i] \in T
    OBVIOUS
  <2>2. \A m \in T : [m EXCEPT !.current = FALSE] \in T
    BY DEF OnTheWay, Logins, Texts, Message
  <2>3. \A i \in DOMAIN q : [q[i] EXCEPT !.current = FALSE] \in T
    BY <2>1, <2>2
  <2> HIDE DEF T
  <2>4. Outdated(q) \in [1..Len(q) -> T]
    BY <2>1, <2>3 DEF Outdated
  <2>5. QED
    BY <2>1, <2>4
<1>3. /\ d = [c EXCEPT !.requests = d.requests, !.replies = d.replies, !.lines = d.lines]
      /\ d.requests = IF c.peer THEN Append(Outdated(c.requests), request) ELSE c.requests
      /\ d.replies = Outdated(c.replies) /\ d.lines = Outdated(c.lines)
      /\ d.sock = c.sock /\ d.loggedIn = c.loggedIn
  BY DEF sendRequest, Connection
<1>4. OnTheWay(d) = T
  BY <1>3 DEF OnTheWay
<1> HIDE DEF T, d, request
<1>5. Append(Outdated(c.requests), request) \in Seq(T)
  BY <1>1, <1>2
<1>6. d.requests \in Seq(T) /\ d.replies \in Seq(T) /\ d.lines \in Seq(T)
  BY <1>1, <1>2, <1>3, <1>5
<1>7. \A q \in Seq(T) : q \in Seq(Message)
  BY <1>1
<1>8. d \in Connection
  BY <1>3, <1>6, <1>7 DEF Connection
<1>9. ~d.loggedIn => Alone(d)
  <2> SUFFICES ASSUME ~d.loggedIn PROVE Alone(d)
    OBVIOUS
  <2>1. c.requests = <<>> /\ c.replies = <<>> /\ c.lines = <<>>
    BY <1>3
  <2>2. d.replies = <<>> /\ d.lines = <<>> /\ (d.requests = <<>> \/ d.requests = Append(<<>>, request))
    BY <1>1, <1>2, <1>3, <2>1
  <2>3. request \in Message
    BY <1>1
  <2>4. QED
    BY <2>2, <2>3, SingleQueue DEF Alone
<1>10. QED
  BY <1>3, <1>4, <1>6, <1>8, <1>9 DEF Queued, d

\* Whatever the state of the socket, an answer and a loss keep the types.
LEMMA ServerKeepsType ==
    ASSUME NEW c \in Connection
    PROVE  /\ Abandoned(c) \in Connection /\ Abandoned(c).sock = c.sock
           /\ \A ok \in BOOLEAN : c.requests # <<>> =>
                 Answered(c, ok) \in Connection /\ Answered(c, ok).sock = c.sock
<1>1. c.requests \in Seq(Message) /\ c.replies \in Seq(Message)
  BY ConnectionFields
<1>2. <<>> \in Seq(Message)
  OBVIOUS
<1>3. Abandoned(c) \in Connection /\ Abandoned(c).sock = c.sock
  BY <1>2 DEF Abandoned, Connection
<1>4. ASSUME NEW ok \in BOOLEAN, c.requests # <<>>
      PROVE  Answered(c, ok) \in Connection /\ Answered(c, ok).sock = c.sock
  <2>1. Head(c.requests) \in Message /\ Tail(c.requests) \in Seq(Message)
    BY <1>1, <1>4
  <2>2. [Head(c.requests) EXCEPT !.ok = ok] \in Message
    BY <2>1 DEF Message
  <2>3. Append(c.replies, [Head(c.requests) EXCEPT !.ok = ok]) \in Seq(Message)
    BY <1>1, <2>2
  <2>4. QED
    BY <2>1, <2>3 DEF Answered, Connection
<1>5. QED
  BY <1>3, <1>4

-----------------------------------------------------------------------------
(* Honest queues.                                                             *)

LEMMA NewIsHonest ==
    ASSUME NEW done \in BOOLEAN
    PROVE  /\ NewConnection \in Connection /\ Honest(NewConnection, done)
           /\ Honest(connect(NewConnection), done)
<1>1. <<>> \in Seq(Message) /\ <<>> \in Seq(Question) /\ <<>> \in Seq(Reply(done))
  OBVIOUS
<1>2. QED
  BY <1>1 DEF NewConnection, Connection, Honest, connect

\* Outdating changes neither what a message asks nor what it answers.
LEMMA OutdatedIsHonest ==
    ASSUME NEW done \in BOOLEAN
    PROVE  /\ \A q \in Seq(Question) : Outdated(q) \in Seq(Question)
           /\ \A q \in Seq(Reply(done)) : Outdated(q) \in Seq(Reply(done))
<1>1. \A m \in Question : [m EXCEPT !.current = FALSE] \in Question
  BY DEF Question, Message
<1>2. \A m \in Reply(done) : [m EXCEPT !.current = FALSE] \in Reply(done)
  BY DEF Reply, Message
<1>3. ASSUME NEW q \in Seq(Question) PROVE Outdated(q) \in Seq(Question)
  <2>1. Len(q) \in Nat /\ DOMAIN q = 1..Len(q) /\ \A i \in DOMAIN q : q[i] \in Question
    OBVIOUS
  <2>2. QED
    BY <1>1, <2>1 DEF Outdated
<1>4. ASSUME NEW q \in Seq(Reply(done)) PROVE Outdated(q) \in Seq(Reply(done))
  <2>1. Len(q) \in Nat /\ DOMAIN q = 1..Len(q) /\ \A i \in DOMAIN q : q[i] \in Reply(done)
    OBVIOUS
  <2>2. QED
    BY <1>2, <2>1 DEF Outdated
<1>5. QED
  BY <1>3, <1>4

LEMMA SendIsHonest ==
    ASSUME NEW c \in Connection, NEW done \in BOOLEAN, Honest(c, done),
           NEW rpc \in {"login", "rpcTranslate"}
    PROVE  Honest(sendRequest(c, rpc), done)
<1> DEFINE request == [rpc |-> rpc, ok |-> TRUE, current |-> TRUE]
           d == sendRequest(c, rpc)
<1>1. request \in Question
  BY DEF Question, Message, RPC
<1>2. /\ d.requests = IF c.peer THEN Append(Outdated(c.requests), request) ELSE c.requests
      /\ d.replies = Outdated(c.replies) /\ d.lines = Outdated(c.lines) /\ d.response = c.response
  BY DEF sendRequest, Connection
<1> HIDE DEF request, d
<1>3. /\ c.requests \in Seq(Question) /\ Outdated(c.requests) \in Seq(Question)
      /\ Outdated(c.replies) \in Seq(Reply(done)) /\ Outdated(c.lines) \in Seq(Reply(done))
  BY OutdatedIsHonest DEF Honest
<1>4. d.requests \in Seq(Question)
  BY <1>1, <1>2, <1>3
<1>5. QED
  BY <1>2, <1>3, <1>4 DEF Honest, d

\* The answer to a text counts as its translation when it is not an error.
LEMMA AnswerIsHonest ==
    ASSUME NEW c \in Connection, NEW done \in BOOLEAN, Honest(c, done), c.requests # <<>>,
           NEW ok \in BOOLEAN, NEW now \in BOOLEAN, done => now,
           ok /\ Head(c.requests).rpc = "rpcTranslate" => now
    PROVE  Honest(Answered(c, ok), now)
<1> DEFINE m == [Head(c.requests) EXCEPT !.ok = ok]
           d == Answered(c, ok)
<1>1. c.requests \in Seq(Question) /\ Head(c.requests) \in Question /\ Tail(c.requests) \in Seq(Question)
  BY DEF Honest
<1>2. m \in Reply(now)
  BY <1>1 DEF Question, Message, Reply
<1>3. Reply(done) \subseteq Reply(now)
  BY DEF Reply
<1>4. c.replies \in Seq(Reply(now)) /\ c.lines \in Seq(Reply(now))
  BY <1>3 DEF Honest
<1>5. /\ d.requests = Tail(c.requests) /\ d.replies = Append(c.replies, m) /\ d.lines = c.lines
      /\ d.response = c.response
  BY DEF Answered, Connection
<1> HIDE DEF m, d
<1>6. Append(c.replies, m) \in Seq(Reply(now))
  BY <1>2, <1>4
<1>7. QED
  BY <1>1, <1>4, <1>5, <1>6 DEF Honest, d

LEMMA AbandonIsHonest ==
    ASSUME NEW c \in Connection, NEW done \in BOOLEAN, Honest(c, done)
    PROVE  Honest(Abandoned(c), done)
<1>1. <<>> \in Seq(Question) /\ <<>> \in Seq(Reply(done))
  OBVIOUS
<1>2. QED
  BY <1>1 DEF Abandoned, Connection, Honest

LEMMA ArrivalIsHonest ==
    ASSUME NEW c \in Connection, NEW done \in BOOLEAN, Honest(c, done), NEW n \in 1..Len(c.replies)
    PROVE  Honest(Arrived(c, n), done)
<1> DEFINE q == c.replies  d == Arrived(c, n)
<1>1. q \in Seq(Reply(done)) /\ c.lines \in Seq(Reply(done)) /\ Len(q) \in Nat /\ n \in 1..Len(q)
  BY DEF Honest
<1>2. SubSeq(q, 1, n) \in Seq(Reply(done)) /\ SubSeq(q, n + 1, Len(q)) \in Seq(Reply(done))
  BY <1>1
<1>3. c.lines \o SubSeq(q, 1, n) \in Seq(Reply(done))
  BY <1>1, <1>2
<1>4. /\ d.requests = c.requests /\ d.replies = SubSeq(q, n + 1, Len(q))
      /\ d.lines = c.lines \o SubSeq(q, 1, n) /\ d.response = c.response
  BY DEF Arrived, Connection
<1>5. QED
  BY <1>2, <1>3, <1>4 DEF Honest

\* After the login the line that is the response is the translation.
LEMMA ReadIsHonest ==
    ASSUME NEW c \in Connection, NEW done \in BOOLEAN, Honest(c, done), Queued(c), c.lines # <<>>
    PROVE  Honest(slotReadyRead(c), done)
<1> DEFINE d == slotReadyRead(c)
<1>1. /\ c.lines \in Seq(Reply(done)) /\ Head(c.lines) \in Reply(done) /\ Tail(c.lines) \in Seq(Reply(done))
      /\ c.lines \in Seq(Message)
  BY ConnectionFields DEF Honest
<1>2. /\ d.requests = c.requests /\ d.replies = c.replies /\ d.lines = Tail(c.lines)
      /\ d.response = IF Reaction(c) = "response" THEN Head(c.lines).rpc ELSE c.response
  BY DEF slotReadyRead, Connection, Reaction
<1>3. Reaction(c) = "response" => Head(c.lines).ok /\ c.loggedIn
  BY DEF Reaction
<1>4. c.loggedIn => Head(c.lines).rpc # "login"
  BY ReadIsQueued
<1>5. Reaction(c) = "response" => Head(c.lines).rpc = "rpcTranslate" /\ done
  BY <1>1, <1>3, <1>4 DEF Reply
<1> HIDE DEF d
<1>6. QED
  BY <1>1, <1>2, <1>5 DEF Honest, d

-----------------------------------------------------------------------------
(* Steps of a call.                                                           *)

LEMMA AbandonKeepsFresh ==
    ASSUME NEW c \in Connection, Fresh(c)
    PROVE  Fresh(Abandoned(c))
<1>1. ~c.peer /\ c.requests = <<>> /\ c.replies = <<>>
  BY FreshFields
<1>2. Abandoned(c) = c
  BY <1>1 DEF Abandoned, Connection
<1>3. QED
  BY <1>2

\* The connection is accepted: the login is the only thing on its way.
LEMMA AcceptedIsQueued ==
    ASSUME NEW c \in Connection, Fresh(c), NEW done \in BOOLEAN, Honest(c, done)
    PROVE  LET d == slotConnected(c)
           IN  d \in Connection /\ d.sock = "connected" /\ Queued(d) /\ Honest(d, done)
<1> DEFINE d == slotConnected(c)
           e == [c EXCEPT !.sock = "connected", !.peer = TRUE]
<1>1. /\ e \in Connection /\ e.requests = c.requests /\ e.replies = c.replies /\ e.lines = c.lines
      /\ e.response = c.response /\ e.sock = "connected" /\ e.loggedIn = c.loggedIn
  BY DEF Connection
<1>2. d = sendRequest(e, "login")
  BY DEF slotConnected
<1> HIDE DEF d, e
<1>3. d \in Connection /\ d.sock = "connected" /\ Queued(d)
  BY <1>1, <1>2, FreshFields, SentIsQueued
<1>4. Honest(e, done)
  BY <1>1 DEF Honest
<1>5. Honest(d, done)
  BY <1>1, <1>2, <1>4, SendIsHonest
<1>6. QED
  BY <1>3, <1>5 DEF d

\* Replies arrive, one line is read, and the text follows the login.
LEMMA ReadyReadIsQueued ==
    ASSUME NEW c \in Connection, c.sock = "connected", Queued(c),
           NEW done \in BOOLEAN, Honest(c, done), NEW n \in 1..Len(c.replies)
    PROVE  LET d == AfterRead(Arrived(c, n))
           IN  d \in Connection /\ d.sock = "connected" /\ Queued(d) /\ Honest(d, done)
<1> DEFINE a == Arrived(c, n)  r == slotReadyRead(a)  d == AfterRead(a)
<1>1. a \in Connection /\ a.sock = "connected" /\ Queued(a) /\ a.lines # <<>>
  BY ArrivedIsQueued
<1>2. Honest(a, done)
  BY ArrivalIsHonest
<1>3. d = IF Reaction(a) = "login" THEN sendRequest(r, "rpcTranslate") ELSE r
  BY DEF AfterRead
<1> HIDE DEF a, d
<1>4. r \in Connection /\ r.sock = "connected" /\ Queued(r) /\ (Reaction(a) = "login" => r.loggedIn)
  BY <1>1, ReadIsQueued
<1>5. Honest(r, done)
  BY <1>1, <1>2, ReadIsHonest
<1> HIDE DEF r
<1>6. CASE Reaction(a) = "login"
  BY <1>3, <1>4, <1>5, <1>6, SentIsQueued, SendIsHonest DEF d, a
<1>7. CASE Reaction(a) # "login"
  BY <1>3, <1>4, <1>5, <1>7 DEF d, a
<1>8. QED
  BY <1>6, <1>7

\* A step of one call leaves the others alone.
LEMMA OneCall ==
    ASSUME IInv, NEW c \in Call, TypeOK', CallSound(c)',
           \A d \in Call \ {c} :
              /\ pc'[d] = pc[d] /\ conn'[d] = conn[d] /\ tries'[d] = tries[d]
              /\ outcome'[d] = outcome[d] /\ scan'[d] = scan[d]
              /\ d \in translated' <=> d \in translated
    PROVE  IInv'
<1>1. ASSUME NEW d \in Call \ {c} PROVE CallSound(d)'
  <2>1. CallSound(d)
    BY DEF IInv
  <2>2. (d \in translated') = (d \in translated)
    OBVIOUS
  <2>3. QED
    BY <2>1, <2>2 DEF CallSound, waiting
<1>2. QED
  BY <1>1 DEF IInv

-----------------------------------------------------------------------------
(* The inductive invariant.                                                   *)

LEMMA InitIInv == Init => IInv
<1> SUFFICES ASSUME Init PROVE IInv
  OBVIOUS
<1> USE ManagerAssumption
<1>1. NewConnection \in Connection /\ \A done \in BOOLEAN : Honest(NewConnection, done)
  BY NewIsHonest
<1>2. StartScan \in [at : -1..Servers-1, best : Score, index : Index, next : -1..Servers-1]
      /\ StartScan.at >= 0
  BY DEF StartScan, Index
<1>3. TypeOK
  BY <1>1, <1>2 DEF Init, TypeOK, Index
<1>4. ASSUME NEW c \in Call PROVE CallSound(c)
  <2>1. (c \in translated) \in BOOLEAN
    OBVIOUS
  <2>2. Honest(conn[c], c \in translated)
    BY <1>1, <2>1 DEF Init
  <2>3. QED
    BY <1>2, <2>2 DEF Init, CallSound, waiting
<1>5. QED
  BY <1>3, <1>4 DEF IInv

\* Steps that only move a call on: its connection is as it was, and no answer of it is used.
LEMMA MovesOn ==
    ASSUME IInv, NEW c \in Call,
           \/ UnknownDirection(c) \/ \E p \in -1..Servers : Begin(c, p)
           \/ ReadScore(c) \/ ReadScoreAgain(c) \/ NoServerAvailable(c) \/ ChooseServer(c)
    PROVE  IInv'
<1> USE ManagerAssumption
<1>0. /\ TypeOK /\ CallSound(c)
      /\ scan[c] \in [at : -1..Servers-1, best : Score, index : Index, next : -1..Servers-1]
  BY DEF IInv, TypeOK
<1>1. CASE UnknownDirection(c) \/ NoServerAvailable(c)
  <2>1. TypeOK'
    BY <1>0, <1>1 DEF UnknownDirection, NoServerAvailable, End, Goto, TypeOK
  <2>2. CallSound(c)'
    BY <1>0, <1>1 DEF UnknownDirection, NoServerAvailable, End, Goto, TypeOK, CallSound, waiting
  <2>3. QED
    BY <1>1, <2>1, <2>2, OneCall DEF UnknownDirection, NoServerAvailable, End, Goto, IInv, TypeOK
<1>2. ASSUME NEW p \in -1..Servers, Begin(c, p) PROVE IInv'
  <2>1. ASSUME p \in Active PROVE TypeOK'
    <3>1. p \in Index
      BY <2>1 DEF Index
    <3>2. /\ pc' = [pc EXCEPT ![c] = "connect"] /\ pref' = [pref EXCEPT ![c] = p]
          /\ UNCHANGED <<score, up, changes, LastUsedServer, scan, tries, conn, outcome, translated>>
      BY <1>2, <2>1 DEF Begin, Goto
    <3>3. TypeOK'
      BY <1>0, <3>1, <3>2 DEF TypeOK, Index
    <3>4. QED
      BY <3>3
  <2>2. ASSUME p \notin Active PROVE TypeOK'
    BY <1>0, <1>2, <2>2 DEF Begin, Goto, TypeOK
  <2>3. CallSound(c)'
    BY <1>0, <1>2 DEF Begin, Goto, TypeOK, CallSound, waiting
  <2>4. QED
    BY <1>2, <2>1, <2>2, <2>3, OneCall DEF Begin, Goto, IInv, TypeOK
<1>3. CASE ReadScore(c)
  <2> DEFINE s == [scan[c] EXCEPT !.at = scan[c].at - 1]
  <2>1. s \in [at : -1..Servers-1, best : Score, index : Index, next : -1..Servers-1]
    <3>1. scan[c].at - 1 \in -1..Servers-1
      BY <1>0, <1>3 DEF ReadScore
    <3>2. QED
      BY <1>0, <3>1
  <2>2. scan' = scan \/ scan' = [scan EXCEPT ![c] = s]
    BY <1>0, <1>3 DEF ReadScore, TypeOK
  <2> HIDE DEF s
  <2>3. scan' \in [Call -> [at : -1..Servers-1, best : Score, index : Index, next : -1..Servers-1]]
    BY <1>0, <2>1, <2>2 DEF TypeOK
  <2>4. TypeOK'
    BY <1>0, <1>3, <2>3 DEF ReadScore, Goto, TypeOK
  <2>5. CallSound(c)'
    BY <1>0, <1>3 DEF ReadScore, Goto, TypeOK, CallSound, waiting
  <2>6. QED
    BY <1>3, <2>4, <2>5, OneCall DEF ReadScore, Goto, IInv, TypeOK
<1>4. CASE ReadScoreAgain(c)
  <2>1. scan[c].at \in Index
    BY <1>0, <1>4 DEF ReadScoreAgain, CallSound, Index
  <2>2. TypeOK'
    BY <1>0, <1>4, <2>1 DEF ReadScoreAgain, Goto, TypeOK, Index
  <2>3. CallSound(c)'
    BY <1>0, <1>4 DEF ReadScoreAgain, Goto, TypeOK, CallSound, waiting
  <2>4. QED
    BY <1>4, <2>2, <2>3, OneCall DEF ReadScoreAgain, Goto, IInv, TypeOK
<1>5. CASE ChooseServer(c)
  <2>1. Chosen(c) \in Index
    BY <1>0 DEF Chosen, Index
  <2>2. TypeOK'
    BY <1>0, <1>5, <2>1 DEF ChooseServer, Goto, TypeOK, Index
  <2>3. CallSound(c)'
    BY <1>0, <1>5 DEF ChooseServer, Goto, TypeOK, CallSound, waiting
  <2>4. QED
    BY <1>5, <2>2, <2>3, OneCall DEF ChooseServer, Goto, IInv, TypeOK
<1>6. QED
  BY <1>1, <1>2, <1>3, <1>4, <1>5

\* A call's connection becomes another that is sound and honest, while it polls.
LEMMA Reconnects ==
    ASSUME IInv, NEW c \in Call, NEW d \in Connection, Queued(d), Honest(d, c \in translated),
           d.sock = "connecting" => Fresh(d),
           pref[c] \in Index, outcome[c] = "pending",
           conn' = [conn EXCEPT ![c] = d], pc' = [pc EXCEPT ![c] = "wait"],
           UNCHANGED <<score, up, changes, LastUsedServer, pref, scan, tries, outcome, translated>>
    PROVE  IInv'
<1>0. TypeOK /\ CallSound(c)
  BY DEF IInv
<1>1. TypeOK'
  BY <1>0 DEF TypeOK
<1>2. conn'[c] = d /\ pc'[c] = "wait" /\ outcome'[c] = "pending" /\ tries'[c] = 0
  BY <1>0 DEF TypeOK, CallSound
<1>3. (c \in translated') = (c \in translated)
  OBVIOUS
<1>4. CallSound(c)'
  BY <1>2, <1>3 DEF CallSound, waiting
<1>5. QED
  BY <1>0, <1>1, <1>4, OneCall DEF TypeOK

LEMMA ConnectionStep ==
    ASSUME IInv, NEW c \in Call,
           \/ Connect(c) \/ Accepted(c) \/ Refused(c) \/ Disconnected(c)
           \/ \E n \in 1..2 : ReadyRead(c, n)
    PROVE  IInv'
<1> DEFINE done == c \in translated
<1>0. /\ TypeOK /\ CallSound(c) /\ conn[c] \in Connection
      /\ done \in BOOLEAN /\ Honest(conn[c], done)
      /\ pc[c] \in {"connect", "wait"} => pref[c] \in Index /\ outcome[c] = "pending"
  BY DEF IInv, TypeOK, CallSound
<1> HIDE DEF done
<1>w. waiting(c) => /\ Queued(conn[c]) /\ (conn[c].sock = "connecting" => Fresh(conn[c]))
                    /\ pc = [pc EXCEPT ![c] = "wait"]
                    /\ pref[c] \in Index /\ outcome[c] = "pending"
  BY <1>0 DEF CallSound, waiting, TypeOK
<1>1. CASE Connect(c)
  <2> DEFINE d == connect(NewConnection)
  <2>1. d \in Connection /\ Fresh(d) /\ Honest(d, done)
    BY <1>0, ConnectIsFresh, NewIsHonest
  <2> HIDE DEF d
  <2>2. Queued(d)
    BY <2>1, FreshIsQueued
  <2>3. /\ conn' = [conn EXCEPT ![c] = d] /\ pc' = [pc EXCEPT ![c] = "wait"]
        /\ pref[c] \in Index /\ outcome[c] = "pending"
        /\ UNCHANGED <<score, up, changes, LastUsedServer, pref, scan, tries, outcome, translated>>
    BY <1>0, <1>1 DEF Connect, Goto, d
  <2>4. QED
    BY <2>1, <2>2, <2>3, Reconnects DEF done
<1>2. CASE Accepted(c)
  <2> DEFINE d == slotConnected(conn[c])
  <2>1. d \in Connection /\ d.sock = "connected" /\ Queued(d) /\ Honest(d, done)
    BY <1>0, <1>w, <1>2, AcceptedIsQueued DEF Accepted
  <2>2. /\ conn' = [conn EXCEPT ![c] = d]
        /\ UNCHANGED <<score, up, changes, LastUsedServer, pc, pref, scan, tries, outcome, translated>>
    BY <1>2 DEF Accepted
  <2> HIDE DEF d
  <2>3. QED
    BY <1>w, <1>2, <2>1, <2>2, Reconnects DEF done, Accepted
<1>3. CASE Refused(c) \/ Disconnected(c)
  <2> DEFINE d == Closed(conn[c])
  <2>1. d \in Connection /\ d.sock = "closed" /\ Queued(d)
    BY <1>0, <1>w, <1>3, ClosedIsQueued DEF Refused, Disconnected
  <2>2. Honest(d, done)
    BY <1>0 DEF Closed, Connection, Honest
  <2>3. conn' = [conn EXCEPT ![c] = d]
    BY <1>0, <1>3 DEF Refused, Disconnected, TypeOK, Closed
  <2> HIDE DEF d
  <2>4. QED
    BY <1>w, <1>3, <2>1, <2>2, <2>3, Reconnects DEF done, Refused, Disconnected
<1>4. ASSUME NEW n \in 1..2, ReadyRead(c, n) PROVE IInv'
  <2> DEFINE d == AfterRead(Arrived(conn[c], n))
  <2>1. d \in Connection /\ d.sock = "connected" /\ Queued(d) /\ Honest(d, done)
    BY <1>0, <1>w, <1>4, ReadyReadIsQueued DEF ReadyRead
  <2>2. /\ conn' = [conn EXCEPT ![c] = d]
        /\ UNCHANGED <<score, up, changes, LastUsedServer, pc, pref, scan, tries, outcome, translated>>
    BY <1>4 DEF ReadyRead
  <2> HIDE DEF d
  <2>3. QED
    BY <1>w, <1>4, <2>1, <2>2, Reconnects DEF done, ReadyRead
<1>5. QED
  BY <1>1, <1>2, <1>3, <1>4

\* An answer may come for a call that is over.
LEMMA AnswerStep ==
    ASSUME IInv, NEW c \in Call, NEW ok \in BOOLEAN, Answer(c, ok)
    PROVE  IInv'
<1> DEFINE done == c \in translated  now == c \in translated'  d == Answered(conn[c], ok)
<1>0. /\ TypeOK /\ CallSound(c) /\ conn[c] \in Connection /\ conn[c].requests # <<>>
      /\ done \in BOOLEAN /\ now \in BOOLEAN /\ Honest(conn[c], done)
      /\ conn' = [conn EXCEPT ![c] = d]
      /\ UNCHANGED <<score, up, changes, LastUsedServer, pc, pref, scan, tries, outcome>>
  BY DEF IInv, TypeOK, CallSound, Answer
<1>1. /\ done => now
      /\ ok /\ Head(conn[c].requests).rpc = "rpcTranslate" => now
      /\ translated' \subseteq Call
      /\ \A e \in Call \ {c} : e \in translated' <=> e \in translated
  BY <1>0 DEF Answer, TypeOK
<1> HIDE DEF done, now
<1>2. d \in Connection /\ d.sock = conn[c].sock
  BY <1>0, ServerKeepsType
<1>3. Honest(d, now)
  BY <1>0, <1>1, AnswerIsHonest
<1>4. waiting(c) => Queued(d) /\ d.sock # "connecting"
  <2>1. CASE waiting(c)
    <3>1. Queued(conn[c])
      BY <1>0, <2>1 DEF CallSound
    <3>2. conn[c].sock # "connecting"
      BY <1>0, <2>1, FreshFields DEF CallSound
    <3>3. QED
      BY <1>0, <1>2, <3>1, <3>2, AnsweredIsQueued
  <2>2. QED
    BY <2>1
<1> HIDE DEF d
<1>5. TypeOK'
  BY <1>0, <1>1, <1>2 DEF TypeOK
<1>6. conn'[c] = d
  BY <1>0 DEF TypeOK
<1>7. CallSound(c)'
  BY <1>0, <1>3, <1>4, <1>6 DEF CallSound, waiting, now
<1>8. QED
  BY <1>0, <1>1, <1>5, <1>7, OneCall DEF TypeOK

\* A call ends by what it polls.
LEMMA PollStep ==
    ASSUME IInv, NEW c \in Call, TakeResponse(c) \/ TimeOut(c)
    PROVE  IInv'
<1> DEFINE done == c \in translated
<1>0. /\ TypeOK /\ CallSound(c) /\ conn[c] \in Connection
      /\ done \in BOOLEAN /\ Honest(conn[c], done)
  BY DEF IInv, TypeOK, CallSound
<1> HIDE DEF done
<1>1. ASSUME NEW d \in Connection, Honest(d, done), NEW result \in {"answered", "TimedOut"},
             conn' = [conn EXCEPT ![c] = d], End(c, result),
             UNCHANGED <<score, up, changes, LastUsedServer, pref, scan, tries, translated>>
      PROVE  IInv'
  <2>1. TypeOK'
    BY <1>0, <1>1 DEF TypeOK, End, Goto
  <2>2. conn'[c] = d /\ pc'[c] = "ended" /\ outcome'[c] = result
    BY <1>0, <1>1 DEF TypeOK, End, Goto
  <2>3. (c \in translated') = done
    BY <1>1 DEF done
  <2>4. CallSound(c)'
    BY <1>0, <1>1, <2>2, <2>3 DEF CallSound, waiting
  <2>5. QED
    BY <1>0, <1>1, <2>1, <2>4, OneCall DEF TypeOK, End, Goto
<1>2. CASE TakeResponse(c)
  <2>1. conn[c].response # "SERVER_DISCONNECTED"
    BY <1>0, <1>2 DEF TakeResponse, Honest
  <2>2. NewConnection \in Connection /\ Honest(NewConnection, done)
    BY <1>0, NewIsHonest
  <2>3. QED
    BY <1>1, <1>2, <2>1, <2>2 DEF TakeResponse
<1>3. CASE TimeOut(c)
  <2> DEFINE d == [NewConnection EXCEPT !.requests = conn[c].requests]
  <2>1. NewConnection \in Connection /\ Honest(NewConnection, done) /\ conn[c].requests \in Seq(Message)
    BY <1>0, NewIsHonest, ConnectionFields
  <2>2. /\ d \in Connection
        /\ d.requests = conn[c].requests /\ d.replies = NewConnection.replies
        /\ d.lines = NewConnection.lines /\ d.response = NewConnection.response
    BY <2>1 DEF Connection
  <2> HIDE DEF d
  <2>3. Honest(d, done)
    BY <1>0, <2>1, <2>2 DEF Honest
  <2>4. QED
    BY <1>1, <1>3, <2>2, <2>3 DEF TimeOut, d
<1>4. QED
  BY <1>2, <1>3

\* A server that goes down takes with it what its connections had on the way.
LEMMA EnvironmentStep ==
    ASSUME IInv, NEW i \in Index,
           ServerChanges(i) \/ \E value \in Score : ScoreChanges(i, value)
    PROVE  IInv'
<1> USE ManagerAssumption
<1>0. TypeOK /\ changes < MaxChanges /\ changes' = changes + 1
  BY DEF IInv, ServerChanges, ScoreChanges
<1>1. changes' \in 0..MaxChanges
  BY <1>0 DEF TypeOK
<1>2. ASSUME NEW value \in Score, ScoreChanges(i, value) PROVE IInv'
  <2>1. TypeOK'
    BY <1>0, <1>1, <1>2 DEF ScoreChanges, callVars, TypeOK
  <2>2. ASSUME NEW c \in Call PROVE CallSound(c)'
    <3>1. CallSound(c)
      BY DEF IInv
    <3>2. QED
      BY <1>2, <3>1 DEF ScoreChanges, callVars, CallSound, waiting
  <2>3. QED
    BY <2>1, <2>2 DEF IInv
<1>3. CASE ServerChanges(i)
  <2>1. \A c \in Call : conn'[c] = conn[c] \/ conn'[c] = Abandoned(conn[c])
    BY <1>3 DEF ServerChanges
  <2>2. \A c \in Call : conn[c] \in Connection /\ conn'[c] \in Connection
    BY <1>0, <2>1, ServerKeepsType DEF TypeOK
  <2>3. conn' \in [Call -> Connection]
    BY <1>3, <2>2 DEF ServerChanges
  <2>4. TypeOK'
    BY <1>0, <1>1, <1>3, <2>3 DEF ServerChanges, TypeOK
  <2>5. ASSUME NEW c \in Call PROVE CallSound(c)'
    <3> DEFINE done == c \in translated
    <3>1. CallSound(c) /\ done \in BOOLEAN /\ Honest(conn[c], done)
      BY DEF IInv, CallSound
    <3>2. done' = done
      BY <1>3 DEF ServerChanges
    <3> HIDE DEF done
    <3>3. Honest(conn'[c], done')
      BY <2>1, <2>2, <3>1, <3>2, AbandonIsHonest
    <3>4. waiting(c) => Queued(conn'[c]) /\ (conn'[c].sock = "connecting" => Fresh(conn'[c]))
      BY <2>1, <2>2, <3>1, AbandonedIsQueued, AbandonKeepsFresh, ServerKeepsType DEF CallSound
    <3>5. QED
      BY <1>3, <3>1, <3>3, <3>4 DEF ServerChanges, CallSound, waiting, done
  <2>6. QED
    BY <2>4, <2>5 DEF IInv
<1>4. QED
  BY <1>2, <1>3

LEMMA NextIInv == IInv /\ [Next]_vars => IInv'
<1> SUFFICES ASSUME IInv, [Next]_vars PROVE IInv'
  OBVIOUS
<1>1. ASSUME NEW c \in Call, Step(c) PROVE IInv'
  BY <1>1, MovesOn, ConnectionStep, PollStep DEF Step
<1>2. ASSUME NEW c \in Call, Event(c) PROVE IInv'
  BY <1>2, ConnectionStep, AnswerStep DEF Event
<1>3. ASSUME NEW i \in Index, ServerChanges(i) \/ \E value \in Score : ScoreChanges(i, value)
      PROVE  IInv'
  BY <1>3, EnvironmentStep
<1>4. CASE UNCHANGED vars
  <2>1. ASSUME NEW c \in Call PROVE CallSound(c)'
    <3>1. CallSound(c)
      BY DEF IInv
    <3>2. QED
      BY <1>4, <3>1 DEF vars, callVars, CallSound, waiting
  <2>2. TypeOK'
    BY <1>4 DEF IInv, TypeOK, vars, callVars
  <2>3. QED
    BY <2>1, <2>2 DEF IInv
<1>5. QED
  BY <1>1, <1>2, <1>3, <1>4 DEF Next

LEMMA Invariance == Spec => []IInv
<1>1. QED
  BY InitIInv, NextIInv, PTL DEF Spec

-----------------------------------------------------------------------------
(* Theorems.                                                                  *)

\* The variables of every call, and of the monitor it shares, keep their types; a call
\* that connects or polls has a server.
THEOREM CallTypes == Spec => []TypeOK
<1>1. IInv => TypeOK
  BY DEF IInv
<1>2. QED
  BY <1>1, Invariance, PTL

\* baseTranslation: on no connection is the text on its way before the answer to
\* the login has been read, whatever the server does.
THEOREM LoginBeforeText == Spec => []TextAfterLogin
<1>1. IInv => TextAfterLogin
  <2> SUFFICES ASSUME IInv, NEW c \in Call, waiting(c), ~conn[c].loggedIn
               PROVE  \A i \in DOMAIN InFlight(conn[c]) : InFlight(conn[c])[i].rpc = "login"
    BY DEF TextAfterLogin
  <2> DEFINE a == conn[c].requests  b == conn[c].replies  d == conn[c].lines  q == InFlight(conn[c])
  <2>1. a \in Seq(Logins) /\ b \in Seq(Logins) /\ d \in Seq(Logins)
    BY DEF IInv, CallSound, Queued, OnTheWay
  <2>2. q = a \o b \o d
    BY DEF InFlight
  <2> HIDE DEF a, b, d, q
  <2>3. q \in Seq(Logins)
    BY <2>1, <2>2
  <2>4. \A i \in DOMAIN q : q[i] \in Logins
    BY <2>3
  <2>5. QED
    BY <2>4 DEF Logins, q
<1>2. QED
  BY <1>1, Invariance, PTL

\* No call is at its second try, or has ended after the last one.
NotRetried == \A c \in Call : tries[c] = 0 /\ outcome[c] # "MaxTriesFailed"

\* TSManager's loop of MaxRetries never goes round: no response is ever the one
\* that says the connection was lost, so no call is tried on a second server.
THEOREM RetryIsUnreachable == Spec => []NotRetried
<1>1. IInv => NotRetried
  BY DEF IInv, CallSound, NotRetried
<1>2. QED
  BY <1>1, Invariance, PTL

\* The detailed calls implement what their clients are promised: a call ends once,
\* and with an answer only when a server has translated its text.
THEOREM CallsKeepTheirPromise == Spec => ImplementsTranslateCalls
<1>1. Init => Calls!Init
  BY DEF Init, Calls!Init
<1>2. IInv /\ [Next]_vars => [Calls!Next]_<<outcome, translated>>
  <2> SUFFICES ASSUME IInv, [Next]_vars PROVE [Calls!Next]_<<outcome, translated>>
    OBVIOUS
  <2>1. ASSUME NEW c \in Call, NEW result \in Calls!Failure, pc[c] # "ended",
               End(c, result), UNCHANGED translated
        PROVE  Calls!Next
    BY <2>1 DEF IInv, TypeOK, CallSound, End, Calls!Next, Calls!Throw
  <2>2. ASSUME NEW c \in Call, Step(c) PROVE [Calls!Next]_<<outcome, translated>>
    <3>1. CASE UnknownDirection(c) \/ NoServerAvailable(c) \/ TimeOut(c)
      BY <2>1, <3>1 DEF UnknownDirection, NoServerAvailable, TimeOut, CanTimeOut, waiting, Calls!Failure
    <3>2. CASE TakeResponse(c)
      <4>1. CallSound(c) /\ pc[c] = "wait" /\ conn[c].response # "none"
        BY <3>2 DEF IInv, TakeResponse, waiting
      <4>2. conn[c].response = "rpcTranslate" /\ c \in translated /\ outcome[c] = "pending"
        BY <4>1 DEF CallSound, Honest
      <4>3. outcome' = [outcome EXCEPT ![c] = "answered"] /\ UNCHANGED translated
        BY <3>2, <4>2 DEF TakeResponse, End
      <4>4. QED
        BY <4>2, <4>3 DEF Calls!Next, Calls!Return
    <3>3. CASE Connect(c) \/ (\E p \in -1..Servers : Begin(c, p)) \/ ReadScore(c)
               \/ ReadScoreAgain(c) \/ ChooseServer(c)
      BY <3>3 DEF Connect, Begin, ReadScore, ReadScoreAgain, ChooseServer
    <3>4. QED
      BY <2>2, <3>1, <3>2, <3>3 DEF Step
  <2>3. ASSUME NEW c \in Call, Event(c) PROVE [Calls!Next]_<<outcome, translated>>
    <3>1. ASSUME NEW ok \in BOOLEAN, Answer(c, ok) PROVE [Calls!Next]_<<outcome, translated>>
      BY <3>1 DEF Answer, Calls!Next, Calls!Translate
    <3>2. QED
      BY <2>3, <3>1 DEF Event, Accepted, Refused, Disconnected, ReadyRead
  <2>4. ASSUME NEW i \in Index, ServerChanges(i) \/ \E value \in Score : ScoreChanges(i, value)
        PROVE  UNCHANGED <<outcome, translated>>
    BY <2>4 DEF ServerChanges, ScoreChanges, callVars
  <2>5. CASE UNCHANGED vars
    BY <2>5 DEF vars, callVars
  <2>6. QED
    BY <2>2, <2>3, <2>4, <2>5 DEF Next
<1>3. QED
  BY <1>1, <1>2, Invariance, PTL DEF Spec, ImplementsTranslateCalls, Calls!Spec

=============================================================================
