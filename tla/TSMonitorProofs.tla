--------------------------- MODULE TSMonitorProofs ---------------------------
(***************************************************************************)
(* Proofs about the load balancer's monitor, for any number of servers,    *)
(* any statistics and any number of messages on the way.                   *)
(***************************************************************************)
EXTENDS TSMonitor, Integers, TLAPS

\* No message of a queue is an answer to, or is, the last request.
NoneCurrent(q) == \A i \in DOMAIN q : ~q[i].current

\* At most one message of a queue is.
OneCurrent(q) == \A i, j \in DOMAIN q : q[i].current /\ q[j].current => i = j

AllLogin(q) == \A i \in DOMAIN q : q[i].rpc = "login" /\ q[i].current
NoLogin(q)  == \A i \in DOMAIN q : q[i].rpc # "login"

\* The connection has at most one message of the last request, in one queue.
LastRequestOnce(c) ==
    /\ OneCurrent(c.requests) /\ OneCurrent(c.replies) /\ OneCurrent(c.lines)
    /\ NoneCurrent(c.requests) \/ NoneCurrent(c.replies)
    /\ NoneCurrent(c.requests) \/ NoneCurrent(c.lines)
    /\ NoneCurrent(c.replies) \/ NoneCurrent(c.lines)

NothingCurrent(c) == NoneCurrent(c.requests) /\ NoneCurrent(c.replies) /\ NoneCurrent(c.lines)

OnlyLogin(c)  == AllLogin(c.requests) /\ AllLogin(c.replies) /\ AllLogin(c.lines)
LoginGone(c) == NoLogin(c.requests) /\ NoLogin(c.replies) /\ NoLogin(c.lines)

\* A socket that is not connected has no state but its last response.
Fresh(c) == c = [NewConnection EXCEPT !.sock = c.sock, !.response = c.response]

\* What every operation of clsTranslationServer preserves.
Sound(c) ==
    /\ c \in Connection
    /\ c.sock # "connected" => Fresh(c)
    /\ LastRequestOnce(c)
    /\ ~c.loggedIn => OnlyLogin(c)
    /\ c.loggedIn => LoginGone(c)

-----------------------------------------------------------------------------
(* Queues.                                                                    *)

\* A message that is taken from the head of a queue.
LEMMA TailOfQueue ==
    ASSUME NEW q \in Seq(Message), q # <<>>
    PROVE  /\ Tail(q) \in Seq(Message)
           /\ Head(q) \in Message
           /\ OneCurrent(q) => OneCurrent(Tail(q))
           /\ NoneCurrent(q) => NoneCurrent(Tail(q)) /\ ~Head(q).current
           /\ OneCurrent(q) /\ Head(q).current => NoneCurrent(Tail(q))
           /\ AllLogin(q) => AllLogin(Tail(q)) /\ Head(q).rpc = "login" /\ Head(q).current
           /\ NoLogin(q) => NoLogin(Tail(q)) /\ Head(q).rpc # "login"
<1>1. Tail(q) \in Seq(Message) /\ Head(q) \in Message /\ Len(q) \in Nat \ {0}
      /\ DOMAIN q = 1..Len(q) /\ Head(q) = q[1]
      /\ DOMAIN Tail(q) = 1..Len(q)-1 /\ \A i \in 1..Len(q)-1 : Tail(q)[i] = q[i+1]
  OBVIOUS
<1>2. \A i \in DOMAIN Tail(q) : i + 1 \in DOMAIN q /\ Tail(q)[i] = q[i+1] /\ i + 1 # 1
  BY <1>1
<1>3. 1 \in DOMAIN q
  BY <1>1
<1>4. QED
  BY <1>1, <1>2, <1>3 DEF OneCurrent, NoneCurrent, AllLogin, NoLogin

\* A message that is put at the end of a queue.
LEMMA AppendToQueue ==
    ASSUME NEW q \in Seq(Message), NEW m \in Message
    PROVE  /\ Append(q, m) \in Seq(Message)
           /\ NoneCurrent(q) => OneCurrent(Append(q, m))
           /\ OneCurrent(q) /\ ~m.current => OneCurrent(Append(q, m))
           /\ NoneCurrent(q) /\ ~m.current => NoneCurrent(Append(q, m))
           /\ AllLogin(q) /\ m.rpc = "login" /\ m.current => AllLogin(Append(q, m))
           /\ NoLogin(q) /\ m.rpc # "login" => NoLogin(Append(q, m))
<1>1. Append(q, m) \in Seq(Message) /\ Len(q) \in Nat /\ DOMAIN q = 1..Len(q)
      /\ DOMAIN Append(q, m) = 1..Len(q)+1 /\ Append(q, m)[Len(q)+1] = m
      /\ \A i \in 1..Len(q) : Append(q, m)[i] = q[i]
  OBVIOUS
<1>2. QED
  BY <1>1 DEF OneCurrent, NoneCurrent, AllLogin, NoLogin

\* A new request outdates all messages.
LEMMA OutdatedQueue ==
    ASSUME NEW q \in Seq(Message)
    PROVE  /\ Outdated(q) \in Seq(Message)
           /\ NoneCurrent(Outdated(q))
           /\ NoLogin(q) => NoLogin(Outdated(q))
<1>1. Len(q) \in Nat /\ DOMAIN q = 1..Len(q) /\ \A i \in DOMAIN q : q[i] \in Message
  OBVIOUS
<1>2. \A i \in DOMAIN q : [q[i] EXCEPT !.current = FALSE] \in Message
  BY <1>1 DEF Message, RPC
<1>3. Outdated(q) \in Seq(Message)
  BY <1>1, <1>2 DEF Outdated
<1>4. \A i \in DOMAIN q : ~[q[i] EXCEPT !.current = FALSE].current
                          /\ [q[i] EXCEPT !.current = FALSE].rpc = q[i].rpc
  BY <1>1 DEF Message
<1>5. DOMAIN Outdated(q) = DOMAIN q
      /\ \A i \in DOMAIN q : Outdated(q)[i] = [q[i] EXCEPT !.current = FALSE]
  BY DEF Outdated
<1>6. QED
  BY <1>3, <1>4, <1>5 DEF NoneCurrent, NoLogin

\* n messages move from the head of a queue to the end of another one.
LEMMA MoveBetweenQueues ==
    ASSUME NEW q \in Seq(Message), NEW r \in Seq(Message), NEW n \in 1..Len(q)
    PROVE  LET moved == r \o SubSeq(q, 1, n)
               left  == SubSeq(q, n + 1, Len(q))
           IN  /\ moved \in Seq(Message) /\ left \in Seq(Message) /\ moved # <<>>
               /\ OneCurrent(q) => OneCurrent(left)
               /\ NoneCurrent(q) => NoneCurrent(left)
               /\ OneCurrent(q) /\ NoneCurrent(r) => OneCurrent(moved)
               /\ NoneCurrent(q) /\ OneCurrent(r) => OneCurrent(moved)
               /\ NoneCurrent(q) /\ NoneCurrent(r) => NoneCurrent(moved)
               /\ OneCurrent(q) => NoneCurrent(left) \/ NoneCurrent(SubSeq(q, 1, n))
               /\ NoneCurrent(r) /\ NoneCurrent(SubSeq(q, 1, n)) => NoneCurrent(moved)
               /\ AllLogin(q) => AllLogin(left)
               /\ AllLogin(q) /\ AllLogin(r) => AllLogin(moved)
               /\ NoLogin(q) => NoLogin(left)
               /\ NoLogin(q) /\ NoLogin(r) => NoLogin(moved)
<1> DEFINE head  == SubSeq(q, 1, n)
           left  == SubSeq(q, n + 1, Len(q))
           moved == r \o head
<1>1. /\ Len(q) \in Nat /\ Len(r) \in Nat /\ n \in Nat /\ 1 <= n /\ n <= Len(q)
      /\ DOMAIN q = 1..Len(q) /\ DOMAIN r = 1..Len(r)
  OBVIOUS
<1>2. head \in Seq(Message) /\ DOMAIN head = 1..n /\ Len(head) = n /\ \A i \in 1..n : head[i] = q[i]
  BY <1>1
<1>3. left \in Seq(Message) /\ DOMAIN left = 1..Len(q)-n /\ \A i \in 1..Len(q)-n : left[i] = q[n+i]
  BY <1>1
<1>4. moved \in Seq(Message) /\ DOMAIN moved = 1..Len(r)+n
      /\ \A i \in 1..Len(r)+n : moved[i] = IF i <= Len(r) THEN r[i] ELSE head[i - Len(r)]
  BY <1>1, <1>2
<1> HIDE DEF head, left, moved
<1>5. \A i \in DOMAIN left : i \in Int /\ left[i] = q[n+i] /\ n + i \in DOMAIN q
  BY <1>1, <1>3
<1>6. \A i \in DOMAIN moved : \/ i \in DOMAIN r /\ moved[i] = r[i]
                              \/ i - Len(r) \in DOMAIN head /\ i - Len(r) \in DOMAIN q
                                 /\ moved[i] = q[i - Len(r)] /\ moved[i] = head[i - Len(r)]
  BY <1>1, <1>2, <1>4
<1>7. moved # <<>>
  BY <1>1, <1>4
<1>8. OneCurrent(q) => OneCurrent(left)
  <2> SUFFICES ASSUME OneCurrent(q), NEW i \in DOMAIN left, NEW j \in DOMAIN left,
                      left[i].current, left[j].current
               PROVE  i = j
    BY DEF OneCurrent
  <2>1. n + i = n + j
    BY <1>5 DEF OneCurrent
  <2>2. QED
    BY <1>1, <1>5, <2>1
<1>9. NoneCurrent(q) => NoneCurrent(left)
  BY <1>5 DEF NoneCurrent
<1>10. OneCurrent(q) /\ NoneCurrent(r) => OneCurrent(moved)
  BY <1>1, <1>4, <1>6 DEF OneCurrent, NoneCurrent
<1>11. NoneCurrent(q) /\ OneCurrent(r) => OneCurrent(moved)
  BY <1>1, <1>4, <1>6 DEF OneCurrent, NoneCurrent
<1>12. /\ NoneCurrent(q) /\ NoneCurrent(r) => NoneCurrent(moved)
       /\ NoneCurrent(r) /\ NoneCurrent(head) => NoneCurrent(moved)
  BY <1>6 DEF NoneCurrent
<1>13. OneCurrent(q) => NoneCurrent(left) \/ NoneCurrent(head)
  BY <1>1, <1>2, <1>3, <1>5 DEF OneCurrent, NoneCurrent
<1>14. /\ AllLogin(q) => AllLogin(left)
       /\ AllLogin(q) /\ AllLogin(r) => AllLogin(moved)
       /\ NoLogin(q) => NoLogin(left)
       /\ NoLogin(q) /\ NoLogin(r) => NoLogin(moved)
  BY <1>5, <1>6 DEF AllLogin, NoLogin
<1>15. QED
  BY <1>3, <1>4, <1>7, <1>8, <1>9, <1>10, <1>11, <1>12, <1>13, <1>14 DEF head, left, moved

\* The messages in flight are those of the three queues.
LEMMA InFlightOfQueues ==
    ASSUME NEW c \in Connection
    PROVE  /\ (\A i \in DOMAIN InFlight(c) : ~InFlight(c)[i].current) <=> NothingCurrent(c)
           /\ OnlyLogin(c) => \A i \in DOMAIN InFlight(c) : InFlight(c)[i].rpc = "login"
           /\ LoginGone(c) => \A i \in DOMAIN InFlight(c) : InFlight(c)[i].rpc # "login"
<1> DEFINE a == c.requests  b == c.replies  d == c.lines  q == InFlight(c)
<1>1. a \in Seq(Message) /\ b \in Seq(Message) /\ d \in Seq(Message)
  BY DEF Connection
<1>2. /\ Len(a) \in Nat /\ Len(b) \in Nat /\ Len(d) \in Nat
      /\ DOMAIN a = 1..Len(a) /\ DOMAIN b = 1..Len(b) /\ DOMAIN d = 1..Len(d)
  BY <1>1
<1> HIDE DEF a, b, d
<1>3. q = a \o b \o d
  BY DEF InFlight, a, b, d
<1>4. /\ DOMAIN q = 1..Len(a)+Len(b)+Len(d)
      /\ \A i \in 1..Len(a)+Len(b)+Len(d) :
            q[i] = IF i <= Len(a) THEN a[i]
                   ELSE IF i <= Len(a) + Len(b) THEN b[i - Len(a)] ELSE d[i - Len(a) - Len(b)]
  BY <1>1, <1>2, <1>3
<1> HIDE DEF q
<1>5. \A i \in DOMAIN a : i \in DOMAIN q /\ q[i] = a[i]
  BY <1>2, <1>4
<1>6. \A i \in DOMAIN b : Len(a) + i \in DOMAIN q /\ q[Len(a) + i] = b[i]
  BY <1>2, <1>4
<1>7. \A i \in DOMAIN d : Len(a) + Len(b) + i \in DOMAIN q /\ q[Len(a) + Len(b) + i] = d[i]
  BY <1>2, <1>4
<1>8. \A i \in DOMAIN q : \/ i \in DOMAIN a /\ q[i] = a[i]
                          \/ i - Len(a) \in DOMAIN b /\ q[i] = b[i - Len(a)]
                          \/ i - Len(a) - Len(b) \in DOMAIN d /\ q[i] = d[i - Len(a) - Len(b)]
  BY <1>2, <1>4
<1>9. /\ (\A i \in DOMAIN q : ~q[i].current) <=> NoneCurrent(a) /\ NoneCurrent(b) /\ NoneCurrent(d)
      /\ AllLogin(a) /\ AllLogin(b) /\ AllLogin(d) => \A i \in DOMAIN q : q[i].rpc = "login"
      /\ NoLogin(a) /\ NoLogin(b) /\ NoLogin(d) => \A i \in DOMAIN q : q[i].rpc # "login"
  BY <1>5, <1>6, <1>7, <1>8 DEF NoneCurrent, AllLogin, NoLogin
<1>10. QED
  BY <1>9 DEF q, a, b, d, NothingCurrent, OnlyLogin, LoginGone

-----------------------------------------------------------------------------
(* The operations of clsTranslationServer.                                    *)

LEMMA ConnectionFields ==
    ASSUME NEW c \in Connection
    PROVE  /\ c.requests \in Seq(Message) /\ c.replies \in Seq(Message) /\ c.lines \in Seq(Message)
           /\ c.peer \in BOOLEAN /\ c.loggedIn \in BOOLEAN
           /\ c.sock \in {"closed", "connecting", "connected"}
           /\ c.response \in RPC \cup {"none", "SERVER_DISCONNECTED"}
BY DEF Connection

\* A connection that is new or was reset has nothing on the way.
LEMMA FreshIsSound ==
    ASSUME NEW c \in Connection, Fresh(c)
    PROVE  /\ Sound(c) /\ NothingCurrent(c)
           /\ ~c.loggedIn /\ ~c.peer
           /\ c.requests = <<>> /\ c.replies = <<>> /\ c.lines = <<>>
<1>1. ~c.loggedIn /\ ~c.peer /\ c.requests = <<>> /\ c.replies = <<>> /\ c.lines = <<>>
  BY DEF Fresh, NewConnection
<1>2. OneCurrent(<<>>) /\ NoneCurrent(<<>>) /\ AllLogin(<<>>)
  BY DEF OneCurrent, NoneCurrent, AllLogin
<1>3. QED
  BY <1>1, <1>2 DEF Sound, LastRequestOnce, NothingCurrent, OnlyLogin

LEMMA ResetConnect ==
    /\ connect(NewConnection) \in Connection /\ Fresh(connect(NewConnection))
    /\ connect(NewConnection).sock = "connecting"
    /\ \A c \in Connection : /\ reset(c) \in Connection /\ Fresh(reset(c)) /\ reset(c).sock = "closed"
                             /\ connect(reset(c)) \in Connection /\ Fresh(connect(reset(c)))
                             /\ connect(reset(c)).sock = "connecting"
<1>1. <<>> \in Seq(Message)
  OBVIOUS
<1>2. QED
  BY <1>1 DEF connect, reset, NewConnection, Connection, Fresh

\* After a request it is the only current message; the others are outdated.
LEMMA SendIsSound ==
    ASSUME NEW c \in Connection, Sound(c), c.sock = "connected", NEW rpc \in RPC,
           \/ c.loggedIn /\ rpc # "login"
           \/ ~c.loggedIn /\ rpc = "login" /\ c.requests = <<>> /\ c.replies = <<>> /\ c.lines = <<>>
    PROVE  LET d == sendRequest(c, rpc)
           IN  Sound(d) /\ d.sock = "connected" /\ d.loggedIn = c.loggedIn
<1> DEFINE request == [rpc |-> rpc, ok |-> TRUE, current |-> TRUE]
           d == sendRequest(c, rpc)
<1>1. c.requests \in Seq(Message) /\ c.replies \in Seq(Message) /\ c.lines \in Seq(Message)
      /\ c.loggedIn \in BOOLEAN
  BY ConnectionFields
<1>2. request \in Message /\ request.rpc = rpc /\ request.current
  BY DEF Message
<1>3. \A q \in Seq(Message) : /\ Outdated(q) \in Seq(Message) /\ NoneCurrent(Outdated(q))
                              /\ NoLogin(q) => NoLogin(Outdated(q))
                              /\ q = <<>> => AllLogin(Outdated(q))
  <2>1. \A q \in Seq(Message) : q = <<>> => DOMAIN Outdated(q) = {}
    BY DEF Outdated
  <2>2. QED
    BY <2>1, OutdatedQueue DEF AllLogin
<1>4. /\ Append(Outdated(c.requests), request) \in Seq(Message)
      /\ OneCurrent(Append(Outdated(c.requests), request))
      /\ NoLogin(c.requests) /\ rpc # "login" => NoLogin(Append(Outdated(c.requests), request))
      /\ c.requests = <<>> /\ rpc = "login" => AllLogin(Append(Outdated(c.requests), request))
  BY <1>1, <1>2, <1>3, AppendToQueue
<1>5. /\ d = [c EXCEPT !.requests = d.requests, !.replies = d.replies, !.lines = d.lines]
      /\ d.requests = IF c.peer THEN Append(Outdated(c.requests), request) ELSE c.requests
      /\ d.replies = Outdated(c.replies) /\ d.lines = Outdated(c.lines)
      /\ d.sock = c.sock /\ d.loggedIn = c.loggedIn
  BY DEF sendRequest, Connection
<1> HIDE DEF d
<1>6. /\ d.requests \in Seq(Message) /\ OneCurrent(d.requests)
      /\ d.replies \in Seq(Message) /\ d.lines \in Seq(Message)
      /\ NoneCurrent(d.replies) /\ NoneCurrent(d.lines)
  BY <1>1, <1>3, <1>4, <1>5 DEF Sound, LastRequestOnce
<1>7. d \in Connection
  BY <1>5, <1>6 DEF Connection
<1>8. LastRequestOnce(d)
  BY <1>6 DEF LastRequestOnce, OneCurrent, NoneCurrent
<1>9. ~d.loggedIn => OnlyLogin(d)
  BY <1>1, <1>3, <1>4, <1>5 DEF Sound, OnlyLogin, AllLogin
<1>10. d.loggedIn => LoginGone(d)
  BY <1>1, <1>3, <1>4, <1>5 DEF Sound, LoginGone
<1>11. QED
  BY <1>5, <1>7, <1>8, <1>9, <1>10 DEF Sound, d

\* A connection is new when it is established, so the login is alone on it.
LEMMA ConnectedIsSound ==
    ASSUME NEW c \in Connection, Fresh(c)
    PROVE  Sound(slotConnected(c)) /\ slotConnected(c).sock = "connected" /\ ~slotConnected(c).loggedIn
<1> DEFINE d == [c EXCEPT !.sock = "connected", !.peer = TRUE]
<1>1. /\ ~c.loggedIn /\ c.requests = <<>> /\ c.replies = <<>> /\ c.lines = <<>>
      /\ Sound(c) /\ NothingCurrent(c)
  BY FreshIsSound
<1>2. /\ d \in Connection /\ d.sock = "connected" /\ ~d.loggedIn
      /\ d.requests = <<>> /\ d.replies = <<>> /\ d.lines = <<>>
  BY <1>1 DEF Connection
<1>3. Sound(d)
  BY <1>1, <1>2 DEF Sound, LastRequestOnce, OnlyLogin, LoginGone
<1> HIDE DEF d
<1>4. Sound(sendRequest(d, "login")) /\ sendRequest(d, "login").sock = "connected"
      /\ sendRequest(d, "login").loggedIn = d.loggedIn
  BY <1>2, <1>3, SendIsSound DEF RPC
<1>5. slotConnected(c) = sendRequest(d, "login")
  BY DEF slotConnected, d
<1>6. QED
  BY <1>2, <1>4, <1>5

\* The oldest request becomes the newest reply.
LEMMA AnswerIsSound ==
    ASSUME NEW c \in Connection, Sound(c), c.requests # <<>>, NEW ok \in BOOLEAN
    PROVE  LET d == Answered(c, ok)
           IN  /\ Sound(d) /\ d.sock = c.sock /\ d.loggedIn = c.loggedIn
               /\ NothingCurrent(c) => NothingCurrent(d)
<1> DEFINE m == [Head(c.requests) EXCEPT !.ok = ok]
           d == Answered(c, ok)
<1>1. c.requests \in Seq(Message) /\ c.replies \in Seq(Message) /\ c.lines \in Seq(Message)
      /\ c.loggedIn \in BOOLEAN /\ c.sock \in {"closed", "connecting", "connected"}
  BY ConnectionFields
<1>2. /\ Tail(c.requests) \in Seq(Message) /\ Head(c.requests) \in Message
      /\ OneCurrent(Tail(c.requests))
      /\ NoneCurrent(c.requests) => NoneCurrent(Tail(c.requests)) /\ ~Head(c.requests).current
      /\ Head(c.requests).current => NoneCurrent(Tail(c.requests))
      /\ AllLogin(c.requests) => /\ AllLogin(Tail(c.requests))
                                 /\ Head(c.requests).rpc = "login" /\ Head(c.requests).current
      /\ NoLogin(c.requests) => NoLogin(Tail(c.requests)) /\ Head(c.requests).rpc # "login"
  BY <1>1, TailOfQueue DEF Sound, LastRequestOnce
<1>3. m \in Message /\ m.rpc = Head(c.requests).rpc /\ m.current = Head(c.requests).current
  BY <1>2 DEF Message
<1>4. /\ d = [c EXCEPT !.requests = Tail(c.requests), !.replies = Append(c.replies, m)]
      /\ d.requests = Tail(c.requests) /\ d.replies = Append(c.replies, m) /\ d.lines = c.lines
      /\ d.sock = c.sock /\ d.loggedIn = c.loggedIn
  BY DEF Answered, Connection
<1> HIDE DEF m, d
<1>5. /\ Append(c.replies, m) \in Seq(Message)
      /\ NoneCurrent(c.replies) => OneCurrent(Append(c.replies, m))
      /\ OneCurrent(c.replies) /\ ~m.current => OneCurrent(Append(c.replies, m))
      /\ NoneCurrent(c.replies) /\ ~m.current => NoneCurrent(Append(c.replies, m))
      /\ AllLogin(c.replies) /\ m.rpc = "login" /\ m.current => AllLogin(Append(c.replies, m))
      /\ NoLogin(c.replies) /\ m.rpc # "login" => NoLogin(Append(c.replies, m))
  BY <1>1, <1>3, AppendToQueue
<1>6. d \in Connection
  BY <1>2, <1>4, <1>5 DEF Connection
<1>7. LastRequestOnce(d)
  <2>1. ~NoneCurrent(c.requests) => NoneCurrent(c.replies) /\ NoneCurrent(c.lines)
    BY DEF Sound, LastRequestOnce
  <2>2. m.current => ~NoneCurrent(c.requests)
    BY <1>2, <1>3
  <2>3. CASE m.current
    BY <1>2, <1>3, <1>4, <1>5, <2>1, <2>2, <2>3 DEF Sound, LastRequestOnce
  <2>4. CASE ~m.current
    BY <1>2, <1>3, <1>4, <1>5, <2>1, <2>4 DEF Sound, LastRequestOnce
  <2>5. QED
    BY <2>3, <2>4
<1>8. c.sock = "connected"
  BY FreshIsSound DEF Sound
<1>9. (~d.loggedIn => OnlyLogin(d)) /\ (d.loggedIn => LoginGone(d))
  BY <1>2, <1>3, <1>4, <1>5 DEF Sound, OnlyLogin, LoginGone
<1>10. NothingCurrent(c) => NothingCurrent(d)
  BY <1>2, <1>3, <1>4, <1>5 DEF NothingCurrent
<1>11. QED
  BY <1>4, <1>6, <1>7, <1>8, <1>9, <1>10 DEF Sound, d

\* What was on the way is lost.
LEMMA AbandonIsSound ==
    ASSUME NEW c \in Connection, Sound(c)
    PROVE  LET d == Abandoned(c)
           IN  /\ Sound(d) /\ d.sock = c.sock /\ d.loggedIn = c.loggedIn
               /\ NothingCurrent(c) => NothingCurrent(d)
<1> DEFINE d == Abandoned(c)
           nothing == <<>>
<1>1. /\ nothing \in Seq(Message)
      /\ OneCurrent(nothing) /\ NoneCurrent(nothing) /\ AllLogin(nothing) /\ NoLogin(nothing)
  BY DEF OneCurrent, NoneCurrent, AllLogin, NoLogin
<1>2. d = [c EXCEPT !.peer = FALSE, !.requests = nothing, !.replies = nothing]
  BY DEF Abandoned
<1>3. Fresh(c) => c.peer = FALSE /\ c.requests = nothing /\ c.replies = nothing
  BY FreshIsSound
<1> HIDE DEF d, nothing
<1>4. /\ d.requests = nothing /\ d.replies = nothing /\ d.lines = c.lines
      /\ d.sock = c.sock /\ d.loggedIn = c.loggedIn /\ d.response = c.response
  BY <1>2 DEF Connection
<1>5. d \in Connection
  BY <1>1, <1>2 DEF Connection
<1>6. Fresh(c) => d = c
  BY <1>2, <1>3 DEF Connection
<1>7. LastRequestOnce(d) /\ (NothingCurrent(c) => NothingCurrent(d))
  BY <1>1, <1>4 DEF Sound, LastRequestOnce, NothingCurrent
<1>8. (~d.loggedIn => OnlyLogin(d)) /\ (d.loggedIn => LoginGone(d))
  BY <1>1, <1>4 DEF Sound, OnlyLogin, LoginGone
<1>9. QED
  BY <1>4, <1>5, <1>6, <1>7, <1>8 DEF Sound, d

\* Replies become lines; there is one to read then.
LEMMA ArrivalIsSound ==
    ASSUME NEW c \in Connection, Sound(c), c.sock = "connected", NEW n \in 1..Len(c.replies)
    PROVE  LET d == Arrived(c, n)
           IN  /\ Sound(d) /\ d.sock = "connected" /\ d.loggedIn = c.loggedIn /\ d.lines # <<>>
               /\ NothingCurrent(c) => NothingCurrent(d)
<1> DEFINE d == Arrived(c, n)
           head == SubSeq(c.replies, 1, n)
           moved == c.lines \o head
           left == SubSeq(c.replies, n + 1, Len(c.replies))
<1>1. c.requests \in Seq(Message) /\ c.replies \in Seq(Message) /\ c.lines \in Seq(Message)
      /\ c.loggedIn \in BOOLEAN
  BY ConnectionFields
<1>2. /\ d = [c EXCEPT !.lines = moved, !.replies = left]
      /\ d.requests = c.requests /\ d.replies = left /\ d.lines = moved
      /\ d.sock = c.sock /\ d.loggedIn = c.loggedIn
  BY DEF Arrived, Connection
<1>3. LET q == c.replies
          r == c.lines
      IN  /\ moved \in Seq(Message) /\ left \in Seq(Message) /\ moved # <<>>
          /\ OneCurrent(q) => OneCurrent(left)
          /\ NoneCurrent(q) => NoneCurrent(left)
          /\ OneCurrent(q) /\ NoneCurrent(r) => OneCurrent(moved)
          /\ NoneCurrent(q) /\ OneCurrent(r) => OneCurrent(moved)
          /\ NoneCurrent(q) /\ NoneCurrent(r) => NoneCurrent(moved)
          /\ OneCurrent(q) => NoneCurrent(left) \/ NoneCurrent(head)
          /\ NoneCurrent(r) /\ NoneCurrent(head) => NoneCurrent(moved)
          /\ AllLogin(q) => AllLogin(left)
          /\ AllLogin(q) /\ AllLogin(r) => AllLogin(moved)
          /\ NoLogin(q) => NoLogin(left)
          /\ NoLogin(q) /\ NoLogin(r) => NoLogin(moved)
  BY <1>1, MoveBetweenQueues
<1> HIDE DEF d, moved, left, head
<1>4. d \in Connection
  BY <1>2, <1>3 DEF Connection
<1>5. LastRequestOnce(d)
  BY <1>2, <1>3 DEF Sound, LastRequestOnce
<1>6. (~d.loggedIn => OnlyLogin(d)) /\ (d.loggedIn => LoginGone(d))
  BY <1>2, <1>3 DEF Sound, OnlyLogin, LoginGone
<1>7. NothingCurrent(c) => NothingCurrent(d)
  BY <1>2, <1>3 DEF NothingCurrent
<1>8. QED
  BY <1>2, <1>3, <1>4, <1>5, <1>6, <1>7 DEF Sound, d

\* After a response, or the answer to the login, nothing of the last request is
\* on the way: a score stands for the last request, and the login is gone.
LEMMA ReadIsSound ==
    ASSUME NEW c \in Connection, Sound(c), c.sock = "connected", c.lines # <<>>
    PROVE  LET d == slotReadyRead(c)
           IN  /\ Sound(d) /\ d.sock = "connected"
               /\ NothingCurrent(c) => NothingCurrent(d)
               /\ Reaction(c) = "ignore" => d.loggedIn = c.loggedIn
               /\ Reaction(c) = "response" => c.loggedIn /\ d.loggedIn /\ NothingCurrent(d)
               /\ Reaction(c) = "login" => ~c.loggedIn /\ d.loggedIn
               /\ Reaction(c) \in {"ignore", "response", "login"}
<1> DEFINE d == slotReadyRead(c)
           read == [c EXCEPT !.lines = Tail(@)]
<1>1. c.requests \in Seq(Message) /\ c.replies \in Seq(Message) /\ c.lines \in Seq(Message)
      /\ c.loggedIn \in BOOLEAN
  BY ConnectionFields
<1>2. /\ Tail(c.lines) \in Seq(Message) /\ Head(c.lines) \in Message
      /\ OneCurrent(Tail(c.lines))
      /\ NoneCurrent(c.lines) => NoneCurrent(Tail(c.lines)) /\ ~Head(c.lines).current
      /\ Head(c.lines).current => NoneCurrent(Tail(c.lines))
      /\ AllLogin(c.lines) => AllLogin(Tail(c.lines)) /\ Head(c.lines).rpc = "login" /\ Head(c.lines).current
      /\ NoLogin(c.lines) => NoLogin(Tail(c.lines)) /\ Head(c.lines).rpc # "login"
  BY <1>1, TailOfQueue DEF Sound, LastRequestOnce
<1>3. Head(c.lines).rpc \in RPC /\ Head(c.lines).current \in BOOLEAN /\ Head(c.lines).ok \in BOOLEAN
  BY <1>2 DEF Message
<1>4. /\ read \in Connection /\ read.requests = c.requests /\ read.replies = c.replies
      /\ read.lines = Tail(c.lines) /\ read.sock = "connected" /\ read.loggedIn = c.loggedIn
  BY <1>1, <1>2 DEF Connection
<1> HIDE DEF read
<1>5. /\ LastRequestOnce(read)
      /\ NothingCurrent(c) => NothingCurrent(read)
      /\ Head(c.lines).current => NothingCurrent(read)
      /\ ~c.loggedIn => OnlyLogin(read)
      /\ c.loggedIn => LoginGone(read)
  BY <1>2, <1>4 DEF Sound, LastRequestOnce, NothingCurrent, OnlyLogin, LoginGone
<1>6. Sound(read)
  BY <1>4, <1>5 DEF Sound
<1>7. d = CASE Reaction(c) = "ignore"   -> read
            [] Reaction(c) = "response" -> [read EXCEPT !.response = Head(c.lines).rpc]
            [] Reaction(c) = "login"    -> [read EXCEPT !.loggedIn = TRUE]
  BY DEF slotReadyRead, read
<1>8. Reaction(c) \in {"ignore", "response", "login"}
  BY DEF Reaction
<1> HIDE DEF d
<1>9. CASE Reaction(c) = "ignore"
  <2>1. d = read
    BY <1>7, <1>9
  <2>2. QED
    BY <1>4, <1>5, <1>6, <1>9, <2>1 DEF d
<1>10. CASE Reaction(c) = "response"
  <2>1. d = [read EXCEPT !.response = Head(c.lines).rpc]
    BY <1>7, <1>10
  <2>2. Head(c.lines).current /\ c.loggedIn
    BY <1>10 DEF Reaction
  <2>3. /\ d \in Connection /\ d.requests = read.requests /\ d.replies = read.replies
        /\ d.lines = read.lines /\ d.sock = read.sock /\ d.loggedIn = read.loggedIn
    BY <1>3, <1>4, <2>1 DEF Connection
  <2>4. Sound(d) /\ NothingCurrent(d)
    BY <1>4, <1>5, <1>6, <2>2, <2>3 DEF Sound, LastRequestOnce, NothingCurrent, OnlyLogin, LoginGone
  <2>5. QED
    BY <1>4, <1>10, <2>2, <2>3, <2>4 DEF d
<1>11. CASE Reaction(c) = "login"
  <2>1. d = [read EXCEPT !.loggedIn = TRUE]
    BY <1>7, <1>11
  <2>2. Head(c.lines).current /\ ~c.loggedIn
    BY <1>11 DEF Reaction
  <2>3. /\ d \in Connection /\ d.requests = read.requests /\ d.replies = read.replies
        /\ d.lines = read.lines /\ d.sock = read.sock /\ d.loggedIn
    BY <1>4, <2>1 DEF Connection
  <2>4. OnlyLogin(read) /\ NothingCurrent(read)
    BY <1>5, <2>2
  <2>5. LoginGone(d)
    BY <2>3, <2>4 DEF OnlyLogin, NothingCurrent, LoginGone, AllLogin, NoneCurrent, NoLogin
  <2>6. Sound(d) /\ NothingCurrent(d)
    BY <1>4, <1>5, <1>6, <2>3, <2>4, <2>5 DEF Sound, LastRequestOnce, NothingCurrent
  <2>7. QED
    BY <1>4, <1>11, <2>2, <2>3, <2>6 DEF d
<1>12. QED
  BY <1>8, <1>9, <1>10, <1>11

-----------------------------------------------------------------------------
(* Scores.                                                                    *)

\* Four summands, each at its bound or below.
LEMMA SumBounds ==
    ASSUME NEW a \in Nat, a <= 100, NEW l \in Nat, l <= 100,
           NEW q \in Nat, q <= 600, NEW f \in Nat, f <= 100
    PROVE  /\ a * 10 + (100 - l) * 8 + q + f \in Nat
           /\ a * 10 + (100 - l) * 8 + q + f <= 2500
           /\ a * 10 + (100 - l) * 8 + q + f = 0 <=> a = 0 /\ l = 100 /\ q = 0 /\ f = 0
<1> DEFINE absolutePart == a * 10
           loadPart == (100 - l) * 8
<1>1. absolutePart \in Nat /\ absolutePart <= 1000 /\ (absolutePart = 0 <=> a = 0)
  OBVIOUS
<1>2. loadPart \in Nat /\ loadPart <= 800 /\ (loadPart = 0 <=> l = 100)
  OBVIOUS
<1> HIDE DEF absolutePart, loadPart
<1>3. /\ absolutePart + loadPart + q + f \in Nat
      /\ absolutePart + loadPart + q + f <= 2500
      /\ absolutePart + loadPart + q + f = 0 <=>
            absolutePart = 0 /\ loadPart = 0 /\ q = 0 /\ f = 0
  BY <1>1, <1>2
<1>4. absolutePart + loadPart + q + f = a * 10 + (100 - l) * 8 + q + f
  BY DEF absolutePart, loadPart
<1>5. QED
  BY <1>1, <1>2, <1>3, <1>4

\* slotProcessResponse: the sum of the score fits the quint16 that keeps it, and
\* it is zero, which means out of order, for no server but one without a score of
\* its own that is loaded to the limit and has no memory left.
THEOREM ScoreFits ==
    ASSUME NEW absolute \in Percent, NEW st \in [L1 : Percent, L15 : Percent, FM : Percent, TQ : Percent]
    PROVE  /\ ScoreOf(absolute, st) \in 0..2500
           /\ ScoreOf(absolute, st) = 0 <=>
                  absolute = 0 /\ st.L1 = 100 /\ st.TQ = 100 /\ st.FM = 0
<1>1. /\ absolute \in Nat /\ absolute <= 100
      /\ st.L1 \in Nat /\ st.L1 <= 100 /\ st.L15 \in Nat
      /\ st.FM \in Nat /\ st.FM <= 100 /\ st.TQ \in Nat /\ st.TQ <= 100
  BY DEF Percent
<1> DEFINE queue == (100 - st.TQ) * (IF st.L15 < 70 THEN 6 ELSE 4)
           sum == absolute * 10 + (100 - st.L1) * 8 + queue + st.FM
<1>2. queue \in Nat /\ queue <= 600 /\ (queue = 0 <=> st.TQ = 100)
  <2>1. CASE st.L15 < 70
    <3>1. queue = (100 - st.TQ) * 6
      BY <2>1
    <3>2. QED
      BY <1>1, <3>1
  <2>2. CASE ~(st.L15 < 70)
    <3>1. queue = (100 - st.TQ) * 4
      BY <2>2
    <3>2. QED
      BY <1>1, <3>1
  <2>3. QED
    BY <2>1, <2>2
<1>3. ScoreOf(absolute, st) = sum % 65536
  BY DEF ScoreOf
<1> HIDE DEF queue
<1>4. /\ sum \in Nat /\ sum <= 2500
      /\ sum = 0 <=> absolute = 0 /\ st.L1 = 100 /\ queue = 0 /\ st.FM = 0
  BY <1>1, <1>2, SumBounds
<1> HIDE DEF sum
<1>5. sum % 65536 = sum
  BY <1>4
<1>6. ScoreOf(absolute, st) = sum
  BY <1>3, <1>5
<1>7. QED
  BY <1>2, <1>4, <1>6

-----------------------------------------------------------------------------
(* The monitor.                                                               *)

\* The inductive invariant: every connection is sound, and with a score it is
\* logged in and nothing of the last request is on the way.
IInv ==
    /\ up \in [Server -> BOOLEAN]
    /\ conn \in [Server -> Connection]
    /\ score \in [Server -> Nat]
    /\ asked \in [Server -> 0..Never]
    /\ yesterday \in [Server -> BOOLEAN]
    /\ \A s \in Server : Sound(conn[s])
    /\ \A s \in Server : score[s] > 0 =>
          conn[s].sock = "connected" /\ conn[s].loggedIn /\ NothingCurrent(conn[s])

LEMMA InitIInv == Init => IInv
<1> SUFFICES ASSUME Init PROVE IInv
  OBVIOUS
<1>1. connect(NewConnection) \in Connection /\ Sound(connect(NewConnection))
  BY ResetConnect, FreshIsSound
<1>2. QED
  BY <1>1 DEF Init, IInv, Never

\* A step that changes one connection, and neither gives a score nor takes the
\* grounds of one, preserves the invariant.
LEMMA OneConnection ==
    ASSUME IInv, NEW s \in Server, NEW d \in Connection, Sound(d),
           conn' = [conn EXCEPT ![s] = d],
           /\ up' \in [Server -> BOOLEAN]
           /\ asked' \in [Server -> 0..Never]
           /\ yesterday' \in [Server -> BOOLEAN],
           \/ score' = [score EXCEPT ![s] = 0]
           \/ score' = score /\ score[s] = 0
           \/ /\ score' = score
              /\ d.sock = conn[s].sock /\ d.loggedIn = conn[s].loggedIn
              /\ NothingCurrent(conn[s]) => NothingCurrent(d)
    PROVE  IInv'
<1>1. /\ conn' \in [Server -> Connection]
      /\ score' \in [Server -> Nat]
      /\ \A r \in Server : Sound(conn'[r])
  BY DEF IInv
<1>2. ASSUME NEW r \in Server, score'[r] > 0
      PROVE  conn'[r].sock = "connected" /\ conn'[r].loggedIn /\ NothingCurrent(conn'[r])
  <2>1. CASE r = s
    BY <1>2, <2>1 DEF IInv
  <2>2. CASE r # s
    BY <1>2, <2>2 DEF IInv
  <2>3. QED
    BY <2>1, <2>2
<1>3. QED
  BY <1>1, <1>2 DEF IInv

\* What has arrived is as sound as the connection it arrived on.
LEMMA IncomingIsSound ==
    ASSUME IInv, NEW s \in Server, NEW n, CanRead(s, n)
    PROVE  /\ Incoming(s, n) \in Connection /\ Sound(Incoming(s, n))
           /\ Incoming(s, n).sock = "connected" /\ conn[s].sock = "connected"
           /\ Incoming(s, n).loggedIn = conn[s].loggedIn
           /\ Incoming(s, n).lines # <<>>
           /\ NothingCurrent(conn[s]) => NothingCurrent(Incoming(s, n))
<1>1. conn[s] \in Connection /\ Sound(conn[s])
  BY DEF IInv
<1>2. QED
  BY <1>1, ArrivalIsSound DEF CanRead, Incoming, Sound

LEMMA TickIInv == ASSUME IInv, Tick PROVE IInv'
<1>1. PICK sends \in SUBSET Server : slotUpdateInfo(sends)
  BY DEF Tick
<1> DEFINE age(s) == IF asked[s] < 2 THEN asked[s] + 1 ELSE asked[s]
           new(s) == IF conn[s].sock # "connected" THEN Reconnected(s)
                     ELSE IF s \in sends THEN sendRequest(conn[s], "rpcGetStatistics") ELSE conn[s]
<1>2. /\ score' = [s \in Server |-> 0]
      /\ conn' = [s \in Server |-> new(s)]
      /\ asked' = [s \in Server |-> IF s \in sends THEN 0 ELSE age(s)]
      /\ up' = up /\ yesterday' = yesterday
      /\ \A s \in sends : conn[s].sock = "connected" /\ conn[s].loggedIn
  BY <1>1 DEF slotUpdateInfo
<1>3. ASSUME NEW s \in Server PROVE new(s) \in Connection /\ Sound(new(s))
  <2>1. conn[s] \in Connection /\ Sound(conn[s])
    BY DEF IInv
  <2>2. CASE conn[s].sock # "connected"
    <3>1. Reconnected(s) \in Connection /\ Fresh(Reconnected(s))
      BY <2>1, ResetConnect DEF Reconnected
    <3>2. QED
      BY <2>2, <3>1, FreshIsSound
  <2>3. CASE conn[s].sock = "connected" /\ s \in sends
    <3>1. Sound(sendRequest(conn[s], "rpcGetStatistics"))
      BY <1>2, <2>1, <2>3, SendIsSound DEF RPC
    <3>2. QED
      BY <2>3, <3>1 DEF Sound
  <2>4. QED
    BY <2>1, <2>2, <2>3
<1>4. ASSUME NEW s \in Server PROVE age(s) \in 0..Never
  BY DEF IInv, Never
<1> HIDE DEF new, age
<1>5. /\ conn' \in [Server -> Connection] /\ \A s \in Server : Sound(conn'[s])
      /\ score' \in [Server -> Nat] /\ \A s \in Server : ~(score'[s] > 0)
  BY <1>2, <1>3
<1>6. asked' \in [Server -> 0..Never]
  BY <1>2, <1>4 DEF Never
<1>7. QED
  BY <1>2, <1>5, <1>6 DEF IInv

LEMMA NextIInv == IInv /\ [Next]_vars => IInv'
<1> SUFFICES ASSUME IInv, [Next]_vars PROVE IInv'
  OBVIOUS
<1>1. \A s \in Server : conn[s] \in Connection /\ Sound(conn[s]) /\ score[s] \in Nat
  BY DEF IInv
<1>2. /\ up \in [Server -> BOOLEAN] /\ asked \in [Server -> 0..Never]
      /\ yesterday \in [Server -> BOOLEAN]
  BY DEF IInv
<1>3. CASE Tick
  BY <1>3, TickIInv
<1>4. CASE Midnight
  <2>1. yesterday' \in [Server -> BOOLEAN]
    BY <1>4 DEF Midnight
  <2>2. up' = up /\ conn' = conn /\ score' = score /\ asked' = asked
    BY <1>4 DEF Midnight
  <2>3. QED
    BY <2>1, <2>2 DEF IInv
<1>5. ASSUME NEW s \in Server, NextEvening(s) PROVE IInv'
  <2>1. yesterday' \in [Server -> BOOLEAN]
    BY <1>2, <1>5 DEF NextEvening
  <2>2. up' = up /\ conn' = conn /\ score' = score /\ asked' = asked
    BY <1>5 DEF NextEvening
  <2>3. QED
    BY <2>1, <2>2 DEF IInv
<1>6. ASSUME NEW s \in Server, Accepted(s) PROVE IInv'
  <2>1. conn[s].sock = "connecting" /\ conn' = [conn EXCEPT ![s] = slotConnected(conn[s])]
        /\ up' = up /\ score' = score /\ asked' = asked /\ yesterday' = yesterday
    BY <1>6 DEF Accepted
  <2>2. Sound(slotConnected(conn[s]))
    BY <1>1, <2>1, ConnectedIsSound DEF Sound
  <2>3. score[s] = 0
    BY <2>1, <1>1 DEF IInv
  <2>4. QED
    BY <1>2, <2>1, <2>2, <2>3, OneConnection DEF Sound
<1>7. ASSUME NEW s \in Server, Refused(s) PROVE IInv'
  <2> DEFINE d == [conn[s] EXCEPT !.sock = "closed"]
  <2>1. conn[s].sock = "connecting" /\ conn' = [conn EXCEPT ![s] = d]
        /\ up' = up /\ score' = score /\ asked' = asked /\ yesterday' = yesterday
    BY <1>7 DEF Refused
  <2>2. d \in Connection /\ d.sock = "closed"
    BY <1>1 DEF Connection
  <2>3. Fresh(d)
    BY <1>1, <2>1 DEF Sound, Fresh, NewConnection
  <2>4. Sound(d)
    BY <2>2, <2>3, FreshIsSound
  <2>5. score[s] = 0
    BY <2>1, <1>1 DEF IInv
  <2> HIDE DEF d
  <2>6. QED
    BY <1>2, <2>1, <2>2, <2>4, <2>5, OneConnection
<1>8. ASSUME NEW s \in Server, Reads(s) PROVE IInv'
  <2>1. PICK n \in 1..MaxInFlight : \/ IgnoreLine(s, n) \/ LoginDone(s, n)
                                    \/ \E st \in Statistics : slotProcessResponse(s, n, st)
    BY <1>8 DEF Reads
  <2> DEFINE c == Incoming(s, n)
             d == slotReadyRead(c)
  <2>2. CanRead(s, n)
    BY <2>1 DEF IgnoreLine, LoginDone, slotProcessResponse
  <2>3. /\ c \in Connection /\ Sound(c) /\ c.sock = "connected" /\ conn[s].sock = "connected"
        /\ c.loggedIn = conn[s].loggedIn /\ c.lines # <<>>
        /\ NothingCurrent(conn[s]) => NothingCurrent(c)
    BY <2>2, IncomingIsSound
  <2>4. /\ Sound(d) /\ d.sock = "connected"
        /\ NothingCurrent(c) => NothingCurrent(d)
        /\ Reaction(c) = "ignore" => d.loggedIn = c.loggedIn
        /\ Reaction(c) = "response" => c.loggedIn /\ d.loggedIn /\ NothingCurrent(d)
        /\ Reaction(c) = "login" => ~c.loggedIn /\ d.loggedIn
    BY <2>3, ReadIsSound
  <2>5. d \in Connection
    BY <2>4 DEF Sound
  <2> HIDE DEF c, d
  <2>6. CASE IgnoreLine(s, n)
    <3>1. Reaction(c) = "ignore" /\ conn' = [conn EXCEPT ![s] = d]
          /\ up' = up /\ score' = score /\ asked' = asked /\ yesterday' = yesterday
      BY <2>6 DEF IgnoreLine, c, d
    <3>2. QED
      BY <1>2, <2>3, <2>4, <2>5, <3>1, OneConnection
  <2>7. CASE LoginDone(s, n)
    <3>1. Reaction(c) = "login" /\ up' = up /\ yesterday' = yesterday
      BY <2>7 DEF LoginDone, c
    <3>2. ~conn[s].loggedIn /\ d.loggedIn /\ score[s] = 0
      BY <1>1, <2>3, <2>4, <3>1 DEF IInv
    <3>3. CASE /\ conn' = [conn EXCEPT ![s] = sendRequest(d, "rpcGetStatistics")]
               /\ score' = [score EXCEPT ![s] = 0]
               /\ asked' = [asked EXCEPT ![s] = 0]
      <4>1. Sound(sendRequest(d, "rpcGetStatistics"))
        BY <2>4, <2>5, <3>2, SendIsSound DEF RPC
      <4>2. asked' \in [Server -> 0..Never]
        BY <1>2, <3>3 DEF Never
      <4>3. QED
        BY <1>2, <3>1, <3>3, <4>1, <4>2, OneConnection DEF Sound
    <3>4. CASE conn' = [conn EXCEPT ![s] = d] /\ score' = score /\ asked' = asked
      BY <1>2, <2>4, <2>5, <3>1, <3>2, <3>4, OneConnection
    <3>5. QED
      BY <2>7, <3>3, <3>4 DEF LoginDone, c, d
  <2>8. ASSUME NEW st \in Statistics, slotProcessResponse(s, n, st) PROVE IInv'
    <3> DEFINE value == ScoreOf(AbsoluteScore[s], st)
    <3>1. Reaction(c) = "response" /\ conn' = [conn EXCEPT ![s] = d]
          /\ score' = [score EXCEPT ![s] = value]
          /\ up' = up /\ asked' = asked /\ yesterday' = yesterday
      BY <2>8 DEF slotProcessResponse, c, d
    <3>2. value \in Nat
      <4>1. st \in [L1 : Percent, L15 : Percent, FM : Percent, TQ : Percent] /\ AbsoluteScore[s] \in Percent
        BY StatisticsAssumption
      <4>2. value \in 0..2500
        BY <4>1, ScoreFits
      <4> HIDE DEF value
      <4>3. QED
        BY <4>2
    <3> HIDE DEF value
    <3>3. /\ conn' \in [Server -> Connection] /\ score' \in [Server -> Nat]
          /\ \A r \in Server : Sound(conn'[r])
      BY <1>1, <2>4, <2>5, <3>1, <3>2 DEF IInv
    <3>4. ASSUME NEW r \in Server, score'[r] > 0
          PROVE  conn'[r].sock = "connected" /\ conn'[r].loggedIn /\ NothingCurrent(conn'[r])
      <4>1. CASE r = s
        BY <2>4, <3>1, <4>1 DEF IInv
      <4>2. CASE r # s
        BY <3>1, <3>4, <4>2 DEF IInv
      <4>3. QED
        BY <4>1, <4>2
    <3>5. QED
      BY <1>2, <3>1, <3>3, <3>4 DEF IInv
  <2>9. QED
    BY <2>1, <2>6, <2>7, <2>8
<1>9. ASSUME NEW s \in Server, Disconnected(s) PROVE IInv'
  <2>1. conn' = [conn EXCEPT ![s] = reset(conn[s])] /\ score' = [score EXCEPT ![s] = 0]
        /\ up' = up /\ asked' = asked /\ yesterday' = yesterday
    BY <1>9 DEF Disconnected
  <2>2. reset(conn[s]) \in Connection /\ Sound(reset(conn[s]))
    BY <1>1, ResetConnect, FreshIsSound
  <2>3. QED
    BY <1>2, <2>1, <2>2, OneConnection
<1>10. ASSUME NEW s \in Server, Answer(s) \/ AnswerError(s) PROVE IInv'
  <2>1. PICK ok \in BOOLEAN : conn' = [conn EXCEPT ![s] = Answered(conn[s], ok)]
    BY <1>10 DEF Answer, AnswerError
  <2>2. conn[s].requests # <<>>
        /\ up' = up /\ score' = score /\ asked' = asked /\ yesterday' = yesterday
    BY <1>10 DEF Answer, AnswerError
  <2>3. LET d == Answered(conn[s], ok)
        IN  /\ Sound(d) /\ d.sock = conn[s].sock /\ d.loggedIn = conn[s].loggedIn
            /\ NothingCurrent(conn[s]) => NothingCurrent(d)
    BY <1>1, <2>2, AnswerIsSound
  <2>4. QED
    BY <1>2, <2>1, <2>2, <2>3, OneConnection DEF Sound
<1>11. ASSUME NEW s \in Server, GoesDown(s) \/ EndConnection(s) PROVE IInv'
  <2>1. up' \in [Server -> BOOLEAN] /\ conn' = [conn EXCEPT ![s] = Abandoned(conn[s])]
        /\ score' = score /\ asked' = asked /\ yesterday' = yesterday
    BY <1>2, <1>11 DEF GoesDown, EndConnection
  <2>2. LET d == Abandoned(conn[s])
        IN  /\ Sound(d) /\ d.sock = conn[s].sock /\ d.loggedIn = conn[s].loggedIn
            /\ NothingCurrent(conn[s]) => NothingCurrent(d)
    BY <1>1, AbandonIsSound
  <2>3. QED
    BY <1>2, <2>1, <2>2, OneConnection DEF Sound
<1>12. ASSUME NEW s \in Server, ComesUp(s) PROVE IInv'
  <2>1. up' \in [Server -> BOOLEAN] /\ conn' = conn
        /\ score' = score /\ asked' = asked /\ yesterday' = yesterday
    BY <1>2, <1>12 DEF ComesUp
  <2>2. QED
    BY <2>1 DEF IInv
<1>13. CASE UNCHANGED vars
  BY <1>13 DEF vars, IInv
<1>14. QED
  BY <1>3, <1>4, <1>5, <1>6, <1>7, <1>8, <1>9, <1>10, <1>11, <1>12, <1>13 DEF Next

LEMMA Invariance == Spec => []IInv
<1>1. QED
  BY InitIInv, NextIInv, PTL DEF Spec

\* The types of the monitor's variables; a connection that is not established is
\* a new one.
THEOREM TypeCorrect == Spec => []TypeOK
<1>1. IInv => TypeOK
  BY DEF IInv, TypeOK, Sound, Fresh
<1>2. QED
  BY <1>1, Invariance, PTL

\* No server has a score from an answer to a request of an earlier tick or of an
\* earlier connection, or while its last request is not answered.
THEOREM ScoresAreCurrent == Spec => []ScoreIsCurrent
<1>1. IInv => ScoreIsCurrent
  BY InFlightOfQueues DEF IInv, ScoreIsCurrent
<1>2. QED
  BY <1>1, Invariance, PTL

\* On no connection is anything but the login on its way before it was answered,
\* and no login after, for any number of failures and reconnections.
THEOREM LoginComesFirst == Spec => []AskedAfterLogin
<1>1. IInv => AskedAfterLogin
  <2> SUFFICES ASSUME IInv, NEW s \in Server, NEW i \in DOMAIN InFlight(conn[s])
               PROVE  InFlight(conn[s])[i].rpc = "login" <=> ~conn[s].loggedIn
    BY DEF AskedAfterLogin
  <2>1. conn[s] \in Connection /\ Sound(conn[s])
    BY DEF IInv
  <2>2. CASE conn[s].loggedIn
    BY <2>1, <2>2, InFlightOfQueues DEF Sound
  <2>3. CASE ~conn[s].loggedIn
    BY <2>1, <2>3, InFlightOfQueues DEF Sound
  <2>4. QED
    BY <2>2, <2>3
<1>2. QED
  BY <1>1, Invariance, PTL
=============================================================================
