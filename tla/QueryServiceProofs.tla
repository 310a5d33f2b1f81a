-------------------------- MODULE QueryServiceProofs --------------------------
(***************************************************************************)
(* Proofs about QueryService, for any clients, connections, requests, hits *)
(* and number of indexed files.                                            *)
(***************************************************************************)
EXTENDS QueryService, SequenceTheorems, TLAPS

-----------------------------------------------------------------------------
(* The operators                                                            *)

\* What is left of a queue when the one at i leaves it.
LEMMA LeaveQueue ==
  ASSUME NEW S, NEW s \in Seq(S), NEW i \in DOMAIN s
  PROVE  /\ RemoveAt(s, i) \in Seq(S)
         /\ DOMAIN RemoveAt(s, i) = 1 .. Len(s) - 1
         /\ \A j \in 1 .. Len(s) - 1 :
              RemoveAt(s, i)[j] = IF j < i THEN s[j] ELSE s[j + 1]
<1>1. Len(s) \in Nat /\ DOMAIN s = 1 .. Len(s) /\ \A j \in 1 .. Len(s) : s[j] \in S
  BY LenProperties, ElementOfSeq
<1> DEFINE m == i - 1  p == i + 1  n == Len(s)
           front == SubSeq(s, 1, m)
           back == SubSeq(s, p, n)
<1>2. m \in Int /\ p \in Int /\ n \in Int /\ i \in 1 .. n
  BY <1>1
<1>3. (\A j \in 1 .. m : s[j] \in S) /\ (\A j \in p .. n : s[j] \in S)
  BY <1>1, <1>2
<1> HIDE DEF m, p, n
<1>4. /\ front \in Seq(S) /\ Len(front) = IF 1 <= m THEN m - 1 + 1 ELSE 0
      /\ \A j \in 1 .. m - 1 + 1 : front[j] = s[1 + j - 1]
  BY <1>2, <1>3, SubSeqProperties
<1>5. /\ back \in Seq(S) /\ Len(back) = IF p <= n THEN n - p + 1 ELSE 0
      /\ \A j \in 1 .. n - p + 1 : back[j] = s[p + j - 1]
  BY <1>2, <1>3, SubSeqProperties
<1> HIDE DEF front, back
<1>6. /\ front \o back \in Seq(S) /\ Len(front \o back) = Len(front) + Len(back)
      /\ \A j \in 1 .. Len(front) + Len(back) :
           (front \o back)[j] = IF j <= Len(front) THEN front[j] ELSE back[j - Len(front)]
  BY <1>4, <1>5, ConcatProperties
<1>7. DOMAIN (front \o back) = 1 .. Len(front) + Len(back)
  BY <1>6, LenProperties
<1>8. RemoveAt(s, i) = front \o back
  BY DEF RemoveAt, front, back, m, p, n
<1>9. Len(front) = i - 1 /\ Len(back) = Len(s) - i
  BY <1>2, <1>4, <1>5 DEF m, p, n
<1>10. ASSUME NEW j \in 1 .. Len(s) - 1
       PROVE  (front \o back)[j] = IF j < i THEN s[j] ELSE s[j + 1]
  <2>1. (front \o back)[j] = IF j <= i - 1 THEN front[j] ELSE back[j - (i - 1)]
    BY <1>1, <1>2, <1>6, <1>9 DEF n
  <2>2. CASE j < i
    BY <1>1, <1>2, <1>4, <2>1, <2>2 DEF m, n
  <2>3. CASE ~(j < i)
    <3> DEFINE k == j - (i - 1)
    <3>1. k \in 1 .. n - p + 1 /\ p + k - 1 = j + 1 /\ ~(j <= i - 1)
      BY <1>1, <1>2, <2>3 DEF n, p
    <3>2. (front \o back)[j] = back[k]
      BY <2>1, <3>1
    <3> HIDE DEF k
    <3>3. back[k] = s[p + k - 1]
      BY <1>5, <3>1
    <3> QED
      BY <2>3, <3>1, <3>2, <3>3
  <2> QED
    BY <2>2, <2>3
<1>11. Len(front) + Len(back) = Len(s) - 1
  BY <1>1, <1>2, <1>9 DEF n
<1>12. DOMAIN (front \o back) = 1 .. Len(s) - 1
  BY <1>7, <1>11
<1> QED
  BY <1>6, <1>8, <1>10, <1>12

\* A request is not the absence of one.
LEMMA NoBodyIsNone == NoBody \notin Body
  BY BodyAssumption DEF NoBody

\* The hits of a page are in files that were indexed.
LEMMA PagesIndexed ==
  ASSUME NEW b, NEW v \in 0 .. Files, NEW S \in Pages(b, v)
  PROVE  S \subseteq 1 .. v /\ S \subseteq 1 .. Files
  BY NumbersAssumption DEF Pages

\* What a client may be told, and that hits are in files that were indexed.
LEMMA RepliesAre ==
  /\ NoReply \in Replies /\ Error \in Replies /\ Failed \in Replies /\ Gone \in Replies
  /\ \A S \in SUBSET (1 .. Files) : Success(S) \in Replies /\ Success(S).results = S
  /\ \A reply \in Replies : reply.results \subseteq 1 .. Files
<1>1. ASSUME NEW S \in SUBSET (1 .. Files)
      PROVE  Success(S) \in Replies /\ Success(S).results = S
  <2>1. Success(S) \in {Success(T) : T \in SUBSET (1 .. Files)}
    OBVIOUS
  <2>2. Success(S).results = S
    BY DEF Success
  <2> QED
    BY <2>1, <2>2 DEF Replies
<1>2. ASSUME NEW reply \in Replies
      PROVE  reply.results \subseteq 1 .. Files
  <2>1. CASE reply \in {Success(S) : S \in SUBSET (1 .. Files)}
    BY <1>1, <2>1
  <2>2. CASE reply \in {NoReply, Error, Failed, Gone}
    BY <2>2 DEF NoReply, Error, Failed, Gone
  <2> QED
    BY <2>1, <2>2 DEF Replies, Failures
<1>3. {NoReply, Error, Failed, Gone} \subseteq Replies
  BY DEF Replies, Failures
<1> QED
  BY <1>1, <1>2, <1>3
-----------------------------------------------------------------------------
(* The inductive invariant                                                  *)

\* what an answer of the database is asked for
Asks(b) == b.path = "/query" /\ b.query \notin NoQuery

\* A client without a request has no handler, and the database only grows.
AskedInv ==
  \A r \in Client : /\ pc[r] = "idle" <=> body[r] = NoBody
                    /\ pc[r] = "idle" => since[r] = 0
                    /\ since[r] <= version

\* the response of the handler is a page the database had since the request
HasPage(r) ==
  /\ body[r].query \in WellFormed \ Refused
  /\ \E v \in since[r] .. version : \E S \in Pages(body[r], v) : response[r] = Success(S)

\* What a handler knows of its request at each await.
Stage(r) ==
  /\ pc[r] = "checking" => Asks(body[r])
  /\ pc[r] = "waiting" => Asks(body[r]) \/ body[r].path = "/stats"
  /\ pc[r] = "querying" => Asks(body[r]) /\ body[r].query \in WellFormed
  /\ pc[r] = "counting" => body[r].path = "/stats"
  /\ pc[r] = "caching" => Asks(body[r]) /\ HasPage(r)
  /\ pc[r] = "releasing" => response[r] \in Promise!Honest(body[r], since[r], version)

StageInv == \A r \in Client : Stage(r)

CacheInv == CacheTrue /\ \A b \in DOMAIN cache : Asks(b)

IInv == TypeOK /\ AskedInv /\ ConnectionsKept /\ StageInv /\ CacheInv

-----------------------------------------------------------------------------
(* Types                                                                    *)

\* The service starts with variables of their types.
LEMMA InitType == Init => TypeOK
<1> SUFFICES ASSUME Init PROVE TypeOK
  OBVIOUS
<1>1. << >> \in Seq(Client) /\ DOMAIN << >> = {}
  BY EmptySeq, LenProperties
<1>2. NoReply \in Replies /\ 0 \in 0 .. Files
  BY NumbersAssumption, RepliesAre
<1> QED
  BY <1>1, <1>2 DEF Init, TypeOK

\* A handler that ends, and one that begins to wait for a connection.
LEMMA EndsType ==
  ASSUME TypeOK, NEW r \in Client, NEW what \in Replies, Ends(r, what), UNCHANGED <<env, cache>>
  PROVE  TypeOK'
<1>1. 0 \in 0 .. Files
  BY NumbersAssumption
<1> QED
  BY <1>1 DEF TypeOK, Ends, Closed, Respond, Goto, pool, env

\* A handler that begins to wait for a connection breaks no type.
LEMMA WaitType ==
  ASSUME TypeOK, NEW r \in Client, WaitForConnection(r), UNCHANGED <<env, cache>>
  PROVE  TypeOK'
<1>1. queue' \in Seq(Client)
  BY AppendProperties DEF TypeOK, WaitForConnection
<1> QED
  BY <1>1 DEF TypeOK, WaitForConnection, Goto, client, env

\* What is stored in redis.
LEMMA StoreType ==
  ASSUME TypeOK, AskedInv, NEW r \in Client, pc[r] # "idle"
  PROVE  LET new == Store(body[r], response[r].results)
         IN  DOMAIN new \subseteq Body /\ \A b \in DOMAIN new : new[b] \subseteq 1 .. Files
<1>1. body[r] \in Body /\ response[r].results \subseteq 1 .. Files
  BY RepliesAre DEF TypeOK, AskedInv
<1> QED
  BY <1>1 DEF TypeOK, Store, Key

\* No step of a handler breaks a type.
LEMMA HandlerType ==
  ASSUME TypeOK, AskedInv, ConnectionsKept, NEW r \in Client, Handler(r)
  PROVE  TypeOK'
<1>1. CASE Start(r)
  <2>1. Error \in Replies /\ Failed \in Replies /\ Success({}) \in Replies
    BY RepliesAre
  <2>2. CASE Goto(r, "checking") /\ UNCHANGED <<client, pool, response>>
    BY <1>1, <2>2 DEF Start, TypeOK, Goto, client, pool, env
  <2> QED
    BY <1>1, <2>1, <2>2, EndsType, WaitType DEF Start
<1>2. CASE CheckCache(r)
  <2>1. ASSUME body[r] \in DOMAIN cache PROVE Success(cache[body[r]]) \in Replies
    BY <2>1, RepliesAre DEF TypeOK
  <2> QED
    BY <1>2, <2>1, EndsType, WaitType DEF CheckCache, Key
<1>3. CASE CheckCacheRaises(r)
  BY <1>3, EndsType, RepliesAre DEF CheckCacheRaises
<1>4. CASE Acquire(r)
  <2>1. \E i \in DOMAIN queue : queue[i] = r
    BY <1>4 DEF Acquire, ConnectionsKept
  <2>2. queue' \in Seq(Client)
    <3>1. queue \in Seq(Client) /\ queue # << >>
      BY <2>1, EmptySeq, LenProperties DEF TypeOK
    <3> QED
      BY <1>4, <3>1, HeadTailProperties DEF Acquire
  <2>3. free' \subseteq Conn /\ held' \in [Client -> Conn \cup {NoConn}]
    BY <1>4 DEF Acquire, TypeOK
  <2>4. /\ pc' \in [Client -> Holding \cup {"idle", "sent", "checking", "waiting"}]
        /\ response' \in [Client -> Replies]
    <3>1. \/ Goto(r, "counting") /\ UNCHANGED response
          \/ Goto(r, "querying") /\ UNCHANGED response
          \/ Goto(r, "releasing") /\ Respond(r, Error)
      BY <1>4 DEF Acquire
    <3> QED
      BY <3>1, RepliesAre DEF TypeOK, Goto, Respond, Holding
  <2> QED
    BY <1>4, <2>2, <2>3, <2>4 DEF Acquire, TypeOK, client, env
<1>5. CASE HitsArrive(r)
  <2>1. PICK S \in Pages(body[r], version) : Respond(r, Success(S))
    BY <1>5 DEF HitsArrive
  <2>2. S \subseteq 1 .. Files
    BY PagesIndexed DEF TypeOK
  <2>3. Success(S) \in Replies
    BY <2>2, RepliesAre
  <2> QED
    BY <1>5, <2>1, <2>3 DEF HitsArrive, TypeOK, Goto, Respond, Holding, client, pool, env
<1>6. CASE QueryRaises(r) \/ CountRaises(r)
  <2>1. Error \in Replies /\ Failed \in Replies
    BY RepliesAre
  <2> QED
    BY <1>6, <2>1 DEF QueryRaises, CountRaises, TypeOK, Goto, Respond, Holding, client, pool, env
<1>7. CASE CountsArrive(r)
  <2>1. 1 .. version \in SUBSET (1 .. Files)
    BY NumbersAssumption DEF TypeOK
  <2>2. Success(1 .. version) \in Replies
    BY <2>1, RepliesAre
  <2> QED
    BY <1>7, <2>2 DEF CountsArrive, TypeOK, Goto, Respond, Holding, client, pool, env
<1>8. CASE SetCache(r) \/ SetCacheRaises(r) \/ HangUpHolding(r)
  <2>1. cache' = cache \/ cache' = Store(body[r], response[r].results)
    BY <1>8 DEF SetCache, SetCacheRaises, HangUpHolding
  <2>2. DOMAIN cache' \subseteq Body /\ \A b \in DOMAIN cache' : cache'[b] \subseteq 1 .. Files
    <3>1. pc[r] # "idle"
      BY <1>8 DEF SetCache, SetCacheRaises, HangUpHolding
    <3> QED
      BY <2>1, <3>1, StoreType DEF TypeOK
  <2>3. Failed \in Replies /\ Gone \in Replies
    BY RepliesAre
  <2> QED
    BY <1>8, <2>2, <2>3
    DEF SetCache, SetCacheRaises, HangUpHolding, TypeOK, Goto, Respond, Holding, client, pool, env
<1>9. CASE Release(r)
  <2>1. held[r] \in Conn
    BY <1>9 DEF Release, ConnectionsKept, TypeOK, Holding
  <2>2. 0 \in 0 .. Files
    BY NumbersAssumption
  <2> QED
    BY <1>9, <2>1, <2>2 DEF Release, TypeOK, Closed, Goto, env
<1>10. CASE HangUp(r)
  <2>1. queue' \in Seq(Client)
    <3>1. queue \in Seq(Client)
      BY DEF TypeOK
    <3> QED
      BY <1>10, <3>1, LeaveQueue DEF HangUp
  <2>2. Gone \in Replies /\ 0 \in 0 .. Files
    BY RepliesAre, NumbersAssumption
  <2> QED
    BY <1>10, <2>1, <2>2 DEF HangUp, TypeOK, Closed, Respond, Goto, env
<1>11. CASE AcquireRaises(r)
  <2>1. queue' \in Seq(Client)
    <3>1. queue \in Seq(Client) /\ \E i \in DOMAIN queue : queue[i] = r
      BY <1>11 DEF AcquireRaises, TypeOK, ConnectionsKept
    <3>2. queue # << >>
      BY <3>1, EmptySeq, LenProperties
    <3> QED
      BY <1>11, <3>1, <3>2, HeadTailProperties DEF AcquireRaises
  <2>2. Failed \in Replies /\ 0 \in 0 .. Files
    BY RepliesAre, NumbersAssumption
  <2> QED
    BY <1>11, <2>1, <2>2 DEF AcquireRaises, TypeOK, Closed, Respond, Goto, env
<1> QED
  BY <1>1, <1>2, <1>3, <1>4, <1>5, <1>6, <1>7, <1>8, <1>9, <1>10, <1>11 DEF Handler

\* Nor does any other step.
LEMMA TypeStep ==
  ASSUME TypeOK, AskedInv, ConnectionsKept, [Next]_vars
  PROVE  TypeOK'
<1>1. CASE Index
  BY <1>1, NumbersAssumption DEF Index, TypeOK, client, pool
<1>2. CASE Restart
  <2>1. << >> \in Seq(Client) /\ 0 \in 0 .. Files /\ Gone \in Replies
    BY EmptySeq, NumbersAssumption, RepliesAre
  <2> QED
    BY <1>2, <2>1 DEF Restart, TypeOK, env
<1>3. ASSUME NEW r \in Client, Send(r)
      PROVE  TypeOK'
  <2>1. NoReply \in Replies
    BY RepliesAre
  <2> QED
    BY <1>3, <2>1 DEF Send, TypeOK, Goto, Respond, env, pool
<1>4. CASE UNCHANGED vars
  BY <1>4 DEF vars, TypeOK, env, client, pool
<1> QED
  BY <1>1, <1>2, <1>3, <1>4, HandlerType DEF Next
-----------------------------------------------------------------------------
(* The pool                                                                 *)

\* the two halves of ConnectionsKept
FreeKept ==
  /\ \A c \in Conn : c \in free <=> \A q \in Client : held[q] # c
  /\ \A r, q \in Client : held[r] = held[q] /\ held[r] # NoConn => r = q
  /\ \A r \in Client : pc[r] \in Holding <=> held[r] # NoConn

QueueKept ==
  /\ \A r \in Client : pc[r] = "waiting" <=> \E i \in DOMAIN queue : queue[i] = r
  /\ \A i, j \in DOMAIN queue : queue[i] = queue[j] => i = j

\* ConnectionsKept is about the connections that are free and about who waits for one ...
LEMMA Halves == TypeOK => (ConnectionsKept <=> FreeKept /\ QueueKept)
<1> SUFFICES ASSUME TypeOK PROVE ConnectionsKept <=> FreeKept /\ QueueKept
  OBVIOUS
<1>1. free = Conn \ {held[r] : r \in Client}
        <=> \A c \in Conn : c \in free <=> \A q \in Client : held[q] # c
  BY DEF TypeOK
<1> QED
  BY <1>1 DEF ConnectionsKept, FreeKept, QueueKept

\* ... before a step and after it.
LEMMA HalvesNext == TypeOK' => (ConnectionsKept' <=> FreeKept' /\ QueueKept')
  BY Halves, PTL

\* a step of r alone
Alone(r) == \A q \in Client \ {r} : pc'[q] = pc[q]

\* A step of a handler that neither takes nor gives a connection.
LEMMA FreeSame ==
  ASSUME FreeKept, NEW r \in Client, Alone(r), UNCHANGED <<free, held>>,
         pc'[r] \in Holding <=> pc[r] \in Holding
  PROVE  FreeKept'
  BY DEF FreeKept, Alone, Holding

\* A step of a handler that neither begins to wait nor stops waiting.
LEMMA QueueSame ==
  ASSUME QueueKept, NEW r \in Client, Alone(r), UNCHANGED queue,
         pc'[r] = "waiting" <=> pc[r] = "waiting"
  PROVE  QueueKept'
  BY DEF QueueKept, Alone

\* A handler goes to the end of the queue.
LEMMA QueueUp ==
  ASSUME TypeOK, QueueKept, NEW r \in Client, pc[r] # "waiting", WaitForConnection(r)
  PROVE  QueueKept'
<1> DEFINE k == Len(queue) + 1
<1>1. queue \in Seq(Client) /\ queue' = Append(queue, r)
  BY DEF TypeOK, WaitForConnection
<1>2. /\ k \in Nat /\ k \notin DOMAIN queue /\ DOMAIN queue' = DOMAIN queue \cup {k}
      /\ \A i \in DOMAIN queue : queue'[i] = queue[i]
      /\ queue'[k] = r
  <2>1. /\ Append(queue, r) \in Seq(Client) /\ Len(Append(queue, r)) = k
        /\ \A i \in 1 .. Len(queue) : Append(queue, r)[i] = queue[i]
        /\ Append(queue, r)[k] = r
    BY <1>1, AppendProperties
  <2>2. DOMAIN queue' = 1 .. k /\ DOMAIN queue = 1 .. Len(queue) /\ Len(queue) \in Nat
    BY <1>1, <2>1, LenProperties
  <2> QED
    BY <1>1, <2>1, <2>2
<1>3. pc' = [pc EXCEPT ![r] = "waiting"]
  BY DEF WaitForConnection, Goto
<1>4. \A i \in DOMAIN queue : queue[i] # r
  BY DEF QueueKept
<1> HIDE DEF k
<1>5. \A i, j \in DOMAIN queue' : queue'[i] = queue'[j] => i = j
  BY <1>2, <1>4 DEF QueueKept
<1>6. ASSUME NEW q \in Client
      PROVE  pc'[q] = "waiting" <=> \E i \in DOMAIN queue' : queue'[i] = q
  BY <1>2, <1>3, <1>4 DEF QueueKept, TypeOK
<1> QED
  BY <1>5, <1>6 DEF QueueKept

\* The one at the head of the queue leaves it.
LEMMA QueueHead ==
  ASSUME TypeOK, QueueKept, NEW r \in Client, Acquire(r) \/ AcquireRaises(r)
  PROVE  QueueKept'
<1>1. queue \in Seq(Client) /\ queue # << >>
  <2>1. \E i \in DOMAIN queue : queue[i] = r
    BY DEF Acquire, AcquireRaises, QueueKept
  <2> QED
    BY <2>1, EmptySeq, LenProperties DEF TypeOK
<1>2. /\ Len(queue) \in Nat \ {0} /\ DOMAIN queue = 1 .. Len(queue)
      /\ r = queue[1] /\ DOMAIN queue' = 1 .. Len(queue) - 1
      /\ \A i \in DOMAIN queue' : queue'[i] = queue[i + 1]
  <2>1. /\ Tail(queue) \in Seq(Client) /\ Len(Tail(queue)) = Len(queue) - 1
        /\ \A i \in 1 .. Len(Tail(queue)) : Tail(queue)[i] = queue[i + 1]
    BY <1>1, HeadTailProperties
  <2>2. /\ Len(queue) \in Nat \ {0} /\ DOMAIN queue = 1 .. Len(queue)
        /\ DOMAIN Tail(queue) = 1 .. Len(Tail(queue))
    BY <1>1, <2>1, EmptySeq, LenProperties
  <2>3. r = Head(queue) /\ queue' = Tail(queue)
    BY DEF Acquire, AcquireRaises
  <2> QED
    BY <1>1, <2>1, <2>2, <2>3
<1>3. pc'[r] # "waiting" /\ Alone(r)
  <2>1. \/ Goto(r, "counting") \/ Goto(r, "querying") \/ Goto(r, "releasing")
        \/ Goto(r, "idle")
    BY DEF Acquire, AcquireRaises, Closed
  <2> QED
    BY <2>1 DEF Goto, TypeOK, Alone
<1>4. \A i, j \in DOMAIN queue' : queue'[i] = queue'[j] => i = j
  BY <1>2 DEF QueueKept
<1>5. ASSUME NEW q \in Client, q # r
      PROVE  pc'[q] = "waiting" <=> \E i \in DOMAIN queue' : queue'[i] = q
  <2>1. ASSUME NEW i \in DOMAIN queue, queue[i] = q
        PROVE  \E j \in DOMAIN queue' : queue'[j] = q
    <3>1. i - 1 \in DOMAIN queue' /\ (i - 1) + 1 = i
      BY <1>2, <1>5, <2>1
    <3> QED
      BY <1>2, <2>1, <3>1
  <2>2. ASSUME NEW j \in DOMAIN queue', queue'[j] = q
        PROVE  \E i \in DOMAIN queue : queue[i] = q
    BY <1>2, <2>2
  <2> QED
    BY <1>3, <1>5, <2>1, <2>2 DEF QueueKept, Alone
<1>6. \A i \in DOMAIN queue' : queue'[i] # r
  BY <1>2 DEF QueueKept
<1> QED
  BY <1>3, <1>4, <1>5, <1>6 DEF QueueKept

\* A handler that is cancelled leaves the queue if it is in it.
LEMMA QueueHangUp ==
  ASSUME TypeOK, QueueKept, NEW r \in Client, HangUp(r)
  PROVE  QueueKept'
<1>1. pc'[r] = "idle" /\ Alone(r)
  BY DEF HangUp, Closed, Goto, TypeOK, Alone
<1>2. CASE pc[r] # "waiting"
  BY <1>1, <1>2, QueueSame DEF HangUp
<1>3. CASE pc[r] = "waiting"
  <2>1. PICK k \in DOMAIN queue : queue[k] = r /\ queue' = RemoveAt(queue, k)
    BY <1>3 DEF HangUp
  <2>2. /\ Len(queue) \in Nat /\ DOMAIN queue = 1 .. Len(queue)
        /\ DOMAIN queue' = 1 .. Len(queue) - 1
        /\ \A j \in DOMAIN queue' : queue'[j] = IF j < k THEN queue[j] ELSE queue[j + 1]
    <3>1. queue \in Seq(Client)
      BY DEF TypeOK
    <3> QED
      BY <2>1, <3>1, LeaveQueue, LenProperties
  <2>3. \A i, j \in DOMAIN queue' : queue'[i] = queue'[j] => i = j
    BY <2>2 DEF QueueKept
  <2>4. \A j \in DOMAIN queue' : queue'[j] # r
    BY <2>1, <2>2 DEF QueueKept
  <2>5. ASSUME NEW q \in Client, q # r
        PROVE  pc'[q] = "waiting" <=> \E i \in DOMAIN queue' : queue'[i] = q
    <3>1. ASSUME NEW i \in DOMAIN queue, queue[i] = q
          PROVE  \E j \in DOMAIN queue' : queue'[j] = q
      <4>1. CASE i < k
        <5>1. i \in DOMAIN queue' /\ queue'[i] = q
          BY <2>2, <3>1, <4>1
        <5> QED
          BY <5>1
      <4>2. CASE ~(i < k)
        <5>1. i # k
          BY <2>1, <2>5, <3>1
        <5>2. i - 1 \in DOMAIN queue' /\ ~(i - 1 < k) /\ (i - 1) + 1 = i
          BY <2>2, <4>2, <5>1
        <5> QED
          BY <2>2, <3>1, <5>2
      <4> QED
        BY <4>1, <4>2
    <3>2. ASSUME NEW j \in DOMAIN queue', queue'[j] = q
          PROVE  \E i \in DOMAIN queue : queue[i] = q
      BY <2>2, <3>2
    <3> QED
      BY <1>1, <2>5, <3>1, <3>2 DEF QueueKept, Alone
  <2> QED
    BY <1>1, <2>3, <2>4, <2>5 DEF QueueKept
<1> QED
  BY <1>2, <1>3

\* A handler takes a free connection when it is first in the queue, and gives it back.
LEMMA HandlerKept ==
  ASSUME TypeOK, AskedInv, FreeKept, QueueKept, NEW r \in Client, Handler(r)
  PROVE  FreeKept' /\ QueueKept'
<1>1. ASSUME NEW what, Ends(r, what), pc[r] \in {"sent", "checking"}
      PROVE  FreeKept' /\ QueueKept'
  <2>1. pc'[r] = "idle" /\ Alone(r) /\ UNCHANGED pool
    BY <1>1 DEF Ends, Closed, Goto, TypeOK, Alone
  <2> QED
    BY <1>1, <2>1, FreeSame, QueueSame DEF Holding, pool
<1>2. ASSUME WaitForConnection(r), pc[r] \in {"sent", "checking"}
      PROVE  FreeKept' /\ QueueKept'
  <2>1. pc'[r] = "waiting" /\ Alone(r) /\ UNCHANGED <<free, held>>
    BY <1>2 DEF WaitForConnection, Goto, TypeOK, Alone
  <2> QED
    BY <1>2, <2>1, FreeSame, QueueUp DEF Holding
<1>3. CASE Start(r)
  <2>1. CASE Goto(r, "checking") /\ UNCHANGED pool
    <3>1. pc'[r] = "checking" /\ pc[r] = "sent" /\ Alone(r)
      BY <1>3, <2>1 DEF Start, Goto, TypeOK, Alone
    <3> QED
      BY <2>1, <3>1, FreeSame, QueueSame DEF Holding, pool
  <2> QED
    BY <1>1, <1>2, <1>3, <2>1 DEF Start
<1>4. CASE CheckCache(r)
  BY <1>1, <1>2, <1>4 DEF CheckCache
<1>5. CASE CheckCacheRaises(r)
  BY <1>1, <1>5 DEF CheckCacheRaises
<1>6. CASE Acquire(r)
  <2>1. PICK c \in free : free' = free \ {c} /\ held' = [held EXCEPT ![r] = c]
    BY <1>6 DEF Acquire
  <2>2. pc[r] = "waiting" /\ pc'[r] \in Holding /\ Alone(r)
    <3>1. Goto(r, "counting") \/ Goto(r, "querying") \/ Goto(r, "releasing")
      BY <1>6 DEF Acquire
    <3> QED
      BY <1>6, <3>1 DEF Acquire, Goto, TypeOK, Alone, Holding
  <2>3. held[r] = NoConn /\ c \in Conn /\ c # NoConn
    BY <2>1, <2>2, ConnAssumption DEF FreeKept, TypeOK, Holding
  <2>4. /\ held'[r] = c /\ \A q \in Client \ {r} : held'[q] = held[q]
        /\ \A q \in Client : held[q] # c
    BY <2>1, <2>3 DEF TypeOK, FreeKept
  <2>5. \A b \in Conn : b \in free' <=> \A q \in Client : held'[q] # b
    BY <2>1, <2>3, <2>4, ConnAssumption DEF FreeKept
  <2>6. \A p, q \in Client : held'[p] = held'[q] /\ held'[p] # NoConn => p = q
    BY <2>4 DEF FreeKept
  <2>7. \A q \in Client : pc'[q] \in Holding <=> held'[q] # NoConn
    BY <2>2, <2>3, <2>4 DEF FreeKept, Alone
  <2> QED
    BY <1>6, <2>5, <2>6, <2>7, QueueHead DEF FreeKept, Holding
<1>7. CASE \/ HitsArrive(r) \/ QueryRaises(r) \/ CountsArrive(r) \/ CountRaises(r)
           \/ SetCache(r) \/ SetCacheRaises(r) \/ HangUpHolding(r)
  <2>1. UNCHANGED pool /\ pc[r] \in Holding /\ (Goto(r, "caching") \/ Goto(r, "releasing"))
    BY <1>7 DEF HitsArrive, QueryRaises, CountsArrive, CountRaises, SetCache, SetCacheRaises,
                HangUpHolding, Holding
  <2>2. pc'[r] \in Holding /\ pc[r] # "waiting" /\ pc'[r] # "waiting" /\ Alone(r)
    BY <2>1 DEF Goto, TypeOK, Alone, Holding
  <2> QED
    BY <2>1, <2>2, FreeSame, QueueSame DEF pool
<1>8. CASE Release(r)
  <2>1. pc'[r] = "idle" /\ pc[r] = "releasing" /\ Alone(r) /\ UNCHANGED queue
    BY <1>8 DEF Release, Closed, Goto, TypeOK, Alone
  <2>2. /\ held[r] # NoConn /\ held'[r] = NoConn /\ free' = free \cup {held[r]}
        /\ \A q \in Client \ {r} : held'[q] = held[q]
    BY <1>8, <2>1 DEF Release, FreeKept, TypeOK, Holding
  <2>3. \A q \in Client \ {r} : held[q] # held[r]
    BY <2>2 DEF FreeKept
  <2>4. \A b \in Conn : b \in free' <=> \A q \in Client : held'[q] # b
    BY <2>2, <2>3, ConnAssumption DEF FreeKept
  <2>5. \A p, q \in Client : held'[p] = held'[q] /\ held'[p] # NoConn => p = q
    BY <2>2 DEF FreeKept
  <2>6. \A q \in Client : pc'[q] \in Holding <=> held'[q] # NoConn
    BY <2>1, <2>2 DEF FreeKept, Alone, Holding
  <2> QED
    BY <2>1, <2>4, <2>5, <2>6, QueueSame DEF FreeKept, Holding
<1>9. CASE HangUp(r)
  <2>1. /\ pc'[r] = "idle" /\ pc[r] \notin Holding /\ Alone(r)
        /\ UNCHANGED <<free, held>>
    BY <1>9 DEF HangUp, Closed, Goto, TypeOK, Alone, Holding
  <2> QED
    BY <1>9, <2>1, FreeSame, QueueHangUp DEF Holding
<1>10. CASE AcquireRaises(r)
  <2>1. /\ pc'[r] = "idle" /\ pc[r] \notin Holding /\ Alone(r)
        /\ UNCHANGED <<free, held>>
    BY <1>10 DEF AcquireRaises, Closed, Goto, TypeOK, Alone, Holding
  <2> QED
    BY <1>10, <2>1, FreeSame, QueueHead DEF Holding
<1> QED
  BY <1>3, <1>4, <1>5, <1>6, <1>7, <1>8, <1>9, <1>10 DEF Handler

\* The halves at the start, of the first server and of every later one.
LEMMA FreshPool ==
  ASSUME free = Conn, held = [r \in Client |-> NoConn], queue = << >>,
         pc = [r \in Client |-> "idle"]
  PROVE  FreeKept /\ QueueKept
<1>1. DOMAIN queue = {}
  BY EmptySeq, LenProperties
<1> QED
  BY <1>1, ConnAssumption DEF FreeKept, QueueKept, Holding

\* No step loses a connection or a place in the queue; a restart makes a new pool.
LEMMA KeptStep ==
  ASSUME TypeOK, AskedInv, FreeKept, QueueKept, [Next]_vars
  PROVE  FreeKept' /\ QueueKept'
<1>1. CASE Index
  BY <1>1 DEF Index, FreeKept, QueueKept, pool
<1>2. CASE Restart
  <2>1. /\ free' = Conn /\ held' = [r \in Client |-> NoConn] /\ queue' = << >>
        /\ pc' = [r \in Client |-> "idle"]
    BY <1>2 DEF Restart
  <2>2. DOMAIN queue' = {}
    BY <2>1, EmptySeq, LenProperties
  <2> QED
    BY <2>1, <2>2, ConnAssumption DEF FreeKept, QueueKept, Holding
<1>3. ASSUME NEW r \in Client, Send(r)
      PROVE  FreeKept' /\ QueueKept'
  <2>1. pc'[r] = "sent" /\ pc[r] = "idle" /\ Alone(r) /\ UNCHANGED pool
    BY <1>3 DEF Send, Goto, TypeOK, Alone
  <2> QED
    BY <2>1, FreeSame, QueueSame DEF Holding, pool
<1>4. CASE UNCHANGED vars
  BY <1>4 DEF vars, FreeKept, QueueKept, pool
<1> QED
  BY <1>1, <1>2, <1>3, <1>4, HandlerKept DEF Next
-----------------------------------------------------------------------------
(* Requests and the age of the database                                     *)

\* no step takes a file out of the database
LEMMA VersionGrows ==
  ASSUME TypeOK, [Next]_vars
  PROVE  version' \in Nat /\ version \in Nat /\ version <= version'
<1>1. version' = version \/ version' = version + 1
  <2>1. ASSUME NEW r \in Client, Handler(r)
        PROVE  version' = version
    BY <2>1 DEF Handler, Start, CheckCache, CheckCacheRaises, Acquire, AcquireRaises, HitsArrive,
       QueryRaises, CountsArrive, CountRaises, SetCache, SetCacheRaises, Release, HangUp,
       HangUpHolding, env
  <2> QED
    BY <2>1 DEF Next, Index, Restart, Send, env, vars
<1> QED
  BY <1>1, NumbersAssumption DEF TypeOK

\* A handler keeps its request, or ends and forgets it.
LEMMA HandlerClient ==
  ASSUME TypeOK, NEW r \in Client, Handler(r)
  PROVE  /\ \/ UNCHANGED client /\ pc[r] # "idle" /\ pc'[r] # "idle"
            \/ Closed(r) /\ pc[r] # "idle"
         /\ Alone(r)
<1>1. \/ /\ UNCHANGED client
         /\ \E there \in Holding \cup {"checking", "waiting"} : Goto(r, there)
      \/ Closed(r)
  BY DEF Handler, Start, CheckCache, CheckCacheRaises, Acquire, AcquireRaises, HitsArrive,
     QueryRaises, CountsArrive, CountRaises, SetCache, SetCacheRaises, Release, HangUp,
     HangUpHolding, Ends, WaitForConnection, Holding
<1>2. pc[r] # "idle"
  BY DEF Handler, Start, CheckCache, CheckCacheRaises, Acquire, AcquireRaises, HitsArrive,
     QueryRaises, CountsArrive, CountRaises, SetCache, SetCacheRaises, Release, HangUp,
     HangUpHolding
<1>3. CASE Closed(r)
  BY <1>2, <1>3 DEF Closed, Goto, TypeOK, Alone
<1>4. CASE /\ UNCHANGED client
           /\ \E there \in Holding \cup {"checking", "waiting"} : Goto(r, there)
  BY <1>2, <1>4 DEF Goto, TypeOK, Alone, Holding
<1> QED
  BY <1>1, <1>3, <1>4

\* A request is of the moment it is sent at, and gone when its handler has ended.
LEMMA AskedStep ==
  ASSUME TypeOK, AskedInv, [Next]_vars
  PROVE  AskedInv'
<1>1. version' \in Nat /\ version \in Nat /\ version <= version'
  BY VersionGrows
<1>2. \A r \in Client : since[r] \in Nat /\ since[r] <= version /\ since[r] <= version'
  BY <1>1, NumbersAssumption DEF TypeOK, AskedInv
<1>3. CASE Index \/ UNCHANGED vars
  BY <1>2, <1>3 DEF Index, vars, AskedInv, client
<1>4. CASE Restart
  BY <1>1, <1>4 DEF Restart, AskedInv
<1>5. ASSUME NEW r \in Client, Send(r)
      PROVE  AskedInv'
  <2>1. /\ body'[r] # NoBody /\ since'[r] = version /\ pc'[r] = "sent" /\ version' = version
        /\ \A q \in Client \ {r} : body'[q] = body[q] /\ since'[q] = since[q] /\ pc'[q] = pc[q]
    BY <1>5, NoBodyIsNone DEF Send, Goto, TypeOK, env
  <2> QED
    BY <1>1, <1>2, <2>1 DEF AskedInv
<1>6. ASSUME NEW r \in Client, Handler(r)
      PROVE  AskedInv'
  <2>1. CASE UNCHANGED client /\ pc[r] # "idle" /\ pc'[r] # "idle"
    BY <1>2, <1>6, <2>1, HandlerClient DEF AskedInv, Alone, client
  <2>2. CASE Closed(r) /\ pc[r] # "idle"
    <3>1. /\ body'[r] = NoBody /\ since'[r] = 0 /\ pc'[r] = "idle"
          /\ \A q \in Client \ {r} : body'[q] = body[q] /\ since'[q] = since[q] /\ pc'[q] = pc[q]
      BY <2>2 DEF Closed, Goto, TypeOK
    <3> QED
      BY <1>1, <1>2, <3>1 DEF AskedInv
  <2> QED
    BY <1>6, <2>1, <2>2, HandlerClient
<1> QED
  BY <1>3, <1>4, <1>5, <1>6 DEF Next
-----------------------------------------------------------------------------
(* What may be told                                                         *)

\* Answers speaks of pages and successes as QueryService does.
LEMMA SameWords ==
  /\ \A b, v : Promise!Pages(b, v) = Pages(b, v)
  /\ \A S : Promise!Success(S) = Success(S)
  /\ Promise!WellFormed = WellFormed /\ Promise!Failures = Failures
  /\ Promise!NoReply = NoReply /\ Promise!NoBody = NoBody /\ Promise!Replies = Replies
<1>1. \A n, offset : Promise!PageSize(n, offset) = PageSize(n, offset)
  BY DEF Promise!PageSize, PageSize
<1>2. \A b, v : Promise!Pages(b, v) = Pages(b, v)
  <2>1. \A S : Promise!Cardinality(S) = Cardinality(S)
    BY DEF Promise!Cardinality, Cardinality
  <2> QED
    BY <1>1, <2>1 DEF Promise!Pages, Pages
<1>3. \A S : Promise!Success(S) = Success(S)
  BY DEF Promise!Success, Success
<1>4. /\ Promise!NoReply = NoReply /\ Promise!NoBody = NoBody
      /\ Promise!Error = Error /\ Promise!Failed = Failed /\ Promise!Gone = Gone
  BY DEF Promise!NoReply, NoReply, Promise!NoBody, NoBody, Promise!Error, Error,
     Promise!Failed, Failed, Promise!Gone, Gone
<1>5. Promise!Failures = Failures
  BY <1>4 DEF Promise!Failures, Failures
<1>6. Promise!Replies = Replies
  BY <1>3, <1>4, <1>5 DEF Promise!Replies, Replies
<1>7. Promise!WellFormed = WellFormed
  BY DEF Promise!WellFormed, WellFormed
<1> QED
  BY <1>2, <1>3, <1>4, <1>5, <1>6, <1>7

\* Failing is always allowed.
LEMMA MayFail ==
  ASSUME NEW b, NEW u, NEW w
  PROVE  Failures \subseteq Promise!Honest(b, u, w)
  BY SameWords DEF Promise!Honest

\* A truth may be told that holds since the request, and an older one if it is not
\* that there is nothing.
LEMMA MayTell ==
  ASSUME NEW b, NEW u \in Nat, NEW w \in Nat, NEW v \in 0 .. w,
         NEW S \in Promise!Truths(b, v), u <= v \/ S # {}
  PROVE  Success(S) \in Promise!Honest(b, u, w)
<1>1. CASE u <= v
  <2>1. v \in u .. w
    BY <1>1
  <2>2. S \in UNION {Promise!Truths(b, t) : t \in u .. w}
    BY <2>1
  <2> QED
    BY <2>2, SameWords DEF Promise!Honest
<1>2. CASE S # {}
  <2>1. S \in UNION {Promise!Truths(b, t) \ {{}} : t \in 0 .. w}
    BY <1>2
  <2> QED
    BY <2>1, SameWords DEF Promise!Honest
<1> QED
  BY <1>1, <1>2

\* What may be told may be told later.
LEMMA MayTellLater ==
  ASSUME NEW b, NEW u \in Nat, NEW w \in Nat, NEW later \in Nat, w <= later,
         NEW h \in Promise!Honest(b, u, w)
  PROVE  h \in Promise!Honest(b, u, later)
<1>1. 0 .. w \subseteq 0 .. later /\ u .. w \subseteq u .. later
  OBVIOUS
<1> QED
  BY <1>1 DEF Promise!Honest

\* A page of the database is a truth of a request that asks for hits.
LEMMA PageIsTrue ==
  ASSUME NEW b, NEW v, Asks(b), b.query \in WellFormed \ Refused, NEW S \in Pages(b, v)
  PROVE  S \in Promise!Truths(b, v)
  BY SameWords DEF Asks, NoQuery, Promise!Truths
-----------------------------------------------------------------------------
(* What the handlers know                                                   *)

\* The numbers are natural ones.
LEMMA Numbers ==
  ASSUME TypeOK
  PROVE  version \in Nat /\ \A r \in Client : since[r] \in Nat
  BY NumbersAssumption DEF TypeOK

\* What a handler has come to may be told.
LEMMA PageMayBeTold ==
  ASSUME TypeOK, NEW r \in Client, Asks(body[r]), HasPage(r)
  PROVE  response[r] \in Promise!Honest(body[r], since[r], version)
<1>1. PICK v \in since[r] .. version : \E S \in Pages(body[r], v) : response[r] = Success(S)
  BY DEF HasPage
<1>2. PICK S \in Pages(body[r], v) : response[r] = Success(S)
  BY <1>1
<1>3. v \in 0 .. version /\ since[r] <= v /\ version \in Nat /\ since[r] \in Nat
  BY Numbers
<1>4. S \in Promise!Truths(body[r], v)
  BY <1>2, PageIsTrue DEF HasPage
<1> QED
  BY <1>2, <1>3, <1>4, MayTell

\* A handler that does not move knows what it knew, whatever is indexed meanwhile.
LEMMA StageSame ==
  ASSUME TypeOK, [Next]_vars, NEW q \in Client, Stage(q),
         pc'[q] = pc[q], body'[q] = body[q], since'[q] = since[q], response'[q] = response[q]
  PROVE  Stage(q)'
<1>1. /\ version \in Nat /\ version' \in Nat /\ version <= version' /\ since[q] \in Nat
  BY VersionGrows, Numbers
<1>2. ASSUME pc[q] = "caching" PROVE HasPage(q)'
  <2>1. since[q] .. version \subseteq since[q] .. version'
    BY <1>1
  <2> QED
    BY <1>2, <2>1 DEF Stage, HasPage
<1>3. ASSUME pc[q] = "releasing"
      PROVE  response'[q] \in Promise!Honest(body'[q], since'[q], version')
  <2>1. response[q] \in Promise!Honest(body[q], since[q], version)
    BY <1>3 DEF Stage
  <2>2. response[q] \in Promise!Honest(body[q], since[q], version')
    BY <1>1, <2>1, MayTellLater
  <2> QED
    BY <2>2
<1> QED
  BY <1>2, <1>3 DEF Stage

\* A step of a handler touches its own request and response alone.
LEMMA HandlerAlone ==
  ASSUME TypeOK, NEW r \in Client, Handler(r), NEW q \in Client \ {r}
  PROVE  /\ pc'[q] = pc[q] /\ body'[q] = body[q] /\ since'[q] = since[q]
         /\ response'[q] = response[q]
<1>1. UNCHANGED response \/ \E what : Respond(r, what)
  BY DEF Handler, Start, CheckCache, CheckCacheRaises, Acquire, AcquireRaises, HitsArrive,
     QueryRaises, CountsArrive, CountRaises, SetCache, SetCacheRaises, Release, HangUp,
     HangUpHolding, Ends, WaitForConnection
<1>2. response'[q] = response[q]
  BY <1>1 DEF Respond, TypeOK
<1> QED
  BY <1>2, HandlerClient DEF Closed, client, Alone, TypeOK

\* A handler that ends has nothing more to know, and one that goes to give its
\* connection back must have something to tell.
LEMMA StageIdle ==
  ASSUME NEW r \in Client, pc'[r] = "idle"
  PROVE  Stage(r)'
  BY DEF Stage

\* A handler about to end knows its response to be honest ...
LEMMA StageReleasing ==
  ASSUME TypeOK, NEW r \in Client, Goto(r, "releasing"),
         response'[r] \in Promise!Honest(body[r], since[r], version),
         UNCHANGED <<body, since, version>>
  PROVE  Stage(r)'
<1>1. pc'[r] = "releasing"
  BY DEF Goto, TypeOK
<1> QED
  BY <1>1 DEF Stage

\* ... and a failure always is.
LEMMA StageFailure ==
  ASSUME TypeOK, NEW r \in Client, Goto(r, "releasing"),
         NEW what \in Failures, Respond(r, what),
         UNCHANGED <<body, since, version>>
  PROVE  Stage(r)'
<1>1. response'[r] = what
  BY DEF Respond, TypeOK
<1>2. response'[r] \in Promise!Honest(body[r], since[r], version)
  BY <1>1, MayFail
<1> QED
  BY <1>2, StageReleasing

\* A handler knows at the next await what it should know there.
LEMMA StageHandler ==
  ASSUME TypeOK, AskedInv, StageInv, NEW r \in Client, Handler(r)
  PROVE  Stage(r)'
<1>1. Stage(r) /\ pc \in [Client -> Holding \cup {"idle", "sent", "checking", "waiting"}]
  BY DEF StageInv, TypeOK
<1>2. ASSUME NEW what, Ends(r, what)
      PROVE  Stage(r)'
  BY <1>1, <1>2, StageIdle DEF Ends, Closed, Goto
<1>3. ASSUME WaitForConnection(r), Asks(body[r]) \/ body[r].path = "/stats"
      PROVE  Stage(r)'
  BY <1>1, <1>3 DEF WaitForConnection, Goto, client, Stage
<1>4. CASE Start(r)
  <2>1. CASE /\ body[r].path = "/query" /\ body[r].query \notin NoQuery
             /\ Goto(r, "checking") /\ UNCHANGED client
    BY <1>1, <2>1 DEF Goto, client, Stage, Asks
  <2>2. CASE /\ body[r].path = "/query" /\ body[r].query \notin NoQuery
             /\ WaitForConnection(r)
    BY <1>3, <2>2 DEF Asks
  <2> QED
    BY <1>2, <1>3, <1>4, <2>1, <2>2 DEF Start
<1>5. CASE CheckCache(r)
  BY <1>1, <1>2, <1>3, <1>5 DEF CheckCache, Stage
<1>6. CASE CheckCacheRaises(r)
  BY <1>2, <1>6 DEF CheckCacheRaises
<1>7. CASE Acquire(r)
  <2>1. pc[r] = "waiting" /\ UNCHANGED <<body, since, version>>
    BY <1>7 DEF Acquire, client, env
  <2>2. CASE body[r].path = "/stats" /\ Goto(r, "counting")
    BY <1>1, <2>1, <2>2 DEF Goto, Stage
  <2>3. CASE body[r].path = "/query" /\ body[r].query \in WellFormed /\ Goto(r, "querying")
    <3>1. Asks(body[r])
      BY <1>1, <2>1, <2>3 DEF Stage
    <3> QED
      BY <1>1, <2>1, <2>3, <3>1 DEF Goto, Stage
  <2>4. CASE Goto(r, "releasing") /\ Respond(r, Error)
    BY <2>1, <2>4, StageFailure DEF Failures
  <2>5. \/ body[r].path = "/stats" /\ Goto(r, "counting")
        \/ body[r].path = "/query" /\ body[r].query \in WellFormed /\ Goto(r, "querying")
        \/ Goto(r, "releasing") /\ Respond(r, Error)
    BY <1>7 DEF Acquire
  <2> QED
    BY <2>2, <2>3, <2>4, <2>5
<1>8. CASE HitsArrive(r)
  <2>1. /\ UNCHANGED <<body, since, version>>
        /\ Asks(body[r]) /\ body[r].query \in WellFormed \ Refused
    BY <1>1, <1>8 DEF HitsArrive, client, env, Stage
  <2>2. PICK S \in Pages(body[r], version) : Respond(r, Success(S))
    BY <1>8 DEF HitsArrive
  <2>3. response'[r] = Success(S)
    BY <2>2 DEF Respond, TypeOK
  <2>4. since[r] \in Nat /\ version \in Nat /\ since[r] <= version
    BY Numbers DEF AskedInv
  <2>5. CASE Goto(r, "caching")
    <3>1. HasPage(r)'
      BY <2>1, <2>3, <2>4 DEF HasPage
    <3> QED
      BY <1>1, <2>1, <2>5, <3>1 DEF Goto, Stage
  <2>6. CASE Goto(r, "releasing")
    <3>1. S \in Promise!Truths(body[r], version)
      BY <2>1, PageIsTrue
    <3>2. response'[r] \in Promise!Honest(body[r], since[r], version)
      BY <2>3, <2>4, <3>1, MayTell
    <3> QED
      BY <2>1, <2>6, <3>2, StageReleasing
  <2> QED
    BY <1>8, <2>5, <2>6 DEF HitsArrive
<1>9. CASE CountsArrive(r)
  <2>1. response'[r] = Success(1 .. version) /\ UNCHANGED <<body, since, version>>
    BY <1>9 DEF CountsArrive, Respond, TypeOK, client, env
  <2>2. since[r] \in Nat /\ version \in Nat /\ since[r] <= version
    BY Numbers DEF AskedInv
  <2>3. body[r].path = "/stats"
    BY <1>1, <1>9 DEF CountsArrive, Stage
  <2>4. 1 .. version \in Promise!Truths(body[r], version)
    BY <2>3 DEF Promise!Truths
  <2>5. Success(1 .. version) \in Promise!Honest(body[r], since[r], version)
    <3> DEFINE all == 1 .. version
    <3>1. all \in Promise!Truths(body[r], version) /\ version \in 0 .. version
      BY <2>2, <2>4
    <3> HIDE DEF all
    <3>2. Success(all) \in Promise!Honest(body[r], since[r], version)
      BY <2>2, <3>1, MayTell
    <3> QED
      BY <3>2 DEF all
  <2> QED
    BY <1>9, <2>1, <2>5, StageReleasing DEF CountsArrive
<1>10. CASE SetCache(r)
  <2>1. response'[r] \in Promise!Honest(body[r], since[r], version)
    BY <1>1, <1>10, PageMayBeTold DEF SetCache, Stage
  <2> QED
    BY <1>10, <2>1, StageReleasing DEF SetCache, client, env
<1>11. CASE \/ QueryRaises(r) \/ CountRaises(r) \/ SetCacheRaises(r) \/ HangUpHolding(r)
  <2>1. /\ Goto(r, "releasing") /\ \E what \in Failures : Respond(r, what)
        /\ UNCHANGED <<body, since, version>>
    BY <1>11 DEF QueryRaises, CountRaises, SetCacheRaises, HangUpHolding, client, env, Failures
  <2> QED
    BY <2>1, StageFailure
<1>12. CASE Release(r) \/ HangUp(r) \/ AcquireRaises(r)
  BY <1>1, <1>12, StageIdle DEF Release, HangUp, AcquireRaises, Closed, Goto
<1> QED
  BY <1>4, <1>5, <1>6, <1>7, <1>8, <1>9, <1>10, <1>11, <1>12 DEF Handler

\* What a handler knows is not disturbed by other clients, nor by the indexer.
LEMMA StageStep ==
  ASSUME TypeOK, AskedInv, StageInv, [Next]_vars
  PROVE  StageInv'
<1> SUFFICES ASSUME NEW q \in Client PROVE Stage(q)'
  BY DEF StageInv
<1>1. Stage(q)
  BY DEF StageInv
<1>2. CASE Index \/ UNCHANGED vars
  BY <1>1, <1>2, StageSame DEF Index, vars, client
<1>3. CASE Restart
  BY <1>3, StageIdle DEF Restart
<1>4. ASSUME NEW r \in Client, Send(r)
      PROVE  Stage(q)'
  <2>1. CASE q = r
    BY <1>4, <2>1 DEF Send, Goto, TypeOK, Stage
  <2>2. CASE q # r
    BY <1>1, <1>4, <2>2, StageSame DEF Send, Goto, Respond, TypeOK
  <2> QED
    BY <2>1, <2>2
<1>5. ASSUME NEW r \in Client, Handler(r)
      PROVE  Stage(q)'
  <2>1. CASE q = r
    BY <1>5, <2>1, StageHandler
  <2>2. CASE q # r
    BY <1>1, <1>5, <2>2, StageSame, HandlerAlone
  <2> QED
    BY <2>1, <2>2
<1> QED
  BY <1>2, <1>3, <1>4, <1>5 DEF Next
-----------------------------------------------------------------------------
(* Redis                                                                    *)

\* Redis is written by a handler that has a page to store, and by nobody else.
LEMMA CacheWritten ==
  ASSUME [Next]_vars, StageInv
  PROVE  \/ cache' = cache
         \/ \E r \in Client : /\ Asks(body[r]) /\ HasPage(r)
                              /\ cache' = Store(body[r], response[r].results)
<1>1. ASSUME NEW r \in Client, SetCache(r) \/ SetCacheRaises(r) \/ HangUpHolding(r), cache' # cache
      PROVE  /\ pc[r] = "caching"
             /\ cache' = Store(body[r], response[r].results)
  BY <1>1 DEF SetCache, SetCacheRaises, HangUpHolding
<1>2. ASSUME NEW r \in Client, Handler(r), ~(SetCache(r) \/ SetCacheRaises(r) \/ HangUpHolding(r))
      PROVE  cache' = cache
  BY <1>2 DEF Handler, Start, CheckCache, CheckCacheRaises, Acquire, AcquireRaises, HitsArrive,
     QueryRaises, CountsArrive, CountRaises, Release, HangUp
<1>3. \A r \in Client : pc[r] = "caching" => Asks(body[r]) /\ HasPage(r)
  BY DEF StageInv, Stage
<1>4. CASE Index \/ Restart \/ UNCHANGED vars \/ \E r \in Client : Send(r)
  BY <1>4 DEF Index, Restart, Send, vars
<1> QED
  BY <1>1, <1>2, <1>3, <1>4 DEF Next

\* Only a page the database had is stored, and it stays one it had.
LEMMA CacheStep ==
  ASSUME TypeOK, StageInv, CacheInv, [Next]_vars
  PROVE  CacheInv'
<1> DEFINE Good(b, S, w) ==
             /\ Asks(b) /\ b.query \in WellFormed \ Refused
             /\ \E v \in 0 .. w : S \in Pages(b, v)
<1>1. version \in Nat /\ version' \in Nat /\ version <= version'
  BY VersionGrows
<1>2. \A b, S : Good(b, S, version) => Good(b, S, version')
  <2>1. 0 .. version \subseteq 0 .. version'
    BY <1>1
  <2> QED
    BY <2>1
<1>3. \A b \in DOMAIN cache : Good(b, cache[b], version)
  BY DEF CacheInv, CacheTrue
<1>4. \A b \in DOMAIN cache' : Good(b, cache'[b], version')
  <2>1. CASE cache' = cache
    BY <1>2, <1>3, <2>1
  <2>2. ASSUME NEW r \in Client, Asks(body[r]), HasPage(r),
               cache' = Store(body[r], response[r].results)
        PROVE  \A b \in DOMAIN cache' : Good(b, cache'[b], version')
    <3>1. PICK v \in since[r] .. version : \E S \in Pages(body[r], v) : response[r] = Success(S)
      BY <2>2 DEF HasPage
    <3>2. PICK S \in Pages(body[r], v) : response[r] = Success(S)
      BY <3>1
    <3>3. v \in 0 .. version /\ response[r].results = S
      BY <3>2, Numbers DEF Success
    <3>4. Good(body[r], S, version)
      BY <2>2, <3>2, <3>3 DEF HasPage
    <3>5. /\ DOMAIN cache' = DOMAIN cache \cup {body[r]}
          /\ cache'[body[r]] = S
          /\ \A b \in DOMAIN cache \ {body[r]} : cache'[b] = cache[b]
      BY <2>2, <3>3 DEF Store, Key
    <3> HIDE DEF Good
    <3> QED
      BY <1>2, <1>3, <3>4, <3>5
  <2> QED
    BY <2>1, <2>2, CacheWritten
<1> QED
  BY <1>4 DEF CacheInv, CacheTrue, Asks
-----------------------------------------------------------------------------
(* The invariants                                                           *)

\* The service starts without requests and with all connections free.
LEMMA IInvInit == Init => IInv
<1> SUFFICES ASSUME Init PROVE IInv
  OBVIOUS
<1>1. TypeOK
  BY InitType
<1>2. ConnectionsKept
  BY <1>1, FreshPool, Halves DEF Init
<1>3. AskedInv /\ StageInv
  BY NumbersAssumption DEF Init, AskedInv, StageInv, Stage
<1>4. DOMAIN cache = {}
  BY EmptySeq, LenProperties DEF Init
<1> QED
  BY <1>1, <1>2, <1>3, <1>4 DEF IInv, CacheInv, CacheTrue

\* The parts of the invariant together are inductive.
LEMMA IInvStep == IInv /\ [Next]_vars => IInv'
<1> SUFFICES ASSUME IInv, [Next]_vars PROVE IInv'
  OBVIOUS
<1>1. TypeOK'
  BY TypeStep DEF IInv
<1>2. AskedInv' /\ StageInv' /\ CacheInv'
  BY AskedStep, StageStep, CacheStep DEF IInv
<1>3. FreeKept' /\ QueueKept'
  BY KeptStep, Halves DEF IInv
<1>4. ConnectionsKept'
  BY <1>1, <1>3, HalvesNext
<1> QED
  BY <1>1, <1>2, <1>4 DEF IInv

\* The invariant holds in every state of every run of the service.
LEMMA IInvCorrect == Spec => []IInv
  BY IInvInit, IInvStep, PTL DEF Spec

\* The database, redis, the requests and the pool keep their types.
THEOREM ServiceTypeCorrect == Spec => []TypeOK
<1>1. IInv => TypeOK
  BY DEF IInv
<1> QED
  BY <1>1, IInvCorrect, PTL

\* No connection is lost and none has two holders, whatever fails, is cancelled or
\* hangs up, and the queue has exactly those who wait.
THEOREM NoConnectionLost == Spec => []ConnectionsKept
<1>1. IInv => ConnectionsKept
  BY DEF IInv
<1> QED
  BY <1>1, IInvCorrect, PTL

\* Redis has only pages that the database has had for the request they are stored
\* under, over restarts of the service, too.
THEOREM CacheHoldsPages == Spec => []CacheTrue
<1>1. IInv => CacheTrue
  BY DEF IInv, CacheInv
<1> QED
  BY <1>1, IInvCorrect, PTL
-----------------------------------------------------------------------------
(* The promise: every step of the service is one of Answers, or none        *)

\* what Answers calls reply
heard == [r \in Client |-> IF pc[r] = "idle" THEN response[r] ELSE NoReply]

\* A handler that ends has something to say that may be said.
LEMMA EndsHonestly ==
  ASSUME IInv, NEW r \in Client, Handler(r), Closed(r)
  PROVE  /\ response'[r] \in Promise!Honest(body[r], since[r], version)
         /\ version' = version
<1> USE DEF IInv
<1>1. since[r] \in Nat /\ version \in Nat /\ since[r] <= version /\ version \in 0 .. version
  BY Numbers DEF AskedInv
<1>2. pc'[r] = "idle"
  BY DEF Closed, Goto, TypeOK
<1>3. ASSUME NEW what \in Promise!Honest(body[r], since[r], version), Respond(r, what)
      PROVE  response'[r] \in Promise!Honest(body[r], since[r], version)
  BY <1>3 DEF Respond, TypeOK
<1>4. /\ Error \in Promise!Honest(body[r], since[r], version)
      /\ Failed \in Promise!Honest(body[r], since[r], version)
      /\ Gone \in Promise!Honest(body[r], since[r], version)
  BY MayFail DEF Failures
<1>5. ASSUME NEW there \in Holding \cup {"checking", "waiting"}, Goto(r, there)
      PROVE  FALSE
  BY <1>2, <1>5 DEF Goto, TypeOK, Holding
<1>6. ~WaitForConnection(r)
  BY <1>5 DEF WaitForConnection
<1>7. CASE Start(r)
  <2>1. \/ Ends(r, Error) \/ Ends(r, Failed)
        \/ body[r].path = "/query" /\ body[r].query = "" /\ Ends(r, Success({}))
    BY <1>5, <1>6, <1>7 DEF Start
  <2>2. ASSUME body[r].path = "/query", body[r].query = ""
        PROVE  Success({}) \in Promise!Honest(body[r], since[r], version)
    <3>1. {} \in Promise!Truths(body[r], version)
      BY <2>2 DEF Promise!Truths
    <3> QED
      BY <1>1, <3>1, MayTell
  <2> QED
    BY <1>3, <1>4, <1>7, <2>1, <2>2 DEF Start, Ends, env
<1>8. CASE CheckCache(r)
  <2>1. /\ body[r] \in DOMAIN cache /\ cache[body[r]] # {}
        /\ Respond(r, Success(cache[body[r]]))
    BY <1>6, <1>8 DEF CheckCache, Key, Ends
  <2>2. PICK v \in 0 .. version : cache[body[r]] \in Pages(body[r], v)
    BY <2>1 DEF CacheInv, CacheTrue
  <2>3. cache[body[r]] \in Promise!Truths(body[r], v)
    BY <2>1, <2>2, PageIsTrue DEF CacheInv, CacheTrue
  <2>4. Success(cache[body[r]]) \in Promise!Honest(body[r], since[r], version)
    BY <1>1, <2>1, <2>3, MayTell
  <2> QED
    BY <1>3, <1>8, <2>1, <2>4 DEF CheckCache, env
<1>9. CASE CheckCacheRaises(r)
  BY <1>3, <1>4, <1>9 DEF CheckCacheRaises, Ends, env
<1>10. CASE HangUp(r) \/ AcquireRaises(r)
  BY <1>3, <1>4, <1>10 DEF HangUp, AcquireRaises, env
<1>11. CASE Release(r)
  BY <1>11 DEF Release, StageInv, Stage, env
<1>12. ~ \/ Acquire(r) \/ HitsArrive(r) \/ QueryRaises(r) \/ CountsArrive(r) \/ CountRaises(r)
         \/ SetCache(r) \/ SetCacheRaises(r) \/ HangUpHolding(r)
  BY <1>5 DEF Acquire, HitsArrive, QueryRaises, CountsArrive, CountRaises,
     SetCache, SetCacheRaises, HangUpHolding, Holding
<1> QED
  BY <1>7, <1>8, <1>9, <1>10, <1>11, <1>12 DEF Handler

\* The first state of the service is one of Answers.
LEMMA PromiseInit == Init => Promise!Init
  BY SameWords DEF Init, Promise!Init

\* A handler that ends tells its client; any other step of it tells nobody.
LEMMA PromiseHandler ==
  ASSUME IInv, IInv', NEW r \in Client, Handler(r), [Next]_vars
  PROVE  \/ Promise!Tell({r}) /\ body[r] # NoBody
         \/ UNCHANGED <<body, since, heard>>
<1> USE DEF IInv
<1>1. \A q \in Client \ {r} : heard'[q] = heard[q]
  BY HandlerAlone DEF heard
<1>2. CASE Closed(r) /\ pc[r] # "idle"
  <2>1. /\ body' = [q \in Client |-> IF q \in {r} THEN NoBody ELSE body[q]]
        /\ since' = [q \in Client |-> IF q \in {r} THEN 0 ELSE since[q]]
        /\ pc'[r] = "idle"
    BY <1>2 DEF Closed, Goto, TypeOK
  <2>2. heard'[r] \in Promise!Honest(body[r], since[r], version) /\ version' = version
    BY <1>2, <2>1, EndsHonestly DEF heard
  <2>3. heard' \in [Client -> Replies]
    BY RepliesAre DEF heard, TypeOK
  <2>4. body[r] # NoBody
    BY <1>2 DEF AskedInv
  <2> QED
    BY <1>1, <2>1, <2>2, <2>3, <2>4, SameWords DEF Promise!Tell, heard
<1>3. CASE UNCHANGED client /\ pc[r] # "idle" /\ pc'[r] # "idle"
  <2>1. heard'[r] = heard[r]
    BY <1>3 DEF heard
  <2>2. heard' = heard
    BY <1>1, <2>1 DEF heard
  <2> QED
    BY <1>3, <2>2 DEF client
<1> QED
  BY <1>2, <1>3, HandlerClient

\* The end of a server tells all who have a request.
LEMMA PromiseRestart ==
  ASSUME IInv, IInv', Restart
  PROVE  \E told \in SUBSET {r \in Client : body[r] # NoBody} : Promise!Tell(told)
<1> USE DEF IInv
<1> PICK told : told = {r \in Client : body[r] # NoBody}
  OBVIOUS
<1>1. \A r \in Client : r \in told <=> InService(r)
  BY DEF AskedInv, InService
<1>2. heard' = [r \in Client |-> IF r \in told THEN Gone ELSE heard[r]]
  BY <1>1 DEF Restart, heard, InService
<1>3. heard' \in [Client -> Replies]
  BY RepliesAre DEF heard, TypeOK
<1>4. \A r \in Client : Gone \in Promise!Honest(body[r], since[r], version)
  BY MayFail DEF Failures
<1>5. body' = [r \in Client |-> IF r \in told THEN NoBody ELSE body[r]]
  BY DEF Restart
<1>6. since' = [r \in Client |-> IF r \in told THEN 0 ELSE since[r]]
  BY <1>1 DEF Restart, AskedInv, InService
<1>7. Promise!Tell(told)
  BY <1>2, <1>3, <1>4, <1>5, <1>6, SameWords DEF Promise!Tell, heard, Restart, env
<1> QED
  BY <1>7

\* Every step of the service is one of Answers or is not seen by the clients.
LEMMA PromiseStep == IInv /\ IInv' /\ [Next]_vars => [Promise!Next]_(Promise!vars)
<1> SUFFICES ASSUME IInv, IInv', [Next]_vars PROVE [Promise!Next]_(Promise!vars)
  OBVIOUS
<1> USE DEF IInv
<1>1. CASE Index
  BY <1>1 DEF Index, Promise!Next, Promise!Index, client
<1>2. CASE Restart
  BY <1>2, PromiseRestart, SameWords DEF Promise!Next
<1>3. ASSUME NEW r \in Client, Send(r)
      PROVE  Promise!Next
  <2>1. body[r] = NoBody
    BY <1>3 DEF Send, AskedInv
  <2>2. heard' = [heard EXCEPT ![r] = NoReply]
    BY <1>3 DEF Send, Goto, Respond, TypeOK, heard
  <2>3. Promise!Ask(r)
    BY <1>3, <2>1, <2>2, SameWords DEF Promise!Ask, Send, heard, env
  <2> QED
    BY <2>3 DEF Promise!Next
<1>4. ASSUME NEW r \in Client, Handler(r)
      PROVE  [Promise!Next]_(Promise!vars)
  <2>1. CASE Promise!Tell({r}) /\ body[r] # NoBody
    <3>1. {r} \in SUBSET {q \in Client : body[q] # NoBody}
      BY <2>1
    <3> QED
      BY <2>1, <3>1, SameWords DEF Promise!Next
  <2>2. CASE UNCHANGED <<body, since, heard>>
    <3>1. version' = version
      BY <1>4 DEF Handler, Start, CheckCache, CheckCacheRaises, Acquire, AcquireRaises, HitsArrive,
         QueryRaises, CountsArrive, CountRaises, SetCache, SetCacheRaises, Release, HangUp,
       HangUpHolding, env
    <3> QED
      BY <2>2, <3>1 DEF Promise!vars, heard
  <2> QED
    BY <1>4, <2>1, <2>2, PromiseHandler
<1>5. CASE UNCHANGED vars
  BY <1>5 DEF vars, Promise!vars
<1> QED
  BY <1>1, <1>2, <1>3, <1>4, <1>5 DEF Next

\* The service implements Answers: whatever is cached, cancelled, late or restarted, a
\* request hears one thing, and a success is what the database had for it.
THEOREM ServiceKeepsPromise == Spec => KeepsPromise
  BY IInvCorrect, PromiseInit, PromiseStep, PTL DEF Spec, KeepsPromise, Promise!Spec
=============================================================================
