----------------------------- MODULE QueryService -----------------------------
(***************************************************************************)
(* The web service (web/api.py) with what it calls in fetch.py: handlers   *)
(* on one event loop, cut at every await; a pool of connections; redis,    *)
(* which outlives the server; a database that grows meanwhile; time-outs,  *)
(* clients that hang up, and restarts.                                     *)
(***************************************************************************)
EXTENDS Requests, SequencesExt

CONSTANT Conn        \* the connections of the pool

\* what a handler holds that has no connection
NoConn == "no connection"

ASSUME ConnAssumption == IsFiniteSet(Conn) /\ Conn # {} /\ NoConn \notin Conn

VARIABLES version,  \* how many files are indexed
          caching,  \* config.redis.cache
          cache,    \* redis: what is stored under each request body
          body,     \* what each client is asking, NoBody if nothing
          since,    \* the version of the database when it asked
          pc,       \* the await the handler of its request is at
          queue,    \* the handlers that wait for a connection
          free,     \* the connections of the pool that nobody holds
          held,     \* the connection each handler holds
          response  \* the response each handler has come to last

vars == <<version, caching, cache, body, since, pc, queue, free, held, response>>
client == <<body, since>>
pool == <<queue, free, held>>
env == <<version, caching>>

\* where a handler holds a connection
Holding == {"querying", "counting", "caching", "releasing"}

\* json.dumps(request.json)
Key(b) == b

Store(b, S) == [k \in DOMAIN cache \cup {Key(b)} |-> IF k = Key(b) THEN S ELSE cache[k]]

Goto(r, there) == pc' = [pc EXCEPT ![r] = there]
Respond(r, what) == response' = [response EXCEPT ![r] = what]

\* the client has its response
Closed(r) == /\ Goto(r, "idle")
             /\ body' = [body EXCEPT ![r] = NoBody] /\ since' = [since EXCEPT ![r] = 0]

\* no file is indexed, the server has just started and redis is empty
Init == /\ version = 0 /\ caching \in BOOLEAN
        /\ cache = << >>
        /\ body = [r \in Client |-> NoBody] /\ since = [r \in Client |-> 0]
        /\ pc = [r \in Client |-> "idle"]
        /\ queue = << >> /\ free = Conn /\ held = [r \in Client |-> NoConn]
        /\ response = [r \in Client |-> NoReply]

\* the indexer commits a file
Index == /\ version < Files
         /\ version' = version + 1
         /\ UNCHANGED <<caching, cache, client, pc, pool, response>>

Send(r) == /\ pc[r] = "idle"
           /\ \E b \in Body : body' = [body EXCEPT ![r] = b]
           /\ since' = [since EXCEPT ![r] = version]
           /\ Goto(r, "sent") /\ Respond(r, NoReply)
           /\ UNCHANGED <<env, cache, pool>>
-----------------------------------------------------------------------------
(* The handlers                                                             *)

\* a handler comes to the end without having needed a connection
Ends(r, what) == Respond(r, what) /\ Closed(r) /\ UNCHANGED pool

\* await app.database_pool.acquire()
WaitForConnection(r) == /\ queue' = Append(queue, r)
                        /\ Goto(r, "waiting")
                        /\ UNCHANGED <<client, free, held, response>>

\* query() and stats() up to the first await
Start(r) ==
  /\ pc[r] = "sent"
  /\ \/ body[r].path = "/query" /\ body[r].query = "none" /\ Ends(r, Error)
     \/ body[r].path = "/query" /\ body[r].query = "null" /\ Ends(r, Failed)
     \/ body[r].path = "/query" /\ body[r].query = "" /\ Ends(r, Success({}))
     \/ /\ body[r].path = "/query" /\ body[r].query \notin NoQuery /\ caching
        /\ Goto(r, "checking") /\ UNCHANGED <<client, pool, response>>
     \/ /\ body[r].path = "/query" /\ body[r].query \notin NoQuery /\ ~caching
        /\ WaitForConnection(r)
     \/ body[r].path = "/stats" /\ WaitForConnection(r)
  /\ UNCHANGED <<env, cache>>

\* mutant: if (entry := await check_cache(request.json)) is not None
CheckCacheForNone(r) ==
  /\ pc[r] = "checking"
  /\ IF Key(body[r]) \in DOMAIN cache
     THEN Ends(r, Success(cache[Key(body[r])])) ELSE WaitForConnection(r)
  /\ UNCHANGED <<env, cache>>

\* if entry := await check_cache(request.json): an empty list is no entry
CheckCache(r) ==
  /\ pc[r] = "checking"
  /\ IF Key(body[r]) \in DOMAIN cache /\ cache[Key(body[r])] # {}
     THEN Ends(r, Success(cache[Key(body[r])])) ELSE WaitForConnection(r)
  /\ UNCHANGED <<env, cache>>

CheckCacheRaises(r) == /\ pc[r] = "checking"
                       /\ Ends(r, Failed)
                       /\ UNCHANGED <<env, cache>>

\* a connection is free: parse, compile and send the query, or count
Acquire(r) ==
  /\ pc[r] = "waiting" /\ r = Head(queue)
  /\ \E c \in free : free' = free \ {c} /\ held' = [held EXCEPT ![r] = c]
  /\ queue' = Tail(queue)
  /\ CASE body[r].path = "/stats" -> Goto(r, "counting") /\ UNCHANGED response
       [] body[r].path = "/query" /\ body[r].query \in WellFormed ->
            Goto(r, "querying") /\ UNCHANGED response
       [] OTHER -> Goto(r, "releasing") /\ Respond(r, Error)
  /\ UNCHANGED <<env, cache, client>>

\* the connection that is free cannot be opened: the exception leaves the handler
AcquireRaises(r) ==
  /\ pc[r] = "waiting" /\ r = Head(queue) /\ free # {}
  /\ queue' = Tail(queue)
  /\ Respond(r, Failed) /\ Closed(r)
  /\ UNCHANGED <<env, cache, free, held>>

\* the database answers in time
HitsArrive(r) ==
  /\ pc[r] = "querying" /\ body[r].query \notin Refused
  /\ \E S \in Pages(body[r], version) : Respond(r, Success(S))
  /\ Goto(r, IF caching THEN "caching" ELSE "releasing")
  /\ UNCHANGED <<env, cache, client, pool>>

\* mutant: the await has no limit
NeverInTime(r) == /\ pc[r] = "querying" /\ body[r].query \in Refused
                  /\ Respond(r, Error) /\ Goto(r, "releasing")
                  /\ UNCHANGED <<env, cache, client, pool>>

\* mutant: set_cache is called in a finally clause
QueryRaisesCached(r) ==
  /\ pc[r] = "querying"
  /\ Respond(r, Error) /\ Goto(r, IF caching THEN "caching" ELSE "releasing")
  /\ UNCHANGED <<env, cache, client, pool>>

\* wait_for gives up, or the database raises
QueryRaises(r) == /\ pc[r] = "querying"
                  /\ Respond(r, Error) /\ Goto(r, "releasing")
                  /\ UNCHANGED <<env, cache, client, pool>>

\* the query of /stats, which nothing limits, ends
CountsArrive(r) == /\ pc[r] = "counting"
                   /\ Respond(r, Success(1..version)) /\ Goto(r, "releasing")
                   /\ UNCHANGED <<env, cache, client, pool>>

CountRaises(r) == /\ pc[r] = "counting"
                  /\ Respond(r, Failed) /\ Goto(r, "releasing")
                  /\ UNCHANGED <<env, cache, client, pool>>

\* await set_cache(request.json, results)
SetCache(r) == /\ pc[r] = "caching"
               /\ cache' = Store(body[r], response[r].results)
               /\ Goto(r, "releasing")
               /\ UNCHANGED <<env, client, pool, response>>

\* redis raises, having stored the entry or not: the answer is lost
SetCacheRaises(r) == /\ pc[r] = "caching"
                     /\ cache' \in {cache, Store(body[r], response[r].results)}
                     /\ Respond(r, Failed) /\ Goto(r, "releasing")
                     /\ UNCHANGED <<env, client, pool>>

\* mutant: the connection is forgotten before it is put back
ReleaseForgotten(r) == /\ pc[r] = "releasing"
                       /\ held' = [held EXCEPT ![r] = NoConn]
                       /\ free' = free \cup {held'[r]}
                       /\ Closed(r)
                       /\ UNCHANGED <<env, cache, queue, response>>

\* the end of async with, then the response is sent
Release(r) == /\ pc[r] = "releasing"
              /\ free' = free \cup {held[r]}
              /\ held' = [held EXCEPT ![r] = NoConn]
              /\ Closed(r)
              /\ UNCHANGED <<env, cache, queue, response>>

\* mutant: the cancelled handler does not leave the queue of the pool
HangUpInQueue(r) ==
  /\ pc[r] \in {"sent", "checking", "waiting"}
  /\ Ends(r, Gone)
  /\ UNCHANGED <<env, cache>>

\* the client hangs up and the handler is cancelled where it waits
HangUp(r) ==
  /\ pc[r] \in {"sent", "checking", "waiting"}
  /\ IF pc[r] = "waiting"
     THEN \E i \in DOMAIN queue : queue[i] = r /\ queue' = RemoveAt(queue, i)
     ELSE UNCHANGED queue
  /\ Respond(r, Gone) /\ Closed(r)
  /\ UNCHANGED <<env, cache, free, held>>

\* ... inside async with, which gives the connection back
HangUpHolding(r) ==
  /\ pc[r] \in {"querying", "counting", "caching"}
  /\ cache' \in {cache} \cup (IF pc[r] = "caching"
                              THEN {Store(body[r], response[r].results)} ELSE {})
  /\ Respond(r, Gone) /\ Goto(r, "releasing")
  /\ UNCHANGED <<env, client, pool>>

Handler(r) == \/ Start(r) \/ CheckCache(r) \/ CheckCacheRaises(r) \/ Acquire(r)
              \/ AcquireRaises(r) \/ HitsArrive(r) \/ QueryRaises(r) \/ CountsArrive(r) \/ CountRaises(r)
              \/ SetCache(r) \/ SetCacheRaises(r) \/ Release(r)
              \/ HangUp(r) \/ HangUpHolding(r)

InService(r) == pc[r] # "idle"

\* the server ends, by close_db or not, and starts again: init
Restart == /\ \E r \in Client : InService(r)
           /\ pc' = [r \in Client |-> "idle"]
           /\ response' = [r \in Client |-> IF InService(r) THEN Gone ELSE response[r]]
           /\ body' = [r \in Client |-> NoBody] /\ since' = [r \in Client |-> 0]
           /\ queue' = << >> /\ free' = Conn /\ held' = [r \in Client |-> NoConn]
           /\ UNCHANGED <<env, cache>>

Next == Index \/ Restart \/ \E r \in Client : Send(r) \/ Handler(r)

Spec == Init /\ [][Next]_vars

\* The event loop runs what can run and its timers fire.  Nothing is assumed of
\* redis, of the database or of the clients.
Fairness == \A r \in Client : /\ WF_vars(Start(r)) /\ WF_vars(Acquire(r))
                              /\ WF_vars(QueryRaises(r)) /\ WF_vars(Release(r))

FairSpec == Spec /\ Fairness
-----------------------------------------------------------------------------
(* Properties                                                               *)

TypeOK ==
  /\ version \in 0..Files /\ caching \in BOOLEAN
  /\ DOMAIN cache \subseteq Body /\ \A b \in DOMAIN cache : cache[b] \subseteq 1..Files
  /\ body \in [Client -> Body \cup {NoBody}] /\ since \in [Client -> 0..Files]
  /\ pc \in [Client -> Holding \cup {"idle", "sent", "checking", "waiting"}]
  /\ queue \in Seq(Client) /\ free \subseteq Conn
  /\ held \in [Client -> Conn \cup {NoConn}] /\ response \in [Client -> Replies]

\* Every connection is free or held by one handler inside its async with, however
\* that handler gets out of it, and those who wait are exactly those queued.
ConnectionsKept ==
  /\ free = Conn \ {held[r] : r \in Client}
  /\ \A r, q \in Client : held[r] = held[q] /\ held[r] # NoConn => r = q
  /\ \A r \in Client : pc[r] \in Holding <=> held[r] # NoConn
  /\ \A r \in Client : pc[r] = "waiting" <=> \E i \in DOMAIN queue : queue[i] = r
  /\ \A i, j \in DOMAIN queue : queue[i] = queue[j] => i = j

\* Redis has only what the database once answered to the same request: no error, no
\* other page, nothing of a request that was given up half way.
CacheTrue ==
  \A b \in DOMAIN cache :
    /\ b.path = "/query" /\ b.query \in WellFormed \ Refused
    /\ \E v \in 0..version : cache[b] \in Pages(b, v)

\* The service with its cache, pool, time-outs and restarts keeps the promise of
\* Answers: what a client hears is the response of a handler that has ended.
Promise == INSTANCE Answers WITH
  reply <- [r \in Client |-> IF pc[r] = "idle" THEN response[r] ELSE NoReply]
KeepsPromise == Promise!Spec

\* If neither redis nor a query of /stats keeps a handler for ever, every request
\* comes to an end, although the database may never answer a query.
OthersAnswer == \A r \in Client : []<>(pc[r] \notin {"checking", "caching", "counting"})
AllEnd == \A r \in Client : pc[r] = "sent" ~> pc[r] = "idle"
Answered == OthersAnswer => AllEnd
=============================================================================
