---------------------------- MODULE ConnectionPool ----------------------------
(***************************************************************************)
(* reiz.database.ConnectionPool as the threads of the indexer use it: each *)
(* task takes a connection from the deque of free ones or opens a new one, *)
(* works with it and puts it back.  Nothing locks the deque: a thread may  *)
(* be preempted between finding it non-empty and popping.                  *)
(***************************************************************************)
EXTENDS Naturals, Sequences, FiniteSets

CONSTANTS Thread,   \* the threads of the executor
          Conn      \* names for the connections ever opened

ASSUME ThreadAssumption == IsFiniteSet(Thread) /\ Thread # {}

VARIABLES phase,    \* "new", then "workers" while the executor runs, then "closed"
          pc,       \* what each thread is about to do
          held,     \* the connection each thread has got from acquire
          free,     \* _free_conns
          stack,    \* the connections _exit_stack will close
          open      \* the connections open at the server

vars == <<phase, pc, held, free, stack, open>>

NoConn == "no connection"

ASSUME ConnAssumption == NoConn \notin Conn

Init == /\ phase = "new"
        /\ pc = [t \in Thread |-> "idle"]
        /\ held = [t \in Thread |-> NoConn]
        /\ free = << >> /\ stack = {} /\ open = {}

\* GlobalContext.__enter__: before there are threads, the main thread acquires a
\* connection for the cache and releases it
Sync == /\ phase = "new"
        /\ phase' = "workers"
        /\ \E c \in Conn : free' = <<c>> /\ stack' = {c} /\ open' = {c}
        /\ UNCHANGED <<pc, held>>

\* if self._free_conns
Check(t) == /\ phase = "workers" /\ pc[t] = "idle"
            /\ pc' = [pc EXCEPT ![t] = IF free # << >> THEN "pop" ELSE "connect"]
            /\ UNCHANGED <<phase, held, free, stack, open>>

\* mutant: the connection is taken without being removed
Peek(t) == /\ pc[t] = "pop" /\ free # << >>
           /\ held' = [held EXCEPT ![t] = Head(free)]
           /\ pc' = [pc EXCEPT ![t] = "using"]
           /\ UNCHANGED <<phase, free, stack, open>>

\* self._free_conns.popleft()
Pop(t) == /\ pc[t] = "pop" /\ free # << >>
          /\ held' = [held EXCEPT ![t] = Head(free)]
          /\ free' = Tail(free)
          /\ pc' = [pc EXCEPT ![t] = "using"]
          /\ UNCHANGED <<phase, stack, open>>

\* popleft of an empty deque: another thread took what this one had seen
PopRaises(t) == /\ pc[t] = "pop" /\ free = << >>
                /\ pc' = [pc EXCEPT ![t] = "IndexError"]
                /\ UNCHANGED <<phase, held, free, stack, open>>

\* get_new_connection
Connect(t) == /\ pc[t] = "connect"
              /\ \E c \in Conn \ (stack \cup open) :
                   /\ held' = [held EXCEPT ![t] = c]
                   /\ open' = open \cup {c}
              /\ pc' = [pc EXCEPT ![t] = "register"]
              /\ UNCHANGED <<phase, free, stack>>

\* the server refuses the connection: the task fails
ConnectRaises(t) == /\ pc[t] = "connect"
                    /\ pc' = [pc EXCEPT ![t] = "refused"]
                    /\ UNCHANGED <<phase, held, free, stack, open>>

\* mutant: the exit stack is not told
RegisterNothing(t) == /\ pc[t] = "register"
                      /\ pc' = [pc EXCEPT ![t] = "using"]
                      /\ UNCHANGED <<phase, held, free, stack, open>>

\* self._exit_stack.enter_context(context)
Register(t) == /\ pc[t] = "register"
               /\ stack' = stack \cup {held[t]}
               /\ pc' = [pc EXCEPT ![t] = "using"]
               /\ UNCHANGED <<phase, held, free, open>>

\* mutant: the release is skipped, as when the body raises and no finally is there
ReleaseLost(t) == /\ pc[t] = "using"
                  /\ held' = [held EXCEPT ![t] = NoConn]
                  /\ pc' = [pc EXCEPT ![t] = "idle"]
                  /\ UNCHANGED <<phase, free, stack, open>>

\* mutant: the connection is forgotten before it is put back
ReleaseForgotten(t) == /\ pc[t] = "using"
                       /\ held' = [held EXCEPT ![t] = NoConn]
                       /\ free' = Append(free, held'[t])
                       /\ pc' = [pc EXCEPT ![t] = "idle"]
                       /\ UNCHANGED <<phase, stack, open>>

\* the finally of new_connection, whether or not the body raised
Release(t) == /\ pc[t] = "using"
              /\ free' = Append(free, held[t])
              /\ held' = [held EXCEPT ![t] = NoConn]
              /\ pc' = [pc EXCEPT ![t] = "idle"]
              /\ UNCHANGED <<phase, stack, open>>

\* the exception of acquire is the result of the task; the thread takes another
TaskFailed(t) == /\ pc[t] \in {"IndexError", "refused"}
                 /\ pc' = [pc EXCEPT ![t] = "idle"]
                 /\ UNCHANGED <<phase, held, free, stack, open>>

\* the executor has waited for its threads, the pool is closed
Close == /\ phase = "workers"
         /\ \A t \in Thread : pc[t] = "idle"
         /\ phase' = "closed"
         /\ open' = open \ stack
         /\ UNCHANGED <<pc, held, free, stack>>

Next == \/ Sync \/ Close
        \/ \E t \in Thread : \/ Check(t) \/ Pop(t) \/ PopRaises(t)
                             \/ Connect(t) \/ ConnectRaises(t) \/ Register(t)
                             \/ Release(t) \/ TaskFailed(t)

Spec == Init /\ [][Next]_vars
-----------------------------------------------------------------------------
(* Properties                                                               *)

TypeOK ==
  /\ phase \in {"new", "workers", "closed"}
  /\ pc \in [Thread -> {"idle", "pop", "connect", "register", "using",
                        "IndexError", "refused"}]
  /\ held \in [Thread -> Conn \cup {NoConn}]
  /\ free \in Seq(Conn) /\ stack \in SUBSET Conn /\ open \in SUBSET Conn

\* A blocking connection serves one task at a time: none is held by two threads,
\* or held and free, or free twice.
ConnectionExclusive ==
  /\ \A t, u \in Thread : held[t] # NoConn /\ held[t] = held[u] => t = u
  /\ \A t \in Thread : \A i \in DOMAIN free : held[t] # free[i]
  /\ \A i, j \in DOMAIN free : free[i] = free[j] => i = j

\* The pool grows no larger than the executor, however checks, pops and releases
\* interleave.
ConnectionsBounded ==
  Cardinality(open) + Cardinality({t \in Thread : pc[t] = "connect"})
    <= Cardinality(Thread)

\* Closing the pool closes every connection.
AllClosed == phase = "closed" => open = {}

\* if self._free_conns guards the pop: acquire hands out a connection or opens one.
PopNeverRaises == \A t \in Thread : pc[t] # "IndexError"
=============================================================================
