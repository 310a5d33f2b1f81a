------------------------- MODULE ConnectionPoolProofs -------------------------
(***************************************************************************)
(* Proofs about ConnectionPool, for any number of threads.                 *)
(***************************************************************************)
EXTENDS ConnectionPool, SequenceTheorems, FiniteSetTheorems, TLAPS

\* Before it is used, the pool has the types it should have.
LEMMA InitType == Init => TypeOK
<1>1. << >> \in Seq(Conn)
  BY EmptySeq
<1> QED
  BY <1>1 DEF Init, TypeOK

\* No step of a thread, and neither the start nor the end of the executor, breaks a type.
LEMMA TypeStep ==
  ASSUME TypeOK, [Next]_vars,
         \A t \in Thread : pc[t] \in {"register", "using"} => held[t] \in Conn
  PROVE  TypeOK'
<1>1. CASE Sync
  <2>1. ASSUME NEW c \in Conn PROVE <<c>> \in Seq(Conn)
    OBVIOUS
  <2> QED
    BY <1>1, <2>1 DEF Sync, TypeOK
<1>2. ASSUME NEW t \in Thread, Pop(t)
      PROVE  TypeOK'
  <2>1. Head(free) \in Conn /\ Tail(free) \in Seq(Conn)
    BY <1>2, HeadTailProperties DEF Pop, TypeOK
  <2> QED
    BY <1>2, <2>1 DEF Pop, TypeOK
<1>3. ASSUME NEW t \in Thread, Release(t)
      PROVE  TypeOK'
  <2>1. Append(free, held[t]) \in Seq(Conn)
    BY <1>3, AppendProperties DEF Release, TypeOK
  <2> QED
    BY <1>3, <2>1 DEF Release, TypeOK
<1>4. ASSUME NEW t \in Thread,
             \/ Check(t) \/ PopRaises(t) \/ Connect(t) \/ ConnectRaises(t)
             \/ Register(t) \/ TaskFailed(t)
      PROVE  TypeOK'
  BY <1>4 DEF Check, PopRaises, Connect, ConnectRaises, Register, TaskFailed, TypeOK
<1>5. CASE Close
  BY <1>5 DEF Close, TypeOK
<1>6. CASE UNCHANGED vars
  BY <1>6 DEF TypeOK, vars
<1> QED
  BY <1>1, <1>2, <1>3, <1>4, <1>5, <1>6 DEF Next
-----------------------------------------------------------------------------
(* The inductive invariant                                                  *)

Holding(t) == pc[t] \in {"register", "using"}

\* A thread has a connection between acquire and release, and no thread has one or
\* waits for one before and after the executor.
HeldInv ==
  /\ \A t \in Thread : Holding(t) <=> held[t] # NoConn
  /\ phase # "workers" => \A t \in Thread : pc[t] = "idle"

\* What is held or free was opened by this pool: a new connection is none of them.
OpenedHere ==
  /\ \A t \in Thread : held[t] # NoConn => held[t] \in open \cup stack
  /\ \A i \in DOMAIN free : free[i] \in open \cup stack

\* No connection is lost: while there are workers, an open one is held or free.
NoneLost ==
  phase = "workers" => \A c \in open : \/ \E t \in Thread : held[t] = c
                                       \/ \E i \in DOMAIN free : free[i] = c

\* The exit stack knows every open connection but those just being registered.
Registered ==
  \A c \in open : c \in stack \/ \E t \in Thread : pc[t] = "register" /\ held[t] = c

OpenInv ==
  /\ IsFiniteSet(open)
  /\ phase = "new" => open = {} /\ free = << >>
  /\ AllClosed

IInv == /\ TypeOK /\ HeldInv /\ ConnectionExclusive /\ OpenedHere
        /\ NoneLost /\ Registered /\ OpenInv /\ ConnectionsBounded

\* A thread gets its connection from acquire and loses it with release.
LEMMA HeldStep ==
  ASSUME TypeOK, HeldInv, [Next]_vars
  PROVE  HeldInv'
<1> USE ConnAssumption DEF HeldInv, Holding
<1>1. CASE Sync \/ Close
  BY <1>1 DEF Sync, Close, TypeOK
<1>2. ASSUME NEW t \in Thread, Pop(t)
      PROVE  HeldInv'
  <2>1. Head(free) \in Conn
    BY <1>2, HeadTailProperties DEF Pop, TypeOK
  <2> QED
    BY <1>2, <2>1 DEF Pop, TypeOK
<1>3. ASSUME NEW t \in Thread,
             \/ Check(t) \/ PopRaises(t) \/ Connect(t) \/ ConnectRaises(t)
             \/ Register(t) \/ Release(t) \/ TaskFailed(t)
      PROVE  HeldInv'
  BY <1>3 DEF Check, PopRaises, Connect, ConnectRaises, Register, Release, TaskFailed, TypeOK
<1>4. CASE UNCHANGED vars
  BY <1>4 DEF vars
<1> QED
  BY <1>1, <1>2, <1>3, <1>4 DEF Next

\* What the deque is after popleft and after append.
LEMMA PopFree ==
  ASSUME TypeOK, free # << >>
  PROVE  /\ Head(free) = free[1] /\ Head(free) \in Conn
         /\ \A i \in DOMAIN Tail(free) : i + 1 \in DOMAIN free /\ Tail(free)[i] = free[i + 1]
         /\ \A i \in DOMAIN free : i = 1 \/ (i - 1 \in DOMAIN Tail(free) /\ Tail(free)[i - 1] = free[i])
         /\ 1 \in DOMAIN free /\ DOMAIN free \subseteq Nat
<1>1. free \in Seq(Conn) /\ Len(free) \in Nat \ {0}
  BY EmptySeq DEF TypeOK
<1>2. Tail(free) \in Seq(Conn) /\ Len(Tail(free)) = Len(free) - 1
      /\ \A i \in 1 .. Len(Tail(free)) : Tail(free)[i] = free[i + 1]
  BY <1>1, HeadTailProperties
<1>3. DOMAIN free = 1 .. Len(free) /\ DOMAIN Tail(free) = 1 .. Len(Tail(free))
  BY <1>1, <1>2, LenProperties
<1>4. Head(free) \in Conn /\ Head(free) = free[1]
  BY <1>1, HeadTailProperties
<1> QED
  BY <1>1, <1>2, <1>3, <1>4

\* What is free after a release: what was free before it, and the connection released.
LEMMA AppendFree ==
  ASSUME TypeOK, NEW c \in Conn
  PROVE  LET new == Append(free, c)
         IN  /\ DOMAIN free \subseteq DOMAIN new
             /\ \A i \in DOMAIN free : new[i] = free[i]
             /\ \A i \in DOMAIN new : new[i] = c \/ (i \in DOMAIN free /\ new[i] = free[i])
             /\ \A i \in DOMAIN new, j \in DOMAIN new :
                  i = j \/ i \in DOMAIN free \/ j \in DOMAIN free
             /\ \E i \in DOMAIN new : new[i] = c
<1> DEFINE new == Append(free, c)
<1>1. free \in Seq(Conn) /\ Len(free) \in Nat /\ DOMAIN free = 1 .. Len(free)
  BY LenProperties DEF TypeOK
<1>2. /\ new \in Seq(Conn) /\ Len(new) = Len(free) + 1
      /\ \A i \in 1 .. Len(free) : new[i] = free[i]
      /\ new[Len(free) + 1] = c
  BY <1>1, AppendProperties
<1>3. DOMAIN new = 1 .. Len(free) + 1
  BY <1>2, LenProperties
<1> HIDE DEF new
<1>4. \A i \in DOMAIN new : i \in DOMAIN free \/ i = Len(free) + 1
  BY <1>1, <1>3
<1>5. Len(free) + 1 \in DOMAIN new /\ DOMAIN free \subseteq DOMAIN new
  BY <1>1, <1>3
<1> QED
  BY <1>1, <1>2, <1>4, <1>5 DEF new

\* A pop takes a free connection away from all others, a new one is nobody's.
LEMMA ExclusiveStep ==
  ASSUME TypeOK, HeldInv, ConnectionExclusive, OpenedHere, OpenInv, [Next]_vars
  PROVE  ConnectionExclusive'
<1> USE ConnAssumption
<1>1. CASE Sync
  <2>1. PICK c \in Conn : free' = <<c>> /\ UNCHANGED held
    BY <1>1 DEF Sync
  <2>2. DOMAIN free' = {1} /\ free'[1] = c
    BY <2>1
  <2>3. \A t \in Thread : held'[t] = NoConn
    BY <1>1, <2>1 DEF Sync, HeldInv, Holding
  <2> QED
    BY <2>2, <2>3 DEF ConnectionExclusive
<1>2. ASSUME NEW t \in Thread, Pop(t)
      PROVE  ConnectionExclusive'
  <2>1. /\ free # << >> /\ free' = Tail(free)
        /\ \A u \in Thread : held'[u] = IF u = t THEN free[1] ELSE held[u]
    BY <1>2, PopFree DEF Pop, TypeOK
  <2>2. \A i \in DOMAIN free' : i \in Nat /\ i + 1 \in DOMAIN free /\ free'[i] = free[i + 1]
    BY <2>1, PopFree
  <2>3. 1 \in DOMAIN free /\ \A i \in DOMAIN free' : i + 1 # 1
    BY <2>1, <2>2, PopFree
  <2>4. \A i, j \in DOMAIN free' : free'[i] = free'[j] => i = j
    <3> SUFFICES ASSUME NEW i \in DOMAIN free', NEW j \in DOMAIN free', free'[i] = free'[j]
                 PROVE  i = j
      OBVIOUS
    <3>1. i + 1 = j + 1
      BY <2>2 DEF ConnectionExclusive
    <3> QED
      BY <2>2, <3>1
  <2>5. \A u \in Thread : \A i \in DOMAIN free' : held'[u] # free'[i]
    BY <2>1, <2>2, <2>3 DEF ConnectionExclusive
  <2>6. \A u, w \in Thread : held'[u] # NoConn /\ held'[u] = held'[w] => u = w
    BY <2>1, <2>3 DEF ConnectionExclusive
  <2> QED
    BY <2>4, <2>5, <2>6 DEF ConnectionExclusive
<1>3. ASSUME NEW t \in Thread, Connect(t)
      PROVE  ConnectionExclusive'
  BY <1>3 DEF Connect, TypeOK, ConnectionExclusive, OpenedHere
<1>4. ASSUME NEW t \in Thread, Release(t)
      PROVE  ConnectionExclusive'
  <2>1. held[t] \in Conn /\ held[t] # NoConn
    BY <1>4 DEF Release, TypeOK, HeldInv, Holding
  <2>2. free' = Append(free, held[t]) /\ free' \in Seq(Conn)
    BY <1>4, <2>1, AppendProperties DEF Release, TypeOK
  <2>3. \A u \in Thread : held'[u] = IF u = t THEN NoConn ELSE held[u]
    BY <1>4 DEF Release, TypeOK
  <2>4. /\ \A i \in DOMAIN free' : free'[i] = held[t] \/ (i \in DOMAIN free /\ free'[i] = free[i])
        /\ \A i \in DOMAIN free : free'[i] = free[i]
        /\ \A i \in DOMAIN free', j \in DOMAIN free' :
             i = j \/ i \in DOMAIN free \/ j \in DOMAIN free
    BY <2>1, <2>2, AppendFree
  <2>5. \A i \in DOMAIN free' : free'[i] # NoConn
    BY <2>2, ElementOfSeq, LenProperties
  <2> QED
    BY <2>1, <2>3, <2>4, <2>5 DEF ConnectionExclusive
<1>5. ASSUME NEW t \in Thread,
             \/ Check(t) \/ PopRaises(t) \/ ConnectRaises(t) \/ Register(t) \/ TaskFailed(t)
      PROVE  ConnectionExclusive'
  BY <1>5 DEF Check, PopRaises, ConnectRaises, Register, TaskFailed, ConnectionExclusive
<1>6. CASE Close \/ UNCHANGED vars
  BY <1>6 DEF Close, vars, ConnectionExclusive
<1> QED
  BY <1>1, <1>2, <1>3, <1>4, <1>5, <1>6 DEF Next

\* What is handed out or given back was opened by this pool.
LEMMA OpenedHereStep ==
  ASSUME TypeOK, HeldInv, OpenedHere, [Next]_vars
  PROVE  OpenedHere'
<1> USE ConnAssumption
<1>1. CASE Sync
  <2>1. PICK c \in Conn : free' = <<c>> /\ stack' = {c} /\ UNCHANGED held
    BY <1>1 DEF Sync
  <2>2. DOMAIN free' = {1} /\ free'[1] = c
    BY <2>1
  <2>3. \A t \in Thread : held'[t] = NoConn
    BY <1>1, <2>1 DEF Sync, HeldInv, Holding
  <2> QED
    BY <2>1, <2>2, <2>3 DEF OpenedHere
<1>2. ASSUME NEW t \in Thread, Pop(t)
      PROVE  OpenedHere'
  <2>1. /\ free' = Tail(free) /\ UNCHANGED <<stack, open>>
        /\ 1 \in DOMAIN free /\ \A i \in DOMAIN free' : i + 1 \in DOMAIN free /\ free'[i] = free[i + 1]
        /\ \A u \in Thread : held'[u] = IF u = t THEN free[1] ELSE held[u]
    BY <1>2, PopFree DEF Pop, TypeOK
  <2> QED
    BY <2>1 DEF OpenedHere
<1>3. ASSUME NEW t \in Thread, Release(t)
      PROVE  OpenedHere'
  <2>1. held[t] \in Conn /\ held[t] # NoConn
    BY <1>3 DEF Release, TypeOK, HeldInv, Holding
  <2>2. \A u \in Thread : held'[u] = IF u = t THEN NoConn ELSE held[u]
    BY <1>3 DEF Release, TypeOK
  <2>3. \A i \in DOMAIN free' : free'[i] = held[t] \/ (i \in DOMAIN free /\ free'[i] = free[i])
    BY <1>3, <2>1, AppendFree DEF Release
  <2> QED
    BY <1>3, <2>1, <2>2, <2>3 DEF Release, OpenedHere
<1>4. ASSUME NEW t \in Thread,
             \/ Check(t) \/ PopRaises(t) \/ Connect(t) \/ ConnectRaises(t)
             \/ Register(t) \/ TaskFailed(t)
      PROVE  OpenedHere'
  BY <1>4 DEF Check, PopRaises, Connect, ConnectRaises, Register, TaskFailed, TypeOK, OpenedHere
<1>5. CASE Close \/ UNCHANGED vars
  BY <1>5 DEF Close, vars, OpenedHere
<1> QED
  BY <1>1, <1>2, <1>3, <1>4, <1>5 DEF Next

\* A connection goes from a thread to the free ones and back, and nowhere else.
LEMMA NoneLostStep ==
  ASSUME TypeOK, HeldInv, NoneLost, [Next]_vars
  PROVE  NoneLost'
<1> USE ConnAssumption
<1>1. CASE Sync
  <2>1. PICK c \in Conn : free' = <<c>> /\ open' = {c}
    BY <1>1 DEF Sync
  <2>2. DOMAIN free' = {1} /\ free'[1] = c
    BY <2>1
  <2> QED
    BY <2>1, <2>2 DEF NoneLost
<1>2. ASSUME NEW t \in Thread, Pop(t)
      PROVE  NoneLost'
  <2>1. /\ free' = Tail(free) /\ UNCHANGED <<phase, open>>
        /\ \A i \in DOMAIN free : i = 1 \/ (i - 1 \in DOMAIN free' /\ free'[i - 1] = free[i])
        /\ \A u \in Thread : held'[u] = IF u = t THEN free[1] ELSE held[u]
    BY <1>2, PopFree DEF Pop, TypeOK
  <2>2. held[t] = NoConn
    BY <1>2 DEF Pop, HeldInv, Holding
  <2>3. ASSUME phase = "workers", NEW c \in open
        PROVE  \/ \E u \in Thread : held'[u] = c
               \/ \E i \in DOMAIN free' : free'[i] = c
    <3>1. CASE \E u \in Thread : held[u] = c
      <4>1. c # NoConn
        BY <2>3 DEF TypeOK
      <4> QED
        BY <3>1, <4>1, <2>1, <2>2
    <3>2. CASE \E i \in DOMAIN free : free[i] = c
      BY <3>2, <2>1
    <3> QED
      BY <2>3, <3>1, <3>2 DEF NoneLost
  <2> QED
    BY <2>1, <2>3 DEF NoneLost
<1>3. ASSUME NEW t \in Thread, Release(t)
      PROVE  NoneLost'
  <2>1. held[t] \in Conn
    BY <1>3 DEF Release, TypeOK, HeldInv, Holding
  <2>2. \A u \in Thread : u # t => held'[u] = held[u]
    BY <1>3 DEF Release, TypeOK
  <2>3. /\ DOMAIN free \subseteq DOMAIN free'
        /\ \A i \in DOMAIN free : free'[i] = free[i]
        /\ \E i \in DOMAIN free' : free'[i] = held[t]
    BY <1>3, <2>1, AppendFree DEF Release
  <2> QED
    BY <1>3, <2>2, <2>3 DEF Release, NoneLost
<1>4. ASSUME NEW t \in Thread, Connect(t)
      PROVE  NoneLost'
  <2>1. PICK c \in Conn : /\ open' = open \cup {c} /\ UNCHANGED <<phase, free>>
                          /\ \A u \in Thread : held'[u] = IF u = t THEN c ELSE held[u]
    BY <1>4 DEF Connect, TypeOK
  <2>2. held[t] = NoConn /\ NoConn \notin open
    BY <1>4 DEF Connect, TypeOK, HeldInv, Holding
  <2> QED
    BY <2>1, <2>2 DEF NoneLost
<1>5. ASSUME NEW t \in Thread,
             \/ Check(t) \/ PopRaises(t) \/ ConnectRaises(t) \/ Register(t) \/ TaskFailed(t)
      PROVE  NoneLost'
  BY <1>5 DEF Check, PopRaises, ConnectRaises, Register, TaskFailed, NoneLost
<1>6. CASE Close \/ UNCHANGED vars
  BY <1>6 DEF Close, vars, NoneLost
<1> QED
  BY <1>1, <1>2, <1>3, <1>4, <1>5, <1>6 DEF Next

\* The thread that opens a connection enters it into the exit stack.
LEMMA RegisteredStep ==
  ASSUME TypeOK, HeldInv, Registered, OpenInv, [Next]_vars
  PROVE  Registered' /\ OpenInv'
<1> USE ConnAssumption
<1>1. CASE Sync
  <2>1. PICK c \in Conn : open' = {c} /\ stack' = {c} /\ phase' = "workers"
    BY <1>1 DEF Sync
  <2>2. Registered'
    BY <2>1 DEF Registered
  <2>3. OpenInv'
    BY <2>1, FS_Singleton DEF OpenInv, AllClosed
  <2> QED
    BY <2>2, <2>3
<1>2. CASE Close
  <2>1. open' = {}
    BY <1>2 DEF Close, Registered
  <2> QED
    BY <1>2, <2>1, FS_EmptySet DEF Close, Registered, OpenInv, AllClosed
<1>3. ASSUME NEW t \in Thread, Connect(t)
      PROVE  Registered' /\ OpenInv'
  <2>1. PICK c \in Conn : /\ open' = open \cup {c} /\ UNCHANGED <<phase, free, stack>>
                          /\ held' = [held EXCEPT ![t] = c]
                          /\ pc' = [pc EXCEPT ![t] = "register"]
    BY <1>3 DEF Connect
  <2>2. pc[t] = "connect" /\ phase = "workers"
    BY <1>3 DEF Connect, HeldInv
  <2>3. Registered'
    BY <2>1, <2>2 DEF Registered, TypeOK
  <2>4. OpenInv'
    BY <2>1, <2>2, FS_AddElement DEF OpenInv, AllClosed
  <2> QED
    BY <2>3, <2>4
<1>4. ASSUME NEW t \in Thread,
             \/ Check(t) \/ Pop(t) \/ PopRaises(t) \/ ConnectRaises(t)
             \/ Register(t) \/ Release(t) \/ TaskFailed(t)
      PROVE  Registered' /\ OpenInv'
  <2>1. Registered'
    BY <1>4 DEF Check, Pop, PopRaises, ConnectRaises, Register, Release, TaskFailed,
                TypeOK, Registered
  <2>2. phase = "workers"
    BY <1>4 DEF Check, Pop, PopRaises, ConnectRaises, Register, Release, TaskFailed, HeldInv
  <2>3. UNCHANGED <<phase, open>>
    BY <1>4 DEF Check, Pop, PopRaises, ConnectRaises, Register, Release, TaskFailed
  <2> QED
    BY <2>1, <2>2, <2>3 DEF OpenInv, AllClosed
<1>5. CASE UNCHANGED vars
  BY <1>5 DEF vars, Registered, OpenInv, AllClosed
<1> QED
  BY <1>1, <1>2, <1>3, <1>4, <1>5 DEF Next
-----------------------------------------------------------------------------
(* The bound                                                                *)

Connecting == {t \in Thread : pc[t] = "connect"}

\* While no connection is free, each open one is held by a thread of its own, and
\* none of them is about to connect.
LEMMA HeldByThreads ==
  ASSUME TypeOK, HeldInv, NoneLost, OpenInv, phase = "workers", free = << >>
  PROVE  LET H == {t \in Thread : Holding(t)}
         IN  IsFiniteSet(H) /\ Cardinality(open) <= Cardinality(H)
<1> DEFINE H == {t \in Thread : Holding(t)}
           f == [t \in H |-> held[t]]
           R == {held[t] : t \in H}
<1>1. IsFiniteSet(H)
  BY ThreadAssumption, FS_Subset
<1>2. f \in Surjection(H, R)
  BY DEF Surjection
<1>3. IsFiniteSet(R) /\ Cardinality(R) <= Cardinality(H)
  BY <1>1, <1>2, FS_Surjection
<1>4. open \subseteq R
  BY ConnAssumption DEF NoneLost, HeldInv, TypeOK
<1>5. Cardinality(open) <= Cardinality(R)
  BY <1>3, <1>4, FS_Subset
<1>6. Cardinality(open) \in Nat /\ Cardinality(R) \in Nat /\ Cardinality(H) \in Nat
  BY <1>1, <1>3, FS_CardinalityType DEF OpenInv
<1> HIDE DEF H, R
<1>7. Cardinality(open) <= Cardinality(H)
  BY <1>3, <1>5, <1>6
<1> QED
  BY <1>1, <1>7 DEF H

\* A connection is opened only when every open one is held by another thread.
LEMMA BoundedStep ==
  ASSUME TypeOK, HeldInv, NoneLost, OpenInv, OpenInv', ConnectionsBounded, [Next]_vars
  PROVE  ConnectionsBounded'
<1> USE ConnAssumption
<1>1. IsFiniteSet(Connecting) /\ IsFiniteSet(Connecting') /\ IsFiniteSet(open) /\ IsFiniteSet(open')
  BY ThreadAssumption, FS_Subset DEF Connecting, OpenInv
<1>2. /\ Cardinality(open) \in Nat /\ Cardinality(open') \in Nat
      /\ Cardinality(Connecting) \in Nat /\ Cardinality(Connecting') \in Nat
      /\ Cardinality(Thread) \in Nat
  BY <1>1, ThreadAssumption, FS_CardinalityType
<1>3. Cardinality(open) + Cardinality(Connecting) <= Cardinality(Thread)
  BY DEF ConnectionsBounded, Connecting
<1> SUFFICES Cardinality(open') + Cardinality(Connecting') <= Cardinality(Thread)
  BY DEF ConnectionsBounded, Connecting
<1>4. CASE Sync
  <2>1. Connecting' = {} /\ \E c \in Conn : open' = {c}
    BY <1>4 DEF Sync, Connecting, HeldInv
  <2>2. Cardinality(Connecting') = 0 /\ Cardinality(open') = 1
    BY <2>1, FS_EmptySet, FS_Singleton
  <2>3. Cardinality(Thread) # 0
    BY ThreadAssumption, FS_EmptySet
  <2> QED
    BY <1>2, <2>2, <2>3
<1>5. CASE Close
  <2>1. Connecting' = Connecting /\ open' \subseteq open
    BY <1>5 DEF Close, Connecting
  <2>2. Cardinality(open') <= Cardinality(open)
    BY <1>1, <2>1, FS_Subset
  <2> QED
    BY <1>2, <1>3, <2>1, <2>2
<1>6. ASSUME NEW t \in Thread, Check(t)
      PROVE  Cardinality(open') + Cardinality(Connecting') <= Cardinality(Thread)
  <2>1. CASE free # << >>
    <3>1. Connecting' = Connecting /\ open' = open
      BY <1>6, <2>1 DEF Check, Connecting, TypeOK
    <3> QED
      BY <1>3, <3>1
  <2>2. CASE free = << >>
    <3> DEFINE H == {u \in Thread : Holding(u)}
    <3>1. IsFiniteSet(H) /\ Cardinality(open) <= Cardinality(H)
      BY <1>6, <2>2, HeldByThreads DEF Check
    <3>2. H \cap Connecting' = {} /\ H \cup Connecting' \subseteq Thread
      BY <1>6 DEF Check, Connecting, TypeOK, Holding
    <3> HIDE DEF H
    <3>3. Cardinality(H \cup Connecting') <= Cardinality(Thread)
      BY <3>2, ThreadAssumption, FS_Subset
    <3>4. Cardinality(H \cup Connecting') = Cardinality(H) + Cardinality(Connecting') - Cardinality(H \cap Connecting')
      BY <1>1, <3>1, FS_Union
    <3>5. Cardinality(H \cap Connecting') = 0 /\ Cardinality(H) \in Nat
      BY <3>1, <3>2, FS_EmptySet, FS_CardinalityType
    <3>6. open' = open
      BY <1>6 DEF Check
    <3> QED
      BY <1>2, <3>1, <3>3, <3>4, <3>5, <3>6
  <2> QED
    BY <2>1, <2>2
<1>7. ASSUME NEW t \in Thread, Connect(t)
      PROVE  Cardinality(open') + Cardinality(Connecting') <= Cardinality(Thread)
  <2>1. PICK c \in Conn : c \notin open /\ open' = open \cup {c}
    BY <1>7 DEF Connect
  <2>2. t \in Connecting /\ Connecting' = Connecting \ {t}
    BY <1>7 DEF Connect, Connecting, TypeOK
  <2>3. Cardinality(open') = Cardinality(open) + 1
    BY <1>1, <2>1, FS_AddElement
  <2>4. Cardinality(Connecting') = Cardinality(Connecting) - 1
    BY <1>1, <2>2, FS_RemoveElement
  <2> QED
    BY <1>2, <1>3, <2>3, <2>4
<1>8. ASSUME NEW t \in Thread,
             \/ Pop(t) \/ PopRaises(t) \/ ConnectRaises(t) \/ Register(t)
             \/ Release(t) \/ TaskFailed(t)
      PROVE  Cardinality(open') + Cardinality(Connecting') <= Cardinality(Thread)
  <2>1. Connecting' \subseteq Connecting /\ open' = open
    BY <1>8 DEF Pop, PopRaises, ConnectRaises, Register, Release, TaskFailed, Connecting, TypeOK
  <2>2. Cardinality(Connecting') <= Cardinality(Connecting)
    BY <1>1, <2>1, FS_Subset
  <2> QED
    BY <1>2, <1>3, <2>1, <2>2
<1>9. CASE UNCHANGED vars
  BY <1>3, <1>9 DEF vars, Connecting
<1> QED
  BY <1>4, <1>5, <1>6, <1>7, <1>8, <1>9 DEF Next
-----------------------------------------------------------------------------
\* The pool starts without connections.
LEMMA IInvInit == Init => IInv
<1> SUFFICES ASSUME Init PROVE IInv
  OBVIOUS
<1>1. TypeOK
  BY InitType
<1>2. HeldInv /\ ConnectionExclusive /\ OpenedHere /\ NoneLost /\ Registered
  BY DEF Init, HeldInv, Holding, ConnectionExclusive, OpenedHere, NoneLost, Registered
<1>3. OpenInv
  BY FS_EmptySet DEF Init, OpenInv, AllClosed
<1>4. ConnectionsBounded
  <2>1. open = {} /\ {t \in Thread : pc[t] = "connect"} = {}
    BY DEF Init
  <2>2. Cardinality(Thread) \in Nat
    BY ThreadAssumption, FS_CardinalityType
  <2> QED
    BY <2>1, <2>2, FS_EmptySet DEF ConnectionsBounded
<1> QED
  BY <1>1, <1>2, <1>3, <1>4 DEF IInv

\* The parts of the invariant together are inductive.
LEMMA IInvStep == IInv /\ [Next]_vars => IInv'
<1> SUFFICES ASSUME IInv, [Next]_vars PROVE IInv'
  OBVIOUS
<1>1. TypeOK'
  BY TypeStep DEF IInv, HeldInv, Holding, TypeOK
<1>2. HeldInv' /\ ConnectionExclusive' /\ OpenedHere'
  BY HeldStep, ExclusiveStep, OpenedHereStep DEF IInv
<1>3. NoneLost' /\ Registered' /\ OpenInv'
  BY NoneLostStep, RegisteredStep DEF IInv
<1>4. ConnectionsBounded'
  BY <1>3, BoundedStep DEF IInv
<1> QED
  BY <1>1, <1>2, <1>3, <1>4 DEF IInv

\* The invariant holds in every state of every run of the pool.
LEMMA IInvCorrect == Spec => []IInv
  BY IInvInit, IInvStep, PTL DEF Spec

\* The deque only holds connections.
THEOREM PoolTypeCorrect == Spec => []TypeOK
<1>1. IInv => TypeOK
  BY DEF IInv
<1> QED
  BY <1>1, IInvCorrect, PTL

\* However checks, pops and releases of any number of threads interleave, no
\* connection is held by two of them, or held and free, or free twice.
THEOREM OneTaskPerConnection == Spec => []ConnectionExclusive
<1>1. IInv => ConnectionExclusive
  BY DEF IInv
<1> QED
  BY <1>1, IInvCorrect, PTL

\* The pool never opens more connections than the executor has threads.
THEOREM PoolBounded == Spec => []ConnectionsBounded
<1>1. IInv => ConnectionsBounded
  BY DEF IInv
<1> QED
  BY <1>1, IInvCorrect, PTL

\* The exit stack closes every connection that was opened, by whichever thread.
THEOREM CloseClosesAll == Spec => []AllClosed
<1>1. IInv => AllClosed
  BY DEF IInv, OpenInv
<1> QED
  BY <1>1, IInvCorrect, PTL
=============================================================================
