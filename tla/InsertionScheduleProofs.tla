----------------------- MODULE InsertionScheduleProofs -----------------------
(***************************************************************************)
(* Proofs about the scheduler of Insertion: the deque, the bound on active *)
(* tasks, the overshoot of --limit, and that a run that ends for want of   *)
(* tasks has indexed everything.                                           *)
(***************************************************************************)
EXTENDS InsertionProofs

-----------------------------------------------------------------------------
(* Rotating and removing                                                    *)

\* A remainder is recognised by its range.
LEMMA ModUnique ==
  ASSUME NEW L \in Nat \ {0}, NEW a \in Int, NEW q \in Int, NEW r \in 0 .. L - 1,
         a = L * q + r
  PROVE  a % L = r
<1> DEFINE d == a \div L
           m == a % L
<1>1. a = L * d + m /\ m \in 0 .. L - 1 /\ d \in Int
  OBVIOUS
<1> HIDE DEF d, m
<1>2. m = r + (q - d) * L
  BY <1>1
<1>3. q - d = 0
  <2>1. CASE q - d >= 1
    <3>1. (q - d - 1) * L >= 0
      BY <1>1, <2>1
    <3> QED
      BY <1>1, <1>2, <3>1
  <2>2. CASE q - d <= -1
    <3>1. (d - q - 1) * L >= 0
      BY <1>1, <2>2
    <3> QED
      BY <1>1, <1>2, <3>1
  <2> QED
    BY <1>1, <2>1, <2>2
<1> QED
  BY <1>1, <1>2, <1>3 DEF m

\* deque.rotate loses no project and adds none.
LEMMA RotateKeeps ==
  ASSUME NEW S, NEW s \in Seq(S), NEW n \in Nat
  PROVE  /\ ToSet(Rotate(s, n)) = ToSet(s)
         /\ Len(Rotate(s, n)) = Len(s)
<1> DEFINE L == Len(s)
           At(i) == ((i - 1 - n) % L) + 1
<1>1. DOMAIN s = 1 .. L /\ L \in Nat
  BY LenProperties
<1>2. Rotate(s, n) = [i \in 1 .. L |-> s[At(i)]]
  BY DEF Rotate
<1>3. Len(Rotate(s, n)) = L
  <2>1. Rotate(s, n) \in Seq(S)
    BY RotateType
  <2>2. DOMAIN Rotate(s, n) = 1 .. L
    BY <1>2
  <2>3. DOMAIN Rotate(s, n) = 1 .. Len(Rotate(s, n)) /\ Len(Rotate(s, n)) \in Nat
    BY <2>1, LenProperties
  <2> QED
    BY <1>1, <2>2, <2>3
<1>4. \A i \in 1 .. L : At(i) \in 1 .. L
  <2> TAKE i \in 1 .. L
  <2> DEFINE r == (i - 1 - n) % L
  <2>1. r \in 0 .. L - 1
    BY <1>1
  <2> HIDE DEF r
  <2>2. r + 1 \in 1 .. L
    BY <1>1, <2>1
  <2> QED
    BY <2>2 DEF r
<1>5. \A j \in 1 .. L : \E i \in 1 .. L : At(i) = j
  <2> TAKE j \in 1 .. L
  <2> DEFINE r == (j - 1 + n) % L
             q == (j - 1 + n) \div L
  <2>1. L \in Nat \ {0} /\ r \in 0 .. L - 1 /\ q \in Int /\ j - 1 + n = L * q + r
    BY <1>1
  <2> HIDE DEF r, q, L
  <2>2. r - n = L * (-q) + (j - 1)
    BY <2>1
  <2>3. (r - n) % L = j - 1
    <3>1. r - n \in Int /\ -q \in Int /\ j - 1 \in 0 .. L - 1
      BY <2>1
    <3> QED
      BY <2>1, <2>2, <3>1, ModUnique
  <2>4. r + 1 \in 1 .. L /\ (r + 1) - 1 - n = r - n
    BY <2>1
  <2>5. At(r + 1) = j
    BY <2>3, <2>4
  <2> QED
    BY <2>4, <2>5
<1>6. DOMAIN Rotate(s, n) = 1 .. L /\ \A i \in 1 .. L : Rotate(s, n)[i] = s[At(i)]
  BY <1>2
<1> HIDE DEF At, L
<1> QED
  BY <1>1, <1>3, <1>4, <1>5, <1>6 DEF ToSet, L

\* deque.remove takes nothing but its argument out of the deque.
LEMMA RemoveFirstKeeps ==
  ASSUME NEW S, NEW s \in Seq(S), NEW e, NEW x \in ToSet(s), x # e
  PROVE  x \in ToSet(RemoveFirst(s, e))
<1>1. DOMAIN s = 1 .. Len(s) /\ Len(s) \in Nat
  BY LenProperties
<1>2. PICK i \in 1 .. Len(s) : s[i] = x
  BY <1>1 DEF ToSet
<1>3. CASE RemoveFirst(s, e) = s
  BY <1>3
<1>4. ASSUME NEW k \in 1 .. Len(s), s[k] = e, RemoveFirst(s, e) = RemoveAt(s, k)
      PROVE  x \in ToSet(RemoveFirst(s, e))
  <2> DEFINE r == RemoveAt(s, k)
             L == Len(s)
  <2>1. /\ r \in Seq(S) /\ Len(r) = L - 1
        /\ \A j \in 1 .. L - 1 : r[j] = IF j < k THEN s[j] ELSE s[j + 1]
    BY RemoveAtIs
  <2>2. DOMAIN r = 1 .. L - 1
    BY <2>1, LenProperties
  <2>3. RemoveFirst(s, e) = r /\ i \in 1 .. L /\ k \in 1 .. L /\ L \in Nat
    BY <1>1, <1>4
  <2> HIDE DEF r, L
  <2>4. i # k
    BY <1>2, <1>4
  <2>5. CASE i < k
    <3>1. i \in 1 .. L - 1 /\ r[i] = s[i]
      BY <2>1, <2>3, <2>5
    <3> QED
      BY <1>2, <2>2, <2>3, <3>1 DEF ToSet
  <2>6. CASE i > k
    <3>1. i - 1 \in 1 .. L - 1 /\ ~(i - 1 < k) /\ (i - 1) + 1 = i
      BY <2>3, <2>6
    <3>2. r[i - 1] = s[i]
      BY <2>1, <3>1
    <3> QED
      BY <1>2, <2>2, <2>3, <3>1, <3>2 DEF ToSet
  <2> QED
    BY <2>3, <2>4, <2>5, <2>6
<1> QED
  BY <1>3, <1>4, RemoveFirstIs
-----------------------------------------------------------------------------
(* The futures of a refill                                                  *)

\* _create_tasks looks at amount projects and creates at most one future for each.
LEMMA CreateTasksBound ==
  ASSUME NEW s \in Seq(Projects), NEW amount \in Nat, NEW known
  PROVE  /\ IsFiniteSet(CreateTasks(s, amount, known))
         /\ Cardinality(CreateTasks(s, amount, known)) <= amount
<1> DEFINE T == CreateTasks(s, amount, known)
           J == {j \in DOMAIN s : j <= amount /\ s[j] \notin {Project(t) : t \in known}}
           f == [j \in J |-> NewTask(s[j])]
<1>1. J \subseteq 1 .. amount
  <2>1. DOMAIN s = 1 .. Len(s) /\ Len(s) \in Nat
    BY LenProperties
  <2> QED
    BY <2>1
<1>2. IsFiniteSet(1 .. amount) /\ Cardinality(1 .. amount) = amount
  BY FS_Interval
<1>3. IsFiniteSet(J) /\ Cardinality(J) <= amount /\ Cardinality(J) \in Nat
  BY <1>1, <1>2, FS_Subset, FS_CardinalityType
<1>4. T = {f[j] : j \in J}
  BY DEF CreateTasks, FirstOf
<1> HIDE DEF J, T
<1>5. f \in Surjection(J, T)
  BY <1>4 DEF Surjection
<1>6. IsFiniteSet(T) /\ Cardinality(T) <= Cardinality(J)
  BY <1>3, <1>5, FS_Surjection
<1>7. Cardinality(T) \in Nat
  BY <1>6, FS_CardinalityType
<1> QED
  BY <1>3, <1>6, <1>7 DEF T

\* Every future it creates is for a project of the deque.
LEMMA CreateTasksQueued ==
  ASSUME NEW s \in Seq(Projects), NEW amount, NEW known,
         NEW t \in CreateTasks(s, amount, known)
  PROVE  Project(t) \in ToSet(s)
<1>1. PICK p \in FirstOf(s, amount) : t = NewTask(p)
  BY DEF CreateTasks
<1>2. p \in ToSet(s)
  BY <1>1 DEF FirstOf, ToSet
<1>3. Project(t) = p
  BY <1>1 DEF NewTask, Project
<1> QED
  BY <1>2, <1>3

\* If it looks at one project at least, and no task is known, it only creates no
\* future when the deque is empty.
LEMMA CreateTasksNone ==
  ASSUME NEW s \in Seq(Projects), NEW amount \in Nat, amount > 0,
         CreateTasks(s, amount, {}) = {}
  PROVE  s = << >>
<1>1. DOMAIN s = 1 .. Len(s) /\ Len(s) \in Nat
  BY LenProperties
<1>2. FirstOf(s, amount) = {}
  BY DEF CreateTasks
<1>3. 1 \notin DOMAIN s
  BY <1>2 DEF FirstOf
<1>4. Len(s) = 0
  BY <1>1, <1>3
<1> QED
  BY <1>4, EmptySeq

\* A set of futures is finite.
LEMMA FuturesFinite ==
  ASSUME NEW T \in SUBSET Task
  PROVE  IsFiniteSet(T) /\ Cardinality(T) \in Nat
BY TaskFinite, FS_Subset, FS_CardinalityType

\* max_active_tasks is positive, as the number of workers and the share of a task are.
LEMMA MaxActiveType == MaxActive \in Nat \ {0}
<1>1. MaxFiles \in Nat \ {0} /\ MaxWorkers \in Nat \ {0}
  BY LimitsAssumption
<1>2. \A m, n \in Nat \ {0} : m * n \in Nat \ {0}
  OBVIOUS
<1> QED
  BY <1>1, <1>2 DEF MaxActive

\* The workers leave the main thread alone, and no task appears or goes.
LEMMA WorkerKeeps ==
  ASSUME TypeOK, NEW t \in Task, Worker(t)
  PROVE  /\ UNCHANGED mainVars
         /\ pc[t] # "free" /\ pc'[t] # "free"
         /\ \A u \in Task \ {t} : pc'[u] = pc[u] /\ stats'[u] = stats[u]
<1>1. UNCHANGED mainVars
  BY DEF Worker, StartTask, StartTaskFails, InsertProject, InsertProjectFails,
         CacheProject, FinishTask, NextFile, InsertNodes, InsertModule,
         InsertModuleRejected, LinkNodes, Commit, CommitAnswerLost, TransactionFails,
         CacheFile
<1>2. CASE NextFile(t)
  BY <1>1, <1>2 DEF NextFile, Returns, Raises, TypeOK
<1>3. CASE StartTask(t) \/ StartTaskFails(t) \/ InsertProject(t)
           \/ InsertProjectFails(t) \/ CacheProject(t) \/ FinishTask(t)
  BY <1>1, <1>3 DEF StartTask, StartTaskFails, InsertProject, InsertProjectFails,
         CacheProject, FinishTask, fileVars, TypeOK
<1>4. CASE InsertNodes(t) \/ InsertModule(t) \/ LinkNodes(t) \/ Commit(t)
  BY <1>1, <1>4 DEF InsertNodes, InsertModule, LinkNodes, Commit, TypeOK
<1>5. CASE InsertModuleRejected(t) \/ CommitAnswerLost(t)
           \/ TransactionFails(t) \/ CacheFile(t)
  BY <1>1, <1>5 DEF InsertModuleRejected, CommitAnswerLost, TransactionFails,
         CacheFile, Returns, Raises, InTxn, TypeOK
<1> QED
  BY <1>2, <1>3, <1>4, <1>5 DEF Worker
-----------------------------------------------------------------------------
(* The deque and the bound on active tasks                                  *)

\* While results are collected, the futures left, and those collected since the
\* last wait, which the refill may replace, fit max_active_tasks.
RoomLeft ==
  main = "collect" => /\ done \subseteq tasks
                      /\ Cardinality(tasks) + completed - Cardinality(done) <= MaxActive

ScheduleInv == ActiveBound /\ RoomLeft /\ TasksQueued

\* One collected future makes one less of tasks and of done.
LEMMA CollectOne ==
  ASSUME TypeOK, NEW t \in Task, t \in tasks, t \in done
  PROVE  /\ Cardinality(tasks \ {t}) = Cardinality(tasks) - 1
         /\ Cardinality(done \ {t}) = Cardinality(done) - 1
<1>1. IsFiniteSet(tasks) /\ IsFiniteSet(done)
  BY FuturesFinite DEF TypeOK
<1> QED
  BY <1>1, FS_RemoveElement

\* A collected future leaves the dict, and its project the deque if it is done with.
LEMMA ScheduleCollect ==
  ASSUME TypeOK, TasksInv, ScheduleInv, NEW t \in Task, CollectResult(t)
  PROVE  ScheduleInv'
<1>1. /\ main = "collect" /\ main' = "collect" /\ t \in done /\ UNCHANGED completed
      /\ tasks' = tasks \ {t} /\ done' = done \ {t}
  BY DEF CollectResult
<1>2. done \subseteq tasks
  BY <1>1 DEF ScheduleInv, RoomLeft
<1>3. ActiveBound' /\ RoomLeft'
  <2>1. /\ Cardinality(tasks') = Cardinality(tasks) - 1
        /\ Cardinality(done') = Cardinality(done) - 1
    BY <1>1, <1>2, CollectOne
  <2>2. /\ Cardinality(tasks) \in Nat /\ Cardinality(done) \in Nat
        /\ completed \in Nat /\ MaxActive \in Nat
    BY FuturesFinite, MaxActiveType DEF TypeOK
  <2> QED
    BY <1>1, <1>2, <2>1, <2>2 DEF ScheduleInv, ActiveBound, RoomLeft
<1>4. TasksQueued'
  <2> SUFFICES ASSUME NEW u \in tasks, u # t
               PROVE  Project(u) \in ToSet(projects')
    BY <1>1 DEF TasksQueued
  <2>1. u \in Task /\ pc[u] # "free" /\ pc[t] # "free"
    BY <1>1, <1>2 DEF TasksInv, TasksKnown
  <2>2. Project(u) # Project(t)
    BY <2>1 DEF TasksInv, DistinctTasks
  <2>3. Project(u) \in ToSet(projects)
    BY <1>1 DEF ScheduleInv, TasksQueued
  <2>4. Project(u) \in ToSet(RemoveFirst(projects, Project(t)))
    BY <2>2, <2>3, RemoveFirstKeeps DEF TypeOK
  <2> QED
    BY <2>3, <2>4 DEF CollectResult
<1> QED
  BY <1>3, <1>4 DEF ScheduleInv

\* A refill adds at most as many tasks as were completed, of projects in the deque.
LEMMA ScheduleRefill ==
  ASSUME TypeOK, ScheduleInv, Refill
  PROVE  ScheduleInv'
<1> DEFINE new == CreateTasks(projects', completed, tasks)
<1>1. /\ main = "collect" /\ main' = "wait" /\ done = {} /\ tasks' = tasks \cup new
      /\ projects' = Rotate(projects, completed)
  BY DEF Refill
<1>2. projects \in Seq(Projects) /\ completed \in Nat /\ tasks \subseteq Task
  BY DEF TypeOK
<1>3. projects' \in Seq(Projects) /\ ToSet(projects') = ToSet(projects)
  BY <1>1, <1>2, RotateType, RotateKeeps
<1>4. ActiveBound'
  <2>1. IsFiniteSet(new) /\ Cardinality(new) <= completed
    BY <1>2, <1>3, CreateTasksBound
  <2>2. IsFiniteSet(tasks) /\ Cardinality(tasks) \in Nat /\ Cardinality(new) \in Nat
    BY <1>2, <2>1, FuturesFinite, FS_CardinalityType
  <2> HIDE DEF new
  <2>3. /\ IsFiniteSet(tasks \cap new) /\ Cardinality(tasks \cap new) \in Nat
        /\ Cardinality(tasks \cup new)
             = Cardinality(tasks) + Cardinality(new) - Cardinality(tasks \cap new)
    BY <2>1, <2>2, FS_Union, FS_Intersection, FS_CardinalityType
  <2>4. Cardinality(tasks) + completed <= MaxActive
    <3>1. Cardinality(done) = 0
      BY <1>1, FS_EmptySet
    <3> QED
      BY <1>1, <1>2, <2>2, <3>1 DEF ScheduleInv, RoomLeft
  <2>5. Cardinality(tasks \cup new) <= MaxActive
    BY <1>2, <2>1, <2>2, <2>3, <2>4, MaxActiveType
  <2> QED
    BY <1>1, <2>5 DEF ActiveBound
<1>5. \A t \in tasks' : Project(t) \in ToSet(projects')
  <2>1. \A t \in new : Project(t) \in ToSet(projects')
    BY <1>3, CreateTasksQueued
  <2>2. \A t \in tasks : Project(t) \in ToSet(projects')
    BY <1>1, <1>3 DEF ScheduleInv, TasksQueued
  <2> QED
    BY <1>1, <2>1, <2>2
<1> QED
  BY <1>1, <1>4, <1>5 DEF ScheduleInv, RoomLeft, TasksQueued

\* No other step adds a task or takes a project from the deque.
LEMMA ScheduleStep ==
  ASSUME IInv, ScheduleInv, [Next]_vars
  PROVE  ScheduleInv'
<1> USE DEF IInv
<1>1. CASE Start
  <2>1. /\ main' = "wait" /\ projects' = Dataset
        /\ tasks' = CreateTasks(Dataset, MaxActive, {})
    BY <1>1 DEF Start
  <2>2. Cardinality(tasks') <= MaxActive
    BY <2>1, CreateTasksBound, DatasetAssumption, MaxActiveType
  <2>3. \A t \in tasks' : Project(t) \in ToSet(projects')
    BY <2>1, CreateTasksQueued, DatasetAssumption
  <2> QED
    BY <2>1, <2>2, <2>3 DEF ScheduleInv, ActiveBound, RoomLeft, TasksQueued
<1>2. CASE Wait
  <2>1. /\ main = "wait" /\ done' \subseteq tasks /\ completed' = Cardinality(done')
        /\ UNCHANGED <<tasks, projects>>
    BY <1>2 DEF Wait
  <2>2. Cardinality(tasks) \in Nat /\ Cardinality(done') \in Nat
    BY <2>1, FuturesFinite DEF TypeOK
  <2> QED
    BY <2>1, <2>2, MaxActiveType DEF ScheduleInv, ActiveBound, RoomLeft, TasksQueued
<1>3. ASSUME NEW t \in Task, CollectResult(t)
      PROVE  ScheduleInv'
  BY <1>3, ScheduleCollect
<1>4. ASSUME NEW t \in Task, CollectError(t)
      PROVE  ScheduleInv'
  <2>1. main' = "drain" /\ tasks' = tasks \ {t}
    BY <1>4 DEF CollectError
  <2>2. IsFiniteSet(tasks) /\ Cardinality(tasks) \in Nat
    BY FuturesFinite DEF TypeOK
  <2>3. Cardinality(tasks') <= Cardinality(tasks) /\ Cardinality(tasks') \in Nat
    BY <2>1, <2>2, FS_Subset, FS_CardinalityType
  <2> QED
    BY <2>1, <2>2, <2>3, MaxActiveType
       DEF ScheduleInv, ActiveBound, RoomLeft, TasksQueued
<1>5. CASE Refill
  BY <1>5, ScheduleRefill
<1>6. CASE Close \/ Crash
  <2>1. main' = "idle" /\ tasks' = {}
    BY <1>6 DEF Close, Crash, ProcessEnds
  <2> QED
    BY <2>1, FS_EmptySet, MaxActiveType DEF ScheduleInv, ActiveBound, RoomLeft, TasksQueued
<1>7. CASE StopAtLimit \/ StopWhenEmpty \/ StartFails
  <2>1. UNCHANGED tasks /\ main' \in {"drain", "idle"}
    BY <1>7 DEF StopAtLimit, StopWhenEmpty, StartFails
  <2> QED
    BY <2>1 DEF ScheduleInv, ActiveBound, RoomLeft, TasksQueued
<1>8. CASE UNCHANGED mainVars
  BY <1>8 DEF mainVars, ScheduleInv, ActiveBound, RoomLeft, TasksQueued
<1>9. ASSUME NEW t \in Task, Worker(t)
      PROVE  ScheduleInv'
  BY <1>8, <1>9, WorkerKeeps
<1> QED
  BY <1>1, <1>2, <1>3, <1>4, <1>5, <1>6, <1>7, <1>8, <1>9 DEF Next, Main, vars

\* The bounds on the scheduler hold in every state of every run of the indexer.
LEMMA ScheduleCorrect == Spec => []ScheduleInv
<1>1. Init => ScheduleInv
  BY FS_EmptySet, MaxActiveType DEF Init, ScheduleInv, ActiveBound, RoomLeft, TasksQueued
<1>2. IInv /\ ScheduleInv /\ [Next]_vars => ScheduleInv'
  BY ScheduleStep
<1> QED
  BY <1>1, <1>2, IInvCorrect, PTL DEF Spec

\* Removing the project of a collected task never raises ValueError: rotations
\* lose no project, and a removal takes out the project of no other task.
THEOREM ProjectsStayQueued == Spec => []TasksQueued
<1>1. ScheduleInv => TasksQueued
  BY DEF ScheduleInv
<1> QED
  BY <1>1, ScheduleCorrect, PTL

\* However completions fall together, refilling with total_completed never has
\* more than max_active_tasks futures around.
THEOREM ActiveTasksBounded == Spec => []ActiveBound
<1>1. ScheduleInv => ActiveBound
  BY DEF ScheduleInv
<1> QED
  BY <1>1, ScheduleCorrect, PTL
-----------------------------------------------------------------------------
(* The overshoot of --limit                                                 *)

\* The futures that are around: submitted and not yet collected.
Around == {t \in Task : pc[t] # "free"}

\* A task never inserts more than its share, and has room for the file at hand.
ShareInv ==
  \A t \in Task :
    /\ stats[t]["INSERTED"] <= MaxFiles
    /\ pc[t] \in InTxn \cup {"cache_file"} => stats[t]["INSERTED"] < MaxFiles

\* What was collected, and the whole share of every future around, stay within
\* the limit and one round of active tasks.
Budget ==
  limit > 0 => inserted + Cardinality(Around) * MaxFiles
                 <= limit - 1 + MaxActive * MaxFiles

\* A return that is not INSERTED leaves the share of a task as it was.
LEMMA ReturnsShare ==
  ASSUME TypeOK, ShareInv, NEW t \in Task, NEW o \in Outcomes \ {"INSERTED"},
         Returns(t, o)
  PROVE  ShareInv'
<1>1. stats \in [Task -> [Outcomes -> Nat]] /\ pc \in [Task -> PCs] /\ "INSERTED" \in Outcomes
  BY DEF TypeOK, Outcomes
<1>2. \A u \in Task : stats'[u]["INSERTED"] = stats[u]["INSERTED"]
  BY <1>1 DEF Returns
<1>3. \A u \in Task : pc'[u] = pc[u] \/ pc'[u] = "loop"
  BY <1>1 DEF Returns
<1> QED
  BY <1>2, <1>3 DEF ShareInv, InTxn

\* A task counts a file it has inserted, and stops at its share.
LEMMA ShareWorker ==
  ASSUME TypeOK, ShareInv, NEW t \in Task, Worker(t)
  PROVE  ShareInv'
<1> USE DEF fileVars
<1>1. /\ stats \in [Task -> [Outcomes -> Nat]] /\ pc \in [Task -> PCs]
      /\ "INSERTED" \in Outcomes
  BY DEF TypeOK, Outcomes
<1>2. MaxFiles \in Nat
  BY LimitsAssumption
<1>3. CASE StartTask(t) \/ StartTaskFails(t) \/ InsertProject(t)
           \/ InsertProjectFails(t) \/ CacheProject(t) \/ FinishTask(t)
  BY <1>1, <1>3 DEF StartTask, StartTaskFails, InsertProject, InsertProjectFails,
         CacheProject, FinishTask, ShareInv, InTxn
<1>4. CASE NextFile(t)
  <2>1. /\ pc[t] = "loop" /\ stats[t]["INSERTED"] < MaxFiles
        /\ \/ \E o \in Outcomes \ {"INSERTED"} : Returns(t, o)
           \/ pc' = [pc EXCEPT ![t] = "nodes"] /\ UNCHANGED stats
    BY <1>4 DEF NextFile, Raises, Outcomes
  <2>2. CASE pc' = [pc EXCEPT ![t] = "nodes"] /\ UNCHANGED stats
    BY <1>1, <2>1, <2>2 DEF ShareInv, InTxn
  <2> QED
    BY <2>1, <2>2, ReturnsShare
<1>5. CASE InsertNodes(t) \/ InsertModule(t) \/ LinkNodes(t) \/ Commit(t)
  BY <1>1, <1>5 DEF InsertNodes, InsertModule, LinkNodes, Commit, ShareInv, InTxn
<1>6. CASE InsertModuleRejected(t) \/ CommitAnswerLost(t) \/ TransactionFails(t)
  <2>1. \E o \in Outcomes \ {"INSERTED"} : Returns(t, o)
    BY <1>6 DEF InsertModuleRejected, CommitAnswerLost, TransactionFails, Raises, Outcomes
  <2> QED
    BY <2>1, ReturnsShare
<1>7. CASE CacheFile(t)
  <2>1. stats[t]["INSERTED"] < MaxFiles
    BY <1>7 DEF CacheFile, ShareInv
  <2>2. /\ \A u \in Task \ {t} : stats'[u] = stats[u] /\ pc'[u] = pc[u]
        /\ stats'[t]["INSERTED"] = stats[t]["INSERTED"] + 1 /\ pc'[t] = "loop"
    BY <1>1, <1>7 DEF CacheFile, Returns
  <2>3. stats[t]["INSERTED"] \in Nat
    BY <1>1
  <2> QED
    BY <1>2, <2>1, <2>2, <2>3 DEF ShareInv, InTxn
<1> QED
  BY <1>3, <1>4, <1>5, <1>6, <1>7 DEF Worker

\* Nobody but its own worker counts for a task, and a new one starts at zero.
LEMMA ShareStep ==
  ASSUME TypeOK, ShareInv, [Next]_vars
  PROVE  ShareInv'
<1> USE DEF fileVars
<1>1. /\ stats \in [Task -> [Outcomes -> Nat]] /\ pc \in [Task -> PCs]
      /\ "INSERTED" \in Outcomes /\ MaxFiles \in Nat \ {0}
  BY LimitsAssumption DEF TypeOK, Outcomes
<1>2. CASE Start \/ Refill
  <2>1. \A t \in Task : \/ stats'[t] = stats[t] /\ pc'[t] = pc[t]
                        \/ stats'[t] = NoStats /\ pc'[t] = "pending"
    <3>1. PICK new : Submit(new)
      BY <1>2 DEF Start, Refill
    <3> QED
      BY <3>1 DEF Submit
  <2>2. NoStats["INSERTED"] = 0
    BY <1>1 DEF NoStats
  <2> QED
    BY <1>1, <2>1, <2>2 DEF ShareInv, InTxn
<1>3. CASE StopAtLimit
  BY <1>1, <1>3 DEF StopAtLimit, ShareInv, InTxn
<1>4. CASE Close \/ Crash
  <2>1. \A t \in Task : stats'[t] = NoStats /\ pc'[t] = "free"
    BY <1>4 DEF Close, Crash, ProcessEnds
  <2>2. NoStats["INSERTED"] = 0
    BY <1>1 DEF NoStats
  <2> QED
    BY <1>1, <2>1, <2>2 DEF ShareInv, InTxn
<1>5. ASSUME NEW t \in Task, CollectResult(t) \/ CollectError(t)
      PROVE  ShareInv'
  BY <1>1, <1>5 DEF CollectResult, CollectError, ShareInv, InTxn
<1>6. CASE StartFails \/ Wait \/ StopWhenEmpty \/ UNCHANGED vars
  BY <1>6 DEF StartFails, Wait, StopWhenEmpty, vars, ShareInv
<1> QED
  BY <1>2, <1>3, <1>4, <1>5, <1>6, ShareWorker DEF Next, Main

\* What is collected is in the share of a future that is then no longer around.
LEMMA BudgetCollect ==
  ASSUME TypeOK, ShareInv, Budget, NEW t \in Task, CollectResult(t) \/ CollectError(t)
  PROVE  Budget'
<1> DEFINE n == Cardinality(Around)
           i == stats[t]["INSERTED"]
<1>1. IsFiniteSet(Around) /\ n \in Nat
  BY FuturesFinite DEF Around
<1>2. pc \in [Task -> PCs] /\ limit \in Nat /\ inserted \in Nat /\ i \in Nat
  BY LimitsAssumption DEF TypeOK, Outcomes
<1>3. t \in Around /\ Around' = Around \ {t}
  BY <1>2 DEF CollectResult, CollectError, Around
<1>4. Cardinality(Around') = n - 1
  BY <1>1, <1>3, FS_RemoveElement
<1>5. limit' = limit /\ inserted' \in {inserted, inserted + i} /\ i <= MaxFiles
  BY DEF CollectResult, CollectError, ShareInv
<1>6. MaxFiles \in Nat /\ (n - 1) * MaxFiles = n * MaxFiles - MaxFiles
  BY <1>1, LimitsAssumption
<1> HIDE DEF n, i
<1>7. PICK a \in Int, b \in Int : a = n * MaxFiles /\ b = MaxActive * MaxFiles
  BY <1>1, <1>6, MaxActiveType
<1>8. limit > 0 => inserted + a <= limit - 1 + b
  BY <1>7 DEF Budget, n
<1>9. limit > 0 => inserted' + (a - MaxFiles) <= limit - 1 + b
  BY <1>2, <1>5, <1>6, <1>7, <1>8
<1> QED
  BY <1>4, <1>5, <1>6, <1>7, <1>9 DEF Budget

\* As long as the limit is not reached, max_active_tasks more shares fit.
LEMMA BudgetSubmit ==
  ASSUME TypeOK', (limit > 0 => inserted < limit)', Cardinality(Around') <= MaxActive
  PROVE  Budget'
<1> DEFINE n == Cardinality(Around')
<1>1. n \in Nat
  <2>1. Around' \in SUBSET Task
    BY DEF Around
  <2> QED
    BY <2>1, FuturesFinite
<1>2. limit' \in Nat /\ inserted' \in Nat /\ MaxFiles \in Nat
  BY LimitsAssumption DEF TypeOK
<1>3. n <= MaxActive
  OBVIOUS
<1> HIDE DEF n
<1>4. n * MaxFiles <= MaxActive * MaxFiles
  <2>1. (MaxActive - n) * MaxFiles >= 0
    BY <1>1, <1>2, <1>3, MaxActiveType
  <2> QED
    BY <1>1, <1>2, <2>1, MaxActiveType
<1>5. PICK a \in Int, b \in Int : a = n * MaxFiles /\ b = MaxActive * MaxFiles
  BY <1>1, <1>2, MaxActiveType
<1>6. limit' > 0 => inserted' + a <= limit' - 1 + b
  BY <1>2, <1>4, <1>5
<1> QED
  BY <1>5, <1>6 DEF Budget, n

\* No step exceeds the budget: a refill happens below the limit only.
LEMMA BudgetStep ==
  ASSUME IInv, ScheduleInv, ActiveBound', ShareInv, Budget, [Next]_vars
  PROVE  Budget'
<1> USE DEF IInv
<1>1. CASE Start \/ Refill
  <2>1. TypeOK' /\ TasksInv'
    BY IInvStep
  <2>2. main' = "wait"
    BY <1>1 DEF Start, Refill
  <2>3. Around' = tasks'
    BY <2>1, <2>2 DEF TasksInv, TasksKnown, Around
  <2>4. Cardinality(Around') <= MaxActive
    BY <2>3 DEF ActiveBound
  <2>5. limit' > 0 => inserted' < limit'
    <3>1. limit \in Nat /\ inserted \in Nat /\ limit' \in Nat
      BY <2>1, LimitsAssumption DEF TypeOK
    <3>2. CASE Start
      BY <3>1, <3>2 DEF Start
    <3>3. CASE Refill
      BY <3>1, <3>3 DEF Refill, LimitReached
    <3> QED
      BY <1>1, <3>2, <3>3
  <2> QED
    BY <2>1, <2>4, <2>5, BudgetSubmit
<1>2. CASE Close \/ Crash
  <2>1. Around' = {} /\ UNCHANGED <<inserted, limit>>
    BY <1>2 DEF Close, Crash, ProcessEnds, Around
  <2>2. Cardinality(Around') = 0
    BY <2>1, FS_EmptySet
  <2>3. Cardinality(Around) \in Nat /\ MaxFiles \in Nat
    BY FuturesFinite, LimitsAssumption DEF Around
  <2>4. PICK a \in Nat, b \in Int : /\ a = Cardinality(Around) * MaxFiles
                                    /\ b = MaxActive * MaxFiles
    BY <2>3, MaxActiveType
  <2>5. inserted \in Nat /\ limit \in Nat /\ 0 * MaxFiles = 0
    BY <2>3, LimitsAssumption DEF TypeOK
  <2>6. limit > 0 => inserted + 0 <= limit - 1 + b
    BY <2>4, <2>5 DEF Budget
  <2> QED
    BY <2>1, <2>2, <2>4, <2>5, <2>6 DEF Budget
<1>3. ASSUME NEW t \in Task, CollectResult(t) \/ CollectError(t)
      PROVE  Budget'
  BY <1>3, BudgetCollect
<1>4. CASE UNCHANGED <<inserted, limit, Around>>
  BY <1>4 DEF Budget
<1>5. CASE StopAtLimit
  BY <1>4, <1>5 DEF StopAtLimit, Around, TypeOK
<1>6. CASE StartFails \/ Wait \/ StopWhenEmpty \/ UNCHANGED vars
  BY <1>4, <1>6 DEF StartFails, Wait, StopWhenEmpty, vars, mainVars, Around
<1>7. ASSUME NEW t \in Task, Worker(t)
      PROVE  Budget'
  <2>1. UNCHANGED mainVars /\ \A u \in Task : pc'[u] # "free" <=> pc[u] # "free"
    BY <1>7, WorkerKeeps
  <2>2. Around' = Around
    BY <2>1 DEF Around
  <2> QED
    BY <1>4, <2>1, <2>2 DEF mainVars
<1> QED
  BY <1>1, <1>2, <1>3, <1>5, <1>6, <1>7 DEF Next, Main

\* The files the futures around have inserted are within their shares.
LEMMA BudgetImplies ==
  ASSUME TypeOK, ShareInv, Budget
  PROVE  LimitOvershoot
<1> DEFINE filesOf == UNION {{t} \X (1 .. stats[t]["INSERTED"]) :
                               t \in {u \in Task : pc[u] # "free"}}
           most == Around \X (1 .. MaxFiles)
<1>1. MaxFiles \in Nat /\ MaxActive \in Nat /\ limit \in Nat /\ inserted \in Nat
  BY LimitsAssumption, MaxActiveType DEF TypeOK
<1>2. \A t \in Task : stats[t]["INSERTED"] \in Nat /\ stats[t]["INSERTED"] <= MaxFiles
  BY DEF TypeOK, ShareInv, Outcomes
<1>3. filesOf \subseteq most
  BY <1>1, <1>2 DEF Around
<1>4. IsFiniteSet(Around) /\ Cardinality(Around) \in Nat
  BY FuturesFinite DEF Around
<1>5. IsFiniteSet(1 .. MaxFiles) /\ Cardinality(1 .. MaxFiles) = MaxFiles
  BY <1>1, FS_Interval
<1>6. IsFiniteSet(most) /\ Cardinality(most) = Cardinality(Around) * MaxFiles
  BY <1>4, <1>5, FS_Product
<1> HIDE DEF most, filesOf
<1>7. IsFiniteSet(filesOf) /\ Cardinality(filesOf) <= Cardinality(most)
  BY <1>3, <1>6, FS_Subset
<1>8. Cardinality(filesOf) \in Nat
  BY <1>7, FS_CardinalityType
<1>9. PICK a \in Int, b \in Int : /\ a = Cardinality(Around) * MaxFiles
                                  /\ b = MaxActive * MaxFiles
  BY <1>1, <1>4
<1>10. limit > 0 => inserted + Cardinality(filesOf) <= limit - 1 + MaxActive * MaxFiles
  BY <1>1, <1>6, <1>7, <1>8, <1>9 DEF Budget
<1> QED
  BY <1>10 DEF LimitOvershoot, filesOf

\* --limit compares whole tasks with the limit and cannot stop a running one: a
\* run inserts at most max_active_tasks shares more than one file short of it.
THEOREM LimitOvershootBounded == Spec => []LimitOvershoot
<1>1. Init => ShareInv /\ Budget
  <2> SUFFICES ASSUME Init PROVE ShareInv /\ Budget
    OBVIOUS
  <2>1. TypeOK
    BY InitType
  <2>2. Around = {} /\ \A t \in Task : stats[t] = NoStats /\ pc[t] = "free"
    BY DEF Init, Around
  <2>3. NoStats["INSERTED"] = 0 /\ MaxFiles \in Nat \ {0}
    BY LimitsAssumption DEF NoStats, Outcomes
  <2>4. Cardinality(Around) = 0 /\ 0 * MaxFiles = 0
    BY <2>2, <2>3, FS_EmptySet
  <2>5. PICK b \in Nat : b = MaxActive * MaxFiles
    BY <2>3, MaxActiveType
  <2>6. inserted = 0 /\ limit \in Nat
    BY <2>1, LimitsAssumption DEF Init, TypeOK
  <2> QED
    BY <2>2, <2>3, <2>4, <2>5, <2>6 DEF ShareInv, Budget, InTxn
<1>2. IInv /\ ScheduleInv /\ ScheduleInv' /\ ShareInv /\ Budget /\ [Next]_vars
        => ShareInv' /\ Budget'
  BY ShareStep, BudgetStep DEF ScheduleInv, IInv
<1>3. IInv /\ ShareInv /\ Budget => LimitOvershoot
  BY BudgetImplies DEF IInv
<1> QED
  BY <1>1, <1>2, <1>3, IInvCorrect, ScheduleCorrect, PTL DEF Spec
-----------------------------------------------------------------------------
(* No project is forgotten                                                  *)

\* The files of p that can be indexed are.
Complete(p) == \A f \in FilesOf[p] \ (TooLarge \cup Broken) : IsStored(f)

\* The files a task has yet to look at, or is inserting.
Ahead(t) == todo[t] \cup (IF pc[t] \in InTxn THEN {file[t]} ELSE {})

\* A task leaves no file behind unindexed: each is ahead of it or stored, and if
\* it ends with nothing inserted, there was nothing left to insert.
Covered(t) ==
  /\ pc[t] # "error"
  /\ pc[t] \in Running =>
       \A f \in FilesOf[Project(t)] \ (TooLarge \cup Broken) : f \in Ahead(t) \/ IsStored(f)
  /\ pc[t] = "done" /\ stats[t]["INSERTED"] = 0 => Complete(Project(t))

NothingSkipped == faults = 0 => \A t \in Task : Covered(t)

\* A project leaves the deque only when it is complete.
NothingForgotten ==
  main \in {"wait", "collect"} /\ faults = 0 =>
    \A p \in ToSet(Dataset) : p \in ToSet(projects) \/ Complete(p)

\* There is a task as long as there is a project: a wait returns one future at
\* least, so that the refill looks at one project at least.
TasksLeft ==
  /\ main = "wait" /\ tasks = {} => projects = << >>
  /\ main = "collect" => completed > 0

\* A failure is never forgotten.
LEMMA FaultsStay ==
  ASSUME TypeOK, [Next]_vars, faults' = 0
  PROVE  faults = 0
<1> USE DEF mainVars, fileVars, dbVars
<1>1. faults \in Nat
  BY LimitsAssumption DEF TypeOK
<1>2. CASE Main \/ Crash
  BY <1>1, <1>2 DEF Main, Start, StartFails, Wait, Refill, StopAtLimit, StopWhenEmpty,
       Close, CollectResult, CollectError, Crash, ProcessEnds
<1>3. ASSUME NEW t \in Task, Worker(t)
      PROVE  faults = 0
  BY <1>1, <1>3 DEF Worker, StartTask, StartTaskFails, InsertProject,
         InsertProjectFails, CacheProject, FinishTask, NextFile, InsertNodes,
         InsertModule, InsertModuleRejected, LinkNodes, Commit, CommitAnswerLost,
         TransactionFails, CacheFile
<1>4. CASE UNCHANGED vars
  BY <1>4 DEF vars
<1> QED
  BY <1>2, <1>3, <1>4 DEF Next

\* A commit stores the file of its task and touches no other.
LEMMA CommitStores ==
  ASSUME IInv, NEW t \in Task, pc[t] = "commit", Apply(t)
  PROVE  \A f \in Files : IsStored(f) \/ f = file[t] => IsStored(f)'
<1>1. /\ file[t] \in Files /\ stored' = [stored EXCEPT ![file[t]] = AllRows]
      /\ stored \in [Files -> [Parts -> Nat]]
  BY ApplyStores DEF IInv, TypeOK
<1>2. AllRows["module"] > 0
  BY DEF AllRows, Parts
<1> QED
  BY <1>1, <1>2 DEF IsStored

\* A file that is stored stays so.
LEMMA StoredStays ==
  ASSUME IInv, [Next]_vars
  PROVE  \A f \in Files : IsStored(f) => IsStored(f)'
<1> USE DEF mainVars, fileVars, dbVars
<1>1. CASE UNCHANGED stored
  BY <1>1 DEF IsStored
<1>2. CASE Main \/ Crash
  BY <1>1, <1>2 DEF Main, Start, StartFails, Wait, Refill, StopAtLimit, StopWhenEmpty,
       Close, CollectResult, CollectError, Crash, ProcessEnds
<1>3. ASSUME NEW t \in Task, Worker(t)
      PROVE  \A f \in Files : IsStored(f) => IsStored(f)'
  <2>1. CASE Commit(t) \/ CommitAnswerLost(t)
    BY <2>1, CommitStores DEF Commit, CommitAnswerLost
  <2>2. CASE ~ (Commit(t) \/ CommitAnswerLost(t))
    BY <1>1, <1>3, <2>2 DEF Worker, StartTask, StartTaskFails, InsertProject,
         InsertProjectFails, CacheProject, FinishTask, NextFile, InsertNodes,
         InsertModule, InsertModuleRejected, LinkNodes, Write, TransactionFails, CacheFile
  <2> QED
    BY <2>1, <2>2
<1>4. CASE UNCHANGED vars
  BY <1>1, <1>4 DEF vars
<1> QED
  BY <1>2, <1>3, <1>4 DEF Next

\* A project that is complete stays so, since nothing stored is removed.
LEMMA CompleteStays ==
  ASSUME IInv, [Next]_vars, NEW p \in Projects, Complete(p)
  PROVE  Complete(p)'
<1>1. FilesOf[p] \subseteq Files
  BY DEF Files
<1> QED
  BY <1>1, StoredStays DEF Complete

\* What covers a task that does not move goes on doing so.
LEMMA CoveredStays ==
  ASSUME IInv, [Next]_vars, NEW u \in Task, Covered(u),
         pc'[u] = pc[u], todo'[u] = todo[u], file'[u] = file[u], stats'[u] = stats[u]
  PROVE  Covered(u)'
<1>1. Project(u) \in Projects /\ FilesOf[Project(u)] \subseteq Files
  BY DEF Files, Task, Project
<1>2. \A f \in Files : IsStored(f) => IsStored(f)'
  BY StoredStays
<1>3. Ahead(u)' = Ahead(u)
  BY DEF Ahead
<1>4. Complete(Project(u)) => Complete(Project(u))'
  BY <1>1, CompleteStays
<1> QED
  BY <1>1, <1>2, <1>3, <1>4 DEF Covered

\* A worker moves the files of its own task only.
LEMMA WorkerKeepsFiles ==
  ASSUME TypeOK, NEW t \in Task, Worker(t), NEW u \in Task, u # t
  PROVE  todo'[u] = todo[u] /\ file'[u] = file[u]
<1> USE DEF fileVars
<1>1. CASE NextFile(t)
  BY <1>1 DEF NextFile, Returns, Raises, TypeOK
<1>2. CASE StartTask(t) \/ StartTaskFails(t) \/ InsertProject(t)
           \/ InsertProjectFails(t) \/ CacheProject(t) \/ FinishTask(t)
  BY <1>2 DEF StartTask, StartTaskFails, InsertProject, InsertProjectFails,
         CacheProject, FinishTask, TypeOK
<1>3. CASE InsertNodes(t) \/ InsertModule(t) \/ LinkNodes(t) \/ Commit(t)
  BY <1>3 DEF InsertNodes, InsertModule, LinkNodes, Commit
<1>4. CASE InsertModuleRejected(t) \/ CommitAnswerLost(t)
           \/ TransactionFails(t) \/ CacheFile(t)
  BY <1>4 DEF InsertModuleRejected, CommitAnswerLost, TransactionFails, CacheFile,
         Returns, Raises, TypeOK
<1> QED
  BY <1>1, <1>2, <1>3, <1>4 DEF Worker

\* A worker's step, when it does not fail, leaves its own task covered.
LEMMA CoveredWorker ==
  ASSUME IInv, [Next]_vars, NEW t \in Task, Worker(t), Covered(t), faults' = 0
  PROVE  Covered(t)'
<1> USE DEF mainVars, fileVars, dbVars
<1> DEFINE wanted == FilesOf[Project(t)] \ (TooLarge \cup Broken)
<1>1. /\ wanted \subseteq Files /\ Project(t) \in Projects
      /\ pc \in [Task -> PCs] /\ todo \in [Task -> SUBSET Files]
      /\ file \in [Task -> Files \cup {NoFile}]
  BY DEF Files, Task, Project, IInv, TypeOK
<1>2. \A f \in Files : IsStored(f) => IsStored(f)'
  BY StoredStays
<1>3. pc[t] \in Running => \A f \in wanted : f \in Ahead(t) \/ IsStored(f)
  BY DEF Covered
<1>4. ~ (StartTaskFails(t) \/ InsertProjectFails(t) \/ CommitAnswerLost(t)
           \/ TransactionFails(t))
  <2>1. faults \in Nat
    BY LimitsAssumption DEF IInv, TypeOK
  <2> QED
    BY <2>1 DEF StartTaskFails, InsertProjectFails, CommitAnswerLost, TransactionFails
<1> HIDE DEF wanted
<1>5. ASSUME pc[t] \in Running, pc'[t] \in Running,
             \A f \in Ahead(t) \cap wanted : f \in Ahead(t)' \/ IsStored(f)'
      PROVE  Covered(t)'
  <2>1. \A f \in wanted : f \in Ahead(t)' \/ IsStored(f)'
    BY <1>1, <1>2, <1>3, <1>5
  <2>2. pc'[t] # "error" /\ pc'[t] # "done"
    BY <1>5 DEF Running, InTxn
  <2> QED
    BY <2>1, <2>2 DEF Covered, wanted
<1>6. CASE StartTask(t)
  <2>1. pc'[t] \in {"loop", "insert_project"} /\ todo'[t] = FilesOf[Project(t)]
    BY <1>1, <1>6 DEF StartTask
  <2> QED
    BY <2>1 DEF Covered, Ahead, InTxn
<1>7. CASE InsertProject(t) \/ CacheProject(t)
  <2>1. /\ pc[t] \in {"insert_project", "cache_project"}
        /\ pc'[t] \in {"cache_project", "loop"} /\ todo'[t] = todo[t]
    BY <1>1, <1>7 DEF InsertProject, CacheProject
  <2> QED
    BY <1>5, <2>1 DEF Ahead, Running, InTxn
<1>8. CASE FinishTask(t)
  <2>1. /\ pc[t] = "loop" /\ pc'[t] = "done" /\ stats' = stats
        /\ todo[t] = {} \/ stats[t]["INSERTED"] >= MaxFiles
    BY <1>1, <1>8 DEF FinishTask
  <2>2. ASSUME stats[t]["INSERTED"] = 0
        PROVE  Complete(Project(t))'
    <3>1. todo[t] = {}
      BY <2>1, <2>2, LimitsAssumption
    <3>2. Ahead(t) = {}
      BY <2>1, <3>1 DEF Ahead, InTxn
    <3>3. \A f \in wanted : IsStored(f)'
      BY <1>1, <1>2, <1>3, <2>1, <3>2 DEF Running
    <3> QED
      BY <3>3 DEF Complete, wanted
  <2> QED
    BY <2>1, <2>2 DEF Covered, Running, InTxn
<1>9. CASE NextFile(t)
  <2>1. PICK f \in todo[t] :
          /\ todo' = [todo EXCEPT ![t] = @ \ {f}]
          /\ \/ f \in cache.files /\ Returns(t, "CACHED")
             \/ f \in TooLarge \cup Broken /\ \E o \in Outcomes : Returns(t, o)
             \/ file' = [file EXCEPT ![t] = f] /\ pc' = [pc EXCEPT ![t] = "nodes"]
    BY <1>9 DEF NextFile, Raises, Outcomes
  <2>2. pc[t] = "loop" /\ Ahead(t) = todo[t] /\ todo'[t] = todo[t] \ {f}
    BY <1>1, <1>9, <2>1 DEF NextFile, Ahead, InTxn
  <2>3. CASE f \in cache.files /\ Returns(t, "CACHED")
    <3>1. IsStored(f)'
      <4>1. f \in Files /\ stored[f] = AllRows
        BY <1>1, <2>1, <2>3 DEF IInv, FileInv, FilesCached
      <4> QED
        BY <1>2, <4>1 DEF IsStored, AllRows, Parts
    <3>2. pc'[t] = "loop"
      BY <1>1, <2>3 DEF Returns
    <3> QED
      BY <1>5, <2>2, <3>1, <3>2 DEF Ahead, Running, InTxn
  <2>4. CASE f \in TooLarge \cup Broken /\ \E o \in Outcomes : Returns(t, o)
    <3>1. pc'[t] = "loop" /\ f \notin wanted
      BY <1>1, <2>4 DEF Returns, wanted
    <3> QED
      BY <1>5, <2>2, <3>1 DEF Ahead, Running, InTxn
  <2>5. CASE file' = [file EXCEPT ![t] = f] /\ pc' = [pc EXCEPT ![t] = "nodes"]
    <3>1. pc'[t] = "nodes" /\ file'[t] = f
      BY <1>1, <2>5
    <3> QED
      BY <1>5, <2>2, <3>1 DEF Ahead, Running, InTxn
  <2> QED
    BY <2>1, <2>3, <2>4, <2>5
<1>10. CASE InsertNodes(t) \/ InsertModule(t) \/ LinkNodes(t)
  <2>1. /\ pc[t] \in InTxn /\ pc'[t] \in InTxn /\ todo' = todo /\ file' = file
    BY <1>1, <1>10 DEF InsertNodes, InsertModule, LinkNodes, InTxn
  <2> QED
    BY <1>5, <2>1 DEF Ahead, Running
<1>11. CASE Commit(t)
  <2>1. /\ pc[t] = "commit" /\ pc'[t] = "cache_file" /\ todo' = todo /\ Apply(t)
    BY <1>1, <1>11 DEF Commit
  <2>2. \A f \in Files : f = file[t] => IsStored(f)'
    BY <2>1, CommitStores
  <2> QED
    BY <1>1, <1>5, <2>1, <2>2 DEF Ahead, Running, InTxn
<1>12. CASE InsertModuleRejected(t)
  <2>1. pc[t] = "module" /\ pc'[t] = "loop" /\ todo' = todo /\ ~ ModuleAllowed(t)
    BY <1>1, <1>12 DEF InsertModuleRejected, Raises, Returns
  <2>2. projectRows[Project(t)] > 0
    BY <2>1 DEF IInv, ProjectInv, RowKnown, HasProject, InTxn
  <2>3. IsStored(file[t])
    BY <2>1, <2>2 DEF ModuleAllowed
  <2> QED
    BY <1>1, <1>2, <1>5, <2>1, <2>3 DEF Ahead, Running, InTxn
<1>13. CASE CacheFile(t)
  <2>1. pc[t] = "cache_file" /\ pc'[t] = "loop" /\ todo' = todo
    BY <1>1, <1>13 DEF CacheFile, Returns
  <2> QED
    BY <1>5, <2>1 DEF Ahead, Running, InTxn
<1> QED
  BY <1>4, <1>6, <1>7, <1>8, <1>9, <1>10, <1>11, <1>12, <1>13 DEF Worker

\* No step takes a file out of the sight of its task but by storing it.
LEMMA SkippedStep ==
  ASSUME IInv, NothingSkipped, [Next]_vars
  PROVE  NothingSkipped'
<1> USE DEF mainVars, fileVars, dbVars
<1> SUFFICES ASSUME faults' = 0, NEW u \in Task
             PROVE  Covered(u)'
  BY DEF NothingSkipped
<1>1. Covered(u)
  BY FaultsStay DEF IInv, NothingSkipped
<1>2. pc \in [Task -> PCs]
  BY DEF IInv, TypeOK
<1>3. CASE pc'[u] \in {"free", "pending", "cancelled"}
  BY <1>3 DEF Covered, Running, InTxn
<1>4. CASE pc'[u] = pc[u] /\ todo'[u] = todo[u] /\ file'[u] = file[u] /\ stats'[u] = stats[u]
  BY <1>1, <1>4, CoveredStays
<1>5. CASE Start \/ Refill
  <2>1. PICK new : Submit(new)
    BY <1>5 DEF Start, Refill
  <2> QED
    BY <1>3, <1>4, <2>1 DEF Submit
<1>6. CASE StopAtLimit
  BY <1>2, <1>3, <1>4, <1>6 DEF StopAtLimit
<1>7. CASE Close \/ Crash
  BY <1>3, <1>7 DEF Close, Crash, ProcessEnds
<1>8. ASSUME NEW t \in Task, CollectResult(t) \/ CollectError(t)
      PROVE  Covered(u)'
  BY <1>2, <1>3, <1>4, <1>8 DEF CollectResult, CollectError
<1>9. CASE StartFails \/ Wait \/ StopWhenEmpty \/ UNCHANGED vars
  BY <1>4, <1>9 DEF StartFails, Wait, StopWhenEmpty, vars
<1>10. ASSUME NEW t \in Task, Worker(t)
       PROVE  Covered(u)'
  <2>1. CASE u = t
    BY <1>1, <1>10, <2>1, CoveredWorker
  <2>2. CASE u # t
    <3>1. TypeOK
      BY DEF IInv
    <3> QED
      BY <1>4, <1>10, <2>2, <3>1, WorkerKeeps, WorkerKeepsFiles
  <2> QED
    BY <2>1, <2>2
<1> QED
  BY <1>5, <1>6, <1>7, <1>8, <1>9, <1>10 DEF Next, Main

\* The dataset names projects.
LEMMA DatasetProjects == ToSet(Dataset) \subseteq Projects
<1>1. DOMAIN Dataset = 1 .. Len(Dataset)
  BY DatasetAssumption, LenProperties
<1> QED
  BY <1>1, DatasetAssumption, ElementOfSeq DEF ToSet

\* A project is removed from the deque when a task of it has inserted nothing.
LEMMA ForgottenStep ==
  ASSUME IInv, NothingSkipped, NothingForgotten, [Next]_vars
  PROVE  NothingForgotten'
<1> SUFFICES ASSUME main' \in {"wait", "collect"}, faults' = 0, NEW p \in ToSet(Dataset)
             PROVE  p \in ToSet(projects') \/ Complete(p)'
  BY DEF NothingForgotten
<1>1. faults = 0 /\ p \in Projects
  BY FaultsStay, DatasetProjects DEF IInv
<1>2. Complete(p) => Complete(p)'
  BY <1>1, CompleteStays
<1>3. main \in {"wait", "collect"} => p \in ToSet(projects) \/ Complete(p)
  BY <1>1 DEF NothingForgotten
<1>4. projects \in Seq(Projects) /\ completed \in Nat
  BY DEF IInv, TypeOK
<1>5. CASE Start
  BY <1>5 DEF Start
<1>6. CASE Refill
  <2>1. ToSet(projects') = ToSet(projects)
    BY <1>4, <1>6, RotateKeeps DEF Refill
  <2> QED
    BY <1>2, <1>3, <1>6, <2>1 DEF Refill
<1>7. ASSUME NEW t \in Task, CollectResult(t)
      PROVE  p \in ToSet(projects') \/ Complete(p)'
  <2>1. /\ main = "collect" /\ pc[t] = "done"
        /\ projects' = IF stats[t]["INSERTED"] = 0
                         THEN RemoveFirst(projects, Project(t)) ELSE projects
    BY <1>7 DEF CollectResult
  <2>2. stats[t]["INSERTED"] = 0 => Complete(Project(t))
    BY <1>1, <2>1 DEF NothingSkipped, Covered
  <2>3. CASE p = Project(t) /\ stats[t]["INSERTED"] = 0
    BY <1>2, <2>2, <2>3
  <2>4. CASE p # Project(t) /\ stats[t]["INSERTED"] = 0
    BY <1>2, <1>3, <1>4, <2>1, <2>4, RemoveFirstKeeps
  <2>5. CASE stats[t]["INSERTED"] # 0
    BY <1>2, <1>3, <2>1, <2>5
  <2> QED
    BY <2>3, <2>4, <2>5
<1>8. CASE UNCHANGED <<main, projects>>
  BY <1>2, <1>3, <1>8
<1>9. CASE Wait
  BY <1>2, <1>3, <1>9 DEF Wait
<1>10. CASE \/ StartFails \/ StopAtLimit \/ StopWhenEmpty \/ Close \/ Crash
            \/ \E t \in Task : CollectError(t)
  BY <1>8, <1>10 DEF StartFails, StopAtLimit, StopWhenEmpty, Close, Crash, ProcessEnds,
                    CollectError
<1>11. ASSUME NEW t \in Task, Worker(t)
       PROVE  p \in ToSet(projects') \/ Complete(p)'
  <2>1. UNCHANGED mainVars
    BY <1>11, WorkerKeeps DEF IInv
  <2> QED
    BY <1>8, <2>1 DEF mainVars
<1> QED
  BY <1>5, <1>6, <1>7, <1>8, <1>9, <1>10, <1>11 DEF Next, Main, vars, mainVars

\* A refill of a deque that is not empty leaves a task.
LEMMA TasksLeftStep ==
  ASSUME IInv, TasksLeft, [Next]_vars
  PROVE  TasksLeft'
<1>1. projects \in Seq(Projects) /\ completed \in Nat /\ tasks \subseteq Task
  BY DEF IInv, TypeOK
<1>2. CASE Start
  <2>1. /\ main' = "wait" /\ projects' = Dataset
        /\ tasks' = CreateTasks(Dataset, MaxActive, {})
    BY <1>2 DEF Start
  <2>2. MaxActive \in Nat /\ MaxActive > 0 /\ Dataset \in Seq(Projects)
    BY MaxActiveType, DatasetAssumption
  <2>3. tasks' = {} => projects' = << >>
    BY <2>1, <2>2, CreateTasksNone
  <2> QED
    BY <2>1, <2>3 DEF TasksLeft
<1>3. CASE Refill
  <2>1. /\ main = "collect" /\ main' = "wait" /\ projects' = Rotate(projects, completed)
        /\ tasks' = tasks \cup CreateTasks(projects', completed, tasks)
    BY <1>3 DEF Refill
  <2>2. projects' \in Seq(Projects) /\ completed > 0
    BY <1>1, <2>1, RotateType DEF TasksLeft
  <2>3. ASSUME tasks' = {}
        PROVE  projects' = << >>
    <3>1. tasks = {} /\ CreateTasks(projects', completed, {}) = {}
      BY <2>1, <2>3
    <3> QED
      BY <1>1, <2>2, <3>1, CreateTasksNone
  <2> QED
    BY <2>1, <2>3 DEF TasksLeft
<1>4. CASE Wait
  <2>1. /\ main' = "collect" /\ done' # {} /\ done' \subseteq tasks
        /\ completed' = Cardinality(done')
    BY <1>4 DEF Wait
  <2>2. IsFiniteSet(done') /\ Cardinality(done') \in Nat
    BY <1>1, <2>1, FuturesFinite
  <2>3. Cardinality(done') # 0
    BY <2>1, <2>2, FS_EmptySet
  <2> QED
    BY <2>1, <2>2, <2>3 DEF TasksLeft
<1>5. ASSUME NEW t \in Task, CollectResult(t)
      PROVE  TasksLeft'
  BY <1>5 DEF CollectResult, TasksLeft
<1>6. CASE \/ StartFails \/ StopAtLimit \/ StopWhenEmpty \/ Close \/ Crash
           \/ \E t \in Task : CollectError(t)
  <2>1. main' \in {"idle", "drain"}
    BY <1>6 DEF StartFails, StopAtLimit, StopWhenEmpty, Close, Crash, ProcessEnds,
                CollectError
  <2> QED
    BY <2>1 DEF TasksLeft
<1>7. CASE UNCHANGED mainVars
  BY <1>7 DEF mainVars, TasksLeft
<1>8. ASSUME NEW t \in Task, Worker(t)
      PROVE  TasksLeft'
  BY <1>7, <1>8, WorkerKeeps DEF IInv
<1> QED
  BY <1>2, <1>3, <1>4, <1>5, <1>6, <1>7, <1>8 DEF Next, Main, vars

\* A run ends for want of tasks when the deque is empty.
LEMMA ExhaustedStep ==
  ASSUME IInv, NothingForgotten, TasksLeft, ExhaustedMeansIndexed, [Next]_vars
  PROVE  ExhaustedMeansIndexed'
<1> SUFFICES ASSUME outcome' = "exhausted", faults' = 0, NEW p \in ToSet(Dataset)
             PROVE  Complete(p)'
  BY DEF ExhaustedMeansIndexed, Complete
<1>1. faults = 0 /\ p \in Projects
  BY FaultsStay, DatasetProjects DEF IInv
<1> SUFFICES Complete(p)
  BY <1>1, CompleteStays
<1>2. CASE StopWhenEmpty
  <2>1. main = "wait" /\ projects = << >>
    BY <1>2 DEF StopWhenEmpty, TasksLeft
  <2>2. ToSet(projects) = {}
    BY <2>1 DEF ToSet
  <2> QED
    BY <1>1, <2>1, <2>2 DEF NothingForgotten
<1>3. CASE UNCHANGED outcome
  BY <1>1, <1>3 DEF ExhaustedMeansIndexed, Complete
<1>4. CASE Main \/ Crash
  BY <1>2, <1>3, <1>4 DEF Main, Start, StartFails, Wait, Refill, StopAtLimit, Close,
       CollectResult, CollectError, Crash
<1>5. ASSUME NEW t \in Task, Worker(t)
      PROVE  Complete(p)
  BY <1>3, <1>5, WorkerKeeps DEF IInv, mainVars
<1> QED
  BY <1>3, <1>4, <1>5 DEF Next, vars, mainVars

CoverInv == NothingSkipped /\ NothingForgotten /\ TasksLeft /\ ExhaustedMeansIndexed

\* A run that ends for want of tasks, without a failure in any run so far, has
\* indexed every file of the dataset that can be: neither the share of a task,
\* nor a rotation, nor a removal from the deque leaves a file or a project behind.
THEOREM ExhaustedIndexesAll == Spec => []ExhaustedMeansIndexed
<1>1. Init => CoverInv
  <2> SUFFICES ASSUME Init PROVE CoverInv
    OBVIOUS
  <2>1. /\ \A t \in Task : pc[t] = "free"
        /\ main = "idle" /\ outcome = "none"
    BY DEF Init
  <2> QED
    BY <2>1 DEF CoverInv, NothingSkipped, Covered, Running, InTxn, NothingForgotten,
                TasksLeft, ExhaustedMeansIndexed
<1>2. IInv /\ CoverInv /\ [Next]_vars => CoverInv'
  BY SkippedStep, ForgottenStep, TasksLeftStep, ExhaustedStep DEF CoverInv
<1>3. CoverInv => ExhaustedMeansIndexed
  BY DEF CoverInv
<1> QED
  BY <1>1, <1>2, <1>3, IInvCorrect, PTL DEF Spec
=============================================================================
