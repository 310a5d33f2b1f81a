--------------------------- MODULE InsertionProofs ---------------------------
(***************************************************************************)
(* Proofs about Insertion, for any dataset, limits and number of workers.  *)
(***************************************************************************)
EXTENDS Insertion, SequenceTheorems, FiniteSetTheorems, WellFoundedInduction, TLAPS

-----------------------------------------------------------------------------
(* The deque                                                                *)

\* deque.rotate keeps a deque of projects one.
LEMMA RotateType ==
  ASSUME NEW S, NEW s \in Seq(S), NEW n \in Nat
  PROVE  Rotate(s, n) \in Seq(S)
<1>1. CASE Len(s) = 0
  <2>1. Rotate(s, n) = << >>
    BY <1>1, SMT DEF Rotate
  <2> QED
    BY <2>1
<1>2. CASE Len(s) # 0
  <2>1. Len(s) \in Nat \ {0}
    BY <1>2
  <2>2. \A i \in 1 .. Len(s) : (i - 1 - n) % Len(s) \in 0 .. Len(s) - 1
    BY <2>1, SMT
  <2>3. \A i \in 1 .. Len(s) : s[((i - 1 - n) % Len(s)) + 1] \in S
    <3> TAKE i \in 1 .. Len(s)
    <3>1. ((i - 1 - n) % Len(s)) + 1 \in 1 .. Len(s)
      <4> DEFINE r == (i - 1 - n) % Len(s)
      <4>1. r \in 0 .. Len(s) - 1
        BY <2>2
      <4> HIDE DEF r
      <4>2. r + 1 \in 1 .. Len(s)
        BY <4>1, <2>1
      <4> QED
        BY <4>2 DEF r
    <3> QED
      BY <3>1, ElementOfSeq
  <2>4. Rotate(s, n) \in [1 .. Len(s) -> S]
    BY <2>3 DEF Rotate
  <2> QED
    BY <2>1, <2>4, SeqDef
<1> QED
  BY <1>1, <1>2

\* deque.remove takes one occurrence of its argument out, if there is one.
LEMMA RemoveFirstIs ==
  ASSUME NEW S, NEW s \in Seq(S), NEW e
  PROVE  \/ RemoveFirst(s, e) = s
         \/ \E k \in 1 .. Len(s) : s[k] = e /\ RemoveFirst(s, e) = RemoveAt(s, k)
<1> DEFINE I == {i \in 1 .. Len(s) : s[i] = e}
<1>1. CASE I = {}
  BY <1>1 DEF RemoveFirst
<1>2. CASE I # {}
  <2>1. PICK m \in I : \A i \in I : m <= i
    <3> DEFINE R == OpToRel(<, Nat)
    <3>1. IsWellFoundedOn(R, Nat)
      BY NatLessThanWellFounded
    <3>2. \A x, y \in Nat : x < y => <<x, y>> \in R
      BY DEF OpToRel
    <3>3. I \subseteq Nat
      OBVIOUS
    <3> HIDE DEF R, I
    <3>4. PICK m \in I : \A i \in I : ~ (<<i, m>> \in R)
      BY <1>2, <3>1, <3>3, WFMin
    <3>5. \A i \in I : m <= i
      <4> TAKE i \in I
      <4>1. m \in Nat /\ i \in Nat
        BY <3>3, <3>4
      <4>2. ~ (i < m)
        BY <4>1, <3>2, <3>4
      <4> QED
        BY <4>1, <4>2
    <3> QED
      BY <3>5
  <2>2. Min(I) \in I
    BY <2>1 DEF Min
  <2>3. SelectInSeq(s, LAMBDA v : v = e) = Min(I)
    BY <1>2 DEF SelectInSeq
  <2>4. RemoveFirst(s, e) = RemoveAt(s, Min(I))
    BY <1>2, <2>3 DEF RemoveFirst
  <2> QED
    BY <2>2, <2>4
<1> QED
  BY <1>1, <1>2

\* What is left of a sequence without its k-th element.
LEMMA RemoveAtIs ==
  ASSUME NEW S, NEW s \in Seq(S), NEW k \in 1 .. Len(s)
  PROVE  /\ RemoveAt(s, k) \in Seq(S)
         /\ Len(RemoveAt(s, k)) = Len(s) - 1
         /\ \A j \in 1 .. Len(s) - 1 :
              RemoveAt(s, k)[j] = IF j < k THEN s[j] ELSE s[j + 1]
<1> DEFINE L == Len(s)
           front == SubSeq(s, 1, k - 1)
           back == SubSeq(s, k + 1, L)
<1>1. L \in Nat /\ k \in 1 .. L /\ \A j \in 1 .. L : s[j] \in S
  BY LenProperties, ElementOfSeq
<1> HIDE DEF L
<1>2. /\ front \in Seq(S) /\ Len(front) = k - 1
      /\ \A j \in 1 .. k - 1 : front[j] = s[j]
  <2>1. \A j \in 1 .. k - 1 : s[j] \in S
    BY <1>1
  <2>2. /\ front \in Seq(S)
        /\ Len(front) = IF 1 <= k - 1 THEN (k - 1) - 1 + 1 ELSE 0
        /\ \A j \in 1 .. (k - 1) - 1 + 1 : front[j] = s[1 + j - 1]
    BY <1>1, <2>1, SubSeqProperties
  <2> HIDE DEF front
  <2>3. (k - 1) - 1 + 1 = k - 1 /\ \A j \in 1 .. k - 1 : 1 + j - 1 = j
    BY <1>1
  <2> QED
    BY <1>1, <2>2, <2>3
<1>3. /\ back \in Seq(S) /\ Len(back) = L - k
      /\ \A j \in 1 .. L - k : back[j] = s[j + k]
  <2>1. \A j \in k + 1 .. L : s[j] \in S
    BY <1>1
  <2>2. /\ back \in Seq(S)
        /\ Len(back) = IF k + 1 <= L THEN L - (k + 1) + 1 ELSE 0
        /\ \A j \in 1 .. L - (k + 1) + 1 : back[j] = s[k + 1 + j - 1]
    BY <1>1, <2>1, SubSeqProperties
  <2> HIDE DEF back
  <2>3. L - (k + 1) + 1 = L - k /\ \A j \in 1 .. L - k : k + 1 + j - 1 = j + k
    BY <1>1
  <2> QED
    BY <1>1, <2>2, <2>3
<1>4. RemoveAt(s, k) = front \o back
  BY DEF RemoveAt, L
<1> HIDE DEF front, back
<1>5. /\ front \o back \in Seq(S) /\ Len(front \o back) = Len(front) + Len(back)
      /\ \A j \in 1 .. Len(front) + Len(back) :
           (front \o back)[j] = IF j <= Len(front) THEN front[j] ELSE back[j - Len(front)]
  BY <1>2, <1>3, ConcatProperties
<1>6. \A j \in 1 .. L - 1 : (front \o back)[j] = IF j < k THEN s[j] ELSE s[j + 1]
  <2> TAKE j \in 1 .. L - 1
  <2>1. (front \o back)[j] = IF j <= k - 1 THEN front[j] ELSE back[j - (k - 1)]
    BY <1>1, <1>2, <1>3, <1>5
  <2>2. CASE j < k
    BY <1>1, <1>2, <2>1, <2>2
  <2>3. CASE j >= k
    <3>1. j - (k - 1) \in 1 .. L - k /\ (j - (k - 1)) + k = j + 1
      BY <1>1, <2>3
    <3>2. (front \o back)[j] = back[j - (k - 1)]
      BY <1>1, <2>1, <2>3
    <3>3. back[j - (k - 1)] = s[j + 1]
      BY <1>3, <3>1
    <3> QED
      BY <1>1, <2>3, <3>2, <3>3
  <2>4. j < k \/ j >= k
    BY <1>1
  <2> QED
    BY <2>2, <2>3, <2>4
<1> QED
  BY <1>1, <1>2, <1>3, <1>4, <1>5, <1>6 DEF L

\* deque.remove keeps a deque of projects one.
LEMMA RemoveFirstType ==
  ASSUME NEW S, NEW s \in Seq(S), NEW e
  PROVE  RemoveFirst(s, e) \in Seq(S)
BY RemoveFirstIs, RemoveAtIs
-----------------------------------------------------------------------------
(* Type correctness                                                         *)

\* Futures are created for projects of the deque only.
LEMMA CreateTasksType ==
  ASSUME NEW s \in Seq(Projects), NEW amount, NEW known
  PROVE  CreateTasks(s, amount, known) \subseteq Task
<1>1. \A i \in DOMAIN s : s[i] \in Projects
  BY ElementOfSeq, LenProperties
<1>2. FirstOf(s, amount) \subseteq Projects
  BY <1>1 DEF FirstOf
<1>3. \A p \in Projects : NewTask(p) \in Task
  BY DEF NewTask, Task
<1> QED
  BY <1>2, <1>3 DEF CreateTasks

\* There are finitely many futures to wait for.
LEMMA TaskFinite == IsFiniteSet(Task)
<1>1. IsFiniteSet({1, 2})
  <2>1. {1, 2} = {1} \cup {2}
    OBVIOUS
  <2>2. IsFiniteSet({1}) /\ IsFiniteSet({2})
    BY FS_Singleton
  <2> QED
    BY <2>1, <2>2, FS_Union
<1>2. IsFiniteSet(Projects \X {1, 2})
  BY <1>1, ProjectsAssumption, FS_Product
<1> QED
  BY <1>2 DEF Task

\* A task only ever touches files of its own project.
OwnFiles ==
  \A t \in Task :
    /\ todo[t] \subseteq FilesOf[Project(t)]
    /\ pc[t] \in InTxn \cup {"cache_file"} => file[t] \in FilesOf[Project(t)]

\* The indexer starts with variables of their types.
LEMMA InitType == Init => TypeOK /\ OwnFiles
<1> SUFFICES ASSUME Init PROVE TypeOK /\ OwnFiles
  OBVIOUS
<1>1. projects \in Seq(Projects)
  BY DEF Init
<1>2. runs \in 0 .. MaxRuns /\ faults \in 0 .. MaxFaults
  BY LimitsAssumption DEF Init
<1>3. stored \in [Files -> [Parts -> Nat]] /\ stats \in [Task -> [Outcomes -> Nat]]
  BY DEF Init, NoRows, NoStats
<1>4. cache \in [files : SUBSET Files, projects : SUBSET Projects]
  BY DEF Init
<1>5. completed \in Nat /\ inserted \in Nat /\ projectRows \in [Projects -> Nat]
  BY DEF Init
<1> QED
  BY <1>1, <1>2, <1>3, <1>4, <1>5 DEF Init, TypeOK, PCs, OwnFiles, InTxn

\* Every action of the main thread, and a crash, preserve the type invariant.
LEMMA MainType ==
  ASSUME TypeOK, Main \/ Crash
  PROVE  TypeOK'
<1> USE DEF mainVars, fileVars, dbVars
<1>1. CASE Start
  <2>1. Dataset \in Seq(Projects)
    BY DatasetAssumption
  <2>2. CreateTasks(Dataset, MaxActive, {}) \subseteq Task
    BY <2>1, CreateTasksType
  <2>3. pc' \in [Task -> PCs] /\ stats' \in [Task -> [Outcomes -> Nat]]
    BY <1>1 DEF Start, Submit, TypeOK, PCs, NoStats
  <2>4. runs' \in 0 .. MaxRuns
    BY <1>1, LimitsAssumption DEF Start, TypeOK
  <2> QED
    BY <1>1, <2>1, <2>2, <2>3, <2>4 DEF Start, Submit, TypeOK, SyncedCache
<1>2. CASE StartFails
  BY <1>2, LimitsAssumption DEF StartFails, TypeOK, MayFail
<1>3. CASE Wait
  <2>1. IsFiniteSet(done') /\ done' \subseteq Task
    BY <1>3, TaskFinite, FS_Subset DEF Wait, TypeOK
  <2>2. completed' \in Nat
    BY <1>3, <2>1, FS_CardinalityType DEF Wait
  <2> QED
    BY <1>3, <2>1, <2>2 DEF Wait, TypeOK
<1>4. CASE Refill
  <2>1. projects' \in Seq(Projects)
    BY <1>4, RotateType DEF Refill, TypeOK
  <2>2. CreateTasks(projects', completed, tasks) \subseteq Task
    BY <2>1, CreateTasksType
  <2>3. pc' \in [Task -> PCs] /\ stats' \in [Task -> [Outcomes -> Nat]]
    BY <1>4 DEF Refill, Submit, TypeOK, PCs, NoStats
  <2> QED
    BY <1>4, <2>1, <2>2, <2>3 DEF Refill, Submit, TypeOK
<1>5. CASE StopAtLimit
  BY <1>5 DEF StopAtLimit, TypeOK, PCs
<1>6. CASE StopWhenEmpty
  BY <1>6 DEF StopWhenEmpty, TypeOK
<1>7. CASE Close \/ Crash
  <2> ProcessEnds
    BY <1>7 DEF Close, Crash
  <2>1. projects' \in Seq(Projects)
    <3>1. projects' = << >>
      BY DEF ProcessEnds
    <3>2. << >> \in Seq(Projects)
      BY EmptySeq
    <3> QED
      BY <3>1, <3>2
  <2>4. stats' \in [Task -> [Outcomes -> Nat]]
    BY DEF ProcessEnds, NoStats
  <2>2. pc' \in [Task -> PCs] /\ txn' \in [Task -> SUBSET Parts]
    BY DEF ProcessEnds, PCs
  <2>3. /\ todo' \in [Task -> SUBSET Files]
        /\ file' \in [Task -> Files \cup {NoFile}]
        /\ cache' \in [files : SUBSET Files, projects : SUBSET Projects]
    BY DEF ProcessEnds
  <2>5. main' \in {"idle", "wait", "collect", "drain"} /\ poolOpen' \in BOOLEAN
        /\ outcome' \in {"none", "exhausted", "limit", "aborted"}
        /\ tasks' \in SUBSET Task /\ done' \in SUBSET Task /\ completed' \in Nat
    BY <1>7 DEF Close, Crash, ProcessEnds, TypeOK
  <2> QED
    BY <2>1, <2>2, <2>3, <2>4, <2>5 DEF ProcessEnds, TypeOK
<1>8. ASSUME NEW t \in Task, CollectResult(t)
      PROVE  TypeOK'
  <2>1. projects' \in Seq(Projects)
    BY <1>8, RemoveFirstType DEF CollectResult, TypeOK
  <2>2. inserted' \in Nat
    BY <1>8 DEF CollectResult, TypeOK, Outcomes
  <2> QED
    BY <1>8, <2>1, <2>2 DEF CollectResult, TypeOK, PCs
<1>9. ASSUME NEW t \in Task, CollectError(t)
      PROVE  TypeOK'
  BY <1>9 DEF CollectError, TypeOK, PCs
<1> QED
  BY <1>1, <1>2, <1>3, <1>4, <1>5, <1>6, <1>7, <1>8, <1>9 DEF Main

\* A return of insert_file preserves the types it touches.
LEMMA ReturnsType ==
  ASSUME TypeOK, NEW t \in Task, NEW o \in Outcomes, Returns(t, o)
  PROVE  /\ stats' \in [Task -> [Outcomes -> Nat]]
         /\ pc' \in [Task -> PCs]
         /\ file' \in [Task -> Files \cup {NoFile}]
<1>1. stats[t] \in [Outcomes -> Nat]
  BY DEF TypeOK
<1>2. [stats[t] EXCEPT ![o] = @ + 1] \in [Outcomes -> Nat]
  BY <1>1
<1>3. stats' = [stats EXCEPT ![t] = [stats[t] EXCEPT ![o] = @ + 1]]
  BY DEF Returns, TypeOK
<1> QED
  BY <1>2, <1>3 DEF Returns, TypeOK, PCs, Running, InTxn

\* A worker's step preserves the type invariant.
LEMMA WorkerType ==
  ASSUME TypeOK, OwnFiles, NEW t \in Task, Worker(t)
  PROVE  TypeOK'
<1> USE DEF mainVars, fileVars, dbVars
<1> t[1] \in Projects
  BY DEF Task
<1>1. CASE StartTask(t)
  <2>1. FilesOf[Project(t)] \subseteq Files
    BY DEF Files, Project
  <2> QED
    BY <1>1, <2>1 DEF StartTask, TypeOK, PCs, Running
<1>2. CASE StartTaskFails(t)
  BY <1>2, LimitsAssumption DEF StartTaskFails, TypeOK, PCs, Finished, MayFail
<1>3. CASE InsertProject(t)
  BY <1>3 DEF InsertProject, TypeOK, PCs, Running, Project
<1>4. CASE InsertProjectFails(t)
  BY <1>4, LimitsAssumption DEF InsertProjectFails, TypeOK, PCs, Finished, MayFail, Project
<1>5. CASE CacheProject(t)
  BY <1>5 DEF CacheProject, TypeOK, PCs, Running, Project
<1>6. CASE FinishTask(t)
  BY <1>6 DEF FinishTask, TypeOK, PCs, Finished
<1>7. CASE NextFile(t)
  <2>1. PICK f \in todo[t] :
          /\ todo' = [todo EXCEPT ![t] = @ \ {f}]
          /\ \/ \E o \in Outcomes : Returns(t, o)
             \/ /\ file' = [file EXCEPT ![t] = f]
                /\ pc' = [pc EXCEPT ![t] = "nodes"]
                /\ UNCHANGED stats
    BY <1>7 DEF NextFile, Raises, Outcomes
  <2>2. f \in Files /\ todo' \in [Task -> SUBSET Files]
    BY <2>1 DEF TypeOK
  <2>3. /\ stats' \in [Task -> [Outcomes -> Nat]]
        /\ pc' \in [Task -> PCs]
        /\ file' \in [Task -> Files \cup {NoFile}]
    <3>1. CASE \E o \in Outcomes : Returns(t, o)
      BY <3>1, ReturnsType
    <3>2. CASE /\ file' = [file EXCEPT ![t] = f]
               /\ pc' = [pc EXCEPT ![t] = "nodes"]
               /\ UNCHANGED stats
      <4>1. "nodes" \in PCs
        BY DEF PCs, Running, InTxn
      <4> QED
        BY <3>2, <2>2, <4>1 DEF TypeOK
    <3> QED
      BY <2>1, <3>1, <3>2
  <2> QED
    BY <1>7, <2>2, <2>3 DEF NextFile, TypeOK
<1>8. CASE InsertNodes(t) \/ InsertModule(t) \/ LinkNodes(t)
  <2>1. {"module", "links", "commit"} \subseteq PCs
    BY DEF PCs, Running, InTxn
  <2>2. pc' \in [Task -> PCs]
    BY <1>8, <2>1 DEF InsertNodes, InsertModule, LinkNodes, TypeOK
  <2>3. txn' \in [Task -> SUBSET Parts]
    <3>1. \E part \in Parts : Write(t, part)
      BY <1>8 DEF InsertNodes, InsertModule, LinkNodes, Parts
    <3> QED
      BY <3>1 DEF Write, TypeOK
  <2> QED
    BY <1>8, <2>2, <2>3 DEF InsertNodes, InsertModule, LinkNodes, Write, TypeOK
<1>9. CASE InsertModuleRejected(t) \/ TransactionFails(t) \/ CacheFile(t)
            \/ Commit(t) \/ CommitAnswerLost(t)
  <2>1. stored' \in [Files -> [Parts -> Nat]] /\ txn' \in [Task -> SUBSET Parts]
    <3>1. CASE Commit(t) \/ CommitAnswerLost(t)
      <4> DEFINE row == [part \in Parts |-> stored[file[t]][part]
                                             + (IF part \in txn[t] THEN 1 ELSE 0)]
      <4>1. stored' = [stored EXCEPT ![file[t]] = row]
        BY <3>1 DEF Commit, CommitAnswerLost, Apply
      <4>2. CASE file[t] \in Files
        <5>1. row \in [Parts -> Nat]
          BY <4>2 DEF TypeOK
        <5> QED
          BY <3>1, <4>1, <5>1 DEF Commit, CommitAnswerLost, Apply, TypeOK
      <4>3. CASE file[t] \notin Files
        BY <3>1, <4>1, <4>3 DEF Commit, CommitAnswerLost, Apply, TypeOK
      <4> QED
        BY <4>2, <4>3
    <3>2. CASE InsertModuleRejected(t) \/ TransactionFails(t) \/ CacheFile(t)
      BY <3>2 DEF InsertModuleRejected, TransactionFails, CacheFile, TypeOK
    <3> QED
      BY <1>9, <3>1, <3>2
  <2>2. /\ stats' \in [Task -> [Outcomes -> Nat]]
        /\ pc' \in [Task -> PCs]
        /\ file' \in [Task -> Files \cup {NoFile}]
    <3>1. CASE Commit(t)
      BY <3>1 DEF Commit, TypeOK, PCs, Running
    <3>2. CASE \E o \in Outcomes : Returns(t, o)
      BY <3>2, ReturnsType
    <3> QED
      BY <1>9, <3>1, <3>2 DEF InsertModuleRejected, TransactionFails, CacheFile,
                              CommitAnswerLost, Raises, Outcomes
  <2>3. cache' \in [files : SUBSET Files, projects : SUBSET Projects]
    <3>1. CASE CacheFile(t)
      <4>1. file[t] \in Files
        BY <3>1 DEF CacheFile, OwnFiles, Files, Project
      <4> QED
        BY <3>1, <4>1 DEF CacheFile, TypeOK
    <3> QED
      BY <1>9, <3>1 DEF InsertModuleRejected, TransactionFails, Commit,
                        CommitAnswerLost, TypeOK
  <2>4. faults' \in 0 .. MaxFaults
    BY <1>9, LimitsAssumption DEF InsertModuleRejected, TransactionFails, CacheFile,
                 Commit, CommitAnswerLost, MayFail, TypeOK
  <2> QED
    BY <1>9, <2>1, <2>2, <2>3, <2>4 DEF InsertModuleRejected, TransactionFails,
                 CacheFile, Commit, CommitAnswerLost, TypeOK
<1> QED
  BY <1>1, <1>2, <1>3, <1>4, <1>5, <1>6, <1>7, <1>8, <1>9 DEF Worker

\* No step makes a task touch a file of another project.
LEMMA OwnFilesStep ==
  ASSUME TypeOK, OwnFiles, [Next]_vars
  PROVE  OwnFiles'
<1> USE DEF mainVars, fileVars, dbVars
<1> SUFFICES ASSUME NEW u \in Task
             PROVE  /\ todo'[u] \subseteq FilesOf[Project(u)]
                    /\ pc'[u] \in InTxn \cup {"cache_file"}
                         => file'[u] \in FilesOf[Project(u)]
  BY DEF OwnFiles
<1>1. CASE UNCHANGED <<pc, todo, file>>
  BY <1>1 DEF OwnFiles
<1>2. CASE Start \/ Refill \/ StopAtLimit
  BY <1>2 DEF Start, Refill, StopAtLimit, Submit, OwnFiles, TypeOK, InTxn
<1>3. CASE Close \/ Crash
  BY <1>3 DEF Close, Crash, ProcessEnds, InTxn
<1>4. CASE \E t \in Task : CollectResult(t) \/ CollectError(t)
  BY <1>4 DEF CollectResult, CollectError, OwnFiles, TypeOK, InTxn
<1>5. ASSUME NEW t \in Task, Worker(t)
      PROVE  /\ todo'[u] \subseteq FilesOf[Project(u)]
             /\ pc'[u] \in InTxn \cup {"cache_file"}
                  => file'[u] \in FilesOf[Project(u)]
  <2>1. CASE t # u
    BY <1>5, <2>1 DEF Worker, StartTask, StartTaskFails, InsertProject,
         InsertProjectFails, CacheProject, FinishTask, NextFile, InsertNodes,
         InsertModule, InsertModuleRejected, LinkNodes, Commit, CommitAnswerLost,
         TransactionFails, CacheFile, Returns, Raises, OwnFiles, TypeOK
  <2>2. CASE t = u
    <3>1. CASE NextFile(t)
      BY <2>2, <3>1 DEF NextFile, Returns, Raises, OwnFiles, TypeOK, InTxn
    <3>2. CASE StartTask(t) \/ StartTaskFails(t) \/ InsertProject(t)
               \/ InsertProjectFails(t) \/ CacheProject(t) \/ FinishTask(t)
      BY <2>2, <3>2 DEF StartTask, StartTaskFails, InsertProject,
           InsertProjectFails, CacheProject, FinishTask, OwnFiles, TypeOK, InTxn
    <3>3. CASE InsertNodes(t) \/ InsertModule(t) \/ LinkNodes(t) \/ Commit(t)
      BY <2>2, <3>3 DEF InsertNodes, InsertModule, LinkNodes, Commit, OwnFiles,
           TypeOK, InTxn
    <3>4. CASE InsertModuleRejected(t) \/ CommitAnswerLost(t)
               \/ TransactionFails(t) \/ CacheFile(t)
      BY <2>2, <3>4 DEF InsertModuleRejected, CommitAnswerLost, TransactionFails,
           CacheFile, Returns, Raises, OwnFiles, TypeOK, InTxn
    <3> QED
      BY <1>5, <3>1, <3>2, <3>3, <3>4 DEF Worker
  <2> QED
    BY <2>1, <2>2
<1>6. CASE StartFails \/ Wait \/ StopWhenEmpty
  BY <1>6, <1>1 DEF StartFails, Wait, StopWhenEmpty
<1>7. CASE UNCHANGED vars
  BY <1>7, <1>1 DEF vars
<1> QED
  BY <1>2, <1>3, <1>4, <1>5, <1>6, <1>7 DEF Next, Main

\* The variables keep their types: in particular the deque only ever holds
\* projects, every committed row count is a number, and only files of the
\* dataset are cached.
THEOREM TypeCorrect == Spec => []TypeOK
<1>1. Init => TypeOK /\ OwnFiles
  BY InitType
<1>2. TypeOK /\ OwnFiles /\ [Next]_vars => (TypeOK /\ OwnFiles)'
  <2> SUFFICES ASSUME TypeOK, OwnFiles, [Next]_vars PROVE TypeOK' /\ OwnFiles'
    OBVIOUS
  <2>1. CASE Next
    BY <2>1, MainType, WorkerType, OwnFilesStep DEF Next
  <2>2. CASE UNCHANGED vars
    BY <2>2, OwnFilesStep DEF TypeOK, vars, mainVars, fileVars, dbVars
  <2> QED
    BY <2>1, <2>2
<1> QED
  BY <1>1, <1>2, PTL DEF Spec
-----------------------------------------------------------------------------
(* Scheduling: no two tasks of one project                                  *)

\* All futures around, also those whose project is finished or cancelled, are of
\* different projects.
DistinctTasks ==
  \A t, u \in Task : pc[t] # "free" /\ pc[u] # "free" /\ Project(t) = Project(u)
                       => t = u

\* While it submits tasks, the main thread knows of every future around.
TasksKnown ==
  /\ main = "idle" => \A t \in Task : pc[t] = "free"
  /\ main \in {"wait", "collect"} => tasks = {t \in Task : pc[t] # "free"}

TasksInv == DistinctTasks /\ TasksKnown

\* A task that is submitted is the only one of its project.
LEMMA NewTaskAlone ==
  ASSUME NEW s \in Seq(Projects), NEW amount, NEW known,
         {t \in Task : pc[t] # "free"} \subseteq known,
         NEW t \in CreateTasks(s, amount, known)
  PROVE  /\ t \in Task /\ t = <<Project(t), 1>>
         /\ \A u \in Task : pc[u] # "free" => Project(u) # Project(t)
<1>1. PICK p \in FirstOf(s, amount) \ {Project(u) : u \in known} : t = NewTask(p)
  BY DEF CreateTasks
<1>2. p \in Projects
  <2>1. \A i \in DOMAIN s : s[i] \in Projects
    BY ElementOfSeq, LenProperties
  <2> QED
    BY <1>1, <2>1 DEF FirstOf
<1>3. \A u \in Task : pc[u] # "free" => Project(u) # p
  BY <1>1
<1>4. pc[<<p, 1>>] = "free"
  BY <1>2, <1>3 DEF Task, Project
<1>5. t = <<p, 1>> /\ Project(t) = p
  BY <1>1, <1>4 DEF NewTask, Project
<1> QED
  BY <1>2, <1>3, <1>5 DEF Task

\* Submitting tasks for projects no known task works on keeps futures distinct.
LEMMA SubmitDistinct ==
  ASSUME TypeOK, DistinctTasks, NEW s \in Seq(Projects), NEW amount, NEW known,
         known = {t \in Task : pc[t] # "free"},
         Submit(CreateTasks(s, amount, known))
  PROVE  /\ DistinctTasks'
         /\ {t \in Task : pc'[t] # "free"} = known \cup CreateTasks(s, amount, known)
<1> DEFINE new == CreateTasks(s, amount, known)
<1>1. \A t \in new : /\ t \in Task /\ t = <<Project(t), 1>>
                     /\ \A u \in Task : pc[u] # "free" => Project(u) # Project(t)
  BY NewTaskAlone
<1>2. pc' = [t \in Task |-> IF t \in new THEN "pending" ELSE pc[t]]
  BY DEF Submit
<1> HIDE DEF new
<1>3. DistinctTasks'
  <2> SUFFICES ASSUME NEW t \in Task, NEW u \in Task,
                      pc'[t] # "free", pc'[u] # "free", Project(t) = Project(u)
               PROVE  t = u
    BY DEF DistinctTasks
  <2>1. CASE t \in new /\ u \in new
    BY <1>1, <2>1
  <2>2. CASE t \notin new /\ u \notin new
    BY <1>2, <2>2 DEF DistinctTasks
  <2>3. CASE (t \in new) # (u \in new)
    BY <1>1, <1>2, <2>3
  <2> QED
    BY <2>1, <2>2, <2>3
<1>4. {t \in Task : pc'[t] # "free"} = known \cup new
  BY <1>1, <1>2
<1> QED
  BY <1>3, <1>4 DEF new

\* Only a refill adds tasks, and not for a project that has one; only collecting takes them.
LEMMA TasksInvStep ==
  ASSUME TypeOK, TasksInv, [Next]_vars
  PROVE  TasksInv'
<1> USE DEF mainVars, fileVars, dbVars
<1>1. CASE Start
  <2>1. {t \in Task : pc[t] # "free"} = {}
    BY <1>1 DEF Start, TasksInv, TasksKnown
  <2>2. Submit(CreateTasks(Dataset, MaxActive, {}))
    BY <1>1 DEF Start
  <2>3. /\ DistinctTasks'
        /\ {t \in Task : pc'[t] # "free"} = {} \cup CreateTasks(Dataset, MaxActive, {})
    BY <2>1, <2>2, SubmitDistinct, DatasetAssumption DEF TasksInv
  <2> QED
    BY <1>1, <2>3 DEF Start, TasksInv, TasksKnown
<1>2. CASE Refill
  <2>1. tasks = {t \in Task : pc[t] # "free"}
    BY <1>2 DEF Refill, TasksInv, TasksKnown
  <2>2. projects' \in Seq(Projects) /\ Submit(CreateTasks(projects', completed, tasks))
    BY <1>2, RotateType DEF Refill, TypeOK
  <2>3. /\ DistinctTasks'
        /\ {t \in Task : pc'[t] # "free"}
             = tasks \cup CreateTasks(projects', completed, tasks)
    BY <2>1, <2>2, SubmitDistinct DEF TasksInv
  <2> QED
    BY <1>2, <2>3 DEF Refill, TasksInv, TasksKnown
<1>3. CASE Close \/ Crash
  BY <1>3 DEF Close, Crash, ProcessEnds, TasksInv, DistinctTasks, TasksKnown
<1>4. ASSUME NEW t \in Task, CollectResult(t) \/ CollectError(t)
      PROVE  TasksInv'
  BY <1>4 DEF CollectResult, CollectError, TasksInv, DistinctTasks, TasksKnown, TypeOK
<1>5. CASE StopAtLimit
  BY <1>5 DEF StopAtLimit, TasksInv, DistinctTasks, TasksKnown, TypeOK
<1>6. CASE StartFails \/ Wait \/ StopWhenEmpty \/ UNCHANGED vars
  BY <1>6 DEF StartFails, Wait, StopWhenEmpty, vars, TasksInv, DistinctTasks, TasksKnown
<1>7. ASSUME NEW t \in Task, Worker(t)
      PROVE  TasksInv'
  <2>1. /\ pc[t] # "free" /\ pc'[t] # "free"
        /\ \A u \in Task \ {t} : pc'[u] = pc[u]
        /\ UNCHANGED <<main, tasks>>
    <3>1. CASE NextFile(t)
      BY <3>1 DEF NextFile, Returns, Raises, TypeOK
    <3>2. CASE StartTask(t) \/ StartTaskFails(t) \/ InsertProject(t)
               \/ InsertProjectFails(t) \/ CacheProject(t) \/ FinishTask(t)
      BY <3>2 DEF StartTask, StartTaskFails, InsertProject, InsertProjectFails,
           CacheProject, FinishTask, TypeOK
    <3>3. CASE InsertNodes(t) \/ InsertModule(t) \/ LinkNodes(t) \/ Commit(t)
      BY <3>3 DEF InsertNodes, InsertModule, LinkNodes, Commit, TypeOK
    <3>4. CASE InsertModuleRejected(t) \/ CommitAnswerLost(t)
               \/ TransactionFails(t) \/ CacheFile(t)
      BY <3>4 DEF InsertModuleRejected, CommitAnswerLost, TransactionFails,
           CacheFile, Returns, Raises, InTxn, TypeOK
    <3> QED
      BY <1>7, <3>1, <3>2, <3>3, <3>4 DEF Worker
  <2> QED
    BY <2>1 DEF TasksInv, DistinctTasks, TasksKnown
<1> QED
  BY <1>1, <1>2, <1>3, <1>4, <1>5, <1>6, <1>7 DEF Next, Main
-----------------------------------------------------------------------------
(* The project rows and the cache                                           *)

\* The states of a task whose project it found or made cached.
HasProject == {"loop", "cache_file", "done"} \cup InTxn

\* A task that will insert its project finds no row of it ...
NoRowYet ==
  \A t \in Task :
    pc[t] = "insert_project" \/ (pc[t] = "pending" /\ Project(t) \notin cache.projects)
      => projectRows[Project(t)] = 0

\* ... and past that step, the row is there, and the cache knows.
RowKnown ==
  /\ \A p \in cache.projects : projectRows[p] = 1
  /\ \A t \in Task : pc[t] = "cache_project" => projectRows[Project(t)] = 1
  /\ \A t \in Task : pc[t] \in HasProject => Project(t) \in cache.projects

\* A row the cache does not know of is the doing of a task still to be collected,
\* so no other task of its project is submitted.
RowOfTask ==
  main \in {"wait", "collect"} =>
    \A p \in Projects \ cache.projects :
      projectRows[p] = 0 \/ \E t \in Task : /\ Project(t) = p
                                            /\ pc[t] \in {"cache_project", "error"}

ProjectInv == OneProjectRow /\ NoRowYet /\ RowKnown /\ RowOfTask

\* A task inserts the row of its project once, and only if the cache does not know it.
LEMMA ProjectInvWorker ==
  ASSUME TypeOK, TasksInv, ProjectInv, NEW t \in Task, Worker(t)
  PROVE  ProjectInv'
<1> USE DEF mainVars, fileVars, dbVars
<1> t[1] \in Projects
  BY DEF Task
<1>1. CASE StartTask(t)
  BY <1>1 DEF StartTask, TypeOK, ProjectInv, OneProjectRow, NoRowYet, RowKnown,
              RowOfTask, HasProject, InTxn
<1>2. CASE StartTaskFails(t)
  BY <1>2 DEF StartTaskFails, TypeOK, ProjectInv, OneProjectRow, NoRowYet, RowKnown,
              RowOfTask, HasProject, InTxn
<1>3. CASE InsertProject(t) \/ InsertProjectFails(t)
  <2>1. pc[t] = "insert_project" /\ projectRows[Project(t)] = 0
    BY <1>3 DEF InsertProject, InsertProjectFails, ProjectInv, NoRowYet
  <2>2. /\ pc' \in {[pc EXCEPT ![t] = "cache_project"], [pc EXCEPT ![t] = "error"]}
        /\ pc'[t] = "cache_project" => projectRows'[Project(t)] = 1
        /\ projectRows'[Project(t)] \in {0, 1}
        /\ \A p \in Projects \ {Project(t)} : projectRows'[p] = projectRows[p]
        /\ UNCHANGED <<main, cache>>
    BY <1>3, <2>1 DEF InsertProject, InsertProjectFails, TypeOK, Project
  <2>3. \A u \in Task \ {t} : pc'[u] = pc[u] /\ (pc[u] = "free" \/ Project(u) # Project(t))
    BY <2>1, <2>2 DEF TasksInv, DistinctTasks, TypeOK
  <2>4. \A u \in Task : Project(u) \in Projects
    BY DEF Task, Project
  <2>5. Project(t) \notin cache.projects
    BY <2>1 DEF ProjectInv, RowKnown
  <2>6. pc'[t] \in {"cache_project", "error"}
    BY <2>2 DEF TypeOK
  <2>7. OneProjectRow' /\ NoRowYet'
    BY <2>2, <2>3, <2>4, <2>6 DEF ProjectInv, OneProjectRow, NoRowYet
  <2>8. RowKnown'
    BY <2>2, <2>3, <2>4, <2>5, <2>6 DEF ProjectInv, RowKnown, HasProject, InTxn, TypeOK
  <2>9. RowOfTask'
    <3> SUFFICES ASSUME main \in {"wait", "collect"},
                        NEW p \in Projects \ cache.projects, projectRows'[p] # 0
                 PROVE  \E u \in Task : /\ Project(u) = p
                                        /\ pc'[u] \in {"cache_project", "error"}
      BY <2>2 DEF RowOfTask
    <3>1. CASE p = Project(t)
      BY <3>1, <2>6
    <3>2. CASE p # Project(t)
      <4>1. PICK u \in Task : Project(u) = p /\ pc[u] \in {"cache_project", "error"}
        BY <3>2, <2>2 DEF ProjectInv, RowOfTask
      <4> QED
        BY <4>1, <3>2, <2>3
    <3> QED
      BY <3>1, <3>2
  <2> QED
    BY <2>7, <2>8, <2>9 DEF ProjectInv
<1>4. CASE CacheProject(t)
  BY <1>4 DEF CacheProject, TypeOK, ProjectInv, OneProjectRow, NoRowYet, RowKnown,
              RowOfTask, HasProject, InTxn, Project
<1>5. ASSUME /\ pc[t] \in HasProject /\ pc'[t] \in HasProject
             /\ pc' = [pc EXCEPT ![t] = pc'[t]]
             /\ UNCHANGED <<main, projectRows, cache.projects>>
      PROVE  ProjectInv'
  BY <1>5 DEF TypeOK, ProjectInv, OneProjectRow, NoRowYet, RowKnown, RowOfTask,
              HasProject, InTxn
<1>6. CASE NextFile(t)
  BY <1>5, <1>6 DEF NextFile, Returns, Raises, TypeOK, HasProject, InTxn
<1>7. CASE InsertNodes(t) \/ InsertModule(t) \/ LinkNodes(t) \/ Commit(t) \/ FinishTask(t)
  BY <1>5, <1>7 DEF InsertNodes, InsertModule, LinkNodes, Commit, FinishTask, TypeOK,
                    HasProject, InTxn
<1>8. CASE InsertModuleRejected(t) \/ CommitAnswerLost(t) \/ TransactionFails(t)
           \/ CacheFile(t)
  BY <1>5, <1>8 DEF InsertModuleRejected, CommitAnswerLost, TransactionFails,
           CacheFile, Returns, Raises, TypeOK, HasProject, InTxn
<1> QED
  BY <1>1, <1>2, <1>3, <1>4, <1>6, <1>7, <1>8 DEF Worker
\* Neither the scheduler nor a kill touches the rows of projects; a sync learns them.
LEMMA ProjectInvStep ==
  ASSUME TypeOK, TasksInv, ProjectInv, [Next]_vars
  PROVE  ProjectInv'
<1> USE DEF mainVars, fileVars, dbVars
<1> \A t \in Task : Project(t) \in Projects
  BY DEF Task, Project
<1>1. CASE Start
  <2>1. /\ UNCHANGED projectRows
        /\ cache'.projects = {p \in Projects : projectRows[p] > 0}
        /\ \A t \in Task : pc'[t] \in {"free", "pending"}
    BY <1>1 DEF Start, SyncedCache, Submit, TasksInv, TasksKnown
  <2>2. \A p \in Projects : projectRows[p] \in {0, 1}
    BY DEF TypeOK, ProjectInv, OneProjectRow
  <2> QED
    BY <2>1, <2>2 DEF ProjectInv, OneProjectRow, NoRowYet, RowKnown, RowOfTask,
                      HasProject, InTxn
<1>2. CASE Refill
  <2> DEFINE new == CreateTasks(projects', completed, tasks)
  <2>1. tasks = {t \in Task : pc[t] # "free"}
    BY <1>2 DEF Refill, TasksInv, TasksKnown
  <2>2. projects' \in Seq(Projects) /\ Submit(new)
    BY <1>2, RotateType DEF Refill, TypeOK
  <2>3. \A t \in new : \A u \in Task : pc[u] # "free" => Project(u) # Project(t)
    BY <2>1, <2>2, NewTaskAlone
  <2>4. pc' = [t \in Task |-> IF t \in new THEN "pending" ELSE pc[t]]
    BY <2>2 DEF Submit
  <2>5. UNCHANGED <<projectRows, cache>> /\ main = "collect"
    BY <1>2 DEF Refill
  <2> HIDE DEF new
  <2>6. \A t \in new \cap Task :
          Project(t) \in cache.projects \/ projectRows[Project(t)] = 0
    BY <2>3, <2>5 DEF ProjectInv, RowOfTask
  <2>7. NoRowYet'
    BY <2>4, <2>5, <2>6 DEF ProjectInv, NoRowYet
  <2>8. RowKnown' /\ OneProjectRow'
    BY <2>4, <2>5 DEF ProjectInv, OneProjectRow, RowKnown, HasProject, InTxn
  <2>9. RowOfTask'
    <3> SUFFICES ASSUME NEW p \in Projects \ cache.projects, projectRows[p] # 0
                 PROVE  \E u \in Task : /\ Project(u) = p
                                        /\ pc'[u] \in {"cache_project", "error"}
      BY <2>5 DEF RowOfTask
    <3>1. PICK u \in Task : Project(u) = p /\ pc[u] \in {"cache_project", "error"}
      BY <2>5 DEF ProjectInv, RowOfTask
    <3>2. u \notin new
      BY <2>3, <3>1
    <3> QED
      BY <2>4, <3>1, <3>2
  <2> QED
    BY <2>7, <2>8, <2>9 DEF ProjectInv
<1>3. CASE Close \/ Crash
  BY <1>3 DEF Close, Crash, ProcessEnds, ProjectInv, OneProjectRow, NoRowYet,
              RowKnown, RowOfTask, HasProject, InTxn
<1>4. ASSUME NEW t \in Task, CollectResult(t) \/ CollectError(t)
      PROVE  ProjectInv'
  BY <1>4 DEF CollectResult, CollectError, ProjectInv, OneProjectRow, NoRowYet,
              RowKnown, RowOfTask, HasProject, InTxn, TypeOK
<1>5. CASE StopAtLimit
  BY <1>5 DEF StopAtLimit, ProjectInv, OneProjectRow, NoRowYet, RowKnown, RowOfTask,
              HasProject, InTxn, TypeOK
<1>6. CASE StartFails \/ Wait \/ StopWhenEmpty \/ UNCHANGED vars
  BY <1>6 DEF StartFails, Wait, StopWhenEmpty, vars, ProjectInv, OneProjectRow,
              NoRowYet, RowKnown, RowOfTask
<1> QED
  BY <1>1, <1>2, <1>3, <1>4, <1>5, <1>6, ProjectInvWorker DEF Next, Main
-----------------------------------------------------------------------------
(* The files and the cache                                                  *)

\* How far the transaction of a task has got.
TxnProgress ==
  \A t \in Task :
    /\ pc[t] = "module" => txn[t] = {"nodes"}
    /\ pc[t] = "links"  => txn[t] = {"nodes", "module"}
    /\ pc[t] = "commit" => txn[t] = Parts
    /\ pc[t] \notin {"module", "links", "commit"} => txn[t] = {}

\* A file whose module row is in a transaction is not stored; once committed it is.
FileOfTxn ==
  \A t \in Task :
    /\ pc[t] \in {"links", "commit"} => stored[file[t]] = NoRows
    /\ pc[t] = "cache_file" => stored[file[t]] = AllRows

FilesCached == \A f \in cache.files : stored[f] = AllRows

FileInv == FileAllOrNothing /\ TxnProgress /\ FileOfTxn /\ FilesCached

\* Of a file with no rows and one with all rows, the second is stored.
LEMMA NoRowsAllRows == NoRows # AllRows /\ \A f \in Files :
                         stored[f] \in {NoRows, AllRows} =>
                           (IsStored(f) <=> stored[f] = AllRows)
<1>1. NoRows["module"] = 0 /\ AllRows["module"] = 1
  BY DEF NoRows, AllRows, Parts
<1> QED
  BY <1>1 DEF IsStored

\* What a commit leaves in the database.
LEMMA ApplyStores ==
  ASSUME TypeOK, OwnFiles, FileInv, NEW t \in Task, pc[t] = "commit", Apply(t)
  PROVE  /\ file[t] \in Files
         /\ stored' = [stored EXCEPT ![file[t]] = AllRows]
         /\ txn' = [txn EXCEPT ![t] = {}]
<1>1. file[t] \in Files
  BY DEF OwnFiles, InTxn, Files, Task, Project
<1>2. stored[file[t]] = NoRows /\ txn[t] = Parts
  BY DEF FileInv, FileOfTxn, TxnProgress
<1>3. [part \in Parts |-> stored[file[t]][part] + (IF part \in txn[t] THEN 1 ELSE 0)]
        = AllRows
  BY <1>2 DEF NoRows, AllRows
<1> QED
  BY <1>1, <1>3 DEF Apply

\* A task writes the parts of a file in their order, in one transaction, for a file of its own.
LEMMA FileInvWorker ==
  ASSUME TypeOK, OwnFiles, TasksInv, FileInv, NEW t \in Task, Worker(t)
  PROVE  FileInv'
<1> USE DEF mainVars, fileVars, dbVars
<1>1. CASE StartTask(t) \/ StartTaskFails(t) \/ InsertProject(t) \/ FinishTask(t)
           \/ InsertProjectFails(t) \/ CacheProject(t)
  <2>1. /\ UNCHANGED <<txn, file, stored, cache.files>>
        /\ pc[t] \notin {"module", "links", "commit"}
        /\ pc'[t] \notin {"module", "links", "commit", "cache_file"}
        /\ \A u \in Task \ {t} : pc'[u] = pc[u]
    BY <1>1 DEF StartTask, StartTaskFails, InsertProject, InsertProjectFails,
         CacheProject, FinishTask, TypeOK
  <2> QED
    BY <2>1 DEF FileInv, FileAllOrNothing, TxnProgress, FileOfTxn, FilesCached
<1>2. CASE NextFile(t)
  <2>1. /\ UNCHANGED <<cache, txn, stored>> /\ pc[t] = "loop"
        /\ pc'[t] \in {"loop", "nodes"}
        /\ \A u \in Task \ {t} : pc'[u] = pc[u] /\ file'[u] = file[u]
    BY <1>2 DEF NextFile, Returns, Raises, TypeOK
  <2> QED
    BY <2>1 DEF FileInv, FileAllOrNothing, TxnProgress, FileOfTxn, FilesCached
<1>3. CASE InsertNodes(t)
  <2>1. /\ UNCHANGED <<cache, file, stored>> /\ pc[t] = "nodes" /\ pc'[t] = "module"
        /\ txn'[t] = txn[t] \cup {"nodes"}
        /\ \A u \in Task \ {t} : pc'[u] = pc[u] /\ txn'[u] = txn[u]
    BY <1>3 DEF InsertNodes, Write, TypeOK
  <2>2. txn[t] = {}
    BY <2>1 DEF FileInv, TxnProgress
  <2> QED
    BY <2>1, <2>2 DEF FileInv, FileAllOrNothing, TxnProgress, FileOfTxn, FilesCached
<1>4. CASE InsertModule(t)
  <2>1. file[t] \in Files
    BY <1>4 DEF InsertModule, OwnFiles, InTxn, Files, Task, Project
  <2>2. stored[file[t]] = NoRows
    BY <1>4, <2>1, NoRowsAllRows DEF InsertModule, ModuleAllowed, FileInv,
                                     FileAllOrNothing
  <2> QED
    BY <1>4, <2>2 DEF InsertModule, Write, TypeOK, FileInv, FileAllOrNothing,
         TxnProgress, FileOfTxn, FilesCached
<1>5. CASE InsertModuleRejected(t) \/ TransactionFails(t)
  BY <1>5 DEF InsertModuleRejected, TransactionFails, Returns, Raises, TypeOK,
       FileInv, FileAllOrNothing, TxnProgress, FileOfTxn, FilesCached
<1>6. CASE LinkNodes(t)
  BY <1>6 DEF LinkNodes, Write, TypeOK, FileInv, FileAllOrNothing, TxnProgress,
       FileOfTxn, FilesCached, Parts
<1>7. CASE Commit(t) \/ CommitAnswerLost(t)
  <2>1. /\ file[t] \in FilesOf[Project(t)] /\ file[t] \in Files
        /\ stored' = [stored EXCEPT ![file[t]] = AllRows]
        /\ txn' = [txn EXCEPT ![t] = {}]
    BY <1>7, ApplyStores DEF Commit, CommitAnswerLost, OwnFiles, InTxn
  <2>2. /\ UNCHANGED cache
        /\ pc'[t] \in {"loop", "cache_file"}
        /\ pc'[t] = "cache_file" => file'[t] = file[t]
        /\ \A u \in Task \ {t} : pc'[u] = pc[u] /\ file'[u] = file[u]
    BY <1>7 DEF Commit, CommitAnswerLost, Returns, Raises, TypeOK
  <2>3. \A u \in Task \ {t} : pc[u] \in {"links", "commit", "cache_file"}
                               => file[u] # file[t]
    <3> SUFFICES ASSUME NEW u \in Task \ {t}, pc[u] \in {"links", "commit", "cache_file"}
                 PROVE  file[u] # file[t]
      OBVIOUS
    <3>1. pc[t] = "commit"
      BY <1>7 DEF Commit, CommitAnswerLost
    <3>2. Project(u) # Project(t) /\ Project(u) \in Projects /\ Project(t) \in Projects
      BY <3>1 DEF TasksInv, DistinctTasks, Task, Project
    <3>3. file[u] \in FilesOf[Project(u)]
      BY DEF OwnFiles, InTxn
    <3> QED
      BY <2>1, <3>2, <3>3, FilesAssumption
  <2>4. FileAllOrNothing' /\ FilesCached'
    BY <2>1, <2>2 DEF FileInv, FileAllOrNothing, FilesCached, TypeOK
  <2>5. TxnProgress'
    BY <2>1, <2>2 DEF FileInv, TxnProgress, TypeOK
  <2>6. FileOfTxn'
    <3> SUFFICES ASSUME NEW u \in Task
                 PROVE  /\ pc'[u] \in {"links", "commit"} => stored'[file'[u]] = NoRows
                        /\ pc'[u] = "cache_file" => stored'[file'[u]] = AllRows
      BY DEF FileOfTxn
    <3>1. CASE u = t
      BY <3>1, <2>1, <2>2 DEF TypeOK
    <3>2. CASE u # t
      BY <3>2, <2>1, <2>2, <2>3 DEF FileInv, FileOfTxn, TypeOK
    <3> QED
      BY <3>1, <3>2
  <2> QED
    BY <2>4, <2>5, <2>6 DEF FileInv
<1>8. CASE CacheFile(t)
  BY <1>8 DEF CacheFile, Returns, TypeOK, FileInv, FileAllOrNothing, TxnProgress,
       FileOfTxn, FilesCached
<1> QED
  BY <1>1, <1>2, <1>3, <1>4, <1>5, <1>6, <1>7, <1>8 DEF Worker

\* A kill rolls open transactions back, and a sync caches what is stored.
LEMMA FileInvStep ==
  ASSUME TypeOK, OwnFiles, TasksInv, FileInv, [Next]_vars
  PROVE  FileInv'
<1> USE DEF mainVars, fileVars, dbVars
<1>1. CASE Start
  <2>1. /\ UNCHANGED <<txn, file, stored>>
        /\ cache'.files = {f \in Files : IsStored(f)}
        /\ \A t \in Task : pc[t] = "free" /\ pc'[t] \in {"free", "pending"}
    BY <1>1 DEF Start, SyncedCache, Submit, TasksInv, TasksKnown
  <2> QED
    BY <2>1, NoRowsAllRows DEF FileInv, FileAllOrNothing, TxnProgress, FileOfTxn,
                               FilesCached
<1>2. CASE Refill \/ StopAtLimit
  <2>1. /\ UNCHANGED <<txn, file, stored, cache>>
        /\ \A t \in Task : \/ pc'[t] = pc[t]
                           \/ /\ pc'[t] \in {"pending", "cancelled"}
                              /\ pc[t] \in {"free", "pending"}
    <3>1. CASE StopAtLimit
      BY <3>1 DEF StopAtLimit
    <3>2. CASE Refill
      <4> DEFINE new == CreateTasks(projects', completed, tasks)
      <4>1. tasks = {t \in Task : pc[t] # "free"}
        BY <3>2 DEF Refill, TasksInv, TasksKnown
      <4>2. projects' \in Seq(Projects) /\ Submit(new)
        BY <3>2, RotateType DEF Refill, TypeOK
      <4>3. \A t \in new \cap Task : pc[t] = "free"
        BY <4>1, <4>2, NewTaskAlone
      <4> HIDE DEF new
      <4> QED
        BY <3>2, <4>2, <4>3 DEF Refill, Submit
    <3> QED
      BY <1>2, <3>1, <3>2
  <2> QED
    BY <2>1 DEF FileInv, FileAllOrNothing, TxnProgress, FileOfTxn, FilesCached
<1>3. CASE Close \/ Crash
  BY <1>3 DEF Close, Crash, ProcessEnds, FileInv, FileAllOrNothing, TxnProgress,
              FileOfTxn, FilesCached
<1>4. ASSUME NEW t \in Task, CollectResult(t) \/ CollectError(t)
      PROVE  FileInv'
  BY <1>4 DEF CollectResult, CollectError, FileInv, FileAllOrNothing, TxnProgress,
              FileOfTxn, FilesCached, TypeOK
<1>5. CASE StartFails \/ Wait \/ StopWhenEmpty \/ UNCHANGED vars
  BY <1>5 DEF StartFails, Wait, StopWhenEmpty, vars, FileInv, FileAllOrNothing,
              TxnProgress, FileOfTxn, FilesCached
<1> QED
  BY <1>1, <1>2, <1>3, <1>4, <1>5, FileInvWorker DEF Next, Main
-----------------------------------------------------------------------------
(* The inductive invariant and what follows from it                         *)

IInv == TypeOK /\ OwnFiles /\ TasksInv /\ ProjectInv /\ FileInv

\* The indexer starts with nothing stored, cached or scheduled.
LEMMA IInvInit == Init => IInv
<1> SUFFICES ASSUME Init PROVE IInv
  OBVIOUS
<1>1. TypeOK /\ OwnFiles
  BY InitType
<1>2. TasksInv
  BY DEF Init, TasksInv, DistinctTasks, TasksKnown
<1>3. ProjectInv
  BY DEF Init, ProjectInv, OneProjectRow, NoRowYet, RowKnown, RowOfTask, HasProject,
         InTxn
<1>4. FileInv
  BY DEF Init, FileInv, FileAllOrNothing, TxnProgress, FileOfTxn, FilesCached
<1> QED
  BY <1>1, <1>2, <1>3, <1>4 DEF IInv

\* The parts of the invariant together are inductive.
LEMMA IInvStep == IInv /\ [Next]_vars => IInv'
<1> SUFFICES ASSUME IInv, [Next]_vars PROVE IInv'
  OBVIOUS
<1> USE DEF IInv
<1>1. TypeOK'
  <2>1. CASE Next
    BY <2>1, MainType, WorkerType DEF Next
  <2>2. CASE UNCHANGED vars
    BY <2>2 DEF TypeOK, vars, mainVars, fileVars, dbVars
  <2> QED
    BY <2>1, <2>2
<1> QED
  BY <1>1, OwnFilesStep, TasksInvStep, ProjectInvStep, FileInvStep

\* The invariant holds in every state of every run of the indexer.
LEMMA IInvCorrect == Spec => []IInv
<1> QED
  BY IInvInit, IInvStep, PTL DEF Spec

\* Nothing but the cache and the known tasks keeps a second row of a project out
\* of the database; they do, through failures, crashes and restarts.
THEOREM ProjectRowsUnique == Spec => []OneProjectRow
<1>1. IInv => OneProjectRow
  BY DEF IInv, ProjectInv
<1> QED
  BY <1>1, IInvCorrect, PTL

\* No crash, failed query or lost answer leaves a file half indexed or indexed twice.
THEOREM FilesAtomic == Spec => []FileAllOrNothing
<1>1. IInv => FileAllOrNothing
  BY DEF IInv, FileInv
<1> QED
  BY <1>1, IInvCorrect, PTL

\* insert_file finds the row of its project.
THEOREM ProjectBeforeModule == Spec => []ModuleHasProject
<1>1. IInv => ModuleHasProject
  BY DEF IInv, ProjectInv, RowKnown, HasProject, InTxn, ModuleHasProject
<1> QED
  BY <1>1, IInvCorrect, PTL

\* What the cache names is in the database, so no file is skipped as CACHED that
\* is not indexed.
THEOREM CacheCorrect == Spec => []CacheSound
<1>1. IInv => CacheSound
  BY DEF IInv, ProjectInv, RowKnown, FileInv, FilesCached, CacheSound
<1> QED
  BY <1>1, IInvCorrect, PTL

\* The deque, its rotation and the known tasks never let two tasks of one project
\* run side by side.
THEOREM TasksApart == Spec => []OneTaskPerProject
<1>1. IInv => OneTaskPerProject
  BY DEF IInv, TasksInv, DistinctTasks, OneTaskPerProject, Unfinished, Running, InTxn
<1> QED
  BY <1>1, IInvCorrect, PTL

\* The pool is open as long as there is a process, and tasks run only then.
LEMMA PoolStep ==
  ASSUME IInv, main # "idle" => poolOpen, [Next]_vars
  PROVE  (main # "idle" => poolOpen)'
<1> USE DEF mainVars, fileVars, dbVars
<1>1. CASE Main \/ Crash
  BY <1>1 DEF Main, Start, StartFails, Wait, Refill, StopAtLimit, StopWhenEmpty, Close,
       CollectResult, CollectError, Crash, ProcessEnds
<1>2. ASSUME NEW t \in Task, Worker(t)
      PROVE  UNCHANGED <<main, poolOpen>>
  BY <1>2 DEF Worker, StartTask, StartTaskFails, InsertProject,
         InsertProjectFails, CacheProject, FinishTask, NextFile, InsertNodes,
         InsertModule, InsertModuleRejected, LinkNodes, Commit, CommitAnswerLost,
         TransactionFails, CacheFile
<1>3. CASE UNCHANGED vars
  BY <1>3 DEF vars
<1> QED
  BY <1>1, <1>2, <1>3 DEF Next

\* No task outlives the context that owns the connections.
THEOREM PoolOutlivesTasks == Spec => []PoolOpenWhileUsed
<1>1. Init => (main # "idle" => poolOpen)
  BY DEF Init
<1>2. IInv /\ (main # "idle" => poolOpen) => PoolOpenWhileUsed
  BY DEF IInv, TasksInv, TasksKnown, PoolOpenWhileUsed, Running, InTxn
<1>3. IInv /\ (main # "idle" => poolOpen) /\ [Next]_vars => (main # "idle" => poolOpen)'
  BY PoolStep
<1> QED
  BY <1>1, <1>2, <1>3, IInvCorrect, PTL DEF Spec
-----------------------------------------------------------------------------
(* The indexer implements Indexing                                          *)

\* Indexing and Insertion mean the same by no rows and by all rows.
LEMMA SameRows == Promise!NoRows = NoRows /\ Promise!AllRows = AllRows
  BY DEF Promise!NoRows, Promise!AllRows, NoRows, AllRows

\* A worker's step adds a project, or a whole file, or leaves the database alone.
LEMMA WorkerIndexes ==
  ASSUME IInv, NEW t \in Task, Worker(t)
  PROVE  Promise!Next \/ UNCHANGED dbVars
<1> USE DEF mainVars, fileVars, dbVars, IInv
<1>1. Project(t) \in Projects
  BY DEF Task, Project
<1>2. CASE InsertProject(t) \/ InsertProjectFails(t)
  <2>1. projectRows[Project(t)] = 0
    BY <1>2 DEF InsertProject, InsertProjectFails, ProjectInv, NoRowYet
  <2>2. Promise!AddProject(Project(t)) \/ UNCHANGED dbVars
    BY <1>1, <1>2, <2>1 DEF InsertProject, InsertProjectFails, Promise!AddProject, TypeOK
  <2> QED
    BY <1>1, <2>2 DEF Promise!Next
<1>3. CASE Commit(t) \/ CommitAnswerLost(t)
  <2>1. pc[t] = "commit" /\ Apply(t) /\ UNCHANGED projectRows
    BY <1>3 DEF Commit, CommitAnswerLost
  <2>2. stored' = [stored EXCEPT ![file[t]] = AllRows] /\ stored[file[t]] = NoRows
    BY <2>1, ApplyStores DEF FileInv, FileOfTxn
  <2>3. projectRows[Project(t)] = 1
    BY <2>1 DEF ProjectInv, RowKnown, HasProject, InTxn
  <2>4. file[t] \in FilesOf[Project(t)]
    BY <2>1 DEF OwnFiles, InTxn
  <2>5. Promise!AddFile(Project(t), file[t])
    BY <2>1, <2>2, <2>3, SameRows DEF Promise!AddFile
  <2> QED
    BY <1>1, <2>4, <2>5 DEF Promise!Next
<1>4. CASE ~ (InsertProject(t) \/ InsertProjectFails(t) \/ Commit(t) \/ CommitAnswerLost(t))
  BY <1>4 DEF Worker, StartTask, StartTaskFails, CacheProject, FinishTask, NextFile,
         InsertNodes, InsertModule, InsertModuleRejected, LinkNodes, Write,
         TransactionFails, CacheFile
<1> QED
  BY <1>2, <1>3, <1>4

\* Whatever the threads, failures, kills and restarts do, the database only ever
\* gains a project once, or a file of a known project once and as a whole.
THEOREM InsertionIndexes == Spec => Indexes
<1>1. Init => Promise!Init
  BY SameRows DEF Init, Promise!Init, Files
<1>2. IInv /\ [Next]_vars => [Promise!Next]_(Promise!vars)
  <2> SUFFICES ASSUME IInv, [Next]_vars
               PROVE  Promise!Next \/ UNCHANGED dbVars
    BY DEF Promise!vars, dbVars
  <2>1. CASE Main \/ Crash
    BY <2>1 DEF Main, Start, StartFails, Wait, Refill, StopAtLimit, StopWhenEmpty, Close,
       CollectResult, CollectError, Crash, ProcessEnds, dbVars
  <2>2. CASE UNCHANGED vars
    BY <2>2 DEF vars
  <2> QED
    BY <2>1, <2>2, WorkerIndexes DEF Next
<1> QED
  BY <1>1, <1>2, IInvCorrect, PTL DEF Spec, Indexes, Promise!Spec
=============================================================================
