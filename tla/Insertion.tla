------------------------------ MODULE Insertion ------------------------------
(***************************************************************************)
(* The indexer, python -m reiz.serialization.insert: a main thread that    *)
(* feeds insert_project tasks to a thread pool, the workers that run them  *)
(* (one project row, then one transaction per file), the in-memory cache   *)
(* of what is indexed, and the database.  A run may be killed at any point *)
(* and started again; the database survives, everything else does not.     *)
(*                                                                         *)
(* A future is named <<p, k>>: the k-th concurrent task of project p.  The *)
(* scheduler means to have one task per project at a time; a second name   *)
(* per project makes it expressible that it does not.                      *)
(***************************************************************************)
EXTENDS Naturals, FiniteSets, Sequences, SequencesExt

CONSTANTS
  Projects,     \* the projects of the dataset
  FilesOf,      \* FilesOf[p]: the files path.glob("**/*.py") yields for p
  Dataset,      \* the projects in the order load_dataset returns them
  TooLarge,     \* files --fast skips for their length
  Broken,       \* files tokenize or ast.parse rejects
  MaxWorkers,   \* threads of the executor
  MaxFiles,     \* --project-limit: files one task inserts
  Limits,       \* --limit of a run: the files it inserts, 0 when not given
  MaxRuns,      \* bound: how often the program is started
  MaxFaults     \* bound: connection and query failures of a behaviour

Files  == UNION {FilesOf[p] : p \in Projects}
Task   == Projects \X {1, 2}
Parts  == {"nodes", "module", "links"}
Outcomes == {"CACHED", "FAILED", "SKIPPED", "INSERTED", "None"}

ASSUME ProjectsAssumption == IsFiniteSet(Projects)
ASSUME FilesAssumption ==
  /\ DOMAIN FilesOf = Projects
  /\ \A p, q \in Projects : p # q => FilesOf[p] \cap FilesOf[q] = {}
ASSUME DatasetAssumption ==
  /\ Dataset \in Seq(Projects)
  /\ \A i, j \in DOMAIN Dataset : Dataset[i] = Dataset[j] => i = j
ASSUME LimitsAssumption ==
  /\ MaxWorkers \in Nat \ {0} /\ MaxFiles \in Nat \ {0}
  /\ Limits \subseteq Nat
  /\ MaxRuns \in Nat /\ MaxFaults \in Nat

VARIABLES
  \* the main thread: insert_projects and _execute_tasks
  main,         \* "idle" (no process), "wait", "collect" or "drain"
  tasks,        \* the futures of the dict tasks
  done,         \* the futures the last wait returned, not yet collected
  completed,    \* total_completed
  projects,     \* the deque
  inserted,     \* global_stats[INSERTED]
  outcome,      \* why the last run stopped submitting tasks
  poolOpen,     \* _is_pool_available
  limit,        \* hard_limit
  \* shared by the workers
  cache,        \* db_cache: the files and projects known to be in the database
  \* each task
  pc, todo, file, txn, stats,
  \* the database, and the bounds
  projectRows, stored, runs, faults

mainVars == <<main, tasks, done, completed, projects, inserted, outcome, poolOpen, limit>>
fileVars == <<todo, file, txn, stats>>
dbVars   == <<projectRows, stored>>
vars == <<mainVars, cache, pc, fileVars, dbVars, runs, faults>>

NoRows   == [part \in Parts |-> 0]
AllRows  == [part \in Parts |-> 1]
NoStats  == [o \in Outcomes |-> 0]
NoFile   == "no file"
InTxn    == {"nodes", "module", "links", "commit"}
Running  == {"insert_project", "cache_project", "loop", "cache_file"} \cup InTxn
Finished == {"done", "error"}
PCs == {"free", "pending", "cancelled"} \cup Running \cup Finished

Project(t) == t[1]
IsStored(f) == stored[f]["module"] > 0
Unfinished == {t \in Task : pc[t] \in {"pending"} \cup Running}
MayFail == faults < MaxFaults
-----------------------------------------------------------------------------
(* The executor and the deque                                               *)

MaxActive == MaxFiles * MaxWorkers

\* deque.rotate(n): the last n elements move to the front
Rotate(s, n) == [i \in 1 .. Len(s) |-> s[((i - 1 - n) % Len(s)) + 1]]

\* itertools.islice(s, amount), as a set
FirstOf(s, amount) == {s[i] : i \in {j \in DOMAIN s : j <= amount}}

\* the future a submission for p creates
NewTask(p) == IF pc[<<p, 1>>] = "free" THEN <<p, 1>> ELSE <<p, 2>>

\* mutant: known_tasks is ignored
CreateTasksOfKnown(s, amount, known) ==
  {NewTask(p) : p \in FirstOf(s, amount)}

\* _create_tasks: one future for each of the first projects not known
CreateTasks(s, amount, known) ==
  {NewTask(p) : p \in FirstOf(s, amount) \ {Project(t) : t \in known}}

Submit(new) ==
  /\ pc' = [t \in Task |-> IF t \in new THEN "pending" ELSE pc[t]]
  /\ stats' = [t \in Task |-> IF t \in new THEN NoStats ELSE stats[t]]
  /\ UNCHANGED <<todo, file, txn>>
-----------------------------------------------------------------------------
(* The main thread                                                          *)

\* mutant: the projects are not synced
SyncedFilesOnly == [files |-> {f \in Files : IsStored(f)}, projects |-> {}]

\* GlobalContext.__enter__ and Cache.sync
SyncedCache == [files |-> {f \in Files : IsStored(f)},
                projects |-> {p \in Projects : projectRows[p] > 0}]

Start ==
  /\ main = "idle" /\ runs < MaxRuns
  /\ runs' = runs + 1
  /\ limit' \in Limits
  /\ poolOpen' = TRUE
  /\ cache' = SyncedCache
  /\ projects' = Dataset
  /\ tasks' = CreateTasks(Dataset, MaxActive, {})
  /\ Submit(tasks')
  /\ inserted' = 0 /\ outcome' = "none" /\ main' = "wait"
  /\ UNCHANGED <<done, completed, dbVars, faults>>

\* the connection for the cache cannot be opened: the program ends
StartFails ==
  /\ main = "idle" /\ runs < MaxRuns /\ MayFail
  /\ runs' = runs + 1 /\ faults' = faults + 1
  /\ outcome' = "aborted"
  /\ UNCHANGED <<main, tasks, done, completed, projects, inserted, poolOpen, limit>>
  /\ UNCHANGED <<cache, pc, fileVars, dbVars>>

\* futures.wait(tasks, return_when=FIRST_COMPLETED)
Wait ==
  /\ main = "wait"
  /\ LET finished == {t \in tasks : pc[t] \in Finished} IN
       /\ finished # {}
       /\ done' = finished
       /\ completed' = Cardinality(finished)
  /\ main' = "collect"
  /\ UNCHANGED <<tasks, projects, inserted, outcome, poolOpen, limit>>
  /\ UNCHANGED <<cache, pc, fileVars, dbVars, runs, faults>>

\* mutant: every collected project leaves the deque
CollectAndRemove(t) ==
  /\ main = "collect" /\ t \in done /\ pc[t] = "done"
  /\ tasks' = tasks \ {t}
  /\ done' = done \ {t}
  /\ pc' = [pc EXCEPT ![t] = "free"]
  /\ inserted' = inserted + stats[t]["INSERTED"]
  /\ projects' = RemoveFirst(projects, Project(t))
  /\ UNCHANGED <<main, completed, outcome, poolOpen, limit>>
  /\ UNCHANGED <<cache, fileVars, dbVars, runs, faults>>

\* mutant: no project ever leaves the deque
CollectAndKeep(t) ==
  /\ main = "collect" /\ t \in done /\ pc[t] = "done"
  /\ tasks' = tasks \ {t}
  /\ done' = done \ {t}
  /\ pc' = [pc EXCEPT ![t] = "free"]
  /\ inserted' = inserted + stats[t]["INSERTED"]
  /\ UNCHANGED <<main, completed, projects, outcome, poolOpen, limit>>
  /\ UNCHANGED <<cache, fileVars, dbVars, runs, faults>>

\* one iteration of the loop over done, for a task that returned its statistics
CollectResult(t) ==
  /\ main = "collect" /\ t \in done /\ pc[t] = "done"
  /\ tasks' = tasks \ {t}
  /\ done' = done \ {t}
  /\ pc' = [pc EXCEPT ![t] = "free"]
  /\ inserted' = inserted + stats[t]["INSERTED"]
  /\ projects' = IF stats[t]["INSERTED"] = 0 THEN RemoveFirst(projects, Project(t))
                                             ELSE projects
  /\ UNCHANGED <<main, completed, outcome, poolOpen, limit>>
  /\ UNCHANGED <<cache, fileVars, dbVars, runs, faults>>

\* mutant: insert_project is guarded like insert_file, its project tried again
CollectErrorGuarded(t) ==
  /\ main = "collect" /\ t \in done /\ pc[t] = "error"
  /\ tasks' = tasks \ {t}
  /\ done' = done \ {t}
  /\ pc' = [pc EXCEPT ![t] = "free"]
  /\ UNCHANGED <<main, completed, projects, inserted, outcome, poolOpen, limit>>
  /\ UNCHANGED <<cache, fileVars, dbVars, runs, faults>>

\* mutant: the context of the pool is left before the one of the executor
CollectErrorAndClose(t) ==
  /\ main = "collect" /\ t \in done /\ pc[t] = "error"
  /\ tasks' = tasks \ {t}
  /\ pc' = [pc EXCEPT ![t] = "free"]
  /\ done' = {} /\ poolOpen' = FALSE
  /\ main' = "drain" /\ outcome' = "aborted"
  /\ UNCHANGED <<completed, projects, inserted, limit>>
  /\ UNCHANGED <<cache, fileVars, dbVars, runs, faults>>

\* task.result() raises: the exception leaves _execute_tasks
CollectError(t) ==
  /\ main = "collect" /\ t \in done /\ pc[t] = "error"
  /\ tasks' = tasks \ {t}
  /\ pc' = [pc EXCEPT ![t] = "free"]
  /\ done' = {}
  /\ main' = "drain" /\ outcome' = "aborted"
  /\ UNCHANGED <<completed, projects, inserted, poolOpen, limit>>
  /\ UNCHANGED <<cache, fileVars, dbVars, runs, faults>>

\* mutant: the limit is only noticed once it is passed
LimitPassed == limit > 0 /\ inserted > limit

LimitReached == limit > 0 /\ inserted >= limit

\* mutant: the refill asks for max_active_tasks instead of total_completed
RefillWithMaxActive ==
  /\ main = "collect" /\ done = {} /\ ~LimitReached
  /\ projects' = Rotate(projects, completed)
  /\ LET new == CreateTasks(projects', MaxActive, tasks) IN
       /\ tasks' = tasks \cup new
       /\ Submit(new)
  /\ main' = "wait"
  /\ UNCHANGED <<done, completed, inserted, outcome, poolOpen, limit>>
  /\ UNCHANGED <<cache, dbVars, runs, faults>>

\* the rest of an iteration of while tasks, when the run goes on
Refill ==
  /\ main = "collect" /\ done = {} /\ ~LimitReached
  /\ projects' = Rotate(projects, completed)
  /\ LET new == CreateTasks(projects', completed, tasks) IN
       /\ tasks' = tasks \cup new
       /\ Submit(new)
  /\ main' = "wait"
  /\ UNCHANGED <<done, completed, inserted, outcome, poolOpen, limit>>
  /\ UNCHANGED <<cache, dbVars, runs, faults>>

\* the rest of an iteration of while tasks, when --limit is reached
StopAtLimit ==
  /\ main = "collect" /\ done = {} /\ LimitReached
  /\ pc' = [t \in Task |-> IF t \in tasks /\ pc[t] = "pending" THEN "cancelled" ELSE pc[t]]
  /\ main' = "drain" /\ outcome' = "limit"
  /\ UNCHANGED <<tasks, done, completed, projects, inserted, poolOpen, limit>>
  /\ UNCHANGED <<cache, fileVars, dbVars, runs, faults>>

\* while tasks ends
StopWhenEmpty ==
  /\ main = "wait" /\ tasks = {}
  /\ main' = "drain" /\ outcome' = "exhausted"
  /\ UNCHANGED <<tasks, done, completed, projects, inserted, poolOpen, limit>>
  /\ UNCHANGED <<cache, pc, fileVars, dbVars, runs, faults>>

\* the process is gone: only the database is left
ProcessEnds ==
  /\ main' = "idle" /\ poolOpen' = FALSE
  /\ tasks' = {} /\ done' = {} /\ completed' = 0 /\ projects' = << >>
  /\ cache' = [files |-> {}, projects |-> {}]
  /\ pc' = [t \in Task |-> "free"]
  /\ todo' = [t \in Task |-> {}] /\ file' = [t \in Task |-> NoFile]
  /\ txn' = [t \in Task |-> {}] /\ stats' = [t \in Task |-> NoStats]
  /\ UNCHANGED <<inserted, limit, dbVars, runs, faults>>

\* ThreadPoolExecutor.__exit__ has waited for the workers; GlobalContext.__exit__
Close ==
  /\ main = "drain"
  /\ Unfinished = {}
  /\ ProcessEnds
  /\ UNCHANGED outcome

\* the process is killed; the server rolls its open transactions back
Crash ==
  /\ main # "idle"
  /\ ProcessEnds
  /\ outcome' = "aborted"

Main == \/ Start \/ StartFails \/ Wait \/ Refill \/ StopAtLimit
        \/ StopWhenEmpty \/ Close
        \/ \E t \in Task : CollectResult(t) \/ CollectError(t)
-----------------------------------------------------------------------------
(* The workers: insert_project                                              *)

\* a worker is free to take a task off the executor's queue
WorkerFree == Cardinality({t \in Task : pc[t] \in Running}) < MaxWorkers

\* the connection is acquired, the project cached or not, the files listed
StartTask(t) ==
  /\ pc[t] = "pending" /\ WorkerFree
  /\ pc' = [pc EXCEPT ![t] = IF Project(t) \in cache.projects THEN "loop"
                                                             ELSE "insert_project"]
  /\ todo' = [todo EXCEPT ![t] = FilesOf[Project(t)]]
  /\ UNCHANGED <<mainVars, cache, file, txn, stats, dbVars, runs, faults>>

\* no connection can be opened, or another worker took the free one first
StartTaskFails(t) ==
  /\ pc[t] = "pending" /\ WorkerFree /\ MayFail
  /\ pc' = [pc EXCEPT ![t] = "error"]
  /\ faults' = faults + 1
  /\ UNCHANGED <<mainVars, cache, fileVars, dbVars, runs>>

\* INSERT project, outside of any transaction
InsertProject(t) ==
  /\ pc[t] = "insert_project"
  /\ projectRows' = [projectRows EXCEPT ![Project(t)] = @ + 1]
  /\ pc' = [pc EXCEPT ![t] = "cache_project"]
  /\ UNCHANGED <<mainVars, cache, fileVars, stored, runs, faults>>

\* mutant: the exception is swallowed and the files inserted all the same
InsertProjectSwallowed(t) ==
  /\ pc[t] = "insert_project" /\ MayFail
  /\ UNCHANGED projectRows
  /\ pc' = [pc EXCEPT ![t] = "loop"]
  /\ faults' = faults + 1
  /\ UNCHANGED <<mainVars, cache, fileVars, stored, runs>>

\* the query raises, its row stored or not: nothing catches it
InsertProjectFails(t) ==
  /\ pc[t] = "insert_project" /\ MayFail
  /\ \/ UNCHANGED projectRows
     \/ projectRows' = [projectRows EXCEPT ![Project(t)] = @ + 1]
  /\ pc' = [pc EXCEPT ![t] = "error"]
  /\ faults' = faults + 1
  /\ UNCHANGED <<mainVars, cache, fileVars, stored, runs>>

CacheProject(t) ==
  /\ pc[t] = "cache_project"
  /\ cache' = [cache EXCEPT !.projects = @ \cup {Project(t)}]
  /\ pc' = [pc EXCEPT ![t] = "loop"]
  /\ UNCHANGED <<mainVars, fileVars, dbVars, runs, faults>>

\* the loop over the files ends: no file is left, or the task has its share
FinishTask(t) ==
  /\ pc[t] = "loop"
  /\ todo[t] = {} \/ stats[t]["INSERTED"] >= MaxFiles
  /\ pc' = [pc EXCEPT ![t] = "done"]
  /\ todo' = [todo EXCEPT ![t] = {}]
  /\ UNCHANGED <<mainVars, cache, file, txn, stats, dbVars, runs, faults>>
-----------------------------------------------------------------------------
(* The workers: insert_file                                                 *)

\* insert_file returns: stats[...] += 1 and on to the next file
Returns(t, o) ==
  /\ stats' = [stats EXCEPT ![t][o] = @ + 1]
  /\ pc' = [pc EXCEPT ![t] = "loop"]
  /\ file' = [file EXCEPT ![t] = NoFile]

\* what @guarded makes of an exception: None, not its default Insertion.FAILED
Raises(t) == Returns(t, "None")

\* the next file is cached, too large, not Python, or gets its transaction
NextFile(t) ==
  /\ pc[t] = "loop" /\ stats[t]["INSERTED"] < MaxFiles
  /\ \E f \in todo[t] :
       /\ todo' = [todo EXCEPT ![t] = @ \ {f}]
       /\ \/ f \in cache.files /\ Returns(t, "CACHED")
          \/ f \notin cache.files /\ f \in TooLarge /\ Returns(t, "SKIPPED")
          \/ f \notin cache.files \cup TooLarge /\ f \in Broken /\ Raises(t)
          \/ /\ f \notin cache.files \cup TooLarge \cup Broken
             /\ file' = [file EXCEPT ![t] = f]
             /\ pc' = [pc EXCEPT ![t] = "nodes"]
             /\ UNCHANGED stats
  /\ UNCHANGED <<mainVars, cache, txn, dbVars, runs, faults>>

\* mutant: no transaction is open, the statement commits by itself
WriteAutocommit(t, part) ==
  /\ stored' = [stored EXCEPT ![file[t]][part] = @ + 1]
  /\ UNCHANGED txn

\* a statement of the open transaction
Write(t, part) ==
  /\ txn' = [txn EXCEPT ![t] = @ \cup {part}]
  /\ UNCHANGED stored

\* the rows of the tree under the module, bottom up
InsertNodes(t) ==
  /\ pc[t] = "nodes"
  /\ Write(t, "nodes")
  /\ pc' = [pc EXCEPT ![t] = "module"]
  /\ UNCHANGED <<mainVars, cache, todo, file, stats, projectRows, runs, faults>>

\* the constraints of the schema on a module row: its filename is exclusive and
\* its project, selected by name, is required
ModuleAllowed(t) == ~IsStored(file[t]) /\ projectRows[Project(t)] > 0

InsertModule(t) ==
  /\ pc[t] = "module" /\ ModuleAllowed(t)
  /\ Write(t, "module")
  /\ pc' = [pc EXCEPT ![t] = "links"]
  /\ UNCHANGED <<mainVars, cache, todo, file, stats, projectRows, runs, faults>>

InsertModuleRejected(t) ==
  /\ pc[t] = "module" /\ ~ModuleAllowed(t)
  /\ Raises(t)
  /\ txn' = [txn EXCEPT ![t] = {}]
  /\ UNCHANGED <<mainVars, cache, todo, dbVars, runs, faults>>

\* UPDATE _module of every inserted row, one query for each annotated type
LinkNodes(t) ==
  /\ pc[t] = "links"
  /\ Write(t, "links")
  /\ pc' = [pc EXCEPT ![t] = "commit"]
  /\ UNCHANGED <<mainVars, cache, todo, file, stats, projectRows, runs, faults>>

\* the server applies the transaction of t
Apply(t) ==
  /\ stored' = [stored EXCEPT ![file[t]] =
                  [part \in Parts |-> @[part] + (IF part \in txn[t] THEN 1 ELSE 0)]]
  /\ txn' = [txn EXCEPT ![t] = {}]

Commit(t) ==
  /\ pc[t] = "commit"
  /\ Apply(t)
  /\ pc' = [pc EXCEPT ![t] = "cache_file"]
  /\ UNCHANGED <<mainVars, cache, todo, file, stats, projectRows, runs, faults>>

\* the transaction is applied and the answer to the COMMIT lost
CommitAnswerLost(t) ==
  /\ pc[t] = "commit" /\ MayFail
  /\ Apply(t)
  /\ Raises(t)
  /\ faults' = faults + 1
  /\ UNCHANGED <<mainVars, cache, todo, projectRows, runs>>

\* mutant: the file is cached in a finally clause
TransactionFailsCached(t) ==
  /\ pc[t] \in InTxn /\ MayFail
  /\ Raises(t)
  /\ txn' = [txn EXCEPT ![t] = {}]
  /\ cache' = [cache EXCEPT !.files = @ \cup {file[t]}]
  /\ faults' = faults + 1
  /\ UNCHANGED <<mainVars, todo, dbVars, runs>>

\* a query of the transaction raises: it is rolled back
TransactionFails(t) ==
  /\ pc[t] \in InTxn /\ MayFail
  /\ Raises(t)
  /\ txn' = [txn EXCEPT ![t] = {}]
  /\ faults' = faults + 1
  /\ UNCHANGED <<mainVars, cache, todo, dbVars, runs>>

\* mutant: the file context is left before its name is cached
CacheFileLate(t) ==
  /\ pc[t] = "cache_file"
  /\ Returns(t, "INSERTED")
  /\ cache' = [cache EXCEPT !.files = @ \cup {file'[t]}]
  /\ UNCHANGED <<mainVars, todo, txn, dbVars, runs, faults>>

CacheFile(t) ==
  /\ pc[t] = "cache_file"
  /\ cache' = [cache EXCEPT !.files = @ \cup {file[t]}]
  /\ Returns(t, "INSERTED")
  /\ UNCHANGED <<mainVars, todo, txn, dbVars, runs, faults>>

Worker(t) == \/ StartTask(t) \/ StartTaskFails(t)
             \/ InsertProject(t) \/ InsertProjectFails(t) \/ CacheProject(t)
             \/ NextFile(t) \/ FinishTask(t)
             \/ InsertNodes(t) \/ InsertModule(t) \/ InsertModuleRejected(t)
             \/ LinkNodes(t) \/ Commit(t) \/ CommitAnswerLost(t)
             \/ TransactionFails(t) \/ CacheFile(t)
-----------------------------------------------------------------------------
Init ==
  /\ main = "idle" /\ outcome = "none" /\ poolOpen = FALSE /\ limit \in Limits
  /\ tasks = {} /\ done = {} /\ completed = 0 /\ inserted = 0 /\ projects = << >>
  /\ cache = [files |-> {}, projects |-> {}]
  /\ pc = [t \in Task |-> "free"]
  /\ todo = [t \in Task |-> {}] /\ file = [t \in Task |-> NoFile]
  /\ txn = [t \in Task |-> {}] /\ stats = [t \in Task |-> NoStats]
  /\ projectRows = [p \in Projects |-> 0]
  /\ stored = [f \in Files |-> NoRows]
  /\ runs = 0 /\ faults = 0

Next == Main \/ Crash \/ \E t \in Task : Worker(t)

Spec == Init /\ [][Next]_vars

\* the main thread and every worker with work to do keep running; whether the
\* program is started again or killed is not up to it
Fairness == /\ WF_vars(Main /\ main # "idle")
            /\ \A t \in Task : WF_vars(Worker(t))

FairSpec == Spec /\ Fairness
-----------------------------------------------------------------------------
(* Properties                                                               *)

TypeOK ==
  /\ main \in {"idle", "wait", "collect", "drain"}
  /\ outcome \in {"none", "exhausted", "limit", "aborted"}
  /\ tasks \in SUBSET Task /\ done \in SUBSET Task
  /\ completed \in Nat /\ inserted \in Nat
  /\ projects \in Seq(Projects) /\ poolOpen \in BOOLEAN /\ limit \in Limits
  /\ cache \in [files : SUBSET Files, projects : SUBSET Projects]
  /\ pc \in [Task -> PCs]
  /\ todo \in [Task -> SUBSET Files]
  /\ file \in [Task -> Files \cup {NoFile}]
  /\ txn \in [Task -> SUBSET Parts]
  /\ stats \in [Task -> [Outcomes -> Nat]]
  /\ projectRows \in [Projects -> Nat]
  /\ stored \in [Files -> [Parts -> Nat]]
  /\ runs \in 0 .. MaxRuns /\ faults \in 0 .. MaxFaults

\* The database never holds two rows for one project, although nothing but the
\* cache and the list of known tasks keeps insert_project from adding a second.
OneProjectRow == \A p \in Projects : projectRows[p] <= 1

\* A file has all of its rows, each once, or none: also after a crash, a lost
\* answer to a commit, or a second run over the same dataset.
FileAllOrNothing == \A f \in Files : stored[f] \in {NoRows, AllRows}

\* The row of the project is there before insert_file selects it for a module.
ModuleHasProject ==
  \A t \in Task : pc[t] = "module" => projectRows[Project(t)] > 0

\* The cache names only what is committed: a file it wrongly names would be
\* reported CACHED and never be indexed.
CacheSound == /\ \A f \in cache.files : stored[f] = AllRows
              /\ \A p \in cache.projects : projectRows[p] > 0

\* No two unfinished tasks work on one project, whatever is completed, rotated
\* and submitted in which order.
OneTaskPerProject ==
  \A t, u \in Unfinished : Project(t) = Project(u) => t = u

\* projects.remove never raises ValueError: the project of a task that is still
\* to be collected is in the deque.
TasksQueued ==
  main \in {"wait", "collect"} => \A t \in tasks : Project(t) \in ToSet(projects)

\* Refilling never has more futures around than max_active_tasks.
ActiveBound == Cardinality(tasks) <= MaxActive

\* --limit stops a run, late by at most what the tasks around then insert.
LimitOvershoot ==
  LET around == {t \in Task : pc[t] # "free"}
      filesOf == UNION {{t} \X (1 .. stats[t]["INSERTED"]) : t \in around}
  IN limit > 0 => inserted + Cardinality(filesOf) <= limit - 1 + MaxActive * MaxFiles

\* A run that ends for want of tasks, without a failure, has indexed every file
\* of the dataset it can: no project is forgotten between two refills.
ExhaustedMeansIndexed ==
  outcome = "exhausted" /\ faults = 0 =>
    \A p \in ToSet(Dataset) :
      \A f \in FilesOf[p] \ (TooLarge \cup Broken) : IsStored(f)

\* No worker runs outside of the context that owns its connections:
\* GlobalContext.pool never raises ValueError in a task.
PoolOpenWhileUsed == (\E t \in Task : pc[t] \in Running) => poolOpen

\* The indexer implements the promise of Indexing.
Promise == INSTANCE Indexing
Indexes == Promise!Spec

\* Every run that is not killed ends: no project is rescheduled for ever.
Terminates == main # "idle" ~> main = "idle"
=============================================================================
