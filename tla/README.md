# reiz.io: models, checks and proofs

reiz.io indexes the syntax trees of many Python projects in EdgeDB and answers
structural queries (ReizQL) over them. This directory holds TLA+ models of the
program, the TLC configurations that check them on small instances, and proofs
checked by TLAPS. Paths below are relative to the repository; line numbers are
in `PROJECT.json`, which maps every definition to the code it stands for.

## 1. Inventory

| Part | State it keeps | Operations | What is hard | What makes it correct |
|---|---|---|---|---|
| **Indexer** `reiz/serialization/insert.py`, `context.py`, `statistics.py` | the dict of futures, the deque of projects, statistics, the flag of the pool | feed, wait, collect, refill, stop; insert a project; insert a file | a scheduler and workers share the cache and the deque; queries fail; the process is killed and run again over the same dataset | one row per project, a file whole or absent, no file forgotten, every run ends, `--limit` is kept up to a bound |
| **Connection pool** `reiz/database.py` | free connections, exit stack | acquire, release, close | used by all workers, no lock | a connection serves one task; no more connections than threads; all are closed |
| **Insertion cache** `serialization/cache.py` | names of files and projects | sync, add, lookup | decides for ever that a file is done | names only what is committed |
| **Serializer, AST transformers** `serialization/serializer.py`, `transformers.py` | a stack of nodes, the ids inserted for a file | one INSERT per node, bottom up; tags, parent types and sentinels; one UPDATE per annotated type | a tree is rewritten while it is tagged; whether a list is sent with indices is decided by its items, whether it is declared with them by the schema | the database accepts every query; the tree can be read back; every row is linked to its module; expressions have equal tags exactly when they are equal |
| **ReizQL parser** `reizql/parser/` | none | query text to pattern | error paths | a wrong query is a syntax error with a position |
| **ReizQL compiler** `reizql/compiler/` | pointer stack, flags, filters, scopes | one function per pattern | filters that are collected on the side, scopes entered and left during the recursion | the filter accepts what the pattern describes |
| **IR, optimizer, EdgeQL printer** `ir/` | text being printed | negation and type-union rewriting, flattening of AND chains | operator precedence | the text means what the filter means |
| **Query service** `web/api.py`, `fetch.py` | redis cache, pool of asynchronous connections, rate limiter | /query, /analyze, /stats | concurrent requests, time-outs, clients that hang up, failures of redis, restarts, a cache beside a growing database | an answer is one the database gave to this very request; connections come back; every request ends |
| **Sampling pipeline** `sampling/`, `scripts/docker_bootstrap.sh` | the dataset file, raw and clean checkouts | choose, clone, sanitize, in programs that skip what is done | process pools, failures of one project, kills between two steps, programs run again or out of order, repositories that move | the file names the revision that is checked out; what is indexed is of the revision the hits are linked to; a fetched project is not lost |
| **Schema builder** `schema/` | the models, enumerations and custom types seen so far | one visitor per kind of ASDL definition, then the references | a reference to a type that is defined later | no reference dangles or is of the wrong kind; the schema declares what the serializer sends |
| **Configuration, scripts, page** | a file | - | - | - |

How they interact: the sampling pipeline writes the dataset file and a directory
of sanitized projects; the indexer reads both, takes connections from its pool
and writes to EdgeDB through the serializer; the query service parses, compiles,
optimizes and prints a query, sends it to the same database and reads the source
of each hit from the directory of projects. The indexer and the service share
the database and nothing else; several server processes share redis as well. The
schema builder writes the schema of that database, from the same ASDL file the
serializer and the compiler look types up in. The database enforces one thing the indexer relies on:
`PyModule.filename` is exclusive and `PyModule.project` is required
(`static/Python-reiz.esdl`). It does not make `project.name` exclusive.

## 2. Modules

| Module | Role |
|---|---|
| `Indexing` | abstract specification: what the indexer promises of the database |
| `Insertion` | the indexer: main thread, workers, cache, transactions, failures, kills |
| `MCInsertion` | the dataset TLC runs `Insertion` on |
| `InsertionProofs` | theorems about what `Insertion` stores, for every dataset, limit and number of workers |
| `InsertionScheduleProofs` | theorems about its scheduler, on top of those |
| `ConnectionPool` | `reiz.database.ConnectionPool` under preemption |
| `ConnectionPoolProofs` | theorems about it, for any number of threads |
| `ReizQLFilters` | a query from pattern to hits: compiler, optimizer, printer, and EdgeQL reading the text |
| `MCReizQLFilters` | the patterns and values TLC runs `ReizQLFilters` on |
| `ReizQLScope` | the references of a query and the scopes they are resolved in |
| `ReizQLScopeProofs` | theorems about it, for any walk over any names and scopes |
| `Requests` | what may be asked of the web service, and what a database of so many files says to it |
| `Answers` | abstract specification: what the web service promises those who ask |
| `QueryService` | the web service: handlers, connections, redis, time-outs, hang-ups, restarts |
| `MCQueryService` | the requests TLC runs `QueryService` on |
| `QueryServiceProofs` | theorems about it, for any clients, connections and requests |
| `Sampling` | the four programs of the sampling pipeline and the script that runs them |
| `SamplingProofs` | theorems about it, for any projects and any order of the programs |
| `SchemaBuilder` | ASDL definitions to database types |
| `SchemaBuilderProofs` | a theorem about it, for any ASDL file |
| `StoredTrees` | a tree on its way to the rows of a database with that schema: serializer, database, links |
| `StoredTreesProofs` | theorems about it, for any ASDL file and any trees that fit it |
| `PreparedTrees` | what `transformers.py` makes of a tree before, and what is read back |
| `MCStoredTrees` | the definitions and trees TLC runs `PreparedTrees` on |

`Insertion` and `QueryService` are shown to implement `Indexing` and `Answers`.
`StoredTrees` extends `SchemaBuilder`: one behaviour builds the schema and then
inserts a file, which is the detail of the one transaction `Insertion` abstracts.
`PreparedTrees` extends `StoredTrees` and defines what that takes as parameters, so
that everything recursive is in one module and the other can be proved about.

### Insertion

| Model | Code |
|---|---|
| `main`, `tasks`, `done`, `completed`, `projects` | `_execute_tasks`: the point it has reached, the dict of futures, the result of `futures.wait`, `total_completed`, the deque |
| `inserted`, `stats`, `limit` | `global_stats[INSERTED]`, the `Statistics` of each task, and `hard_limit`, which each run is given anew |
| `cache`, `poolOpen` | `GlobalContext.db_cache`, `_is_pool_available` |
| `pc`, `todo`, `file`, `txn` | where a task is, the files it has not looked at, the file being inserted, the rows written by the open transaction |
| `projectRows`, `stored` | the database: rows of a project, rows of a file (its nodes, its module, the `_module` links) |
| `Start`, `Wait`, `CollectResult`, `CollectError`, `Refill`, `StopAtLimit`, `StopWhenEmpty`, `Close` | `insert_projects`, then one iteration of the loops of `_execute_tasks` cut where another thread can be seen |
| `StartTask` ... `FinishTask` | `insert_project` |
| `NextFile` ... `CacheFile` | `insert_file`, and under it `as_ast` and `apply_ast`: one action per statement kind of the transaction |
| `StartFails`, `StartTaskFails`, `InsertProjectFails`, `TransactionFails`, `CommitAnswerLost` | a connection or a query raises; a query may have been applied although it raises |
| `Crash` | the process is killed; only the database survives |

A future is named `<<p, k>>`. The code creates futures without a name; the
second name of a project exists only so that a scheduler which runs two tasks of
one project is expressible, and `OneTaskPerProject` says it is never used for
that. `Rotate` and `FirstOf` are `deque.rotate` and `itertools.islice`.

Abstractions: the rows of a file are three parts, each written by one step,
because no code looks inside the transaction; which of the waiting tasks a free
worker starts is left open (the executor starts them in the order of submission);
a file is `Broken` when tokenize or `ast.parse` rejects it and it is short enough
to be parsed at all. Assumed: one indexer at a time, a dataset that names a
project once, files that belong to one project, `--project-limit` at least 1.

### ConnectionPool

Each thread has a `pc`; the test of the deque and the pop are two actions, since
Python may switch threads between them, while `append` and `popleft` are atomic.
`open` is what the server sees, `stack` what the exit stack will close. The
counter `_total_conns`, used for display only, is left out.

### ReizQLFilters

A behaviour is one query: `Parse` chooses a pattern, `CompileToIR` (or
`CompileRaises`), `Optimize` and `View` are `compile_to_ir`, `IR.optimize` and
the view of the SELECT, and `Answer` (or `Refuse`) is what the service gets back.

| Model | Code |
|---|---|
| `Match` ... `Logical`, `Ignore`, `Expand`, `Cease`, `Builtin` | the nodes of `grammar.py` and the calls of `LEN`, `ANY` and `ALL` |
| `Params`, `CanBind`, `Argument`, `IsBound` | `Signature.bind`: arguments by position, by keyword and by default |
| `PatternsOf` | what the parser can return over some atoms, with `not`, `&` and `\|` nested up to `Depth` |
| `RootState`, `FromParent`, `Parent`, `ItemState`, `ComputePath`, `AggregateArray` | `CompilerState`: the matchers around a pattern, the pointer in each, and the depth from which paths start |
| `Codegen`, `CompileSequence`, `ConvertLength`, `StateFilters`, `CompileMatcher` | the functions registered with `codegen` and the builtins; `StateFilters` is what they append to `state.filters` |
| `Visit`, `GenericVisit`, `VisitItem` and the three `Optimize...` | `EQLOptimizer` with the rewritings of `edgeql.py` |
| `Construct`, `ConstructCompare`, `Unpack` | `construct`, `_construct_simple`, `_construct_complex` and `unpack` of the expressions |
| `Read`, `Values`, `Meaning` (external) | how EdgeQL reads the text and evaluates it |
| `Matches` | the reference: what `docs/reizql.md` says a pattern matches |

The matcher of the root has one field and the pattern is its. That is enough:
the filters of several fields are joined by `combine_filters`, as those of the
items of a list are. An element of a value has one field itself, whose value is
again a sequence, so that matchers and lists nest. A path starts at the field of
the root or at an item of an array and is narrowed to a type before each further
field; an array collects the field a list stands for, by a loop over the items
around it if the list is within a matcher. Texts are sequences of words, leaves,
calls and parenthesized texts; layout is left out.

`VisitItem` is a detail of `generic_visit`: it visits the items of a list (the
arguments of a call) and does not put back what they became, so that an argument
which is itself rewritten stays as it was. This changes no meaning
(`OptimizerKeepsMeaning`).

Taken from EdgeQL, and not in this repository: OR binds weaker than AND, AND than
NOT, NOT than a comparison and a comparison than `|`; an operator applied to an
empty set is empty, so a filter is true, false or empty, and only true is a hit;
within `any` and `all` the path they go over stands for one element, and the
elements for which the operand is empty are not seen. A subscript behind the end
of an array counts as empty here.

Left out: `META`, `I`, enumerations, matchers that refine another (`&` of a list
and its matchers excepted), the `repr` a constant is wrapped in, and references
(`ReizQLScope`).

`Printable`, `ListsRequired`, `TypesTested`, `AllNeverEmpty` and
`AlternativesNeverEmpty` are the preconditions of `TextKeepsMeaning`, `HitsMatch`
and `MatchesHit`. Each excludes the shape a finding or a note below is about,
anywhere in the pattern, and each is needed: without it TLC finds a pattern of
that shape. How many patterns are left:

| Field | patterns | answered | `Printable` | of these, in `HitsMatch` | in `MatchesHit` |
|---|---|---|---|---|---|
| optional | 7265 | 7265 | 4865 | 2204 | 2009 |
| list | 7265 | 3245 | 767 | 407 | 407 |
| nested | 420 | 220 | 220 | 84 | 84 |

The others of the list name `None` (`[] | x`) and are refused; those of the nested
lists raise. `OptimizerKeepsMeaning` has no precondition.

### ReizQLScope

`EnterList` and `LeaveList` are `new_scope`, `Define`, `Resolve` and `CheckFails`
are `compile_reference`, `ExitRoot` is `Scope.exit` of the root with `verify`.
`path` is the current scope with its parents, `definitions` the one dictionary
`from_parent` hands on, `counts` the counter of each scope. `seen` records the
references in the order of the walk; a definition is an index into it. The walk
is any sequence of these steps: every pattern with lists and references gives one.
The flag `linear access` is written by `lookup` on a copied state and never read.

### QueryService, Requests, Answers

A client asks one thing at a time and may hang up. Its handler is cut at every
`await`, since that is where the event loop switches; between two awaits nothing
else runs.

| Model | Code |
|---|---|
| `pc` | the await a handler is at: `check_cache`, `acquire`, the query, the query of `/stats`, `set_cache`, the end of `async with` |
| `cache`, `Key` | redis: an entry for each request body |
| `queue`, `free`, `held` | `database_pool`; who waits is served in order (external) |
| `Start`, `CheckCache`, `Acquire`, `HitsArrive`, `SetCache`, `Release` | `query` from await to await, with `run_query_on_async_connection` |
| `CountsArrive`, `CountRaises` | `stats` |
| `QueryRaises` | `wait_for` gives up, or the database raises: the `except` clauses |
| `AcquireRaises` | `acquire` cannot open the connection that is free, and raises outside of the `try` |
| `CheckCacheRaises`, `SetCacheRaises` | redis raises, the second outside of the `try`; the entry may have been stored |
| `HangUp`, `HangUpHolding` | the handler is cancelled at its await: `CancelledError` passes `except Exception` and ends `async with` |
| `Restart` | the server stops and `init` runs again; redis keeps its entries |
| `Index` | the indexer commits a file meanwhile |
| `PageSize`, `Pages` | `LIMIT` and `OFFSET` of `compile_query`; the order of the hits is the database's |

`Answers` has no cache, pool or handler: a request is asked and later told
something, a failure or something `Honest`. An answer with hits may be as old as
the database ever was, since entries of redis never expire; one without hits is at
least as new as the request, because `if entry := ...` takes an empty entry for
none. `Promise` maps a handler that has ended to what its client was told.

A connection whose query was cancelled is taken to be usable again when it is back
in the pool: that is the contract of the database client. Two handlers that run in
two server processes share redis only, which the model covers, as a handler sees
nothing of the others but `cache` and the connections it waits for.

### Sampling

The operator starts the four programs one after the other, as
`docker_bootstrap.sh` does, or leaves the script for a program of his choice, with
or without `--force` (a detour), and goes on from there. To leave it for `get_dataset`
is to run the script again from the top, as a container does that is started again.
How many detours there are is bounded and read by no property. Every program loads the
dataset file, works on the projects in parallel, and writes the file or a directory.

| Model | Code |
|---|---|
| `file`, `raw`, `clean`, `rows` | the dataset file, the checkouts, the sanitized copies, and what the indexer has made of them |
| `prog`, `stage`, `list`, `task` | the program that runs, how far it is, the projects in memory, the task of each in the process pool |
| `Load`, `Truncate`, `WriteFile` | `load_dataset`; `open(path, "w")` and `json.dump` of `dump_dataset` |
| `ChooseProjects`, `GetRaises` | `get_pypi_dataset` |
| `SkipCheckout` ... `ReadRevisionRaises`, `Collect` | `checkout_sampling_data` and `fetch` |
| `SkipSanitize` ... `SanitizeRaises`, `SanitizeEnds` | `sanitize` and `sanitize_dataset` |
| `IndexProject` | `Insertion` in one step for a project: its row, unless there is one, and some of its files |
| `IndexRefused`, `IndexRaises`, `IndexEnds` | `git_revision` is required (`static/Python-reiz.esdl:433`) and `None` is left out of an INSERT (`serializer.py:93`), so that of a project without a revision is refused; the exception ends the run, unless `--limit` is reached first |
| `Kill` | a program dies with its pool |
| `\E n` of `Clone` | somebody has pushed to the repository, or has not, since the last clone |

A copy knows the revisions of the trees that were copied into it, and whether
anything is in it that sanitizing removes. `refetched`, `overtaken` and `cut` are history
variables: they record what the properties have to except, and no action depends on them.

### SchemaBuilder, StoredTrees, PreparedTrees

| Model | Code |
|---|---|
| `VisitProduct`, `VisitEnum`, `VisitSum`, `VisitCustomTypes`, `Field`, `FixReferences` | the visitors of `ESDLBuilder` and `fix_references`; definitions are visited in any order |
| `TypeId`, `CalculateNodeTag`, `Annotate`, `Visit`, `GenericVisit` | `annotate_ast_types`, `calculate_node_tag` and the visitors of `transformers.py`; which of them run before the children is the difference between `VisitOwnFirst` and `Visit` |
| `stack` | the calls of `apply_ast` that are under way: the node of each, the property of `iter_properties` it is at, the items of that one so far, and the values of those before (`Frame`) |
| `Properties`, `ItemsOf`, `Serialize`, `Assigned` | `iter_properties`, `serialize_sequence`, `serialize` of what is no query, and the entry of a property in the INSERT |
| `StartInsertion`, `SerializeItem`, `EnterNode`, `NextProperty`, `Insert` | `apply_ast`: its first call, an item that is a value, an item that is a node (`enter_node`), a property that is complete, and the INSERT with what `new_reference` keeps |
| `StartLinking`, `Link`, `Commit` | the queries of `insert_file` behind the INSERTs, up to the commit |
| `Accepts`, `Fits` (external) | what EdgeDB checks of an INSERT: the type and the fields exist, required ones are there, single ones have one value, links are to rows of the declared type with an index where the schema has one, `unique` fields are |
| `Stored` | the tree as it would be read back: links in the order of `@index` |

A tag is the tuple the code hashes, written with brackets; two different tuples
with one hash are not considered, and the order of the elements of a set of parents
neither. Which fields Python's classes have is taken from the ASDL file.

Parameters of `StoredTrees`: `Definitions`, the ASDL file; `Positions`, the attributes
Python sets on what has a position; `Trees`, what `ast.parse` returns; `Prepare`, the
transformers; `NodesOf`, the nodes of a prepared module. `MCStoredTrees` takes
`Prepare` and `NodesOf` from `PreparedTrees`. The assumptions on them say that classes
and fields have unique names, that the attributes the file requires are among those
that are set, and that every node has in its fields what the file says (`IsNode`).
`made`, the node a row was made of, is a history variable that no action reads.

Left out: the values of positions, and how field names that are words of EdgeQL are
quoted.

## 3. What is checked

| Run | Instance | Shows |
|---|---|---|
| `insertion_faults` | 3 projects (2, 2, 1 files), 2 workers, a task inserts 1 file, 2 runs, 1 fault, kills at any point | the safety invariants, and `Indexing` is implemented |
| `insertion_live` | 3 projects (2, 2, 2 files, one too large, one that does not parse), `--limit` 2 or none for each of 2 runs, no faults | `max_active_tasks` is kept; a run inserts at most `limit - 1 + MaxActive * MaxFiles`; a run that is not killed ends; when it ends for want of tasks, what can be indexed is |
| `connection_pool` | 3 threads, 4 connections | connections are exclusive, bounded by the threads, and closed |
| `reizql_filters` | 5 atoms on an optional field with 7 values; 5 on lists of up to 3 (a star before and between, a filler, `[]`, `LEN`); logical operators two deep; 14 on lists of up to two names and calls, whose arguments are lists of names and calls again (lists in lists, `ANY` and `ALL` on either level, arguments by position and keyword, calls that cannot be bound), operators one deep | the optimizer and the text keep the meaning; what is found matches; what matches is found |
| `reizql_scope` | 2 names, 3 types, 3 scopes, 4 references | a query is accepted exactly if no reference stands alone, and references that are compared are of one type |
| `query_service` | 2 clients, 1 connection, redis on or off, 2 files, pages of 1 hit, 8 requests: hits, the same behind an offset, none and refused, no ReizQL, an empty query, no query, a body that is `null`, /stats | no connection is lost or shared; redis and every answer say what the database said to that request; every request ends |
| `sampling` | 2 projects, 2 revisions each, 1 detour, 1 kill | the dataset file, the checkouts, the copies and the index agree, in whatever order programs run; a fetched project is kept; programs end |
| `stored_trees` | the definitions of 10 types in every order, two position attributes, 288 modules: pairs of 12 expressions, as statements and in a function with an annotated argument, a `try` and a handler; every call of `apply_ast` is stepped through | every reference of the schema is resolved; every query is accepted; the tree can be read back; every row is linked; tags identify |
| `connection_pool_race`, `reizql_or_over_and`, `reizql_none`, `reizql_scope_linear` | the smallest instances that show it | the disagreements of section 4 |

Bounds. Three projects are the least for which the deque rotates under two active
tasks while one project waits; two files in a project with one file a task are the
least for which a project is rescheduled; a second run is what a restart needs,
and one fault between any two steps is enough to break any step of a transaction.
Two levels of operators are the least at which every pair of rewritings and every
pair of precedences meet; lists of three have an element before, under and behind
the star of every list pattern used; two levels of lists are what a path, an array
and a loop need to differ, and one operator over them is enough since operators
only combine what is below. Three scopes give a chain and a pair of siblings; four
references give two names a definition and a use each.

Two clients are what two handlers of one request and a queue need; one connection
is the smallest pool, where a lost one stops the service, and one client waits
whenever the other is served. The clients ask again and again, so that an answer
meets entries from any earlier moment; with two files the database differs before,
between and after any two steps of a handler, and a page of one hit is full, not
full and behind the end. Two revisions are what a project needs to be cloned at one and then at another;
two projects let one fail while the other does not; one detour and one kill, each at
any point, break every pair of steps the programs leave apart, and the programs that
follow meet what is left: a run of the script that is killed between any two steps and
one from the top behind it, for instance, or a forced fetch in the middle of a run. The ten definitions have every kind of definition and of field that occurs in
`Python-reiz.asdl` and a field of each that is defined before and after it; the
pairs of expressions include those that are equal up to context, up to constants
that compare equal, and those that hold the same items in another order or field.

`CHECK_DEADLOCK FALSE`: these systems may stop. The indexer has done its runs, the
pool is closed, a query is answered, the operator starts no further program, a tree
is stored.

Each property of a passing run is broken by a mutant of a mapped definition
(`PROJECT.json`, "mutants"; in the modules they follow the comment `mutant:`).

Fairness (`FairSpec`, used by the liveness properties only). In `Insertion`
(`Terminates`) the main thread takes a step when it can, since `futures.wait`
returns when a future is done, and so does each worker with a task, since the
threads of the executor are scheduled by the operating system and queries return or
raise. A worker is fair for each task: the executor starts tasks in order of
submission, so none waits for ever. Nothing is assumed of starting a run, of kills
or of failures.

In `QueryService` (`Answered`) the event loop takes up a handler that can go on
(`Start`, `Acquire`, `Release`), and the timer of `wait_for` fires (`QueryRaises`),
whether or not the database ever answers. Redis and the query of /stats have no time
limit in the code; that they do not keep a handler for ever is the premise of
`Answered` and not an assumption of fairness. In `Sampling` (`ProgramsEnd`) the
program and the process that works on each project are scheduled, and a clone that hangs
is ended by the time limit of `check_call` (`CloneTimesOut`); nothing is assumed of a clone that works,
of PyPI (so nothing is claimed of `get_dataset`, whose `urlopen` has no time limit),
of the operator or of kills.

## 4. What the checks found

1. `connection_pool_race`: two workers see one free connection and the second `popleft` raises `IndexError`, which ends the run.
2. `reizql_or_over_and`: `(A & B) | C` is printed `A AND B AND C`.
3. `reizql_none`: `Yield(value=None)` as a nested matcher finds nodes of every type.
4. `reizql_scope_linear`: the comment on `Scope` promises that siblings and parents cannot see a scope; they can, and a query among the tests relies on it.

Noted while modelling, without a run.

Indexer. `@guarded(Insertion.FAILED)` (`insert.py:18`) returns `None`, since
`guarded` (`utilities.py:47-59`) drops its argument, so failures are never counted as
`FAILED`. `--project-limit 0` means no limit to a task and makes `max_active_tasks` 0,
so nothing is indexed. `refill` submits fewer tasks than were completed when the head
of the rotated deque still has its tasks, so the number of active tasks can shrink
during a run. A project without a revision in the dataset file (`SamplingData` allows it,
and it has none before it is fetched) cannot be inserted, and ends the run of the
indexer at the first task whose result is collected (`IndexRefused`, `IndexRaises`).

Queries. Whatever has two filters and is negated without being rewritten, a matcher with
two fields or `LEN(min=1, max=2)`, is printed `NOT a AND b`, where `NOT` binds to the first
only (`edgeql.py:135`). `...` under a logical operator raises `ValueError` and not a syntax
error. `[] | x` prints `None` and is refused as a reference to an unknown object.
`[Name()] | [Call(), *...]` requires the lengths of both alternatives, since lengths
are collected for the whole query, and a list under `ANY` or `ALL` is tested once for
all elements together (hence `ListsRequired`). A matcher whose only filter is `ALL`, or
`LEN` without a lower bound, finds other types as one with `None` does (hence
`TypesTested`). `ALL(Name('x'))` does not see elements of other types, although
`docs/reizql.md:438-440` speaks of all elements: the path it goes over is narrowed to
`Name` (hence `AllNeverEmpty`). An alternative whose path is empty takes the other's
hits with it (`Name('x') | Yield()` finds no `Yield`), which is why `MatchesHit` has
`AlternativesNeverEmpty`. `generic_visit` (`optimizer.py:39-46`) drops an item of a
list that was rewritten; nothing depends on it. The state copied for each new
reference contains the earlier copies, so a query costs time exponential in its
references. In the parser, `len(node._fields)` counts the fields of the call and not
of the type, and `arg.arg not in node.args` (`parse.py:63-76`) never finds a keyword
that is given twice.

Query service. An answer with hits is served from redis for ever, whatever is indexed
and even if the database is built anew. The query of /stats and redis have no time
limit, and a handler holds its connection while it writes to redis. A body that is the
JSON `null` raises in the handler (`"query" not in None`) and is a 500.

Sampling. A copy whose sanitizing raised or was killed half way is skipped from then
on and indexed as it is (`cut` in `SourcesOnly`), although `docs/internals.md:21-22`
says that everything else is removed. A fetch with `--force` that is killed leaves a file
that names revisions which are gone (`overtaken`). Fetching a project again does not
touch its copy, its row or its indexed files, so revisions mix (`refetched` in
`IndexedRevision`). It needs no `--force`: if the script is killed between `sanitize` and
`index` and run again from the top, `get_dataset` drops the revisions, the fetch clones
what has been pushed meanwhile, `sanitize` skips the copy that is there, and the old files
are indexed under the new revision, to which their hits link. `sanitize --force` copies
over what is there, so files that exist in the old revision only stay; and what is
indexed keeps the revision of its first indexing. `IndexedRevision` says that nothing
else mixes revisions; without its exception TLC finds all of these. A dataset file that was truncated and not written stops
every program but `get_dataset`.

Schema. Properties of several values (names of a `global`, operators of a comparison)
have no index: `x < y == z` and `x == y < z` are stored alike, and a query that asks for
such an item by its position gets any. Functions and classes are tagged before the
constants in them are replaced by their `repr`, expressions after: of two functions
that differ by `1` and `True` the tags are equal. References compare expressions only,
for which `TagsIdentify` holds. Tags are hashes of tuples that contain strings, so
equal expressions have different tags in rows written by different processes.

Configuration. `sync_config` opens the default location whatever it is given
(`config.py:41`).

## 5. What is proved

34 theorems, each `Spec => []Inv`, an action property or a refinement, checked by TLAPS
for every value of the constants. What TLC checks on the instances of section 3 is
thereby shown for any number of projects, workers, clients, connections, programs run,
definitions, references and nodes of a tree. Each invariant of a run of `Insertion`,
`ConnectionPool`, `ReizQLScope`, `QueryService` and `Sampling` is a theorem, and so are
three of the five of `stored_trees`. So are both refinements, and that `StoredTrees`
implements `SchemaBuilder`.

| Module | Theorems | Assumes of the constants |
|---|---|---|
| `InsertionProofs` | `TypeCorrect`, `ProjectRowsUnique`, `FilesAtomic`, `ProjectBeforeModule`, `CacheCorrect`, `TasksApart`, `PoolOutlivesTasks`; `InsertionIndexes`: it implements `Indexing` | finitely many projects, a file is of one of them, a dataset without repetition, `--project-limit` at least 1 |
| `InsertionScheduleProofs` | `ProjectsStayQueued`, `ActiveTasksBounded`, `LimitOvershootBounded`, `ExhaustedIndexesAll` | the same |
| `ConnectionPoolProofs` | `PoolTypeCorrect`, `OneTaskPerConnection`, `PoolBounded`, `CloseClosesAll` | finitely many threads; no connection is `NoConn` |
| `ReizQLScopeProofs` | `ScopeTypeCorrect`, `OneTypePerName`, `CompiledOnlyIfUsed` | the types that can be referred to are types; the bounds are numbers |
| `QueryServiceProofs` | `ServiceTypeCorrect`, `NoConnectionLost`, `CacheHoldsPages`; `ServiceKeepsPromise`: it implements `Answers` | a finite pool that is not empty; hits are in the files there are; requests are what the routes take |
| `SamplingProofs` | `SamplingTypeCorrect`, `RevisionIsCheckedOut`, `IndexedUnderOneRevision`, `CopiesAreSources`; `FetchKeeps`, an action property | finitely many projects; the bounds are numbers |
| `SchemaBuilderProofs` | `SchemaResolved` | `DefinitionsAssumption`: the ASDL file defines each name once, none is that of a basic type, and fields are of types there are (`Python-reiz.asdl` is such a file) |
| `StoredTreesProofs` | `TreesAccepted`, `RowsKeep`, `RowsLinked`, `TreesResolved`; `SchemaUntouched`: it implements `SchemaBuilder` | the same; `ClassesAssumption`, `AttributesAssumption` of the ASDL file and the positions; `TreesAssumption`: trees are of nodes that fit the file |

The assumptions are named `ASSUME`s of the modules, which TLC evaluates on every run. The
pool, the dataset and the bounds are of any size; which names a file, a query or a
connection has is never used.

### Indexer, what is stored (`InsertionProofs`)

No single invariant is inductive: that a project gets one row needs
that two tasks of it never run at a time, which needs that every running task is
in the dict of futures, which the scheduler's steps keep; that a file is whole
needs what the open transaction has written at each point of `insert_file`, that
no other task holds the same file, and that what is stored without being cached
cannot be inserted again. `IInv` joins

- `TypeOK` and `OwnFiles` (a task looks at files of its own project only);
- `TasksInv`: unfinished tasks are of different projects and are known to the scheduler;
- `ProjectInv`: a row at most, none when a task is about to insert it, one when
  the cache or a task past it says so;
- `FileInv`: all or nothing, the part of the rows the transaction holds at each
  point, one task per file, and cached files stored.

`IInvInit`, `IInvStep` (one lemma per part, one step per action) and
`IInvCorrect` give `[]IInv`, from which the theorems follow. The lemmas on `Rotate`,
`RemoveFirst` and `CreateTasks` say what a collected future and a refill do to the deque.

### Indexer, what is scheduled (`InsertionScheduleProofs`)

It builds on `TypeOK`, `OwnFiles`, `TasksInv` and `FileInv` of the module above.

- `ScheduleInv` bounds the futures and keeps their projects in the deque. `ActiveBound`
  alone is not inductive: a refill may add as many tasks as were completed, so it must be
  known while results are collected that the futures still in the dict, less those that
  are done and not collected, leave room for them (`RoomLeft`). `TasksQueued` needs that a
  rotation permutes the deque (`RotateKeeps`), that removing a project removes that one
  only (`RemoveFirstKeeps`), and that no second task of it is around (`TasksInv`).
- `Budget` is the reason a limit is overshot by less than one round: what was collected,
  and a whole share of `MaxFiles` for every future that is not collected, stay within
  `limit - 1 + MaxActive * MaxFiles`. It holds when a refill starts, which is only below
  the limit, and a task that is collected turns its share into what it has inserted, which
  `ShareInv` says is not more.
- `CoverInv` follows every file of the dataset: a file that can be indexed is stored or in
  front of the task of its project (`Covered`), a task that inserted nothing has completed
  its project, and a project that is in the deque no more is complete
  (`NothingForgotten`). That the run ends with an empty deque, and not with an empty dict
  and projects left, needs `TasksLeft`: a wait returns one future at least, so a refill
  looks at one project at least, and submits it if no task is left.

### Connection pool

`ConnectionExclusive` is broken if a connection that is opened is already held, so
`OpenedHere` says that what is held or free is known to the pool. `ConnectionsBounded`
counts connections against threads, which needs that a thread that opens one holds none
(`HeldInv`), and that a thread only goes to open one when it saw none free (`NoneLost`: every
open connection is free or held, so that then they are no more than the threads that
hold one, and it holds none). `Registered` is what lets the exit stack close everything.

### Reference scopes

The counters are kept per scope and the definitions in one dictionary, so
`CompiledIffUsed` has to be restated in terms of what `verify` reads: `DefinitionsInv` (a
definition points at a reference of its name, and a name without one was never met) and
`CountsInv` (the counter of the scope of a definition is at least 1 exactly if there is
another reference of its name, whichever scope it stands in). `TypesInv` is `SameType`
against the definition only, which `ensure` compares with.

### Query service

`StageInv` says at each await what the handler knows of its request: that it asks for hits,
that the query is well-formed, that the response it is about to store is a page the
database had since the request (`HasPage`), that the reply it is about to send is `Honest`.
`AskedInv` keeps the moment of a request apart from requests that have ended, `CacheInv`
that only requests for hits are in redis. `ConnectionsKept` is inductive with the types;
`LeaveQueue` says what a queue is when one in the middle of it hangs up. `PromiseInit` and
`PromiseStep` (one step per action) then map the start and every step of the service to
one of `Answers` or to a stutter: most actions are stutters, `Index`, `Send` and the ends
of a handler are steps, and a restart answers whoever still waits, so it is a step of
several clients at once.

### Sampling pipeline

The properties speak of the file, the directories and the database; the invariant adds
what the program that runs has in memory. `RunInv` says which tasks exist at each stage,
`FetchInv` that a project a fetch is done with has the tree the list says, `FileInv` is
`RevisionsTrue` with the excuse of a forced fetch cut down to the projects it has begun
with. `CopiesInv` is the reason for `IndexedRevision`, and needs no order of the
programs: of a project that is not fetched again, the copy and the files are of the revision
that is checked out (`Untouched`), which is that of the row because the row got it from the
file (`FileInv`); a fetch at work on a checkout that is no refetch has no copy or row
to disagree with. `FetchKeeps` follows from `FetchInv`, since the step that collects
the results is one of those the property speaks about.

### Schema builder

`SchemaResolved` is about `SchemaSpec`, the part of `StoredTrees` that builds the schema;
the rest of `StoredTrees` leaves its variables alone (`SchemaUntouched`, `TreesResolved`). `SchemaInv` says that the models,
the enumerations and the custom types are exactly those of the definitions visited so far,
which needs that no two definitions become models of one name (`NamesDistinct`), and that a
field is one of the file until references are fixed (`FieldsInv`). As they are fixed when
nothing is pending, every name is known by then (`FixedResolved`).

### Stored trees

`TreesAccepted` says that the schema and the serializer agree, whatever the ASDL file:
every INSERT of every tree is accepted. One side of it is about `SchemaBuilder`: `ShapeInv`
says that what has been visited has become the models its kind of definition stands for,
with the fields of the file before references are fixed and fixed ones after, and
`ModulesInv` that the models with a link to a module are the annotated ones. The other
side is about the calls of `apply_ast`, and needs the whole stack:

- `FrameInv`: a call has the values of the properties before the one it is at, each
  with indices exactly if an item of it is not basic (`Indexed`), and the first items of
  that one, each a value or a row that is there already (`StandsFor`);
- `Awaits`: a call that another was entered from is at an item whose node is the
  other's, so that the row the other returns is put where it belongs;
- `RowsInv`: the ids that were collected are exactly the rows but the project's and, in the
  end, the module's; no row is a module's before, which is what `filename`, the one
  unique field, needs;
- `LinksInv`: what an UPDATE has been sent for is linked.

`PropertyField`, `ItemFits` and `PropertyFits` join the sides: a property of a
node is the field of the model its definition became; it is single, required and
indexed in the INSERT as it is declared. From the same invariant follow `RowsKeep` (each row
has all that is in its node, at its place: the step of an induction over the tree
whose conclusion is `TreeKept`) and `RowsLinked`, which needs that a class with a link
inherits it from a definition that is annotated and that neither modules nor projects
have one.

`Python-reiz.asdl` satisfies the assumptions: with its 19 definitions in place of those of
`MCStoredTrees`, and the four attributes of a position, TLC finds all of them true. That
the trees of `ast.parse` fit the file is what the file is for, as it is Python's own
grammar with the extensions `transformers.py` fills in.

### Only model-checked

- Liveness (`Terminates`, `Answered`, `ProgramsEnd`): fairness is about ENABLED, which is
  out of the prover's reach.
- `OptimizerKeepsMeaning`, `TextKeepsMeaning`, `HitsMatch` and `MatchesHit` of
  `ReizQLFilters`: the compiler, the printer and the meaning of a text are recursive over
  patterns, so that what they compute for every pattern is an induction over data, which
  the prover cannot do; nor can it be used in a module with recursive operators.
- `TreeKept` and `TagsIdentify` of `PreparedTrees`, for the same reason: a tree that is read
  back and a tag are recursive over the tree. `RowsKeep` is the part of the first that
  is about steps of the program.

## 6. What is not modelled

- The rate limiter, the index page and /analyze of the web service: the first belongs to
  a library, the others keep no state. The asynchronous pool of connections belongs to
  the database client, and Sanic's own time limit on a response is a hang-up.
- The lexical side of the parser (tokens, names of fields, positions of errors), and of
  the printer (layout, namespaces, statements other than the FILTER clause).
- The text of the ESDL file and reading the schema back; the configuration file and the
  logger; and how a hit is shown (`fetch`, its lines of source are read from a
  directory nothing writes while the service runs).
- The scripts, the page and the benchmarks: command lines and measurements.

## 7. Plan

Done, in this order: `Indexing` and `Insertion` with their proofs, because the
database is what everything else relies on; `ConnectionPool`, which `Insertion`
takes for granted; `ReizQLFilters` and `ReizQLScope`, where a wrong answer is
silent; `Answers` and `QueryService`; `Sampling`; `SchemaBuilder` and `StoredTrees`;
nested lists and builtins in `ReizQLFilters`; `StoredTrees` as steps of a stack and no
recursion; the proofs of every module that uses no recursive operators. Next:

1. An abstract specification of `ConnectionPool` (a set of connections and who has which),
   which it implements, and the proof that it does.
2. In `ReizQLFilters`: `META`, `I`, enumerations, and references in filters.
