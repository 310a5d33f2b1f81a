------------------------------- MODULE Sampling -------------------------------
(***************************************************************************)
(* The sampling pipeline: get_dataset, fetch_dataset, sanitize_dataset and *)
(* the indexer as programs that an operator runs one after the other, as   *)
(* scripts/docker_bootstrap.sh does, or as he likes; that share a dataset  *)
(* file and two directories; that work on the projects in parallel; and    *)
(* that fail for a project or are killed at any point.                     *)
(***************************************************************************)
EXTENDS Naturals, FiniteSets

CONSTANTS Project,   \* the packages PyPI may list
          Limit,     \* --limit of get_dataset
          LastRev,   \* the revisions a repository may be at are 1..LastRev
          MaxDetours, \* bound: how often the operator leaves the script
          MaxKills   \* bound: how many programs are killed

ASSUME NumbersAssumption ==
  Limit \in Nat \ {0} /\ LastRev \in Nat \ {0} /\ MaxDetours \in Nat /\ MaxKills \in Nat
ASSUME ProjectAssumption == IsFiniteSet(Project)

VARIABLES
  file,     \* the dataset file: whether it is whole, and git_revision by project
  raw,      \* the checkout of each project
  clean,    \* its sanitized copy: of which revisions, and with what else in it
  rows,     \* the database: git_revision of the project, the revisions of its files
  prog, force, stage, \* the program that runs, --force, and how far it is
  list,     \* the projects it has in memory
  task,     \* where its task for each project is
  due,      \* the program the script has next
  detours,  \* how often another one, or it with --force, was started
  refetched,    \* projects fetched again when there was a copy or a row of them
  overtaken,    \* projects fetched again by a forced fetch that did not get to its end
  cut,          \* projects whose sanitizing raised or was killed half way
  kills

disk     == <<file, raw, clean>>
run      == <<prog, force, stage>>
operator == <<due, detours, kills>>
ghosts   == <<refetched, overtaken, cut>>
vars == <<disk, rows, run, list, task, operator, ghosts>>

None    == 0       \* no git_revision
NoTree  == [state |-> "none", rev |-> None]
Partial == [state |-> "partial", rev |-> None]
Tree(n) == [state |-> "whole", rev |-> n]
NoCopy  == [exists |-> FALSE, revs |-> {}, dirty |-> FALSE]
NoRow   == [exists |-> FALSE, rev |-> None, sources |-> {}]

NoTasks == [p \in Project |-> "none"]
Submitted == [p \in Project |-> IF p \in DOMAIN file.rows THEN "submitted" ELSE "none"]

Following == [get |-> "fetch", fetch |-> "sanitize", sanitize |-> "index", index |-> "index"]

Init == /\ file = [whole |-> FALSE, rows |-> << >>]
        /\ raw = [p \in Project |-> NoTree] /\ clean = [p \in Project |-> NoCopy]
        /\ rows = [p \in Project |-> NoRow]
        /\ prog = "none" /\ force = FALSE /\ stage = "none"
        /\ list = << >> /\ task = NoTasks
        /\ due = "get" /\ detours = 0 /\ kills = 0
        /\ refetched = {} /\ overtaken = {} /\ cut = {}
-----------------------------------------------------------------------------
(* The programs                                                             *)

\* the operator starts what the script has next or leaves it for anything else, with
\* or without --force, and goes on from there; to leave it for "get" is to run the
\* script again from the top
Start(name, forced) ==
  /\ prog = "none"
  /\ forced => name \in {"fetch", "sanitize"}
  /\ \/ name = due /\ (forced => detours > 0) /\ UNCHANGED detours
     \/ (name # due \/ forced) /\ detours < MaxDetours /\ detours' = detours + 1
  /\ prog' = name /\ force' = forced /\ stage' = IF name = "get" THEN "work" ELSE "load"
  /\ UNCHANGED <<disk, rows, list, task, due, kills, ghosts>>

Exit == /\ prog' = "none" /\ force' = FALSE /\ stage' = "none"
        /\ list' = << >> /\ task' = NoTasks

Succeeds == Exit /\ due' = Following[prog] /\ UNCHANGED <<detours, kills>>

\* load_dataset
Load == /\ stage = "load" /\ file.whole
        /\ list' = file.rows /\ task' = Submitted /\ stage' = "work"
        /\ UNCHANGED <<disk, rows, prog, force, operator, ghosts>>

\* there is no file, or one that was truncated and not written
LoadRaises == /\ stage = "load" /\ ~file.whole
              /\ Exit /\ due' = "get"
              /\ UNCHANGED <<disk, rows, detours, kills, ghosts>>

\* the tasks: Works(p, ...) when the program called name takes one up
Works(p, name, where) == prog = name /\ stage = "work" /\ task[p] = where
Goes(p, where) == task' = [task EXCEPT ![p] = where]
AllEnded == stage = "work" /\ \A p \in Project : task[p] \in {"none", "done", "failed"}

\* get_pypi_dataset: the first Limit packages that have a repository, in the order
\* in which PyPI answers; the others are cancelled
ChooseProjects ==
  /\ prog = "get" /\ stage = "work"
  /\ \E S \in SUBSET Project : /\ Cardinality(S) <= Limit
                               /\ list' = [p \in S |-> None]
  /\ stage' = "dump"
  /\ UNCHANGED <<disk, rows, prog, force, task, operator, ghosts>>

\* the list of packages cannot be had
GetRaises == /\ prog = "get" /\ stage = "work"
             /\ Exit /\ UNCHANGED <<disk, rows, operator, ghosts>>

\* mutant: return instead of return project
SkipCheckoutForgets(p) ==
  /\ Works(p, "fetch", "submitted") /\ list[p] # None /\ ~force
  /\ Goes(p, "failed")
  /\ UNCHANGED <<disk, rows, run, list, operator, ghosts>>

\* if project.git_revision and not force
SkipCheckout(p) ==
  /\ Works(p, "fetch", "submitted") /\ list[p] # None /\ ~force
  /\ Goes(p, "done")
  /\ UNCHANGED <<disk, rows, run, list, operator, ghosts>>

Refetch(p) == refetched \cup {q \in {p} : clean[q].exists \/ rows[q].exists}

\* mutant: the revision of the old checkout stays with what is left of it
RemoveSome(p) ==
  /\ Works(p, "fetch", "submitted") /\ (list[p] = None \/ force)
  /\ raw' = [raw EXCEPT ![p].state = "partial"]
  /\ Goes(p, "cloning") /\ refetched' = Refetch(p)
  /\ UNCHANGED <<file, clean, rows, run, list, operator, overtaken, cut>>

\* rmtree; until the clone is complete there is a part of a tree
RemoveCheckout(p) ==
  /\ Works(p, "fetch", "submitted") /\ (list[p] = None \/ force)
  /\ raw' = [raw EXCEPT ![p] = Partial]
  /\ Goes(p, "cloning") /\ refetched' = Refetch(p)
  /\ UNCHANGED <<file, clean, rows, run, list, operator, overtaken, cut>>

\* of whatever the repository is at by now
Clone(p) == /\ Works(p, "fetch", "cloning")
            /\ \E n \in 1..LastRev : raw' = [raw EXCEPT ![p] = Tree(n)]
            /\ Goes(p, "cloned")
            /\ UNCHANGED <<file, clean, rows, run, list, operator, ghosts>>

\* git removes what it has cloned, unless it is killed
CloneRaises(p) ==
  /\ Works(p, "fetch", "cloning")
  /\ \E left \in {NoTree, Partial} : raw' = [raw EXCEPT ![p] = left]
  /\ Goes(p, "failed")
  /\ UNCHANGED <<file, clean, rows, run, list, operator, ghosts>>

\* mutant: nothing limits the time a clone takes
CloneTakesForever(p) == Works(p, "fetch", "cloning") /\ UNCHANGED vars

\* mutant: the time limit is caught and the project is kept as it was
CloneTimesOutCaught(p) ==
  /\ Works(p, "fetch", "cloning")
  /\ Goes(p, "done")
  /\ UNCHANGED <<disk, rows, run, list, operator, ghosts>>

\* check_call(..., timeout=60) kills git and raises
CloneTimesOut(p) ==
  /\ Works(p, "fetch", "cloning")
  /\ Goes(p, "failed")
  /\ UNCHANGED <<disk, rows, run, list, operator, ghosts>>

\* mutant: git ls-remote, of whatever the repository is at by then
ReadRemoteRevision(p) ==
  /\ Works(p, "fetch", "cloned")
  /\ \E n \in 1..LastRev : list' = [list EXCEPT ![p] = n]
  /\ Goes(p, "done")
  /\ UNCHANGED <<disk, rows, run, operator, ghosts>>

\* git log
ReadRevision(p) ==
  /\ Works(p, "fetch", "cloned")
  /\ list' = [list EXCEPT ![p] = raw[p].rev]
  /\ Goes(p, "done")
  /\ UNCHANGED <<disk, rows, run, operator, ghosts>>

ReadRevisionRaises(p) ==
  /\ Works(p, "fetch", "cloned")
  /\ Goes(p, "failed")
  /\ UNCHANGED <<disk, rows, run, list, operator, ghosts>>

\* list(fetch(...)): what was checked out, now or before
Collect ==
  /\ prog = "fetch" /\ AllEnded
  /\ list' = [p \in {q \in DOMAIN list : task[q] = "done"} |-> list[p]]
  /\ stage' = "dump"
  /\ UNCHANGED <<disk, rows, prog, force, task, operator, ghosts>>

\* dump_dataset: open(path, "w") ...
Truncate == /\ stage = "dump"
            /\ file' = [whole |-> FALSE, rows |-> << >>]
            /\ stage' = "truncated"
            /\ UNCHANGED <<raw, clean, rows, prog, force, list, task, operator, ghosts>>

\* ... and json.dump
WriteFile == /\ stage = "truncated"
             /\ file' = [whole |-> TRUE, rows |-> list]
             /\ overtaken' = IF prog = "get" \/ force THEN {} ELSE overtaken
             /\ Succeeds
             /\ UNCHANGED <<raw, clean, rows, refetched, cut>>

\* if dest.exists() and not force
SkipSanitize(p) ==
  /\ Works(p, "sanitize", "submitted") /\ clean[p].exists /\ ~force
  /\ Goes(p, "done")
  /\ UNCHANGED <<disk, rows, run, list, operator, ghosts>>

\* copytree of a checkout that is not there
NothingToCopy(p) ==
  /\ Works(p, "sanitize", "submitted") /\ (~clean[p].exists \/ force) /\ raw[p] = NoTree
  /\ Goes(p, "failed")
  /\ UNCHANGED <<disk, rows, run, list, operator, ghosts>>

\* mutant: what is copied over an earlier copy is not cleaned
CopyOver(p) ==
  /\ Works(p, "sanitize", "submitted") /\ (~clean[p].exists \/ force) /\ raw[p] # NoTree
  /\ clean' = [clean EXCEPT ![p] = [exists |-> TRUE, revs |-> @.revs \cup {raw[p].rev},
                                    dirty |-> TRUE]]
  /\ Goes(p, IF clean[p].exists THEN "done" ELSE "cleaning")
  /\ UNCHANGED <<file, raw, rows, run, list, operator, ghosts>>

\* copytree, over what an earlier one has left
Copy(p) ==
  /\ Works(p, "sanitize", "submitted") /\ (~clean[p].exists \/ force) /\ raw[p] # NoTree
  /\ clean' = [clean EXCEPT ![p] = [exists |-> TRUE, revs |-> @.revs \cup {raw[p].rev},
                                    dirty |-> TRUE]]
  /\ Goes(p, "cleaning")
  /\ UNCHANGED <<file, raw, rows, run, list, operator, ghosts>>

\* unlink what is no source, find -empty -delete
RemoveOthers(p) ==
  /\ Works(p, "sanitize", "cleaning")
  /\ clean' = [clean EXCEPT ![p].dirty = FALSE]
  /\ Goes(p, "done") /\ cut' = cut \ {p}
  /\ UNCHANGED <<file, raw, rows, run, list, operator, refetched, overtaken>>

\* copytree has met a dangling link and copied the rest, or a file cannot be removed
SanitizeRaises(p) ==
  /\ Works(p, "sanitize", "cleaning")
  /\ Goes(p, "failed") /\ cut' = cut \cup {p}
  /\ UNCHANGED <<disk, rows, run, list, operator, refetched, overtaken>>

SanitizeEnds == /\ prog = "sanitize" /\ AllEnded /\ Succeeds
                /\ UNCHANGED <<disk, rows, ghosts>>

\* insert_project: the row, unless there is one, and of the files that are not indexed
\* those that can be parsed, within the limits
IndexProject(p) ==
  /\ Works(p, "index", "submitted")
  /\ rows[p].exists \/ list[p] # None
  /\ \E S \in SUBSET clean[p].revs :
       rows' = [rows EXCEPT ![p] = [exists |-> TRUE,
                                    rev |-> IF @.exists THEN @.rev ELSE list[p],
                                    sources |-> @.sources \cup S]]
  /\ Goes(p, "done")
  /\ UNCHANGED <<disk, run, list, operator, ghosts>>

\* git_revision is required: the database refuses the INSERT of a project without one
IndexRefused(p) ==
  /\ Works(p, "index", "submitted")
  /\ ~rows[p].exists /\ list[p] = None
  /\ Goes(p, "failed")
  /\ UNCHANGED <<disk, rows, run, list, operator, ghosts>>

\* the exception of one task ends the run; what is not submitted yet never is
IndexRaises == /\ prog = "index" /\ \E p \in Project : Works(p, "index", "failed")
               /\ Exit /\ UNCHANGED <<disk, rows, operator, ghosts>>

\* every task has ended, or after one of them --limit is reached
IndexEnds == /\ prog = "index" /\ stage = "work"
             /\ \/ AllEnded /\ \A p \in Project : task[p] # "failed"
                \/ \E p \in Project : task[p] = "done"
             /\ Succeeds
             /\ UNCHANGED <<disk, rows, ghosts>>

\* the program and its pool are killed
Kill == /\ prog # "none" /\ kills < MaxKills
        /\ kills' = kills + 1
        /\ LET begun == {p \in Project : /\ prog = "fetch" /\ force
                                         /\ task[p] \notin {"none", "submitted"}}
           IN  overtaken' = overtaken \cup begun /\ refetched' = refetched \cup begun
        /\ cut' = cut \cup {p \in Project : prog = "sanitize" /\ task[p] = "cleaning"}
        /\ Exit
        /\ UNCHANGED <<disk, rows, due, detours>>

Checkout(p) == \/ SkipCheckout(p) \/ RemoveCheckout(p) \/ Clone(p) \/ CloneRaises(p)
               \/ CloneTimesOut(p) \/ ReadRevision(p) \/ ReadRevisionRaises(p)
Sanitize(p) == \/ SkipSanitize(p) \/ NothingToCopy(p) \/ Copy(p) \/ RemoveOthers(p)
               \/ SanitizeRaises(p)
Program == \/ Load \/ LoadRaises \/ ChooseProjects \/ GetRaises \/ Collect \/ Truncate
           \/ WriteFile \/ SanitizeEnds \/ IndexEnds \/ IndexRaises
Index(p) == IndexProject(p) \/ IndexRefused(p)

Next == \/ Program \/ Kill
        \/ \E p \in Project : Checkout(p) \/ Sanitize(p) \/ Index(p)
        \/ \E name \in DOMAIN Following, forced \in BOOLEAN : Start(name, forced)

Spec == Init /\ [][Next]_vars

\* The program and the processes of its pool are scheduled and what is on the disk can
\* be read and written.  A clone need not end, PyPI need not answer.
Fairness ==
  /\ WF_vars(\/ Load \/ LoadRaises \/ Collect \/ Truncate \/ WriteFile \/ SanitizeEnds
             \/ IndexEnds \/ IndexRaises)
  /\ \A p \in Project :
       WF_vars(\/ SkipCheckout(p) \/ RemoveCheckout(p) \/ CloneTimesOut(p) \/ ReadRevision(p)
               \/ Sanitize(p) \/ Index(p))

FairSpec == Spec /\ Fairness
-----------------------------------------------------------------------------
(* Properties                                                               *)

Trees == {NoTree, Partial} \cup {Tree(n) : n \in 1..LastRev}

TypeOK ==
  /\ file.whole \in BOOLEAN /\ DOMAIN file.rows \subseteq Project
  /\ \A p \in DOMAIN file.rows : file.rows[p] \in 0..LastRev
  /\ raw \in [Project -> Trees]
  /\ clean \in [Project -> [exists : BOOLEAN, revs : SUBSET (0..LastRev), dirty : BOOLEAN]]
  /\ rows \in [Project -> [exists : BOOLEAN, rev : 0..LastRev, sources : SUBSET (0..LastRev)]]
  /\ prog \in DOMAIN Following \cup {"none"} /\ force \in BOOLEAN
  /\ stage \in {"none", "load", "work", "dump", "truncated"} /\ due \in DOMAIN Following
  /\ DOMAIN list \subseteq Project /\ \A p \in DOMAIN list : list[p] \in 0..LastRev
  /\ task \in [Project -> {"none", "submitted", "cloning", "cloned", "cleaning", "done", "failed"}]
  /\ refetched \subseteq Project /\ overtaken \subseteq Project /\ cut \subseteq Project
  /\ detours \in 0..MaxDetours /\ kills \in 0..MaxKills

\* A project the file gives a revision has the whole tree of that revision checked
\* out, whichever programs were killed, unless a forced fetch is at it or was killed.
RevisionsTrue ==
  file.whole => \A p \in DOMAIN file.rows :
    \/ file.rows[p] = None \/ raw[p] = Tree(file.rows[p])
    \/ p \in overtaken
    \/ prog = "fetch" /\ force

\* Whatever programs run, in any order, and whichever of them are killed, all the files
\* of an indexed project are of the revision its hits are linked to; unless it was
\* fetched again when it was copied or indexed already (with --force, or by the script
\* run again from the top), or by a forced fetch that was killed.
IndexedRevision ==
  \A p \in Project :
    rows[p].exists /\ p \notin refetched => rows[p].sources \subseteq {rows[p].rev}

\* What is neither Python nor parsed is in a copy only while it is being cleaned, or
\* if that raised or was killed; then it stays, since the copy is there.
SourcesOnly ==
  \A p \in Project :
    clean[p].dirty => p \in cut \/ (prog = "sanitize" /\ task[p] = "cleaning")

\* A fetch without --force keeps every project that was fetched before, with its
\* revision, whatever happens to the others.
FetchedKept ==
  [][prog = "fetch" /\ ~force /\ stage = "work" /\ stage' = "dump"
       => \A p \in DOMAIN file.rows :
            file.rows[p] # None => p \in DOMAIN list' /\ list'[p] = file.rows[p]]_vars

\* A program ends although one clone never does; get_dataset ends if PyPI answers.
ProgramsEnd == prog \in {"fetch", "sanitize", "index"} ~> prog = "none"
=============================================================================
