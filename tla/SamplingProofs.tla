---------------------------- MODULE SamplingProofs ----------------------------
(***************************************************************************)
(* Proofs about Sampling, for any projects, limit and number of revisions, *)
(* detours and kills.                                                      *)
(***************************************************************************)
EXTENDS Sampling, SequenceTheorems, TLAPS

\* A list without projects.
LEMMA EmptyDomain == DOMAIN << >> = {}
  BY EmptySeq, LenProperties

\* The order of the programs in the script.
LEMMA Follows ==
  /\ DOMAIN Following = {"get", "fetch", "sanitize", "index"}
  /\ Following["get"] = "fetch" /\ Following["fetch"] = "sanitize"
  /\ Following["sanitize"] = "index" /\ Following["index"] = "index"
  BY DEF Following

\* A tree is whole exactly if it is the tree of a revision, and revisions tell trees
\* apart.
LEMMA TreesAre ==
  /\ NoTree \in Trees /\ Partial \in Trees
  /\ \A n \in 1 .. LastRev : Tree(n) \in Trees /\ Tree(n).rev = n
  /\ \A t \in Trees : t.rev \in 0 .. LastRev
  /\ \A n : Tree(n) # NoTree /\ Tree(n) # Partial /\ Tree(n).rev = n
<1>1. \A n \in 1 .. LastRev : Tree(n) \in Trees /\ Tree(n).rev = n
  BY DEF Trees, Tree
<1>2. NoTree \in Trees /\ Partial \in Trees
  BY DEF Trees
<1>3. ASSUME NEW t \in Trees
      PROVE  t.rev \in 0 .. LastRev
  <2>1. CASE t \in {NoTree, Partial}
    BY <2>1, NumbersAssumption DEF NoTree, Partial, None
  <2>2. CASE t \in {Tree(n) : n \in 1 .. LastRev}
    BY <1>1, <2>2, NumbersAssumption
  <2> QED
    BY <2>1, <2>2 DEF Trees
<1>4. \A n : Tree(n) # NoTree /\ Tree(n) # Partial /\ Tree(n).rev = n
  BY DEF Tree, NoTree, Partial
<1> QED
  BY <1>1, <1>2, <1>3, <1>4

-----------------------------------------------------------------------------
(* The inductive invariant                                                  *)

\* What a program has in memory at each stage: nothing before it has read the file,
\* then a task for every project of the file.
RunInv ==
  /\ prog = "none" <=> stage = "none"
  /\ stage \in {"none", "load"} => DOMAIN list = {} /\ task = NoTasks
  /\ prog = "get" => task = NoTasks /\ \A p \in DOMAIN list : list[p] = None
  /\ stage = "load" => prog # "get"
  /\ stage \in {"dump", "truncated"} => prog \in {"get", "fetch"}
  /\ force => prog \in {"fetch", "sanitize"}
  /\ stage = "work" /\ prog # "get" =>
       /\ file.whole /\ DOMAIN list = DOMAIN file.rows
       /\ \A p \in Project : task[p] # "none" <=> p \in DOMAIN list
  /\ stage = "work" /\ prog \in {"sanitize", "index"} =>
       \A p \in DOMAIN list : list[p] = file.rows[p]

\* RevisionsTrue, where a forced fetch is an excuse only for what it has begun with.
FileInv ==
  file.whole => \A p \in DOMAIN file.rows :
    \/ file.rows[p] = None \/ raw[p] = Tree(file.rows[p])
    \/ p \in overtaken
    \/ prog = "fetch" /\ force /\ task[p] \notin {"none", "submitted"}

\* What a fetch has in memory for a project it is done with is true of the disk, and
\* it does not touch what was fetched before.
FetchInv ==
  prog = "fetch" =>
    /\ \A p \in Project : task[p] = "cloned" => raw[p] \in {Tree(n) : n \in 1 .. LastRev}
    /\ \A p \in DOMAIN list :
         task[p] = "done" => /\ list[p] # None
                             /\ raw[p] = Tree(list[p]) \/ (~force /\ p \in overtaken)
    /\ stage \in {"dump", "truncated"} => \A p \in DOMAIN list : task[p] = "done"
    /\ stage = "work" =>
         \A p \in DOMAIN list : task[p] = "submitted" => list[p] = file.rows[p]
    /\ stage = "work" /\ ~force => \A p \in DOMAIN file.rows :
         file.rows[p] # None => list[p] = file.rows[p] /\ task[p] \in {"submitted", "done"}

\* Nothing is copied or indexed of a project without a checkout, and what was stays of
\* the revision that is checked out, since the checkout is not touched any more; unless
\* it is fetched again.
Untouched(p) ==
  /\ clean[p].revs \subseteq {raw[p].rev} /\ rows[p].sources \subseteq {raw[p].rev}
  /\ rows[p].exists => raw[p] = Tree(rows[p].rev)
  /\ prog = "fetch" /\ task[p] = "cloning" => ~clean[p].exists /\ ~rows[p].exists

CopiesInv ==
  /\ overtaken \subseteq refetched
  /\ \A p \in Project : /\ ~clean[p].exists => clean[p].revs = {}
                        /\ ~rows[p].exists => rows[p].sources = {}
                        /\ p \notin refetched => Untouched(p)

IInv == TypeOK /\ RunInv /\ FileInv /\ FetchInv /\ CopiesInv /\ SourcesOnly
-----------------------------------------------------------------------------
(* Types                                                                    *)

\* The pipeline starts with variables of their types.
LEMMA InitType == Init => TypeOK
<1> SUFFICES ASSUME Init PROVE TypeOK
  OBVIOUS
<1>1. 1 \in 1 .. LastRev /\ 0 \in 0 .. LastRev
  BY NumbersAssumption
<1>2. NoCopy \in [exists : BOOLEAN, revs : SUBSET (0..LastRev), dirty : BOOLEAN]
  BY DEF NoCopy
<1>3. NoRow \in [exists : BOOLEAN, rev : 0..LastRev, sources : SUBSET (0..LastRev)]
  BY <1>1 DEF NoRow, None
<1>4. file.whole = FALSE /\ DOMAIN file.rows = {} /\ DOMAIN list = {}
  BY EmptyDomain DEF Init
<1>5. /\ raw \in [Project -> Trees]
      /\ clean \in [Project -> [exists : BOOLEAN, revs : SUBSET (0..LastRev), dirty : BOOLEAN]]
      /\ rows \in [Project -> [exists : BOOLEAN, rev : 0..LastRev, sources : SUBSET (0..LastRev)]]
  BY <1>1, <1>2, <1>3, TreesAre DEF Init
<1>6. /\ prog \in DOMAIN Following \cup {"none"} /\ due \in DOMAIN Following
      /\ detours \in 0 .. MaxDetours /\ kills \in 0 .. MaxKills
  BY Follows, NumbersAssumption DEF Init
<1>7. task \in [Project -> {"none", "submitted", "cloning", "cloned", "cleaning", "done", "failed"}]
  BY DEF Init, NoTasks
<1>8. /\ stage = "none" /\ force = FALSE /\ cut = {} /\ overtaken = {} /\ refetched = {}
  BY DEF Init
<1> QED
  BY <1>4, <1>5, <1>6, <1>7, <1>8 DEF TypeOK

\* A program that ends leaves nothing in memory.
LEMMA ExitType ==
  ASSUME Exit
  PROVE  /\ prog' = "none" /\ force' = FALSE /\ stage' = "none"
         /\ DOMAIN list' = {} /\ task' = NoTasks
  BY EmptyDomain DEF Exit

\* No step of a program at work on the file or on a project breaks a type.
LEMMA ProgramType ==
  ASSUME TypeOK, RunInv, Program
  PROVE  TypeOK'
<1>1. CASE Load
  BY <1>1 DEF Load, TypeOK, Submitted, disk, operator, ghosts
<1>2. CASE LoadRaises
  BY <1>2, ExitType, Follows DEF LoadRaises, TypeOK, NoTasks, disk, ghosts
<1>3. CASE ChooseProjects
  <2>1. None \in 0 .. LastRev
    BY NumbersAssumption DEF None
  <2> QED
    BY <1>3, <2>1 DEF ChooseProjects, TypeOK, disk, operator, ghosts
<1>4. CASE GetRaises
  BY <1>4, ExitType DEF GetRaises, TypeOK, NoTasks, disk, operator, ghosts
<1>5. CASE Collect
  BY <1>5 DEF Collect, TypeOK, disk, operator, ghosts
<1>6. CASE Truncate
  BY <1>6, EmptyDomain DEF Truncate, TypeOK, operator, ghosts
<1>7. CASE WriteFile
  <2>1. /\ file'.whole = TRUE /\ file'.rows = list /\ overtaken' \subseteq Project
        /\ UNCHANGED <<raw, clean, rows, refetched, cut, detours, kills>> /\ Exit
        /\ due' = Following[prog] /\ prog # "none"
    BY <1>7 DEF WriteFile, TypeOK, RunInv, Succeeds
  <2> QED
    BY <2>1, ExitType, Follows DEF TypeOK, NoTasks
<1>8. CASE SanitizeEnds \/ IndexEnds
  <2>1. /\ UNCHANGED <<file, raw, clean, rows, refetched, overtaken, cut, detours, kills>>
        /\ Exit /\ due' = Following[prog] /\ prog # "none"
    BY <1>8 DEF SanitizeEnds, IndexEnds, Succeeds, disk, ghosts
  <2> QED
    BY <2>1, ExitType, Follows DEF TypeOK, NoTasks
<1>9. CASE IndexRaises
  BY <1>9, ExitType DEF IndexRaises, TypeOK, NoTasks, disk, operator, ghosts
<1> QED
  BY <1>1, <1>2, <1>3, <1>4, <1>5, <1>6, <1>7, <1>8, <1>9 DEF Program

\* Nor does the checkout of a project ...
LEMMA CheckoutType ==
  ASSUME TypeOK, NEW p \in Project, Checkout(p)
  PROVE  TypeOK'
<1>1. CASE SkipCheckout(p) \/ CloneTimesOut(p) \/ ReadRevisionRaises(p)
  BY <1>1 DEF SkipCheckout, CloneTimesOut, ReadRevisionRaises, Goes, TypeOK,
              disk, run, operator, ghosts
<1>2. CASE RemoveCheckout(p) \/ Clone(p) \/ CloneRaises(p)
  <2>1. \E t \in Trees : raw' = [raw EXCEPT ![p] = t]
    BY <1>2, TreesAre DEF RemoveCheckout, Clone, CloneRaises, TypeOK
  <2>2. raw' \in [Project -> Trees]
    BY <2>1 DEF TypeOK
  <2>3. /\ \E where \in {"cloning", "cloned", "failed"} : Goes(p, where)
        /\ UNCHANGED <<file, clean, rows, run, list, operator, overtaken, cut>>
        /\ refetched' \subseteq Project
    BY <1>2 DEF RemoveCheckout, Clone, CloneRaises, Refetch, TypeOK, ghosts
  <2> QED
    BY <2>2, <2>3 DEF Goes, TypeOK, run, operator
<1>3. CASE ReadRevision(p)
  <2>1. raw[p].rev \in 0 .. LastRev
    BY TreesAre DEF TypeOK
  <2>2. DOMAIN list' = DOMAIN list /\ \A q \in DOMAIN list' : list'[q] \in 0 .. LastRev
    BY <1>3, <2>1 DEF ReadRevision, TypeOK
  <2> QED
    BY <1>3, <2>2 DEF ReadRevision, Goes, TypeOK, disk, run, operator, ghosts
<1> QED
  BY <1>1, <1>2, <1>3 DEF Checkout

\* ... nor its copy.
LEMMA SanitizeType ==
  ASSUME TypeOK, NEW p \in Project, Sanitize(p)
  PROVE  TypeOK'
<1>1. CASE SkipSanitize(p) \/ NothingToCopy(p) \/ SanitizeRaises(p)
  BY <1>1 DEF SkipSanitize, NothingToCopy, SanitizeRaises, Goes, TypeOK,
              disk, run, operator, ghosts
<1>2. CASE Copy(p)
  <2>1. raw[p].rev \in 0 .. LastRev
    BY TreesAre DEF TypeOK
  <2>2. clean' \in [Project -> [exists : BOOLEAN, revs : SUBSET (0..LastRev), dirty : BOOLEAN]]
    BY <1>2, <2>1 DEF Copy, TypeOK
  <2> QED
    BY <1>2, <2>2 DEF Copy, Goes, TypeOK, run, operator, ghosts
<1>3. CASE RemoveOthers(p)
  <2>1. clean' \in [Project -> [exists : BOOLEAN, revs : SUBSET (0..LastRev), dirty : BOOLEAN]]
    BY <1>3 DEF RemoveOthers, TypeOK
  <2> QED
    BY <1>3, <2>1 DEF RemoveOthers, Goes, TypeOK, run, operator
<1> QED
  BY <1>1, <1>2, <1>3 DEF Sanitize

\* No step breaks a type.
LEMMA TypeStep ==
  ASSUME TypeOK, RunInv, [Next]_vars
  PROVE  TypeOK'
<1>1. CASE Kill
  BY <1>1, ExitType, NumbersAssumption DEF Kill, TypeOK, NoTasks, disk
<1>2. ASSUME NEW p \in Project, IndexProject(p)
      PROVE  TypeOK'
  <2>1. list[p] \in 0 .. LastRev
    BY <1>2 DEF IndexProject, Works, RunInv, TypeOK
  <2>2. rows' \in [Project -> [exists : BOOLEAN, rev : 0..LastRev, sources : SUBSET (0..LastRev)]]
    <3>1. PICK S \in SUBSET clean[p].revs :
            rows' = [rows EXCEPT ![p] = [exists |-> TRUE,
                                         rev |-> IF @.exists THEN @.rev ELSE list[p],
                                         sources |-> @.sources \cup S]]
      BY <1>2 DEF IndexProject
    <3>2. rows[p].rev \in 0..LastRev /\ rows[p].sources \cup S \in SUBSET (0..LastRev)
      BY <3>1 DEF TypeOK
    <3> QED
      BY <2>1, <3>1, <3>2 DEF TypeOK
  <2> QED
    BY <1>2, <2>2 DEF IndexProject, Goes, TypeOK, disk, run, operator, ghosts
<1>3. ASSUME NEW name \in DOMAIN Following, NEW forced \in BOOLEAN, Start(name, forced)
      PROVE  TypeOK'
  BY <1>3, NumbersAssumption DEF Start, TypeOK, disk, ghosts
<1>4. CASE UNCHANGED vars
  BY <1>4 DEF vars, TypeOK, disk, run, operator, ghosts
<1>5. ASSUME NEW p \in Project, IndexRefused(p)
      PROVE  TypeOK'
  BY <1>5 DEF IndexRefused, Goes, TypeOK, disk, run, operator, ghosts
<1> QED
  BY <1>1, <1>2, <1>3, <1>4, <1>5, ProgramType, CheckoutType, SanitizeType DEF Next, Index
-----------------------------------------------------------------------------
(* What a program has in memory                                             *)

\* What a task may change: its own place, and, in a fetch, a revision in memory.
LEMMA TaskStep ==
  ASSUME TypeOK, NEW p \in Project, Checkout(p) \/ Sanitize(p) \/ Index(p)
  PROVE  /\ UNCHANGED <<file, run, operator, overtaken>>
         /\ stage = "work" /\ prog \in {"fetch", "sanitize", "index"} /\ task[p] # "none"
         /\ DOMAIN list' = DOMAIN list /\ (prog # "fetch" => list' = list)
         /\ \A q \in Project \ {p} : task'[q] = task[q] /\ list'[q] = list[q]
         /\ task'[p] # "none"
<1>1. CASE ReadRevision(p)
  <2>1. /\ DOMAIN list' = DOMAIN list
        /\ \A q \in Project \ {p} : list'[q] = list[q]
    BY <1>1 DEF ReadRevision, TypeOK
  <2> QED
    BY <1>1, <2>1 DEF ReadRevision, Works, Goes, TypeOK, disk, ghosts
<1>2. CASE Checkout(p) /\ ~ReadRevision(p)
  BY <1>2 DEF Checkout, SkipCheckout, RemoveCheckout, Clone, CloneRaises, CloneTimesOut,
              ReadRevisionRaises, Works, Goes, TypeOK, disk, ghosts
<1>3. CASE Sanitize(p) \/ Index(p)
  BY <1>3 DEF Sanitize, SkipSanitize, NothingToCopy, Copy, RemoveOthers, SanitizeRaises,
              Index, IndexProject, IndexRefused, Works, Goes, TypeOK, disk, ghosts
<1> QED
  BY <1>1, <1>2, <1>3

\* No program runs at the start.
LEMMA RunInit == Init => RunInv
  BY EmptyDomain DEF Init, RunInv

\* A program has in memory what it has loaded, and a task for each project of it.
LEMMA RunStep ==
  ASSUME TypeOK, RunInv, [Next]_vars
  PROVE  RunInv'
<1>1. ASSUME Exit PROVE RunInv'
  BY <1>1, ExitType DEF RunInv, NoTasks
<1>2. CASE LoadRaises \/ GetRaises \/ WriteFile \/ SanitizeEnds \/ IndexEnds \/ IndexRaises \/ Kill
  BY <1>1, <1>2 DEF LoadRaises, GetRaises, WriteFile, SanitizeEnds, IndexEnds, IndexRaises, Kill,
                    Succeeds
<1>3. CASE Load
  <2>1. \A p \in Project : task'[p] # "none" <=> p \in DOMAIN file.rows
    BY <1>3 DEF Load, Submitted
  <2> QED
    BY <1>3, <2>1 DEF Load, RunInv, disk
<1>4. CASE ChooseProjects
  BY <1>4 DEF ChooseProjects, RunInv, NoTasks
<1>5. CASE Collect
  BY <1>5 DEF Collect, RunInv, AllEnded
<1>6. CASE Truncate
  BY <1>6 DEF Truncate, RunInv, NoTasks
<1>7. ASSUME NEW p \in Project, Checkout(p) \/ Sanitize(p) \/ Index(p)
      PROVE  RunInv'
  <2>1. /\ UNCHANGED <<file, run>>
        /\ stage = "work" /\ prog \in {"fetch", "sanitize", "index"} /\ task[p] # "none"
        /\ DOMAIN list' = DOMAIN list /\ (prog # "fetch" => list' = list)
        /\ \A q \in Project \ {p} : task'[q] = task[q]
        /\ task'[p] # "none"
    BY <1>7, TaskStep
  <2> QED
    BY <2>1 DEF RunInv, run
<1>8. ASSUME NEW name \in DOMAIN Following, NEW forced \in BOOLEAN, Start(name, forced)
      PROVE  RunInv'
  BY <1>8, Follows DEF Start, RunInv, NoTasks, disk
<1>9. CASE UNCHANGED vars
  BY <1>9 DEF vars, RunInv, NoTasks, run, disk
<1> QED
  BY <1>2, <1>3, <1>4, <1>5, <1>6, <1>7, <1>8, <1>9 DEF Next, Program
-----------------------------------------------------------------------------
(* Copies                                                                   *)

\* A task that cleans is one of a program that sanitizes.
LEMMA SourcesStep ==
  ASSUME TypeOK, RunInv, SourcesOnly, [Next]_vars
  PROVE  SourcesOnly'
<1> SUFFICES ASSUME NEW q \in Project, clean'[q].dirty
             PROVE  q \in cut' \/ (prog' = "sanitize" /\ task'[q] = "cleaning")
  BY DEF SourcesOnly
<1> DEFINE Dirty == q \in cut \/ (prog = "sanitize" /\ task[q] = "cleaning")
<1>1. clean[q].dirty => Dirty
  BY DEF SourcesOnly
<1>2. CASE Kill
  BY <1>1, <1>2 DEF Kill, disk
<1>3. CASE Load \/ LoadRaises
  <2>1. task[q] = "none"
    BY <1>3 DEF Load, LoadRaises, RunInv, NoTasks
  <2> QED
    BY <1>1, <1>3, <2>1 DEF Load, LoadRaises, disk, ghosts
<1>4. CASE \/ ChooseProjects \/ GetRaises \/ Collect \/ Truncate \/ WriteFile
         \/ IndexEnds \/ IndexRaises
  <2>1. prog # "sanitize"
    BY <1>4 DEF ChooseProjects, GetRaises, Collect, Truncate, WriteFile, IndexEnds, IndexRaises,
       RunInv
  <2> QED
    BY <1>1, <1>4, <2>1
    DEF ChooseProjects, GetRaises, Collect, Truncate, WriteFile, IndexEnds, IndexRaises,
        disk, ghosts
<1>5. CASE SanitizeEnds
  <2>1. task[q] # "cleaning"
    BY <1>5 DEF SanitizeEnds, AllEnded
  <2> QED
    BY <1>1, <1>5, <2>1 DEF SanitizeEnds, disk, ghosts
<1>6. ASSUME NEW p \in Project, Checkout(p) \/ Index(p)
      PROVE  Dirty'
  <2>1. prog # "sanitize" /\ UNCHANGED <<clean, cut>>
    BY <1>6 DEF Checkout, SkipCheckout, RemoveCheckout, Clone, CloneRaises, CloneTimesOut,
       ReadRevision, ReadRevisionRaises, Index, IndexProject, IndexRefused, Refetch, Works,
       disk, ghosts
  <2> QED
    BY <1>1, <2>1
<1>7. ASSUME NEW p \in Project, Sanitize(p)
      PROVE  Dirty'
  <2>1. prog = "sanitize" /\ prog' = "sanitize"
    BY <1>7 DEF Sanitize, SkipSanitize, NothingToCopy, Copy, RemoveOthers, SanitizeRaises,
       Works, run
  <2>2. CASE q = p
    <3>1. CASE SkipSanitize(p) \/ NothingToCopy(p)
      BY <1>1, <2>2, <3>1 DEF SkipSanitize, NothingToCopy, Works, disk, ghosts
    <3>2. CASE Copy(p)
      BY <2>1, <2>2, <3>2 DEF Copy, Goes, TypeOK
    <3>3. CASE RemoveOthers(p)
      BY <2>2, <3>3 DEF RemoveOthers, TypeOK
    <3>4. CASE SanitizeRaises(p)
      BY <2>2, <3>4 DEF SanitizeRaises
    <3> QED
      BY <1>7, <3>1, <3>2, <3>3, <3>4 DEF Sanitize
  <2>3. CASE q # p
    <3>1. clean'[q] = clean[q] /\ task'[q] = task[q] /\ (q \in cut => q \in cut')
      BY <1>7, <2>3 DEF Sanitize, SkipSanitize, NothingToCopy, Copy, RemoveOthers,
         SanitizeRaises, Goes, TypeOK, disk, ghosts
    <3> QED
      BY <1>1, <2>1, <3>1
  <2> QED
    BY <2>2, <2>3
<1>8. ASSUME NEW name \in DOMAIN Following, NEW forced \in BOOLEAN, Start(name, forced)
      PROVE  Dirty'
  BY <1>1, <1>8 DEF Start, disk, ghosts
<1>9. CASE UNCHANGED vars
  BY <1>1, <1>9 DEF vars, disk, run, ghosts
<1> QED
  BY <1>2, <1>3, <1>4, <1>5, <1>6, <1>7, <1>8, <1>9 DEF Next, Program
-----------------------------------------------------------------------------
(* The file and the checkouts                                               *)

\* What a fetch does to a project: it lets it be, it works on its checkout, or it
\* reads the revision of a whole one.
LEMMA CheckoutStep ==
  ASSUME TypeOK, RunInv, FetchInv, NEW p \in Project, Checkout(p)
  PROVE  /\ prog = "fetch" /\ p \in DOMAIN list /\ p \in DOMAIN file.rows
         /\ \A q \in Project \ {p} : raw'[q] = raw[q]
         /\ UNCHANGED <<clean, rows>>
         /\ \/ SkipCheckout(p) /\ raw' = raw /\ list' = list /\ task'[p] = "done"
            \/ /\ task[p] \in {"submitted", "cloning"} /\ (force \/ file.rows[p] = None)
               /\ task'[p] \in {"cloning", "cloned", "failed"} /\ list' = list
               /\ task'[p] = "cloned" => raw'[p] \in {Tree(n) : n \in 1 .. LastRev}
            \/ task[p] = "cloned" /\ task'[p] = "failed" /\ raw' = raw /\ list' = list
            \/ /\ task[p] = "cloned" /\ task'[p] = "done" /\ raw' = raw
               /\ list'[p] = raw[p].rev
<1>1. prog = "fetch" /\ stage = "work" /\ task[p] # "none"
  BY DEF Checkout, SkipCheckout, RemoveCheckout, Clone, CloneRaises, CloneTimesOut,
     ReadRevision, ReadRevisionRaises, Works
<1>2. p \in DOMAIN list /\ p \in DOMAIN file.rows
  BY <1>1 DEF RunInv
<1>3. /\ UNCHANGED <<clean, rows>>
      /\ \A q \in Project \ {p} : raw'[q] = raw[q]
  BY DEF Checkout, SkipCheckout, RemoveCheckout, Clone, CloneRaises, CloneTimesOut,
     ReadRevision, ReadRevisionRaises, TypeOK, disk
<1>4. CASE SkipCheckout(p)
  BY <1>1, <1>2, <1>3, <1>4 DEF SkipCheckout, Goes, TypeOK, disk
<1>5. CASE RemoveCheckout(p)
  <2>1. force \/ file.rows[p] = None
    BY <1>1, <1>2, <1>5 DEF RemoveCheckout, Works, FetchInv
  <2> QED
    BY <1>1, <1>2, <1>3, <1>5, <2>1 DEF RemoveCheckout, Works, Goes, TypeOK
<1>6. CASE Clone(p) \/ CloneRaises(p) \/ CloneTimesOut(p)
  <2>1. task[p] = "cloning" /\ list' = list
    BY <1>6 DEF Clone, CloneRaises, CloneTimesOut, Works
  <2>2. force \/ file.rows[p] = None
    BY <1>1, <1>2, <2>1 DEF FetchInv
  <2>3. CASE Clone(p)
    <3>1. PICK n \in 1 .. LastRev : raw' = [raw EXCEPT ![p] = Tree(n)]
      BY <2>3 DEF Clone
    <3>2. raw'[p] = Tree(n) /\ task'[p] = "cloned"
      BY <2>3, <3>1 DEF Clone, Goes, TypeOK
    <3> QED
      BY <1>1, <1>2, <1>3, <2>1, <2>2, <3>2
  <2>4. CASE CloneRaises(p) \/ CloneTimesOut(p)
    <3>1. task'[p] = "failed"
      BY <2>4 DEF CloneRaises, CloneTimesOut, Goes, TypeOK
    <3> QED
      BY <1>1, <1>2, <1>3, <2>1, <2>2, <3>1
  <2> QED
    BY <1>6, <2>3, <2>4
<1>7. CASE ReadRevision(p)
  <2>1. list'[p] = raw[p].rev /\ task[p] = "cloned" /\ task'[p] = "done" /\ raw' = raw
    BY <1>2, <1>7 DEF ReadRevision, Works, Goes, TypeOK, disk
  <2> QED
    BY <1>1, <1>2, <1>3, <2>1
<1>8. CASE ReadRevisionRaises(p)
  <2>1. task[p] = "cloned" /\ task'[p] = "failed" /\ raw' = raw /\ list' = list
    BY <1>8 DEF ReadRevisionRaises, Works, Goes, TypeOK, disk
  <2> QED
    BY <1>1, <1>2, <1>3, <2>1
<1> QED
  BY <1>4, <1>5, <1>6, <1>7, <1>8 DEF Checkout

\* What a fetch has in memory stays true of the disk while its tasks go on.
LEMMA FetchStep ==
  ASSUME TypeOK, RunInv, FileInv, FetchInv, [Next]_vars
  PROVE  FetchInv'
<1>1. CASE prog' # "fetch"
  BY <1>1 DEF FetchInv
<1>2. CASE Load
  <2>1. /\ list' = file.rows /\ file' = file /\ DOMAIN file.rows \subseteq Project
        /\ \A p \in Project : task'[p] = IF p \in DOMAIN file.rows THEN "submitted" ELSE "none"
        /\ stage' = "work"
    BY <1>2 DEF Load, Submitted, TypeOK, disk
  <2>2. \A p \in DOMAIN file.rows : task'[p] = "submitted"
    BY <2>1
  <2> QED
    BY <2>1, <2>2 DEF FetchInv
<1>3. CASE Collect
  <2>1. /\ DOMAIN list' \subseteq DOMAIN list
        /\ \A p \in DOMAIN list' : list'[p] = list[p] /\ task[p] = "done"
    BY <1>3 DEF Collect
  <2> QED
    BY <1>3, <2>1 DEF Collect, FetchInv, disk, ghosts
<1>4. CASE Truncate
  BY <1>4 DEF Truncate, FetchInv, ghosts
<1>5. ASSUME NEW p \in Project, Checkout(p)
      PROVE  FetchInv'
  <2>1. /\ UNCHANGED <<file, run, overtaken>> /\ stage = "work"
        /\ DOMAIN list' = DOMAIN list /\ DOMAIN list \subseteq Project
        /\ DOMAIN file.rows \subseteq Project
        /\ \A q \in Project \ {p} : task'[q] = task[q] /\ list'[q] = list[q]
    BY <1>5, TaskStep DEF TypeOK
  <2>2. /\ prog = "fetch" /\ p \in DOMAIN list /\ p \in DOMAIN file.rows
        /\ \A q \in Project \ {p} : raw'[q] = raw[q]
    BY <1>5, CheckoutStep
  <2> DEFINE About(q) ==
       /\ task[q] = "cloned" => raw[q] \in {Tree(n) : n \in 1 .. LastRev}
       /\ q \in DOMAIN list /\ task[q] = "done" =>
            list[q] # None /\ (raw[q] = Tree(list[q]) \/ (~force /\ q \in overtaken))
       /\ q \in DOMAIN list /\ task[q] = "submitted" => list[q] = file.rows[q]
       /\ q \in DOMAIN file.rows /\ ~force /\ file.rows[q] # None =>
            list[q] = file.rows[q] /\ task[q] \in {"submitted", "done"}
  <2>3. \A q \in Project : About(q)
    BY <2>1, <2>2 DEF FetchInv
  <2>4. ASSUME NEW q \in Project \ {p} PROVE About(q)'
    BY <2>1, <2>2, <2>3 DEF run
  <2>5. About(p)'
    <3>1. CASE SkipCheckout(p) /\ raw' = raw /\ list' = list /\ task'[p] = "done"
      <4>1. task[p] = "submitted" /\ list[p] # None /\ ~force
        BY <3>1 DEF SkipCheckout, Works
      <4>2. list[p] = file.rows[p] /\ file.whole
        BY <2>1, <2>2, <2>3, <4>1 DEF RunInv
      <4>3. raw[p] = Tree(list[p]) \/ p \in overtaken
        BY <2>2, <4>1, <4>2 DEF FileInv
      <4> QED
        BY <2>1, <2>2, <3>1, <4>1, <4>2, <4>3 DEF run
    <3>2. CASE /\ task[p] \in {"submitted", "cloning"} /\ (force \/ file.rows[p] = None)
               /\ task'[p] \in {"cloning", "cloned", "failed"} /\ list' = list
               /\ task'[p] = "cloned" => raw'[p] \in {Tree(n) : n \in 1 .. LastRev}
      BY <2>1, <3>2 DEF run
    <3>3. CASE task[p] = "cloned" /\ task'[p] = "failed" /\ raw' = raw /\ list' = list
      BY <2>1, <2>2, <2>3, <3>3 DEF run
    <3>4. CASE /\ task[p] = "cloned" /\ task'[p] = "done" /\ raw' = raw
               /\ list'[p] = raw[p].rev
      <4>1. PICK n \in 1 .. LastRev : raw[p] = Tree(n)
        BY <2>3, <3>4
      <4>2. list'[p] = n /\ n # None
        BY <3>4, <4>1, TreesAre, NumbersAssumption DEF None
      <4>3. force \/ file.rows[p] = None
        BY <2>2, <2>3, <3>4
      <4> QED
        BY <2>1, <2>2, <3>4, <4>1, <4>2, <4>3 DEF run
    <3> QED
      BY <1>5, <3>1, <3>2, <3>3, <3>4, CheckoutStep
  <2>6. \A q \in Project : About(q)'
    BY <2>4, <2>5
  <2> QED
    BY <2>1, <2>2, <2>6 DEF FetchInv, run
<1>6. ASSUME NEW name \in DOMAIN Following, NEW forced \in BOOLEAN, Start(name, forced)
      PROVE  FetchInv'
  BY <1>6 DEF Start, FetchInv, RunInv, NoTasks, disk
<1>7. CASE UNCHANGED vars
  BY <1>7 DEF vars, FetchInv, disk, run, ghosts
<1>8. \/ prog' # "fetch" \/ Load \/ Collect \/ Truncate \/ UNCHANGED vars
      \/ \E p \in Project : Checkout(p)
      \/ \E name \in DOMAIN Following, forced \in BOOLEAN : Start(name, forced)
  <2>1. ASSUME NEW p \in Project, Sanitize(p) \/ Index(p)
        PROVE  prog' # "fetch"
    BY <2>1 DEF Sanitize, SkipSanitize, NothingToCopy, Copy, RemoveOthers, SanitizeRaises,
       Index, IndexProject, IndexRefused, Works, run
  <2>2. ASSUME \/ LoadRaises \/ GetRaises \/ WriteFile \/ SanitizeEnds
               \/ IndexEnds \/ IndexRaises \/ Kill
        PROVE  prog' # "fetch"
    BY <2>2 DEF LoadRaises, GetRaises, WriteFile, SanitizeEnds, IndexEnds, IndexRaises, Kill,
       Succeeds, Exit
  <2>3. ASSUME ChooseProjects PROVE prog' # "fetch"
    BY <2>3 DEF ChooseProjects
  <2> QED
    BY <2>1, <2>2, <2>3 DEF Next, Program
<1> QED
  BY <1>1, <1>2, <1>3, <1>4, <1>5, <1>6, <1>7, <1>8

\* The revisions of the file stay those of the checkouts.
LEMMA FileStep ==
  ASSUME TypeOK, RunInv, FileInv, FetchInv, [Next]_vars
  PROVE  FileInv'
<1> DEFINE Kept(q) == \/ file.rows[q] = None \/ raw[q] = Tree(file.rows[q])
                      \/ q \in overtaken
                      \/ prog = "fetch" /\ force /\ task[q] \notin {"none", "submitted"}
<1>1. CASE ~file'.whole
  BY <1>1 DEF FileInv
<1>2. CASE WriteFile
  <2>1. file'.rows = list /\ raw' = raw
    BY <1>2 DEF WriteFile
  <2>2. CASE prog = "get"
    BY <2>1, <2>2 DEF RunInv, FileInv
  <2>3. CASE prog = "fetch"
    <3>1. \A p \in DOMAIN list : raw[p] = Tree(list[p]) \/ (~force /\ p \in overtaken)
      BY <1>2, <2>3 DEF WriteFile, FetchInv
    <3>2. ~force => overtaken' = overtaken
      BY <1>2, <2>3 DEF WriteFile
    <3> QED
      BY <2>1, <3>1, <3>2 DEF FileInv
  <2> QED
    BY <1>2, <2>2, <2>3 DEF WriteFile, RunInv
<1>3. CASE Kill
  <2>1. DOMAIN file.rows \subseteq Project
    BY DEF TypeOK
  <2> QED
    BY <1>3, <2>1 DEF Kill, FileInv, disk
<1>4. CASE Load \/ LoadRaises
  <2>1. \A p \in Project : task[p] = "none"
    BY <1>4 DEF Load, LoadRaises, RunInv, NoTasks
  <2>2. UNCHANGED <<file, raw, overtaken>> /\ DOMAIN file.rows \subseteq Project
    BY <1>4 DEF Load, LoadRaises, TypeOK, disk, ghosts
  <2> QED
    BY <2>1, <2>2 DEF FileInv
<1>5. CASE ChooseProjects \/ GetRaises \/ SanitizeEnds \/ IndexEnds \/ IndexRaises
  <2>1. prog # "fetch" /\ UNCHANGED <<file, raw, overtaken>>
    BY <1>5 DEF ChooseProjects, GetRaises, SanitizeEnds, IndexEnds, IndexRaises, disk, ghosts
  <2> QED
    BY <2>1 DEF FileInv
<1>6. CASE Collect
  BY <1>6 DEF Collect, FileInv, disk, ghosts
<1>7. CASE Truncate
  BY <1>1, <1>7 DEF Truncate
<1>8. ASSUME NEW p \in Project, Checkout(p)
      PROVE  FileInv'
  <2>1. /\ UNCHANGED <<file, run, overtaken>> /\ stage = "work"
        /\ DOMAIN file.rows \subseteq Project
        /\ \A q \in Project \ {p} : task'[q] = task[q]
    BY <1>8, TaskStep DEF TypeOK
  <2>2. prog = "fetch" /\ p \in DOMAIN file.rows /\ \A q \in Project \ {p} : raw'[q] = raw[q]
    BY <1>8, CheckoutStep
  <2>3. file.whole => \A q \in DOMAIN file.rows : Kept(q)
    BY DEF FileInv
  <2>4. ASSUME file.whole, NEW q \in DOMAIN file.rows \ {p}
        PROVE  Kept(q)'
    BY <2>1, <2>2, <2>3, <2>4 DEF run
  <2>5. ASSUME file.whole PROVE Kept(p)'
    <3>1. CASE raw' = raw /\ task'[p] \in {"done", "failed"}
      BY <2>1, <2>2, <2>3, <2>5, <3>1 DEF run
    <3>2. CASE (force \/ file.rows[p] = None) /\ task'[p] \in {"cloning", "cloned", "failed"}
      BY <2>1, <2>2, <3>2 DEF run
    <3> QED
      BY <1>8, <3>1, <3>2, CheckoutStep
  <2> QED
    BY <2>1, <2>4, <2>5 DEF FileInv
<1>9. ASSUME NEW p \in Project, Sanitize(p) \/ Index(p)
       PROVE  FileInv'
  <2>1. prog # "fetch" /\ UNCHANGED <<file, raw, overtaken>>
    BY <1>9 DEF Sanitize, SkipSanitize, NothingToCopy, Copy, RemoveOthers, SanitizeRaises,
       Index, IndexProject, IndexRefused, Works, disk, ghosts
  <2> QED
    BY <2>1 DEF FileInv
<1>10. ASSUME NEW name \in DOMAIN Following, NEW forced \in BOOLEAN, Start(name, forced)
       PROVE  FileInv'
  BY <1>10 DEF Start, FileInv, disk, ghosts
<1>11. CASE UNCHANGED vars
  BY <1>11 DEF vars, FileInv, disk, run, ghosts
<1> QED
  BY <1>2, <1>3, <1>4, <1>5, <1>6, <1>7, <1>8, <1>9, <1>10, <1>11 DEF Next, Program
-----------------------------------------------------------------------------
(* Copies and rows                                                          *)

\* A fetch that touches a checkout has said so if there is a copy or a row of it.
LEMMA CopiesCheckout ==
  ASSUME TypeOK, CopiesInv, NEW p \in Project, Checkout(p)
  PROVE  CopiesInv'
<1>1. /\ UNCHANGED <<clean, rows, prog, overtaken>> /\ prog = "fetch"
      /\ refetched \subseteq refetched'
      /\ \A q \in Project \ {p} : raw'[q] = raw[q] /\ task'[q] = task[q]
  BY DEF Checkout, SkipCheckout, RemoveCheckout, Clone, CloneRaises, CloneTimesOut, ReadRevision,
     ReadRevisionRaises, Refetch, Works, Goes, TypeOK, disk, run, ghosts
<1>2. SUFFICES ASSUME p \notin refetched' PROVE Untouched(p)'
  BY <1>1, <1>2 DEF CopiesInv, Untouched
<1>3. Untouched(p) /\ (~clean[p].exists => clean[p].revs = {})
                   /\ (~rows[p].exists => rows[p].sources = {})
  BY <1>1, <1>2 DEF CopiesInv
<1>4. CASE RemoveCheckout(p) \/ Clone(p) \/ CloneRaises(p)
  <2>1. ~clean[p].exists /\ ~rows[p].exists
    <3>1. CASE RemoveCheckout(p)
      BY <1>2, <3>1 DEF RemoveCheckout, Refetch
    <3>2. CASE Clone(p) \/ CloneRaises(p)
      BY <1>1, <1>3, <3>2 DEF Clone, CloneRaises, Works, Untouched
    <3> QED
      BY <1>4, <3>1, <3>2
  <2> QED
    BY <1>1, <1>3, <2>1 DEF Untouched
<1>5. CASE ~(RemoveCheckout(p) \/ Clone(p) \/ CloneRaises(p))
  <2>1. raw' = raw /\ task'[p] # "cloning"
    BY <1>5 DEF Checkout, SkipCheckout, CloneTimesOut, ReadRevision, ReadRevisionRaises, Goes,
       TypeOK, disk
  <2> QED
    BY <1>1, <1>3, <2>1 DEF Untouched
<1> QED
  BY <1>4, <1>5

\* A copy is of what is checked out.
LEMMA CopiesSanitize ==
  ASSUME TypeOK, CopiesInv, NEW p \in Project, Sanitize(p)
  PROVE  CopiesInv'
<1>1. /\ UNCHANGED <<raw, rows, prog, overtaken, refetched>> /\ prog = "sanitize"
      /\ \A q \in Project \ {p} : clean'[q] = clean[q]
  BY DEF Sanitize, SkipSanitize, NothingToCopy, Copy, RemoveOthers, SanitizeRaises, Works, TypeOK,
     disk, run, ghosts
<1>2. /\ clean'[p].revs \subseteq clean[p].revs \cup {raw[p].rev}
      /\ ~clean'[p].exists => clean'[p].revs = {}
  <2>1. CASE Copy(p)
    BY <2>1 DEF Copy, TypeOK
  <2>2. CASE RemoveOthers(p)
    BY <2>2 DEF RemoveOthers, TypeOK, CopiesInv
  <2>3. CASE clean' = clean
    BY <2>3 DEF CopiesInv
  <2> QED
    BY <2>1, <2>2, <2>3 DEF Sanitize, SkipSanitize, NothingToCopy, SanitizeRaises, disk
<1> QED
  BY <1>1, <1>2 DEF CopiesInv, Untouched

\* A row is of the revision of the file, which is the one that is checked out.
LEMMA CopiesIndex ==
  ASSUME TypeOK, RunInv, FileInv, CopiesInv, NEW p \in Project, Index(p)
  PROVE  CopiesInv'
<1>1. CASE IndexRefused(p)
  BY <1>1 DEF IndexRefused, Works, CopiesInv, Untouched, disk, run, ghosts
<1>2. CASE IndexProject(p)
  <2>1. /\ UNCHANGED <<raw, clean, prog, overtaken, refetched>> /\ prog = "index"
        /\ \A q \in Project \ {p} : rows'[q] = rows[q]
    BY <1>2 DEF IndexProject, Works, TypeOK, disk, run, ghosts
  <2>2. /\ rows'[p].exists /\ rows'[p].rev = IF rows[p].exists THEN rows[p].rev ELSE list[p]
        /\ rows'[p].sources \subseteq rows[p].sources \cup clean[p].revs
    <3>1. PICK S \in SUBSET clean[p].revs :
            rows' = [rows EXCEPT ![p] = [exists |-> TRUE,
                                         rev |-> IF @.exists THEN @.rev ELSE list[p],
                                         sources |-> @.sources \cup S]]
      BY <1>2 DEF IndexProject
    <3> QED
      BY <3>1 DEF TypeOK
  <2>3. ASSUME p \notin refetched PROVE raw[p] = Tree(rows'[p].rev)
    <3>1. CASE rows[p].exists
      BY <2>2, <2>3, <3>1 DEF CopiesInv, Untouched
    <3>2. CASE ~rows[p].exists
      <4>1. list[p] # None /\ p \in DOMAIN file.rows /\ list[p] = file.rows[p] /\ file.whole
        BY <1>2, <3>2 DEF IndexProject, Works, RunInv
      <4>2. raw[p] = Tree(list[p])
        BY <2>1, <2>3, <4>1 DEF FileInv, CopiesInv
      <4> QED
        BY <2>2, <3>2, <4>2
    <3> QED
      BY <3>1, <3>2
  <2> QED
    BY <2>1, <2>2, <2>3 DEF CopiesInv, Untouched
<1> QED
  BY <1>1, <1>2 DEF Index

\* No step changes what was copied or indexed, unless it fetches the project again.
LEMMA CopiesStep ==
  ASSUME TypeOK, RunInv, FileInv, CopiesInv, [Next]_vars
  PROVE  CopiesInv'
<1>1. ASSUME UNCHANGED <<raw, clean, rows>>, refetched \subseteq refetched',
             overtaken' \subseteq refetched',
             prog' = "fetch" => \A q \in Project : task'[q] = "cloning" =>
                                                     prog = "fetch" /\ task[q] = "cloning"
      PROVE  CopiesInv'
  BY <1>1 DEF CopiesInv, Untouched
<1>2. CASE Load \/ LoadRaises \/ ChooseProjects \/ GetRaises \/ Collect \/ Truncate
  BY <1>1, <1>2 DEF Load, LoadRaises, ChooseProjects, GetRaises, Collect, Truncate, Submitted,
     Exit, CopiesInv, disk, ghosts
<1>3. CASE WriteFile \/ SanitizeEnds \/ IndexEnds \/ IndexRaises \/ Kill
  BY <1>1, <1>3 DEF WriteFile, SanitizeEnds, IndexEnds, IndexRaises, Kill, Succeeds, Exit,
     CopiesInv, disk, ghosts
<1>4. ASSUME NEW name \in DOMAIN Following, NEW forced \in BOOLEAN, Start(name, forced)
      PROVE  CopiesInv'
  <2>1. task' = NoTasks
    BY <1>4 DEF Start, RunInv
  <2> QED
    BY <1>1, <1>4, <2>1 DEF Start, NoTasks, CopiesInv, disk, ghosts
<1>5. CASE UNCHANGED vars
  BY <1>1, <1>5 DEF vars, CopiesInv, disk, run, ghosts
<1> QED
  BY <1>2, <1>3, <1>4, <1>5, CopiesCheckout, CopiesSanitize, CopiesIndex DEF Next, Program
-----------------------------------------------------------------------------
(* The theorems                                                             *)

\* The pipeline starts with no file, no checkout and no row.
LEMMA IInvInit == Init => IInv
<1> SUFFICES ASSUME Init PROVE IInv
  OBVIOUS
<1>1. TypeOK /\ RunInv
  BY InitType, RunInit
<1>2. FileInv /\ FetchInv
  BY DEF Init, FileInv, FetchInv
<1>3. CopiesInv /\ SourcesOnly
  BY DEF Init, CopiesInv, Untouched, SourcesOnly, NoCopy, NoRow
<1> QED
  BY <1>1, <1>2, <1>3 DEF IInv

\* The parts of the invariant together are inductive.
LEMMA IInvStep == IInv /\ [Next]_vars => IInv'
  BY TypeStep, RunStep, FileStep, FetchStep, CopiesStep, SourcesStep DEF IInv

\* The invariant holds whatever the operator does and whoever is killed.
LEMMA IInvCorrect == Spec => []IInv
  BY IInvInit, IInvStep, PTL DEF Spec

\* The file, the directories, the database and the programs keep their types.
THEOREM SamplingTypeCorrect == Spec => []TypeOK
<1>1. IInv => TypeOK
  BY DEF IInv
<1> QED
  BY <1>1, IInvCorrect, PTL

\* A revision in the file is the one that is checked out, whatever was killed.
THEOREM RevisionIsCheckedOut == Spec => []RevisionsTrue
<1>1. IInv => RevisionsTrue
  BY DEF IInv, FileInv, RevisionsTrue
<1> QED
  BY <1>1, IInvCorrect, PTL

\* Whatever programs run, in any order, and whichever are killed: all the files of an
\* indexed project are of its revision, unless it was fetched again in between.
THEOREM IndexedUnderOneRevision == Spec => []IndexedRevision
<1>1. IInv => IndexedRevision
  <2> SUFFICES ASSUME IInv, NEW p \in Project, rows[p].exists, p \notin refetched
               PROVE  rows[p].sources \subseteq {rows[p].rev}
    BY DEF IndexedRevision
  <2>1. rows[p].sources \subseteq {raw[p].rev} /\ raw[p] = Tree(rows[p].rev)
    BY DEF IInv, CopiesInv, Untouched
  <2> QED
    BY <2>1, TreesAre
<1> QED
  BY <1>1, IInvCorrect, PTL

\* A copy has something else than sources only if its cleaning did not end.
THEOREM CopiesAreSources == Spec => []SourcesOnly
<1>1. IInv => SourcesOnly
  BY DEF IInv
<1> QED
  BY <1>1, IInvCorrect, PTL

\* A fetch keeps what was fetched before it.
THEOREM FetchKeeps == Spec => FetchedKept
<1> DEFINE Kept == prog = "fetch" /\ ~force /\ stage = "work" /\ stage' = "dump"
                     => \A p \in DOMAIN file.rows :
                          file.rows[p] # None => p \in DOMAIN list' /\ list'[p] = file.rows[p]
<1>1. IInv /\ [Next]_vars => Kept
  <2> SUFFICES ASSUME IInv, [Next]_vars, prog = "fetch", ~force, stage = "work", stage' = "dump",
                      NEW p \in DOMAIN file.rows, file.rows[p] # None
               PROVE  p \in DOMAIN list' /\ list'[p] = file.rows[p]
    OBVIOUS
  <2>1. Collect
    <3>1. ASSUME NEW q \in Project, Checkout(q) \/ Sanitize(q) \/ Index(q)
          PROVE  FALSE
      BY <3>1, TaskStep DEF IInv, run
    <3> QED
      BY <3>1 DEF Next, Program, Load, LoadRaises, ChooseProjects, GetRaises, Truncate, WriteFile,
         SanitizeEnds, IndexEnds, IndexRaises, Kill, Exit, Succeeds, Start, vars, run
  <2>2. p \in DOMAIN list /\ p \in Project
    BY DEF IInv, RunInv, TypeOK
  <2>3. list[p] = file.rows[p] /\ task[p] \in {"submitted", "done"}
    BY DEF IInv, FetchInv
  <2>4. task[p] = "done"
    BY <2>1, <2>2, <2>3 DEF Collect, AllEnded
  <2> QED
    BY <2>1, <2>2, <2>3, <2>4 DEF Collect
<1> QED
  BY <1>1, IInvCorrect, PTL DEF Spec, FetchedKept
=============================================================================
