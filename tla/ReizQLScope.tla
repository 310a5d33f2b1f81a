------------------------------ MODULE ReizQLScope ------------------------------
(***************************************************************************)
(* The references ~name of a query: the compiler walks the pattern, opens  *)
(* a scope for every list matcher, and binds or resolves each reference on *)
(* the way.  When the walk is over it rejects names that are used once.    *)
(***************************************************************************)
EXTENDS Naturals, Sequences, SequencesExt, FiniteSets

CONSTANTS
  Names,        \* names of references
  Types,        \* types of the fields references stand in
  Referable,    \* those a reference may be defined on: str, int and expressions
  MaxScopes,    \* bound: scopes of one query
  MaxSeen       \* bound: references of one query

ASSUME ReferableAssumption == Referable \subseteq Types
ASSUME BoundsAssumption == MaxScopes \in Nat \ {0} /\ MaxSeen \in Nat

VARIABLES
  status,       \* "walking", or how the compilation ended
  path,         \* state.scope: its parents and itself, the root scope first
  scopes,       \* scopes created so far; they are numbered
  definitions,  \* the dictionary all scopes share: where a name is defined
  counts,       \* reference_counts of each scope
  seen          \* the references met so far, with the scopes open at each

vars == <<status, path, scopes, definitions, counts, seen>>

Scope     == 1 .. MaxScopes
Undefined == [scope |-> 0, at |-> 0]
Defined(name) == definitions[name].at # 0

Reference(name, type) == [name |-> name, type |-> type, path |-> path]

Init == /\ status = "walking"
        /\ path = <<1>> /\ scopes = 1
        /\ definitions = [n \in Names |-> Undefined]
        /\ counts = [s \in Scope |-> [n \in Names |-> 0]]
        /\ seen = << >>

\* new_scope: a list matcher is entered
EnterList == /\ status = "walking" /\ scopes < MaxScopes
             /\ scopes' = scopes + 1
             /\ path' = Append(path, scopes + 1)
             /\ UNCHANGED <<status, definitions, counts, seen>>

\* mutant: the scope of the root can be left, too
LeaveAnyList == /\ status = "walking"
                /\ path' = Front(path)
                /\ UNCHANGED <<status, scopes, definitions, counts, seen>>

\* the finally of new_scope
LeaveList == /\ status = "walking" /\ Len(path) > 1
             /\ path' = Front(path)
             /\ UNCHANGED <<status, scopes, definitions, counts, seen>>

\* compile_reference of a name that is new
Define(name, type) ==
  /\ status = "walking" /\ Len(seen) < MaxSeen /\ ~Defined(name)
  /\ type \in Referable
  /\ seen' = Append(seen, Reference(name, type))
  /\ definitions' = [definitions EXCEPT ![name] = [scope |-> Last(path), at |-> Len(seen) + 1]]
  /\ UNCHANGED <<status, path, scopes, counts>>

\* mutant: the reference counts for the scope it stands in
ResolveCountedHere(name, type) ==
  /\ status = "walking" /\ Len(seen) < MaxSeen /\ Defined(name)
  /\ seen[definitions[name].at].type = type
  /\ seen' = Append(seen, Reference(name, type))
  /\ counts' = [counts EXCEPT ![Last(path)][name] = @ + 1]
  /\ UNCHANGED <<status, path, scopes, definitions>>

\* mutant: the types of the two fields are not compared
ResolveUntyped(name, type) ==
  /\ status = "walking" /\ Len(seen) < MaxSeen /\ Defined(name)
  /\ type \in Referable
  /\ seen' = Append(seen, Reference(name, type))
  /\ counts' = [counts EXCEPT ![definitions[name].scope][name] = @ + 1]
  /\ UNCHANGED <<status, path, scopes, definitions>>

\* compile_reference of a name that is found
Resolve(name, type) ==
  /\ status = "walking" /\ Len(seen) < MaxSeen /\ Defined(name)
  /\ seen[definitions[name].at].type = type
  /\ seen' = Append(seen, Reference(name, type))
  /\ counts' = [counts EXCEPT ![definitions[name].scope][name] = @ + 1]
  /\ UNCHANGED <<status, path, scopes, definitions>>

\* state.ensure fails
CheckFails(name, type) ==
  /\ status = "walking" /\ Len(seen) < MaxSeen
  /\ IF Defined(name) THEN seen[definitions[name].at].type # type ELSE type \notin Referable
  /\ status' = "check failed"
  /\ UNCHANGED <<path, scopes, definitions, counts, seen>>

Unused(name) == Defined(name) /\ counts[definitions[name].scope][name] < 1

\* exit of the root scope, which verifies it
ExitRoot == /\ status = "walking" /\ Len(path) = 1
            /\ status' = IF \E n \in Names : Unused(n) THEN "unused reference" ELSE "compiled"
            /\ UNCHANGED <<path, scopes, definitions, counts, seen>>

Next == \/ EnterList \/ LeaveList \/ ExitRoot
        \/ \E n \in Names, t \in Types : Define(n, t) \/ Resolve(n, t) \/ CheckFails(n, t)

Spec == Init /\ [][Next]_vars
-----------------------------------------------------------------------------
(* Properties                                                               *)

References == [name : Names, type : Types, path : Seq(Scope)]

TypeOK ==
  /\ status \in {"walking", "compiled", "unused reference", "check failed"}
  /\ path \in Seq(Scope) /\ path # << >>
  /\ scopes \in Scope
  /\ definitions \in [Names -> [scope : 0 .. MaxScopes, at : Nat]]
  /\ counts \in [Scope -> [Names -> Nat]]
  /\ seen \in Seq(References)

\* A query compiles only if every reference in it is paired with another of its
\* name, and is only called unused if some reference stands alone, however the
\* definition and the uses are spread over nested and sibling lists.
CompiledIffUsed ==
  LET paired == \A i \in DOMAIN seen :
                  \E j \in DOMAIN seen \ {i} : seen[j].name = seen[i].name
  IN /\ status = "compiled" => paired
     /\ status = "unused reference" => ~paired

\* References of one name stand in fields of one type, so that comparing their
\* values, or their tags, is comparing like with like.
SameType ==
  \A i, j \in DOMAIN seen : seen[i].name = seen[j].name => seen[i].type = seen[j].type

\* The comment on Scope: a scope reaches its parents up to the root and neither the
\* scopes of its siblings nor those of its children.
LinearAccess ==
  \A i, j \in DOMAIN seen :
    /\ seen[i].name = seen[j].name /\ i # j
    /\ definitions[seen[i].name].at = i
    => Last(seen[i].path) \in ToSet(seen[j].path)
=============================================================================
