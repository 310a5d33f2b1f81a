-------------------------- MODULE ReizQLScopeProofs --------------------------
(***************************************************************************)
(* Proofs about ReizQLScope, for any names, types and number of scopes and *)
(* references.                                                             *)
(***************************************************************************)
EXTENDS ReizQLScope, SequenceTheorems, TLAPS

\* The path always has the scope of the root at its head.
LEMMA PathBasics ==
  ASSUME TypeOK
  PROVE  /\ path \in Seq(Scope) /\ Len(path) \in Nat \ {0}
         /\ \A i \in 1 .. Len(path) : path[i] \in Scope
<1>1. path \in Seq(Scope) /\ path # << >>
  BY DEF TypeOK
<1> QED
  BY <1>1, EmptySeq, LenProperties, ElementOfSeq

\* The scope a reference stands in is one of the query.
LEMMA LastScope ==
  ASSUME TypeOK
  PROVE  Last(path) \in Scope
  BY PathBasics DEF Last

\* Leaving a list leaves a path to the root.
LEMMA LeavePath ==
  ASSUME TypeOK, Len(path) > 1
  PROVE  Front(path) \in Seq(Scope) /\ Front(path) # << >>
<1> DEFINE m == Len(path) - 1
<1>1. m \in Nat /\ m >= 1 /\ m <= Len(path)
  BY PathBasics
<1>2. \A i \in 1 .. m : path[i] \in Scope
  BY <1>1, PathBasics
<1> HIDE DEF m
<1>3. /\ SubSeq(path, 1, m) \in Seq(Scope)
      /\ Len(SubSeq(path, 1, m)) = m
  BY <1>1, <1>2, SubSeqProperties
<1>4. SubSeq(path, 1, m) # << >>
  BY <1>1, <1>3, EmptySeq
<1> QED
  BY <1>3, <1>4 DEF Front, m

\* What the record of references is after one more.
LEMMA OneMore ==
  ASSUME TypeOK, NEW n \in Names, NEW t \in Types
  PROVE  LET new == Append(seen, Reference(n, t))
         IN  /\ new \in Seq(References)
             /\ Len(seen) \in Nat /\ DOMAIN seen = 1 .. Len(seen)
             /\ DOMAIN new = 1 .. Len(seen) + 1
             /\ \A i \in DOMAIN seen : new[i] = seen[i]
             /\ new[Len(seen) + 1].name = n /\ new[Len(seen) + 1].type = t
<1>1. Reference(n, t) \in References
  BY DEF Reference, References, TypeOK
<1>2. Reference(n, t).name = n /\ Reference(n, t).type = t
  BY DEF Reference
<1> HIDE DEF Reference, References
<1>3. seen \in Seq(References)
  BY DEF TypeOK
<1>4. Len(seen) \in Nat /\ DOMAIN seen = 1 .. Len(seen)
  BY <1>3, LenProperties
<1> DEFINE new == Append(seen, Reference(n, t))
<1>5. /\ new \in Seq(References) /\ Len(new) = Len(seen) + 1
      /\ \A i \in 1 .. Len(seen) : new[i] = seen[i]
      /\ new[Len(seen) + 1] = Reference(n, t)
  BY <1>1, <1>3, AppendProperties
<1>6. DOMAIN new = 1 .. Len(seen) + 1
  BY <1>5, LenProperties
<1> HIDE DEF new
<1> QED
  BY <1>2, <1>4, <1>5, <1>6 DEF new

\* Every reference met is one of the query's.
LEMMA SeenNames ==
  ASSUME TypeOK
  PROVE  \A i \in DOMAIN seen : seen[i].name \in Names
<1>1. seen \in Seq(References)
  BY DEF TypeOK
<1>2. \A i \in DOMAIN seen : seen[i] \in References
  <2> HIDE DEF References
  <2> QED
    BY <1>1, LenProperties, ElementOfSeq
<1> QED
  BY <1>2 DEF References

\* The walk starts with variables of their types.
LEMMA InitType == Init => TypeOK
<1> SUFFICES ASSUME Init PROVE TypeOK
  OBVIOUS
<1>1. 1 \in Scope
  BY BoundsAssumption DEF Scope
<1>2. <<1>> \in Seq(Scope) /\ <<1>> # << >> /\ << >> \in Seq(References)
  BY <1>1, EmptySeq
<1>3. Undefined \in [scope : 0 .. MaxScopes, at : Nat]
  BY BoundsAssumption DEF Undefined
<1> QED
  BY <1>1, <1>2, <1>3 DEF Init, TypeOK

\* No step of the walk breaks a type.
LEMMA TypeStep ==
  ASSUME TypeOK, [Next]_vars
  PROVE  TypeOK'
<1>1. CASE EnterList
  <2>1. scopes + 1 \in Scope
    BY <1>1, BoundsAssumption DEF EnterList, TypeOK, Scope
  <2>2. path' \in Seq(Scope) /\ path' # << >>
    BY <1>1, <2>1, AppendProperties DEF EnterList, TypeOK
  <2> QED
    BY <1>1, <2>1, <2>2 DEF EnterList, TypeOK
<1>2. CASE LeaveList
  BY <1>2, LeavePath DEF LeaveList, TypeOK
<1>3. CASE ExitRoot
  BY <1>3 DEF ExitRoot, TypeOK
<1>4. ASSUME NEW n \in Names, NEW t \in Types, Define(n, t)
      PROVE  TypeOK'
  <2>1. seen' \in Seq(References) /\ Len(seen) \in Nat
    BY <1>4, OneMore DEF Define
  <2>2. Last(path) \in 0 .. MaxScopes
    BY LastScope, BoundsAssumption DEF Scope
  <2>3. definitions' \in [Names -> [scope : 0 .. MaxScopes, at : Nat]]
    BY <1>4, <2>1, <2>2 DEF Define, TypeOK
  <2> QED
    BY <1>4, <2>1, <2>3 DEF Define, TypeOK
<1>5. ASSUME NEW n \in Names, NEW t \in Types, Resolve(n, t)
      PROVE  TypeOK'
  <2>1. seen' \in Seq(References)
    BY <1>5, OneMore DEF Resolve
  <2> DEFINE s == definitions[n].scope
  <2>2. counts' = [counts EXCEPT ![s][n] = @ + 1]
    BY <1>5 DEF Resolve
  <2> HIDE DEF s
  <2>3. counts \in [Scope -> [Names -> Nat]]
    BY DEF TypeOK
  <2>4. counts' \in [Scope -> [Names -> Nat]]
    <3>1. CASE s \in Scope
      <4>1. [counts[s] EXCEPT ![n] = @ + 1] \in [Names -> Nat]
        BY <2>3, <3>1
      <4> QED
        BY <2>2, <2>3, <4>1
    <3>2. CASE s \notin Scope
      <4>1. counts' = counts
        BY <2>2, <2>3, <3>2
      <4> QED
        BY <2>3, <4>1
    <3> QED
      BY <3>1, <3>2
  <2> QED
    BY <1>5, <2>1, <2>4 DEF Resolve, TypeOK
<1>6. ASSUME NEW n \in Names, NEW t \in Types, CheckFails(n, t)
      PROVE  TypeOK'
  BY <1>6 DEF CheckFails, TypeOK
<1>7. CASE UNCHANGED vars
  BY <1>7 DEF vars, TypeOK
<1> QED
  BY <1>1, <1>2, <1>3, <1>4, <1>5, <1>6, <1>7 DEF Next

\* The scopes, the definitions and the counts keep their types, and the walk never
\* leaves the scope of the root.
THEOREM ScopeTypeCorrect == Spec => []TypeOK
  BY InitType, TypeStep, PTL DEF Spec
-----------------------------------------------------------------------------
(* The inductive invariant                                                  *)

\* A name is defined by the reference its definition points at, and a name without a
\* definition has not been met and is counted nowhere.
DefinitionsInv ==
  \A n \in Names :
    IF Defined(n)
    THEN /\ definitions[n].scope \in Scope /\ definitions[n].at \in DOMAIN seen
         /\ seen[definitions[n].at].name = n
    ELSE /\ \A i \in DOMAIN seen : seen[i].name # n
         /\ \A s \in Scope : counts[s][n] = 0

\* The scope of a definition has counted a use of the name exactly if there is one.
CountsInv ==
  \A n \in Names :
    Defined(n) =>
      (counts[definitions[n].scope][n] >= 1
         <=> \E j \in DOMAIN seen : j # definitions[n].at /\ seen[j].name = n)

\* A reference has the type of the definition of its name.
TypesInv ==
  \A i \in DOMAIN seen : seen[i].type = seen[definitions[seen[i].name].at].type

\* The verdict is about the references there are.
StatusInv ==
  /\ status = "compiled" => \A n \in Names : ~Unused(n)
  /\ status = "unused reference" => \E n \in Names : Unused(n)

IInv == TypeOK /\ DefinitionsInv /\ CountsInv /\ TypesInv /\ StatusInv

\* The uses of a name with a definition are counted by a natural number.
LEMMA CountOfDefined ==
  ASSUME TypeOK, DefinitionsInv, NEW n \in Names, Defined(n)
  PROVE  counts[definitions[n].scope][n] \in Nat
<1>1. definitions[n].scope \in Scope
  BY DEF DefinitionsInv
<1>2. counts \in [Scope -> [Names -> Nat]]
  BY DEF TypeOK
<1> QED
  BY <1>1, <1>2

\* The walk starts without references.
LEMMA IInvInit == Init => IInv
<1> SUFFICES ASSUME Init PROVE IInv
  OBVIOUS
<1>1. DOMAIN seen = {}
  BY DEF Init
<1>2. \A n \in Names : ~Defined(n)
  BY DEF Init, Defined, Undefined
<1>3. DefinitionsInv /\ CountsInv /\ TypesInv /\ StatusInv
  BY <1>1, <1>2 DEF Init, DefinitionsInv, CountsInv, TypesInv, StatusInv
<1> QED
  BY <1>3, InitType DEF IInv

\* The first reference of a name defines it and counts no use.
LEMMA DefineStep ==
  ASSUME IInv, NEW n \in Names, NEW t \in Types, Define(n, t)
  PROVE  DefinitionsInv' /\ CountsInv' /\ TypesInv' /\ StatusInv'
<1> USE DEF IInv
<1> DEFINE k == Len(seen) + 1
<1>1. /\ k \in Nat /\ k # 0 /\ k \notin DOMAIN seen /\ DOMAIN seen' = DOMAIN seen \cup {k}
      /\ \A i \in DOMAIN seen : seen'[i] = seen[i]
      /\ seen'[k].name = n /\ seen'[k].type = t
  BY OneMore DEF Define
<1>2. definitions' = [definitions EXCEPT ![n] = [scope |-> Last(path), at |-> k]]
  BY DEF Define
<1>3. Last(path) \in Scope /\ ~Defined(n) /\ UNCHANGED <<counts, status>> /\ status = "walking"
  BY LastScope DEF Define
<1> HIDE DEF k
<1>4. /\ Defined(n)' /\ definitions'[n].at = k /\ definitions'[n].scope = Last(path)
      /\ \A m \in Names \ {n} : definitions'[m] = definitions[m] /\ (Defined(m)' <=> Defined(m))
  BY <1>1, <1>2 DEF Defined, TypeOK
<1>5. /\ \A i \in DOMAIN seen : seen[i].name # n /\ seen[i].name \in Names
      /\ \A s \in Scope : counts[s][n] = 0
  BY <1>3, SeenNames DEF DefinitionsInv
<1>6. DefinitionsInv'
  <2> SUFFICES ASSUME NEW m \in Names
               PROVE  IF Defined(m)'
                      THEN /\ definitions'[m].scope \in Scope /\ definitions'[m].at \in DOMAIN seen'
                           /\ seen'[definitions'[m].at].name = m
                      ELSE /\ \A i \in DOMAIN seen' : seen'[i].name # m
                           /\ \A s \in Scope : counts'[s][m] = 0
    BY DEF DefinitionsInv, Scope
  <2>1. CASE m = n
    BY <1>1, <1>3, <1>4, <2>1
  <2>2. CASE m # n
    BY <1>1, <1>3, <1>4, <2>2 DEF DefinitionsInv
  <2> QED
    BY <2>1, <2>2
<1>7. CountsInv'
  <2> SUFFICES ASSUME NEW m \in Names, Defined(m)'
               PROVE  counts'[definitions'[m].scope][m] >= 1
                        <=> \E j \in DOMAIN seen' : j # definitions'[m].at /\ seen'[j].name = m
    BY DEF CountsInv
  <2>1. CASE m = n
    <3>1. counts'[definitions'[m].scope][m] = 0
      BY <1>3, <1>4, <1>5, <2>1
    <3> QED
      BY <1>1, <1>4, <1>5, <2>1, <3>1
  <2>2. CASE m # n
    BY <1>1, <1>3, <1>4, <2>2 DEF CountsInv
  <2> QED
    BY <2>1, <2>2
<1>8. TypesInv'
  <2> SUFFICES ASSUME NEW i \in DOMAIN seen'
               PROVE  seen'[i].type = seen'[definitions'[seen'[i].name].at].type
    BY DEF TypesInv
  <2>1. CASE i = k
    BY <1>1, <1>4, <2>1
  <2>2. CASE i # k
    <3>1. i \in DOMAIN seen /\ seen'[i] = seen[i] /\ seen[i].name \in Names \ {n}
      BY <1>1, <1>5, <2>2
    <3>2. definitions[seen[i].name].at \in DOMAIN seen
      BY <3>1 DEF DefinitionsInv
    <3> QED
      BY <1>1, <1>4, <3>1, <3>2 DEF TypesInv
  <2> QED
    BY <2>1, <2>2
<1>9. StatusInv'
  BY <1>3 DEF StatusInv
<1> QED
  BY <1>6, <1>7, <1>8, <1>9

\* Any other is counted where the name is defined, and is of its type.
LEMMA ResolveStep ==
  ASSUME IInv, NEW n \in Names, NEW t \in Types, Resolve(n, t)
  PROVE  DefinitionsInv' /\ CountsInv' /\ TypesInv' /\ StatusInv'
<1> USE DEF IInv
<1> DEFINE k == Len(seen) + 1
           s == definitions[n].scope
<1>1. /\ k \in Nat /\ k # 0 /\ k \notin DOMAIN seen /\ DOMAIN seen' = DOMAIN seen \cup {k}
      /\ \A i \in DOMAIN seen : seen'[i] = seen[i]
      /\ seen'[k].name = n /\ seen'[k].type = t
  BY OneMore DEF Resolve
<1>2. /\ Defined(n) /\ seen[definitions[n].at].type = t
      /\ UNCHANGED <<definitions, status>> /\ status = "walking"
  BY DEF Resolve
<1>3. s \in Scope /\ definitions[n].at \in DOMAIN seen
  BY <1>2 DEF DefinitionsInv
<1>4. counts' = [counts EXCEPT ![s][n] = @ + 1]
  BY DEF Resolve
<1> HIDE DEF k, s
<1>5. /\ counts[s][n] \in Nat /\ counts'[s][n] = counts[s][n] + 1
      /\ \A m \in Names \ {n} : \A r \in Scope : counts'[r][m] = counts[r][m]
  BY <1>3, <1>4 DEF TypeOK
<1>6. \A m \in Names : Defined(m)' <=> Defined(m)
  BY <1>2 DEF Defined
<1>7. DefinitionsInv'
  <2> SUFFICES ASSUME NEW m \in Names
               PROVE  IF Defined(m)'
                      THEN /\ definitions'[m].scope \in Scope /\ definitions'[m].at \in DOMAIN seen'
                           /\ seen'[definitions'[m].at].name = m
                      ELSE /\ \A i \in DOMAIN seen' : seen'[i].name # m
                           /\ \A r \in Scope : counts'[r][m] = 0
    BY DEF DefinitionsInv, Scope
  <2>1. CASE Defined(m)
    BY <1>1, <1>2, <1>6, <2>1 DEF DefinitionsInv
  <2>2. CASE ~Defined(m)
    BY <1>1, <1>2, <1>5, <1>6, <2>2 DEF DefinitionsInv
  <2> QED
    BY <2>1, <2>2
<1>8. CountsInv'
  <2> SUFFICES ASSUME NEW m \in Names, Defined(m)
               PROVE  counts'[definitions[m].scope][m] >= 1
                        <=> \E j \in DOMAIN seen' : j # definitions[m].at /\ seen'[j].name = m
    BY <1>2, <1>6 DEF CountsInv
  <2>1. CASE m = n
    BY <1>1, <1>3, <1>5, <2>1 DEF s
  <2>2. CASE m # n
    <3>1. counts'[definitions[m].scope][m] = counts[definitions[m].scope][m]
      BY <1>5, <2>2 DEF DefinitionsInv
    <3> QED
      BY <1>1, <2>2, <3>1 DEF CountsInv
  <2> QED
    BY <2>1, <2>2
<1>9. TypesInv'
  <2> SUFFICES ASSUME NEW i \in DOMAIN seen'
               PROVE  seen'[i].type = seen'[definitions[seen'[i].name].at].type
    BY <1>2 DEF TypesInv
  <2>1. CASE i = k
    BY <1>1, <1>2, <1>3, <2>1
  <2>2. CASE i # k
    <3>1. i \in DOMAIN seen /\ seen'[i] = seen[i]
      BY <1>1, <2>2
    <3>2. seen[i].name \in Names
      BY <3>1, SeenNames
    <3>3. definitions[seen[i].name].at \in DOMAIN seen
      BY <3>1, <3>2 DEF DefinitionsInv
    <3> QED
      BY <1>1, <3>1, <3>3 DEF TypesInv
  <2> QED
    BY <2>1, <2>2
<1>10. StatusInv'
  BY <1>2 DEF StatusInv
<1> QED
  BY <1>7, <1>8, <1>9, <1>10

\* The parts of the invariant together are inductive.
LEMMA IInvStep == IInv /\ [Next]_vars => IInv'
<1> SUFFICES ASSUME IInv, [Next]_vars PROVE IInv'
  OBVIOUS
<1>1. TypeOK'
  BY TypeStep DEF IInv
<1>2. CASE UNCHANGED <<definitions, counts, seen>>
  <2>1. DefinitionsInv' /\ CountsInv' /\ TypesInv'
    BY <1>2 DEF IInv, DefinitionsInv, CountsInv, TypesInv, Defined, Scope
  <2>2. ASSUME ExitRoot PROVE StatusInv'
    BY <1>2, <2>2 DEF ExitRoot, StatusInv, Unused, Defined
  <2>3. ASSUME status' \in {"walking", "check failed"} PROVE StatusInv'
    BY <2>3 DEF StatusInv
  <2>4. ASSUME status' = status PROVE StatusInv'
    BY <1>2, <2>4 DEF IInv, StatusInv, Unused, Defined
  <2>5. \/ ExitRoot
        \/ status' \in {"walking", "check failed"}
        \/ status' = status
    <3>1. CASE \E n \in Names, t \in Types : Define(n, t) \/ Resolve(n, t) \/ CheckFails(n, t)
      BY <3>1 DEF Define, Resolve, CheckFails
    <3> QED
      BY <3>1 DEF Next, EnterList, LeaveList, ExitRoot, vars
  <2> QED
    BY <1>1, <2>1, <2>2, <2>3, <2>4, <2>5 DEF IInv
<1>3. ASSUME NEW n \in Names, NEW t \in Types, Define(n, t)
      PROVE  IInv'
  BY <1>1, <1>3, DefineStep DEF IInv
<1>4. ASSUME NEW n \in Names, NEW t \in Types, Resolve(n, t)
      PROVE  IInv'
  BY <1>1, <1>4, ResolveStep DEF IInv
<1>5. \/ UNCHANGED <<definitions, counts, seen>>
      \/ \E n \in Names, t \in Types : Define(n, t) \/ Resolve(n, t)
  BY DEF Next, EnterList, LeaveList, ExitRoot, CheckFails, vars
<1> QED
  BY <1>2, <1>3, <1>4, <1>5

\* The invariant holds in every state of every walk.
LEMMA IInvCorrect == Spec => []IInv
  BY IInvInit, IInvStep, PTL DEF Spec

\* References of one name stand in fields of one type, whatever lists were entered
\* and left between them.
THEOREM OneTypePerName == Spec => []SameType
<1>1. IInv => SameType
  BY DEF IInv, TypesInv, SameType
<1> QED
  BY <1>1, IInvCorrect, PTL

\* A query compiles only if each of its references has another of its name to be
\* compared with, and is called unused only if one has not.
THEOREM CompiledOnlyIfUsed == Spec => []CompiledIffUsed
<1>1. IInv => CompiledIffUsed
  <2> SUFFICES ASSUME IInv PROVE CompiledIffUsed
    OBVIOUS
  <2> USE DEF IInv
  <2> DEFINE paired == \A i \in DOMAIN seen :
                         \E j \in DOMAIN seen \ {i} : seen[j].name = seen[i].name
  <2>1. \A i \in DOMAIN seen : seen[i].name \in Names
    BY SeenNames
  <2>2. ASSUME status = "compiled" PROVE paired
    <3> TAKE i \in DOMAIN seen
    <3> DEFINE n == seen[i].name
    <3>1. n \in Names /\ Defined(n)
      BY <2>1 DEF DefinitionsInv
    <3>2. definitions[n].at \in DOMAIN seen /\ seen[definitions[n].at].name = n
      BY <3>1 DEF DefinitionsInv
    <3>3. ~Unused(n) /\ counts[definitions[n].scope][n] \in Nat
      BY <2>2, <3>1, CountOfDefined DEF StatusInv
    <3>4. \E j \in DOMAIN seen : j # definitions[n].at /\ seen[j].name = n
      BY <3>1, <3>3 DEF CountsInv, Unused
    <3> QED
      BY <3>2, <3>4
  <2>3. ASSUME status = "unused reference" PROVE ~paired
    <3>1. PICK n \in Names : Unused(n)
      BY <2>3 DEF StatusInv
    <3>2. /\ Defined(n) /\ definitions[n].at \in DOMAIN seen
          /\ seen[definitions[n].at].name = n
      BY <3>1 DEF Unused, DefinitionsInv
    <3>3. counts[definitions[n].scope][n] \in Nat
      BY <3>2, CountOfDefined
    <3>4. ~ \E j \in DOMAIN seen : j # definitions[n].at /\ seen[j].name = n
      BY <3>1, <3>2, <3>3 DEF Unused, CountsInv
    <3> QED
      BY <3>2, <3>4
  <2> QED
    BY <2>2, <2>3 DEF CompiledIffUsed
<1> QED
  BY <1>1, IInvCorrect, PTL
=============================================================================
