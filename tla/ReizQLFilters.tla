----------------------------- MODULE ReizQLFilters -----------------------------
(***************************************************************************)
(* What becomes of the pattern one field of a ReizQL matcher is given: the *)
(* compiler turns it into a filter, the optimizer rewrites the filter, the *)
(* printer writes EdgeQL, and the database reads that text back, with the  *)
(* precedence of EdgeQL, and evaluates it for every host value.            *)
(*                                                                         *)
(* A host value is a sequence: of at most one element for a field that is  *)
(* single or optional, of any number for a list.  An element is a record   *)
(* of its type and of sub, the value of its one field, again a sequence.   *)
(***************************************************************************)
EXTENDS Integers, Sequences, FiniteSets, SequencesExt

CONSTANTS
  Fields,       \* the fields the matcher of the root may be given
  Atoms,        \* for each, patterns without a logical operator at their root
  Hosts,        \* for each, the values it has in the database
  Depth         \* bound, for each: how deep logical operators are nested

VARIABLES
  phase,        \* how far the query has got
  field,        \* the field of the root the query is about
  pattern,      \* the pattern parse_query returns for the field
  ir,           \* the filter of the SELECT
  text,         \* the EdgeQL text of the filter
  hits          \* the host values the database returns

vars == <<phase, field, pattern, ir, text, hits>>

hosts == Hosts[field]
-----------------------------------------------------------------------------
(* Patterns: grammar.py and parse.py                                        *)

Ignore == [kind |-> "ignore"]
Expand == [kind |-> "expand"]
Cease  == [kind |-> "cease"]
Match(type, filter)  == [kind |-> "match", type |-> type, filter |-> filter]
Constant(v)          == [kind |-> "constant", value |-> v]
MatchString(strings) == [kind |-> "match_string", strings |-> strings]
ListOf(items)        == [kind |-> "list", items |-> items]
Number(n)            == [kind |-> "number", number |-> n]
Builtin(name, args, keywords) ==
  [kind |-> "builtin", name |-> name, args |-> args, keywords |-> keywords]
Not(p)               == [kind |-> "not", operand |-> p]
Logical(p, q, op)    == [kind |-> "logical", left |-> p, right |-> q, op |-> op]

RECURSIVE PatternsOf(_, _)
PatternsOf(f, n) ==
  IF n = 0 THEN Atoms[f]
  ELSE LET smaller == PatternsOf(f, n - 1)
       IN smaller \cup {Not(p) : p \in smaller}
                  \cup {Logical(p, q, op) : p \in smaller, q \in smaller, op \in {"AND", "OR"}}

Patterns == [f \in Fields |-> PatternsOf(f, Depth[f])]

IsBuiltin(p, names) == p.kind = "builtin" /\ p.name \in names

\* a list matcher's stars
Stars(items) == {i \in DOMAIN items : items[i] = Expand}

\* Signature: the parameters of the builtins; those of LEN have a default, None
Params == [LEN |-> <<"min", "max">>, ANY |-> <<"value">>, ALL |-> <<"value">>]
Defaults == {"min", "max"}
Absent == -1

\* bind: arguments by position, then by keyword, then what has a default
Given(p) == {Params[p.name][i] : i \in DOMAIN p.args \cap DOMAIN Params[p.name]}
CanBind(p) ==
  /\ Len(p.args) <= Len(Params[p.name])
  /\ DOMAIN p.keywords \subseteq ToSet(Params[p.name]) \ Given(p)
  /\ ToSet(Params[p.name]) \subseteq Given(p) \cup DOMAIN p.keywords \cup Defaults
Argument(p, i) == IF i \in DOMAIN p.args THEN p.args[i] ELSE p.keywords[Params[p.name][i]]
IsBound(p, i) == i \in DOMAIN p.args \/ Params[p.name][i] \in DOMAIN p.keywords
Value(p) == Argument(p, 1)
Limit(p, i) == IF IsBound(p, i) THEN Argument(p, i).number ELSE Absent

\* What docs/reizql.md says a pattern matches.
RECURSIVE Matches(_, _)
Matches(p, v) ==
  CASE p.kind = "ignore"       -> TRUE
    [] p.kind = "cease"        -> v = << >>
    [] p.kind = "match"        -> v # << >> /\ v[1].type = p.type /\ Matches(p.filter, v[1].sub)
    [] p.kind = "constant"     -> v = <<p.value>>
    [] p.kind = "match_string" -> v # << >> /\ v[1] \in p.strings
    [] IsBuiltin(p, {"LEN"}) -> Len(v) >= Limit(p, 1) /\ (IsBound(p, 2) => Len(v) <= Limit(p, 2))
    [] IsBuiltin(p, {"ANY"}) -> \E i \in DOMAIN v : Matches(Value(p), <<v[i]>>)
    [] IsBuiltin(p, {"ALL"}) -> \A i \in DOMAIN v : Matches(Value(p), <<v[i]>>)
    [] p.kind = "not"          -> ~Matches(p.operand, v)
    [] p.kind = "logical"      -> IF p.op = "AND" THEN Matches(p.left, v) /\ Matches(p.right, v)
                                                  ELSE Matches(p.left, v) \/ Matches(p.right, v)
    [] p.kind = "list" ->
         LET n == Len(p.items)
             Item(i, j) == Matches(p.items[i], <<v[j]>>)
         IN IF Stars(p.items) = {}
            THEN Len(v) = n /\ \A i \in 1 .. n : Item(i, i)
            ELSE LET star == CHOOSE i \in Stars(p.items) : TRUE
                 IN /\ Len(v) >= n - 1
                    /\ \A i \in 1 .. star - 1 : Item(i, i)
                    /\ \A i \in star + 1 .. n : Item(i, Len(v) - (n - i))
-----------------------------------------------------------------------------
(* The intermediate representation                                          *)

None == [kind |-> "none"]       \* a filter that is Python's None

\* a path starts at the field itself or at an item of an array, and is narrowed to a
\* type before each further field; an array is the field at the end of a path
RootField                == [kind |-> "root_field"]
Subscript(array, n)      == [kind |-> "subscript", array |-> array, n |-> n]
Path(base, types)        == [kind |-> "path", base |-> base, types |-> types]
Array(loop, type)        == [kind |-> "array", loop |-> loop, type |-> type]
Call(func, of)           == [kind |-> func, of |-> of]
Aggregate(func, n, path) == [kind |-> "aggregate", func |-> func, operand |-> n, over |-> path]
Literal(v)               == [kind |-> "literal", value |-> v]
TypeName(type)           == [kind |-> "type", type |-> type]
Exists(path)             == [kind |-> "exists", operand |-> path]
Negate(n)                == [kind |-> "unary", operand |-> n]
Filter(left, right, op)  == [kind |-> "compare", left |-> left, right |-> right, op |-> op]

IsCompare(n, op) == n.kind = "compare" /\ n.op = op

CombineFilters(left, right) == IF left = None THEN right ELSE Filter(left, right, "AND")

UnpackFilters(filters) == FoldLeft(CombineFilters, None, filters)
-----------------------------------------------------------------------------
(* The compiler: codegen.py and functions.py                                *)

\* the patterns the compiler raises an exception for
RECURSIVE Raises(_)
Raises(p) ==
  CASE p.kind \in {"ignore", "expand"} -> TRUE
    [] p.kind = "not"     -> Raises(p.operand)
    [] p.kind = "logical" -> Raises(p.left) \/ Raises(p.right)
    [] p.kind = "match"   -> p.filter # Ignore /\ Raises(p.filter)
    [] p.kind = "builtin" -> CanBind(p) => IF p.name = "LEN" THEN ~IsBound(p, 1) /\ ~IsBound(p, 2)
                                                            ELSE Raises(Value(p))
    [] p.kind = "list"    ->
         \/ Cardinality(Stars(p.items)) > 1
         \/ \E i \in DOMAIN p.items : p.items[i] \notin {Ignore, Expand} /\ Raises(p.items[i])
    [] OTHER -> FALSE

\* CompilerState: for each matcher around the pattern its type and what the pointer is at
\* in it, and the matcher whose pointer paths start with
RootState == [frames |-> <<[match |-> "root", pointer |-> RootField]>>, start |-> 1]

FromParent(type, state) ==
  [state EXCEPT !.frames = Append(@, [match |-> type, pointer |-> RootField])]

Parent(state) == [state EXCEPT !.frames = Front(@)]

\* compute_path, over get_ordered_parents
ComputePath(state) ==
  Path(state.frames[state.start].pointer,
       [k \in 1 .. Len(state.frames) - state.start |-> state.frames[state.start + k].match])

\* aggregate_array: of a list within a matcher, what the loop over its parent finds
AggregateArray(state) ==
  IF Len(state.frames) = 1 THEN Array(ComputePath(state), "any")
  ELSE Array(ComputePath(Parent(state)), Last(state.frames).match)

IsFillers(items) == \A i \in DOMAIN items : items[i] \in {Ignore, Expand}

\* mutant: the position of a matcher behind the star is not turned round
PositionFromStart(items, i) == i - 1

\* the subscript of the i-th matcher of a list
Position(items, i) == IF \E s \in Stars(items) : s < i THEN -(Len(items) - (i - 1))
                                                       ELSE i - 1

\* temp_pointer and "enumeration start depth" for the i-th matcher
ItemState(items, i, state) ==
  LET n == Len(state.frames)
  IN  [frames |-> [state.frames EXCEPT ![n].pointer =
                     Subscript(AggregateArray(state), Position(items, i))],
       start |-> n]

RECURSIVE Codegen(_, _)

\* compile_sequence: the filters of the items that are no fillers
CompileSequence(items, state) ==
  LET Add(filters, i) ==
        LET filter == IF items[i] \in {Ignore, Expand} THEN None
                      ELSE Codegen(items[i], ItemState(items, i, state))
        IN  IF filter = None THEN filters ELSE CombineFilters(filters, filter)
  IN FoldLeft(Add, None, [i \in DOMAIN items |-> i])

\* convert_length
ConvertLength(p, state) ==
  LET Bound(i, op) == IF ~IsBound(p, i) THEN << >>
                      ELSE <<Filter(Call("count", ComputePath(state)), Literal(Limit(p, i)), op)>>
  IN UnpackFilters(Bound(1, ">=") \o Bound(2, "<="))

\* the filter codegen returns for a pattern; a matcher whose field has no filter is a
\* test of its type
Codegen(p, state) ==
  LET path == ComputePath(state)
  IN CASE p.kind = "match" ->
            LET filter == IF p.filter = Ignore THEN None
                          ELSE Codegen(p.filter, FromParent(p.type, state))
            IN  IF filter = None THEN Filter(path, TypeName(p.type), "IS") ELSE filter
       [] p.kind = "constant"     -> Filter(path, Literal(p.value), "=")
       [] p.kind = "match_string" -> Filter(path, Literal(p.strings), "LIKE")
       [] p.kind = "cease"        -> Negate(Exists(path))
       [] p.kind = "not"          -> Negate(Codegen(p.operand, state))
       [] p.kind = "logical"      -> Filter(Codegen(p.left, state), Codegen(p.right, state), p.op)
       [] p.kind = "list"         -> CompileSequence(p.items, state)
       [] p.kind = "builtin"      -> IF p.name = "LEN" THEN ConvertLength(p, state)
                                     ELSE Aggregate(p.name, Codegen(Value(p), state), path)

\* mutant: the star is counted as an item
LengthVerifierOfStar(items, state) ==
  LET length == IF IsFillers(items) THEN Call("count", ComputePath(state))
                                    ELSE Call("len", AggregateArray(state))
  IN IF Stars(items) = {} THEN Filter(length, Literal(Len(items)), "=")
                          ELSE Filter(length, Literal(Len(items)), ">=")

\* the number of items, of the path, or of the array when there is one
LengthVerifier(items, state) ==
  LET length == IF IsFillers(items) THEN Call("count", ComputePath(state))
                                    ELSE Call("len", AggregateArray(state))
  IN IF Stars(items) = {} THEN Filter(length, Literal(Len(items)), "=")
                          ELSE Filter(length, Literal(Len(items) - 1), ">=")

\* state.filters: the length verifiers, whatever the list matchers are part of
RECURSIVE StateFilters(_, _)
StateFilters(p, state) ==
  CASE p.kind = "list"    ->
         LET OfItem(all, i) == all \o StateFilters(p.items[i], ItemState(p.items, i, state))
         IN  FoldLeft(OfItem, <<LengthVerifier(p.items, state)>>, [i \in DOMAIN p.items |-> i])
    [] p.kind = "match"   -> StateFilters(p.filter, FromParent(p.type, state))
    [] p.kind = "not"     -> StateFilters(p.operand, state)
    [] p.kind = "logical" -> StateFilters(p.left, state) \o StateFilters(p.right, state)
    [] p.kind = "builtin" /\ p.name # "LEN" -> StateFilters(Value(p), state)
    [] OTHER              -> << >>

\* compile_matcher for the root: its field, then what was collected on the side
CompileMatcher(p) ==
  LET filters      == IF p = Ignore THEN None ELSE Codegen(p, RootState)
      stateFilters == UnpackFilters(StateFilters(p, RootState))
  IN IF stateFilters = None THEN filters ELSE CombineFilters(filters, stateFilters)
-----------------------------------------------------------------------------
(* The optimizer: EQLOptimizer                                              *)

\* mutant: the opposite direction, not the complement
CounterDirections == [op \in {">=", "<=", "=", "LIKE", "IS"} |->
  CASE op = ">=" -> "<=" [] op = "<=" -> ">=" [] op = "=" -> "!="
    [] op = "LIKE" -> "NOT LIKE" [] op = "IS" -> "IS NOT"]

\* _COUNTER_OPERATORS, for the operators the compiler emits
CounterOperators == [op \in {">=", "<=", "=", "LIKE", "IS"} |->
  CASE op = ">=" -> "<" [] op = "<=" -> ">" [] op = "=" -> "!="
    [] op = "LIKE" -> "NOT LIKE" [] op = "IS" -> "IS NOT"]

IsSimple(n) == n.left.kind # "compare" /\ n.right.kind # "compare"

NegatesComparison(n) ==
  n.operand.kind = "compare" /\ IsSimple(n.operand) /\ n.operand.op \in DOMAIN CounterOperators

IsTypeOr(n) ==
  /\ n.op = "OR" /\ IsCompare(n.left, "IS") /\ IsCompare(n.right, "IS")
  /\ n.left.right.kind = "type" /\ n.right.right.kind = "type"
  /\ n.left.left = n.right.left

RECURSIVE Visit(_)

\* An item of a list is visited and put back as it was: what has been rewritten in it
\* stays so, but not the item itself.
RECURSIVE VisitItem(_)

GenericVisit(n) ==
  CASE n.kind = "unary"   -> Negate(Visit(n.operand))
    [] n.kind = "aggregate" -> [n EXCEPT !.operand = VisitItem(@)]
    [] n.kind = "compare" -> Filter(Visit(n.left), Visit(n.right), n.op)
    [] OTHER              -> n

\* a rewritten node is visited itself, and its children once more
OptimizeNegativeOperators(n) ==
  IF n.kind = "unary" /\ NegatesComparison(n)
  THEN Visit([n.operand EXCEPT !.op = CounterOperators[@]]) ELSE n

OptimizeDoubleNegatives(n) ==
  IF n.kind = "unary" /\ n.operand.kind = "unary" THEN Visit(n.operand.operand) ELSE n

OptimizeTypeOr(n) ==
  IF n.kind = "compare" /\ IsTypeOr(n)
  THEN Visit(Filter(n.left.left, Filter(n.left.right, n.right.right, "|"), "IS")) ELSE n

Visit(n) ==
  GenericVisit(CASE n.kind = "unary"   -> OptimizeDoubleNegatives(OptimizeNegativeOperators(n))
                 [] n.kind = "compare" -> OptimizeTypeOr(n)
                 [] OTHER              -> n)

VisitItem(n) ==
  CASE n.kind = "unary" /\ NegatesComparison(n)        -> n
    [] n.kind = "unary" /\ n.operand.kind = "unary"     -> Negate(Negate(VisitItem(n.operand.operand)))
    [] n.kind = "compare" /\ IsTypeOr(n)                -> n
    [] OTHER -> GenericVisit(n)
-----------------------------------------------------------------------------
(* The printer: construct of the expressions                                *)

\* a text is a sequence of words, leaves, calls and parenthesized texts
Word(w)  == [token |-> "word", word |-> w]
Leaf(n)  == [token |-> "leaf", node |-> n]
Parens(s) == <<[token |-> "parens", inner |-> s]>>
CallOf(n, s) == <<[token |-> "call", func |-> n.func, over |-> n.over, inner |-> s]>>

\* unpack: the sides, those that are ANDs unpacked
RECURSIVE Unpack(_)
Unpack(n) ==
  LET Side(side) == IF IsCompare(side, "AND") THEN Unpack(side) ELSE <<side>>
  IN Side(n.left) \o Side(n.right)

RECURSIVE Construct(_)

ConstructSimple(n) == Construct(n.left) \o <<Word(n.op)>> \o Construct(n.right)

\* sequence_view with the delimiter AND
ConstructComplex(n) ==
  LET elements == Unpack(n)
  IN FoldLeft(LAMBDA s, e : s \o <<Word("AND")>> \o Construct(e),
              Construct(Head(elements)), Tail(elements))

\* mutant: an OR is not put in parentheses
ConstructCompareBare(n) ==
  IF Len(Unpack(n)) > 2 THEN Parens(ConstructComplex(n)) ELSE ConstructSimple(n)

ConstructCompare(n) ==
  CASE Len(Unpack(n)) > 2 -> Parens(ConstructComplex(n))
    [] Len(Unpack(n)) = 2 /\ n.op = "OR" -> Parens(ConstructSimple(n))
    [] OTHER -> ConstructSimple(n)

Construct(n) ==
  CASE n.kind = "unary"   -> <<Word("NOT")>> \o Construct(n.operand)
    [] n.kind = "exists"  -> <<Word("EXISTS")>> \o Construct(n.operand)
    [] n.kind = "aggregate" -> CallOf(n, Construct(n.operand))
    [] n.kind = "compare" -> ConstructCompare(n)
    [] OTHER              -> <<Leaf(n)>>
-----------------------------------------------------------------------------
(* The database: how EdgeQL reads the text and what it then means           *)

Words(s, ws) == {i \in DOMAIN s : s[i].token = "word" /\ s[i].word \in ws}

Comparators == {"=", "!=", "<", ">", "<=", ">=", "LIKE", "NOT LIKE", "IS", "IS NOT"}

\* the words that bind weakest first; binary ones associate to the left
RECURSIVE Read(_)
Read(s) ==
  LET Split(ws) == LET i == CHOOSE i \in Words(s, ws) : \A j \in Words(s, ws) : j <= i
                   IN Filter(Read(SubSeq(s, 1, i - 1)), Read(SubSeq(s, i + 1, Len(s))), s[i].word)
  IN CASE Words(s, {"OR"}) # {}        -> Split({"OR"})
       [] Words(s, {"OR"}) = {} /\ Words(s, {"AND"}) # {} -> Split({"AND"})
       [] OTHER ->
            CASE s[1] = Word("NOT")    -> Negate(Read(Tail(s)))
              [] s[1] = Word("EXISTS") -> Exists(Read(Tail(s)))
              [] OTHER ->
                   CASE Words(s, Comparators) # {} -> Split(Comparators)
                     [] Words(s, {"|"}) # {} /\ Words(s, Comparators) = {} -> Split({"|"})
                     [] OTHER ->
                          CASE s[1].token = "parens" -> Read(s[1].inner)
                            [] s[1].token = "call" -> Aggregate(s[1].func, Read(s[1].inner), s[1].over)
                            [] s[1].token = "leaf" -> s[1].node

\* The elements a path leads to, in their order.  Within an aggregate that goes over the
\* elements of a path, what starts with that path starts with one of them.
RECURSIVE Values(_, _, _)

ArrayValue(array, v) ==
  LET OfType(e) == e.type = array.type
      looped == Values(array.loop, v, << >>)
  IN  IF array.type = "any" THEN looped
      ELSE FlattenSeq([i \in DOMAIN SelectSeq(looped, OfType) |-> SelectSeq(looped, OfType)[i].sub])

Start(base, v) ==
  IF base = RootField THEN v
  ELSE LET array == ArrayValue(base.array, v)
           i == IF base.n < 0 THEN Len(array) + base.n + 1 ELSE base.n + 1
       IN  IF i \in DOMAIN array THEN <<array[i]>> ELSE << >>

Values(path, v, scope) ==
  LET scoped == /\ scope # << >>
                /\ scope[1].base = path.base /\ IsPrefix(scope[1].types, path.types)
      Step(es, type) ==
        FoldLeft(LAMBDA all, e : IF e.type = type THEN all \o e.sub ELSE all, << >>, es)
  IN  IF scoped
      THEN FoldLeft(Step, <<scope[2]>>,
                    SubSeq(path.types, Len(scope[1].types) + 1, Len(path.types)))
      ELSE FoldLeft(Step, Start(path.base, v), path.types)

\* the values of the left side of a comparison
Left(n, v, scope) ==
  CASE n.kind = "path"  -> ToSet(Values(n, v, scope))
    [] n.kind = "count" -> {Len(Values(n.of, v, scope))}
    [] n.kind = "len"   -> {Len(ArrayValue(n.of, v))}

TypeNames(n) == IF n.kind = "type" THEN {n.type} ELSE {n.left.type, n.right.type}

Compared(left, op, right) ==
  CASE op = "="  -> left = right.value
    [] op = "!=" -> left # right.value
    [] op = ">=" -> left >= right.value
    [] op = "<=" -> left <= right.value
    [] op = "<"  -> left < right.value
    [] op = ">"  -> left > right.value
    [] op = "LIKE"     -> left \in right.value
    [] op = "NOT LIKE" -> left \notin right.value
    [] op = "IS"     -> left.type \in TypeNames(right)
    [] op = "IS NOT" -> left.type \notin TypeNames(right)

\* An operator with an empty operand yields the empty set: a filter is true, false
\* or empty for a host value, written as the set of its results.
RECURSIVE Meaning(_, _, _)
Meaning(n, v, scope) ==
  CASE n.kind = "none"   -> {TRUE}
    [] n.kind = "unary"  -> {~b : b \in Meaning(n.operand, v, scope)}
    [] n.kind = "exists" -> {Values(n.operand, v, scope) # << >>}
    [] n.kind = "aggregate" ->
         LET results == UNION {Meaning(n.operand, v, <<n.over, e>>) :
                                 e \in ToSet(Values(n.over, v, scope))}
         IN  IF n.func = "ANY" THEN {TRUE \in results} ELSE {FALSE \notin results}
    [] IsCompare(n, "AND") -> {b /\ c : b \in Meaning(n.left, v, scope), c \in Meaning(n.right, v, scope)}
    [] IsCompare(n, "OR")  -> {b \/ c : b \in Meaning(n.left, v, scope), c \in Meaning(n.right, v, scope)}
    [] n.kind = "compare" /\ n.op \notin {"AND", "OR"} ->
         {Compared(x, n.op, n.right) : x \in Left(n.left, v, scope)}

\* a None within a larger filter is printed as the name of an object
RECURSIVE NamesNone(_)
NamesNone(n) == CASE n.kind = "none"    -> TRUE
                  [] n.kind = "unary"   -> NamesNone(n.operand)
                  [] n.kind = "compare" -> NamesNone(n.left) \/ NamesNone(n.right)
                  [] n.kind = "aggregate" -> NamesNone(n.operand)
                  [] OTHER              -> FALSE
-----------------------------------------------------------------------------
(* A query                                                                  *)

Init == /\ phase = "new" /\ field \in Fields /\ pattern = Ignore /\ ir = None /\ text = << >> /\ hits = {}

Parse == /\ phase = "new"
         /\ pattern' \in Patterns[field]
         /\ phase' = "parsed"
         /\ UNCHANGED <<field, ir, text, hits>>

\* ReizQLSyntaxError, or the ValueError of codegen
CompileRaises == /\ phase = "parsed" /\ pattern # Ignore /\ Raises(pattern)
                 /\ phase' = "raised"
                 /\ UNCHANGED <<field, pattern, ir, text, hits>>

CompileToIR == /\ phase = "parsed" /\ (pattern = Ignore \/ ~Raises(pattern))
               /\ ir' = CompileMatcher(pattern)
               /\ phase' = "compiled"
               /\ UNCHANGED <<field, pattern, text, hits>>

Optimize == /\ phase = "compiled"
            /\ ir' = Visit(ir)
            /\ phase' = "optimized"
            /\ UNCHANGED <<field, pattern, text, hits>>

\* a SELECT without a filter has no FILTER clause
View == /\ phase = "optimized"
        /\ text' = IF ir = None THEN << >> ELSE Construct(ir)
        /\ phase' = "printed"
        /\ UNCHANGED <<field, pattern, ir, hits>>

TextMeaning(v) == IF text = << >> THEN {TRUE} ELSE Meaning(Read(text), v, << >>)

\* the text names an object that does not exist: InvalidReferenceError
Refuse == /\ phase = "printed" /\ ir # None /\ NamesNone(ir)
          /\ phase' = "refused"
          /\ UNCHANGED <<field, pattern, ir, text, hits>>

Answer == /\ phase = "printed" /\ (ir = None \/ ~NamesNone(ir))
          /\ hits' = {v \in hosts : TextMeaning(v) = {TRUE}}
          /\ phase' = "answered"
          /\ UNCHANGED <<field, pattern, ir, text>>

Next == Parse \/ CompileRaises \/ CompileToIR \/ Optimize \/ View \/ Refuse \/ Answer

Spec == Init /\ [][Next]_vars
-----------------------------------------------------------------------------
(* Properties                                                               *)

\* of nodes the printer knows, with operators that Comparator has
RECURSIVE IsFilter(_)
IsFilter(n) ==
  CASE n.kind \in {"none", "exists"} -> TRUE
    [] n.kind \in {"unary", "aggregate"} -> IsFilter(n.operand)
    [] n.kind = "compare" -> IF n.op \in {"AND", "OR"} THEN IsFilter(n.left) /\ IsFilter(n.right)
                                                       ELSE n.op \in Comparators
    [] OTHER -> FALSE

\* The optimizer changes what a filter looks like and not which values it accepts,
\* also where an operand is empty and NOT does not complement, and every operator of
\* it is one the printer has.
OptimizerKeepsMeaning ==
  phase = "optimized" =>
    IsFilter(ir) /\ \A v \in hosts : Meaning(ir, v, << >>) = Meaning(CompileMatcher(pattern), v, << >>)

\* filters for which the printer needs no parentheses it does not write
RECURSIVE Printable(_)
Printable(n) ==
  CASE n.kind = "unary"   -> /\ ~(IsCompare(n.operand, "AND") /\ Len(Unpack(n.operand)) = 2)
                             /\ Printable(n.operand)
    [] n.kind = "aggregate" -> Printable(n.operand)
    [] n.kind = "compare" -> /\ n.op = "OR" => ~IsCompare(n.left, "AND") /\ ~IsCompare(n.right, "AND")
                             /\ Printable(n.left) /\ Printable(n.right)
    [] OTHER -> TRUE

\* The text means what the filter means, read with the precedence of EdgeQL, as
\* long as no AND is a side of an OR and none of two filters is negated.
TextKeepsMeaning ==
  phase = "answered" /\ Printable(ir) => \A v \in hosts : TextMeaning(v) = Meaning(ir, v, << >>)

\* a pattern with all there is in it
RECURSIVE Subpatterns(_)
Subpatterns(p) ==
  {p} \cup UNION {Subpatterns(q) : q \in
    CASE p.kind = "match"   -> {p.filter}
      [] p.kind = "not"     -> {p.operand}
      [] p.kind = "logical" -> {p.left, p.right}
      [] p.kind = "list"    -> ToSet(p.items)
      [] p.kind = "builtin" /\ p.name # "LEN" -> {Value(p)}
      [] OTHER -> {}}

IsOr(p) == p.kind = "logical" /\ p.op = "OR"

\* length verifiers apply to the query: a list matcher cannot be an alternative, nor be
\* negated, nor apply to each element
ListsRequired(p) ==
  \A q \in Subpatterns(p) : q.kind = "not" \/ IsOr(q) \/ IsBuiltin(q, {"ANY", "ALL"})
                              => \A r \in Subpatterns(q) : r.kind # "list"

\* what is TRUE of a field that is not there
HoldsOfNothing(p) == \/ p = Cease \/ IsBuiltin(p, {"ALL"})
                     \/ IsBuiltin(p, {"LEN"}) /\ Limit(p, 1) <= 0

\* the own type of a matcher is tested, or implied by what is tested of its field
TypesTested(p) == \A q \in Subpatterns(p) : q.kind = "match" => ~HoldsOfNothing(q.filter)

\* patterns whose filter is not empty for a value that is there
RECURSIVE NeverEmpty(_)
NeverEmpty(p) == CASE p.kind = "match"   -> \/ p.filter = Ignore
                                            \/ p.filter.kind = "builtin" /\ ~HoldsOfNothing(p.filter)
                   [] p.kind = "not"     -> NeverEmpty(p.operand)
                   [] p.kind = "logical" -> NeverEmpty(p.left) /\ NeverEmpty(p.right)
                   [] OTHER              -> TRUE

\* all() does not see the elements for which a filter is empty
AllNeverEmpty(p) == \A q \in Subpatterns(p) : IsBuiltin(q, {"ALL"}) => NeverEmpty(Value(q))

\* What the query finds matches the pattern as the language reference describes it:
\* with stars, lengths, negations and types, through optimizer and printer.
HitsMatch ==
  /\ phase = "answered" /\ Printable(ir)
  /\ ListsRequired(pattern) /\ TypesTested(pattern) /\ AllNeverEmpty(pattern)
  =>
    \A v \in hits : Matches(pattern, v)

AlternativesNeverEmpty(p) == \A q \in Subpatterns(p) : q.kind = "not" \/ IsOr(q) => NeverEmpty(q)

\* What matches the pattern is found, where a value is there and the alternatives
\* and negated patterns test nothing but its type or length.
MatchesHit ==
  /\ phase = "answered" /\ Printable(ir)
  /\ ListsRequired(pattern) /\ AlternativesNeverEmpty(pattern) /\ AllNeverEmpty(pattern)
  =>
    \A v \in hosts \ {<< >>} : Matches(pattern, v) => v \in hits

\* An OR pattern matches the host value if it can be matched by either of the
\* connected patterns.
EitherHits ==
  phase = "answered" /\ pattern.kind = "logical" /\ pattern.op = "OR" =>
    \A v \in hosts : Matches(pattern.left, v) \/ Matches(pattern.right, v) => v \in hits

\* A matcher corresponds to an AST node type: what it finds is of that type.
MatcherHitsType ==
  phase = "answered" /\ pattern.kind = "match" =>
    \A v \in hits : v # << >> /\ v[1].type = pattern.type
=============================================================================
