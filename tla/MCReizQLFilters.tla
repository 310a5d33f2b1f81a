--------------------------- MODULE MCReizQLFilters ---------------------------
(***************************************************************************)
(* Instances of ReizQLFilters for TLC: an optional field whose value is of *)
(* one of two types, a list of such values, a list of calls within calls,  *)
(* and one field for each of the runs that show a disagreement.            *)
(***************************************************************************)
EXTENDS ReizQLFilters

Element(type, sub) == [type |-> type, sub |-> sub]
Name(p) == Match("Name", p)
CallOn(p) == Match("Call", p)
Type(name) == Match(name, Ignore)

OptionalHosts ==
  {<< >>} \cup {<<Element(type, sub)>> : type \in {"Name", "Yield"}, sub \in {<< >>, <<"x">>, <<"y">>}}

\* Name(), Yield(), Name('x'), Yield(value = None) and None
OptionalAtoms ==
  {Type("Name"), Type("Yield"), Name(Constant("x")), Match("Yield", Cease), Cease}

NameX == Element("Name", <<"x">>)
NoArgs == Element("Call", << >>)

Lists(S, max) == UNION {[1 .. n -> S] : n \in 0 .. max}

Positional(name, p) == Builtin(name, <<p>>, << >>)

\* [Name(), *..., Name() | Call()], [*..., Name(f'x%')], [..., not Name()], [] and LEN(1, 2)
ListAtoms ==
  {ListOf(<<Type("Name"), Expand, Logical(Type("Name"), Type("Call"), "OR")>>),
   ListOf(<<Expand, Name(MatchString({"x"}))>>),
   ListOf(<<Ignore, Not(Type("Name"))>>), ListOf(<< >>),
   Builtin("LEN", <<Number(1), Number(2)>>, << >>)}

NestedHosts ==
  Lists({NameX, NoArgs, Element("Call", <<NameX>>), Element("Call", <<NameX, NoArgs>>),
         Element("Call", <<Element("Name", <<"y">>)>>), Element("Call", <<NoArgs>>)}, 2)

\* [Call([Name('x')])], [*..., Call([Name(), *...])], [Call([Call([])]), *...],
\* [Name('x') | Call(), *...], ANY and ALL, by position and by keyword, on either
\* level, [*..., Call(LEN(min = 1))], the ignore atom, and three that cannot be bound
NestedAtoms ==
  {ListOf(<<CallOn(ListOf(<<Name(Constant("x"))>>))>>),
   ListOf(<<Expand, CallOn(ListOf(<<Type("Name"), Expand>>))>>),
   ListOf(<<CallOn(ListOf(<<CallOn(ListOf(<< >>))>>)), Expand>>),
   ListOf(<<Logical(Name(Constant("x")), Type("Call"), "OR"), Expand>>),
   Positional("ANY", Not(Type("Name"))), Builtin("ALL", << >>, [value |-> Name(Constant("x"))]),
   Positional("ALL", Logical(Type("Name"), CallOn(Positional("ANY", Type("Name"))), "OR")),
   Positional("ANY", CallOn(Positional("ANY", Name(Constant("y"))))),
   ListOf(<<CallOn(Positional("ALL", Type("Name"))), Expand>>),
   ListOf(<<Expand, CallOn(Builtin("LEN", << >>, [min |-> Number(1)]))>>),
   Builtin("LEN", <<Number(1)>>, [min |-> Number(1)]), Builtin("LEN", << >>, << >>),
   Builtin("ANY", << >>, << >>), Ignore}

FieldAtoms == [optional |-> OptionalAtoms, list |-> ListAtoms, nested |-> NestedAtoms,
  type |-> {Type("Name"), Type("Yield")}, none |-> {Match("Yield", Cease)}]

FieldHosts == [optional |-> OptionalHosts, list |-> Lists({NameX, NoArgs}, 3),
  nested |-> NestedHosts,
  type |-> {<<Element("Name", << >>)>>, <<Element("Yield", << >>)>>}, none |-> OptionalHosts]

FieldDepth == [optional |-> 2, list |-> 2, nested |-> 1, type |-> 2, none |-> 0]
=============================================================================
