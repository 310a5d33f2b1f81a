----------------------------- MODULE MCStoredTrees -----------------------------
(***************************************************************************)
(* Definitions from static/Python-reiz.asdl and modules made of them.      *)
(***************************************************************************)
EXTENDS PreparedTrees

F(kind, qualifier, name) == [kind |-> kind, qualifier |-> qualifier, name |-> name]
T(name, fields) == [name |-> name, fields |-> fields]
D(name, kind, types, attributes) ==
  [name |-> name, kind |-> kind, types |-> types, attributes |-> attributes]

Line == F("int", "", "lineno")
EndLine == F("int", "?", "end_lineno")
Marks == <<Line, EndLine, F("int", "?", "_tag"), F("__parent_info", "*", "_parent_types"),
           F("Module", "?", "_module")>>

MCDefinitions == <<
  D("Module", "product", <<T("Module", <<F("stmt", "*", "body"), F("string", "", "filename"),
                                         F("project", "", "project")>>)>>, << >>),
  D("stmt", "sum", <<
      T("FunctionDef", <<F("identifier", "", "name"), F("arg", "*", "args"),
                         F("stmt", "*", "body"), F("string", "?", "type_comment")>>),
      T("Expr", <<F("expr", "", "value")>>),
      T("Global", <<F("identifier", "*", "names")>>),
      T("Try", <<F("stmt", "*", "body"), F("excepthandler", "*", "handlers")>>)>>, Marks),
  D("expr", "sum", <<
      T("Compare", <<F("expr", "", "left"), F("cmpop", "*", "ops"), F("expr", "*", "comparators")>>),
      T("Dict", <<F("expr", "*", "keys"), F("expr", "*", "values")>>),
      T("Subscript", <<F("expr", "", "value"), F("slice", "", "slice"), F("expr_context", "", "ctx")>>),
      T("Constant", <<F("string", "", "value")>>),
      T("Name", <<F("identifier", "", "id"), F("expr_context", "", "ctx")>>),
      T("Sentinel", << >>)>>, Marks),
  D("slice", "sum", <<T("Slice", <<F("expr", "?", "lower"), F("expr", "?", "upper")>>),
                      T("Index", <<F("expr", "", "value")>>)>>, <<F("expr", "", "sentinel")>>),
  D("excepthandler", "sum", <<T("ExceptHandler", <<F("expr", "?", "type"), F("stmt", "*", "body")>>)>>,
    <<Line, EndLine, F("Module", "?", "_module")>>),
  D("arg", "product", <<T("arg", <<F("identifier", "", "arg"), F("expr", "?", "annotation")>>)>>, Marks),
  D("cmpop", "sum", <<T("Lt", << >>), T("Eq", << >>)>>, << >>),
  D("expr_context", "sum", <<T("Load", << >>), T("Store", << >>)>>, << >>),
  D("project", "product", <<T("project", <<F("string", "", "name")>>)>>, << >>),
  D("custom_types", "sum",
    <<T("__parent_info", <<F("int", "", "type_id"), F("string", "", "field")>>)>>, << >>)>>

MCUniqueFields == {<<"Module", "filename">>}
MCPositions == <<"lineno", "end_lineno">>
MCTagExclusions == {"ctx", "type_comment", "simple"}

N(type, f) == Node(type, f, "", "")
None == Leaf("None", "")
Ident(s) == Leaf("identifier", s)
\* a constant is compared by what it equals, 1 as True, and shown by its repr
Const(value, repr) == N("Constant", << <<Node("constant", << >>, value, repr)>> >>)
Name(s, ctx) == N("Name", << <<Ident(s)>>, <<N(ctx, << >>)>> >>)

Unit == Const("1", "1")
X == Name("x", "Load")
Y == Name("y", "Load")
True == Const("1", "True")
Chain(op1, op2, e) == N("Compare", << <<X>>, <<N(op1, << >>), N(op2, << >>)>>, <<Y, e>> >>)
Sub(slice) == N("Subscript", << <<X>>, <<slice>>, <<N("Load", << >>)>> >>)
Exprs == {Unit, True, Name("x", "Store"), X,
          Chain("Lt", "Eq", Unit), Chain("Lt", "Eq", True), Chain("Eq", "Lt", Unit),
          N("Dict", << <<None, Unit>>, <<X, Y>> >>), N("Dict", << <<Unit, None>>, <<X, Y>> >>),
          Sub(N("Index", << <<X>> >>)), Sub(N("Slice", << << >>, <<X>> >>)),
          Sub(N("Slice", << <<X>>, << >> >>))}

Stmt(e) == N("Expr", << <<e>> >>)
Module(body) == N("Module", <<body, <<Leaf("string", "a/b.py")>>,
                              <<N("project", << <<Leaf("string", "a")>> >>)>> >>)
Arg(a, b) == N("arg", << <<Ident("a")>>, b >>)
Fun(body, annotation) == N("FunctionDef", << <<Ident("f")>>, <<Arg("a", annotation), Arg("b", << >>)>>,
                                             body, <<Leaf("string", "type")>> >>)
Plain(a, b)  == Module(<<Stmt(a), Stmt(b)>>)
Nested(a, b) == Module(<<Fun(<<N("Global", << <<Ident("x"), Ident("y")>> >>), Stmt(b)>>, <<a>>),
                         N("Try", << <<Stmt(a)>>, <<N("ExceptHandler", << <<b>>, <<Stmt(a)>> >>)>> >>)>>)

MCTrees == {Plain(a, b) : a, b \in Exprs} \cup {Nested(a, b) : a, b \in Exprs}
=============================================================================
