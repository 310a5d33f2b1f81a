---------------------------- MODULE PreparedTrees ----------------------------
(***************************************************************************)
(* transformers.py: how a module is annotated with tags, parents and       *)
(* sentinels before StoredTrees inserts it, and what is read back in the   *)
(* end.                                                                    *)
(***************************************************************************)
EXTENDS StoredTrees, SequencesExt

CONSTANT TagExclusions \* "-- tag_exclusions:" of the ASDL file

\* Concatenation makes TLC evaluate the elements once, not at every use.
Map(Op(_), s) == << >> \o [i \in DOMAIN s |-> Op(s[i])]
Flat(Op(_), s) == FoldLeft(LAMBDA all, x : all \o Op(x), << >>, s)
Indices(s) == [i \in DOMAIN s |-> i]

Decorated == {"FunctionDef", "AsyncFunctionDef", "ClassDef"}
-----------------------------------------------------------------------------
(* annotate_ast_types                                                       *)

\* A class gets last_id, its subclasses what follows, and each call adds one more at
\* its end: a leaf takes two.
TypeId(name) ==
  LET types == [i \in DOMAIN Definitions |-> Definitions[i].types]
      first[i \in 1..Len(Definitions)] ==
        IF i = 1 THEN 0 ELSE first[i - 1] + 2 + 2 * Len(types[i - 1])
      i == CHOOSE i \in DOMAIN types : \E t \in Elements(types[i]) : t.name = name
  IN  IF Definitions[i].kind = "product" THEN first[i]
      ELSE first[i] + 2 * (CHOOSE k \in DOMAIN types[i] : types[i][k].name = name) - 1
-----------------------------------------------------------------------------
(* calculate_node_tag: the tuples it nests, written with brackets            *)

RECURSIVE CalculateNodeTag(_)
CalculateNodeTag(n) ==
  IF n.type = "None" THEN << <<"none", 0>> >>
  ELSE IF IsLeaf(n) THEN << <<n.shown, 0>> >>
  ELSE LET fields == FieldsOf(n.type)
           included == SelectSeq(Indices(fields), LAMBDA i : fields[i].name \notin TagExclusions)
           Part(i) == LET items == Flat(CalculateNodeTag, n.f[i])
                      IN  IF fields[i].qualifier = "*" THEN << <<"[", 0>> >> \o items \o << <<"]", 0>> >>
                          ELSE IF n.f[i] = << >> THEN << <<"none", 0>> >> ELSE items
       IN  << <<"(", TypeId(n.type)>> >> \o Flat(Part, included) \o << <<")", 0>> >>

\* visit_annotated_base
Annotate(n, parents) == [n EXCEPT !.tag = CalculateNodeTag(n),
                                  !.parents = {<<TypeId(p[1]), p[2]>> : p \in parents}]

\* visit_Constant: repr(node.value)
Repr(n) == [n EXCEPT !.f[1][1].shown = n.f[1][1].text, !.f[1][1].type = "string"]

RECURSIVE Visit(_, _)
GenericVisit(n, parents) ==
  LET Under(i) == parents \cup {<<n.type, FieldsOf(n.type)[i].name>>}
      InField(i) == Map(LAMBDA c : Visit(c, Under(i)), n.f[i])
  IN  [n EXCEPT !.f = Map(InField, Indices(@))]

\* mutant: whatever a node is, it is annotated before its children are visited
VisitOwnFirst(n, parents) ==
  IF IsLeaf(n) THEN n
  ELSE IF n.type = "Constant" THEN Annotate(Repr(n), parents)
  ELSE IF BaseName(n.type) \in Annotated \/ n.type = "arg" THEN GenericVisit(Annotate(n, parents), parents)
  ELSE IF BaseName(n.type) = "slice" THEN [GenericVisit(n, parents) EXCEPT !.sentinel = <<SentinelNode>>]
  ELSE GenericVisit(n, parents)

\* A visitor of its own comes before the children, which are visited last then; the
\* visitor of the base comes between; without an own one the children come first.
Visit(n, parents) ==
  IF IsLeaf(n) THEN n
  ELSE IF n.type = "Constant" THEN Annotate(Repr(n), parents)
  ELSE IF n.type \in Decorated \cup {"arg"} THEN GenericVisit(Annotate(n, parents), parents)
  ELSE IF BaseName(n.type) \in Annotated THEN Annotate(GenericVisit(n, parents), parents)
  ELSE IF BaseName(n.type) = "slice" THEN [GenericVisit(n, parents) EXCEPT !.sentinel = <<SentinelNode>>]
  ELSE GenericVisit(n, parents)

PreparedAst(t) == Visit(t, {})

RECURSIVE NodeSequence(_)
NodeSequence(n) == <<n>> \o Flat(LAMBDA items : Flat(NodeSequence, items), n.f)

\* those apply_ast enters, among them what stands for None
EnteredNodes(n) ==
  {m \in Elements(NodeSequence(n)) \cup {SentinelNode} :
     ~IsLeaf(m) /\ ~IsEnumDefinition(DefinitionOf(m.type))}
-----------------------------------------------------------------------------
(* Properties                                                               *)

\* What is kept of a field: the fields of some kinds have no order.
Kept(field, items, unordered) ==
  IF field.kind \notin unordered THEN items
  ELSE [x \in Elements(items) |-> Cardinality({i \in DOMAIN items : items[i] = x})]

\* A property of several values, where a link has the index of each.
KindsOfProperties == DOMAIN TypeMap \cup enumTypes

\* What a tree is, whatever was added to it: without the fields named, constants by
\* their repr, and a None in a list as the node that stands for it.
RECURSIVE Structure(_, _, _)
Structure(n, without, unordered) ==
  IF n.type = "None" THEN [type |-> "Sentinel", shown |-> "", f |-> << >>]
  ELSE IF IsLeaf(n) THEN [type |-> "value", shown |-> n.text, f |-> << >>]
  ELSE [type |-> n.type, shown |-> "",
        f |-> LET fields == FieldsOf(n.type)
                  kept == SelectSeq(Indices(fields), LAMBDA i : fields[i].name \notin without)
                  Item(c) == Structure(c, without, unordered)
                  InField(i) == Kept(fields[i], Map(Item, n.f[i]), unordered)
              IN  Map(InField, kept)]

\* the tree that is read from the database, links in the order of their index
RECURSIVE Stored(_)
Stored(r) ==
  LET fields == FieldsOf(rows[r].type)
      Read(item) == IF item.kind = "row" THEN Stored(item.ref)
                    ELSE IF item.kind \in enumTypes THEN [type |-> item.shown, shown |-> "", f |-> << >>]
                    ELSE [type |-> "value", shown |-> item.shown, f |-> << >>]
  IN  [type |-> rows[r].type, shown |-> "",
       f |-> LET Items(field) == IF field.name \in DOMAIN rows[r].values
                                 THEN rows[r].values[field.name].items ELSE << >>
                 InField(field) == Kept(field, Map(Read, Items(field)), KindsOfProperties)
             IN  Map(InField, fields)]

\* What is read back from the database is the tree of the file, its lists of nodes in
\* order, its constants shown once, the None in a list in its place.  Lists of names
\* and of operators come back in any order.
TreeKept == pc = "done" => Stored(Len(rows)) = Structure(File, {}, KindsOfProperties)

\* Two expressions of a file have the same _tag if and only if they are the same
\* structurally, which is what a reference in a query asks by comparing tags.
TagsIdentify ==
  pc = "prepared" =>
    LET IsExpr(n) == ~IsLeaf(n) /\ BaseName(n.type) = "expr"
        was == Map(LAMBDA n : Structure(n, TagExclusions, {}), SelectSeq(NodeSequence(File), IsExpr))
        is  == SelectSeq(NodeSequence(Tree), IsExpr)
    IN  \A i, j \in DOMAIN is : is[i].tag = is[j].tag <=> was[i] = was[j]
=============================================================================
