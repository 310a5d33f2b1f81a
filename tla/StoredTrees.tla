----------------------------- MODULE StoredTrees -----------------------------
(***************************************************************************)
(* The way of a syntax tree into the database whose schema SchemaBuilder   *)
(* has built: serializer.py walks the tree and sends one INSERT for each   *)
(* node, children first, the database accepts a query if it fits the       *)
(* schema and refers to rows it has, and insert_file links the rows to     *)
(* their module.  What transformers.py makes of the tree before comes in   *)
(* as Prepare; PreparedTrees models it.                                    *)
(***************************************************************************)
EXTENDS SchemaBuilder

CONSTANTS Positions,  \* the attributes Python sets of what has a position, in their order
          Trees,      \* the modules that are inserted, as ast.parse returns them
          Prepare(_), \* prepare_ast
          NodesOf(_)  \* the nodes a prepared module is made of

(* A node has a type and, for each field of it, the sequence of what is in  *)
(* it; shown is the value of a leaf.  The None of a list is a node of type  *)
(* "None", a field that is None is empty.                                   *)

VARIABLES source,  \* the module as ast.parse returns it
          tree,    \* the module as prepare_ast leaves it
          stack,   \* the calls of apply_ast, one for each node that is entered
          ids,     \* reference_pool, filled while nodes are left
          rows,    \* the rows of the database, the first is the project's
          made,    \* the node a row is made of; no action reads it
          linked,  \* the rows with a link _module
          toLink,  \* module_annotated_types that are still to be updated
          pc

fileVars == <<source, tree, stack, ids, rows, made, linked, toLink, pc>>
vars == <<schemaVars, fileVars>>

\* text is the repr of a leaf; tag, parents and sentinel are what annotation adds
Node(type, f, value, repr) == [type |-> type, f |-> f, shown |-> value, text |-> repr,
                               tag |-> << >>, parents |-> {}, sentinel |-> << >>]
Leaf(type, value) == Node(type, << >>, value, value)
SentinelNode == Node("Sentinel", << >>, "", "")

LeafTypes == DOMAIN TypeMap \cup {"None", "tuple"}
IsLeaf(n) == n.type \in LeafTypes

Types == UNION {Elements(d.types) : d \in Elements(Definitions)}
ClassNames == {t.name : t \in Types}
FieldsOf(type) == (CHOOSE t \in Types : t.name = type).fields

\* base_name: the sum a class belongs to, or the product itself
DefinitionOf(type) == CHOOSE d \in Elements(Definitions) : \E t \in Elements(d.types) : t.name = type
BaseName(type) == DefinitionOf(type).name

\* is_enum: the class is one of those of Schema.enum_types
IsEnum(type) == BaseName(type) \in enumTypes

Annotated == {"expr", "stmt"}  \* visit_expr, visit_stmt
Located == {"expr", "stmt", "arg", "excepthandler"} \* Python gives them positions
-----------------------------------------------------------------------------
(* What is assumed of the ASDL file and of the trees                        *)

Has(d, name, kind, qualifier) ==
  \E f \in Elements(d.attributes) : f.name = name /\ f.kind = kind /\ f.qualifier = qualifier

IsSequence(s) == s \in Seq(Elements(s))

\* The names of the classes and of their fields are unique; there are modules, which are
\* in no field, and projects; both have no link to a module, and only they are unique.
ASSUME ClassesAssumption ==
  /\ \A d, e \in Elements(Definitions) :
       \A t \in Elements(d.types), u \in Elements(e.types) : t.name = u.name => d = e /\ t = u
  /\ \A d \in Elements(Definitions) :
       /\ \A t \in Elements(d.types) : (t.name = d.name) = (d.kind = "product")
       /\ \A t \in Elements(d.types) :
            /\ IsSequence(t.fields) /\ t.name \notin LeafTypes
            /\ \A i, j \in DOMAIN t.fields : t.fields[i].name = t.fields[j].name => i = j
            /\ \A f \in Elements(t.fields) :
                 /\ f.kind # "Module" /\ f.name # "_module"
                 /\ \A a \in Elements(d.attributes) : f.name # a.name
  /\ \A name \in {"Module", "project"} :
       \E d \in Elements(Definitions) : d.name = name /\ d.kind = "product" /\ d.attributes = << >>
  /\ \A d \in Elements(Definitions) : \A a \in Elements(d.attributes) :
       a.name = "_module" => a.kind = "Module"
  /\ \A u \in UniqueFields : u[1] = "Module"

\* The attributes the file declares are those Python and the transformers set, and of
\* these the required ones are always set.
ASSUME AttributesAssumption ==
  /\ IsSequence(Positions) /\ \A i, j \in DOMAIN Positions : Positions[i] = Positions[j] => i = j
  /\ {"_tag", "_parent_types", "sentinel"} \cap Elements(Positions) = {}
  /\ \A d \in Elements(Definitions) :
       /\ d.name \in Located => \A name \in Elements(Positions) :
            Has(d, name, "int", "") \/ Has(d, name, "int", "?")
       /\ d.name = "slice" => Has(d, "sentinel", "expr", "")
       /\ d.name \in Annotated \cup {"arg"} =>
            Has(d, "_tag", "int", "?") /\ \E c \in CustomNames : Has(d, "_parent_types", c, "*")
       /\ \A a \in Elements(d.attributes) : a.qualifier = "" =>
            \/ a.name \in Elements(Positions) /\ d.name \in Located
            \/ a.name = "sentinel" /\ d.name = "slice"

Nodes == UNION {NodesOf(t) : t \in {Prepare(t) : t \in Trees}}

\* x may be in a field: a value of its type, a member of its enumeration, a node of its
\* type, or, in a list of expressions, None.
MayBeIn(x, field) ==
  \/ /\ field.kind \in DOMAIN TypeMap
     /\ x.type \in DOMAIN TypeMap \ {"constant"} /\ TypeMap[x.type] = TypeMap[field.kind]
  \/ /\ x.type \in ClassNames /\ BaseName(x.type) = field.kind
     /\ IsEnumDefinition(DefinitionOf(x.type)) \/ x.type = "project" \/ x \in Nodes
  \/ field.kind = "expr" /\ field.qualifier = "*" /\ x.type = "None"

\* A node whose fields hold what the ASDL file says, annotated as its class is.
IsNode(n) ==
  LET d == DefinitionOf(n.type)
      fields == FieldsOf(n.type)
  IN  /\ n.type \in ClassNames /\ d.name # "custom_types" /\ ~IsEnumDefinition(d)
      /\ DOMAIN n.f = DOMAIN fields
      /\ \A i \in DOMAIN fields :
           /\ IsSequence(n.f[i])
           /\ fields[i].qualifier # "*" => Len(n.f[i]) <= 1
           /\ fields[i].qualifier = "" => n.f[i] # << >>
           /\ \A x \in Elements(n.f[i]) : MayBeIn(x, fields[i])
      /\ n.tag # << >> => d.name \in Annotated \cup {"arg"}
      /\ IsFiniteSet(n.parents)
      /\ n.sentinel = IF d.name = "slice" THEN <<SentinelNode>> ELSE << >>

\* What ast.parse and prepare_ast return is a module made of such nodes.
ASSUME TreesAssumption ==
  /\ {Prepare(t) : t \in Trees} \subseteq {n \in Nodes : n.type = "Module"}
  /\ \A n \in Nodes : IsNode(n)
  /\ SentinelNode \in Nodes /\ BaseName("Sentinel") = "expr"
-----------------------------------------------------------------------------
(* serializer.py                                                            *)

Property(name, many, items) == [name |-> name, many |-> many, items |-> items]

\* iter_properties
Properties(n) ==
  LET fields == FieldsOf(n.type)
      own  == [i \in DOMAIN fields |->
                 Property(fields[i].name, fields[i].qualifier = "*", n.f[i])]
      line == IF BaseName(n.type) \in Located
              THEN [i \in DOMAIN Positions |-> Property(Positions[i], FALSE, <<Leaf("int", "")>>)]
              ELSE << >>
      tag  == IF n.tag = << >> THEN << >>
              ELSE <<Property("_tag", FALSE, <<Leaf("int", "")>>),
                     Property("_parent_types", TRUE,
                              [i \in 1..Cardinality(n.parents) |-> Leaf("tuple", "")])>>
      mark == IF n.sentinel = << >> THEN << >> ELSE <<Property("sentinel", FALSE, n.sentinel)>>
  IN  own \o line \o tag \o mark

Row(ref) == [kind |-> "row", ref |-> ref, shown |-> ""]
Value(kind, shown) == [kind |-> kind, ref |-> 0, shown |-> shown]

\* what serialize enters apply_ast with: a node, and a Sentinel for None
IsInserted(x) == x.type = "None" \/ (~IsLeaf(x) /\ x.type # "project" /\ ~IsEnum(x.type))
NodeOf(x) == IF x.type = "None" THEN SentinelNode ELSE x

\* serialize for what is not inserted; a constant that is no string or number raises
Serialize(x) ==
  CASE x.type = "tuple"    -> Value(ParentInfo, "")
    [] x.type = "constant" -> Value("unexpected", x.shown)
    [] x.type \in DOMAIN TypeMap \ {"constant"} -> Value(TypeMap[x.type], x.shown)
    [] x.type = "project"  -> Row(1)
    [] OTHER               -> Value(BaseName(x.type), x.type)

\* _BASIC_SET_TYPES
IsBasic(x) == x.type \in LeafTypes \ {"None", "constant"} \/ (~IsLeaf(x) /\ IsEnum(x.type))

\* mutant: what is None in a list is left out
SentinelLess(items) == SelectSeq(items, LAMBDA x : x.type # "None")
\* serialize_sequence looks at every item
ItemsOf(items) == items

\* A call of apply_ast: the property it is at, the items of that one so far, and the
\* values of those before.
Frame(n) == [node |-> n, at |-> 1, items |-> << >>, values |-> << >>]

Top == stack[Len(stack)]
AtProperty == Top.at <= Len(Properties(Top.node))
Current == Properties(Top.node)[Top.at]
ItemsLeft == Len(Top.items) < Len(ItemsOf(Current.items))
NextItem == ItemsOf(Current.items)[Len(Top.items) + 1]
Query == [type |-> Top.node.type, values |-> Top.values]

\* one more item in a frame
Received(frame, item) == [frame EXCEPT !.items = Append(@, item)]

\* a list of anything that is not basic is sent with indices; None is not sent
Assigned(frame, property) ==
  LET value == [items |-> frame.items,
                indexed |-> property.many /\ \E x \in Elements(property.items) : ~IsBasic(x)]
  IN  IF ~property.many /\ property.items = << >> THEN frame.values
      ELSE [name \in DOMAIN frame.values \cup {property.name} |->
              IF name = property.name THEN value ELSE frame.values[name]]
-----------------------------------------------------------------------------
(* The database                                                             *)

IsA(type, kind) == type = kind \/ kind \in models[type].extending

Fits(field, value) ==
  /\ field.multi \/ Len(value.items) = 1
  /\ value.items # << >> => value.indexed = IsOrderedSequence(field)
  /\ \A i \in DOMAIN value.items :
       LET item == value.items[i]
       IN  IF field.property THEN item.kind = field.kind
           ELSE item.kind = "row" /\ item.ref \in DOMAIN rows /\ IsA(rows[item.ref].type, field.kind)

Accepts(q) ==
  /\ q.type \in DOMAIN models /\ models[q.type].constraint = "none"
  /\ \A name \in DOMAIN q.values :
       \E field \in Declared(q.type) : field.name = name /\ Fits(field, q.values[name])
  /\ \A field \in Declared(q.type) : field.required => field.name \in DOMAIN q.values
  /\ \A field \in Declared(q.type) : field.unique =>
       \A r \in Elements(rows) : r.type = q.type => r.values[field.name] # q.values[field.name]
-----------------------------------------------------------------------------
(* One file                                                                 *)

ProjectName == [items |-> <<Value("str", "a")>>, indexed |-> FALSE]
ProjectRow == [type |-> "project", values |-> [name |-> ProjectName]]

File == source[1]
Tree == tree[1]

Init == /\ InitSchema
        /\ source = << >> /\ tree = << >> /\ stack = << >> /\ ids = << >>
        /\ rows = <<ProjectRow>> /\ made = <<SentinelNode>>
        /\ linked = {} /\ toLink = {} /\ pc = "schema"

SchemaBuilt == /\ pc = "schema" /\ built
               /\ \E t \in Trees : source' = <<t>>
               /\ pc' = "parsed"
               /\ UNCHANGED <<schemaVars, tree, stack, ids, rows, made, linked, toLink>>

\* FileContext.as_ast
PrepareAst == /\ pc = "parsed"
              /\ tree' = <<Prepare(File)>>
              /\ pc' = "prepared"
              /\ UNCHANGED <<schemaVars, source, stack, ids, rows, made, linked, toLink>>

\* apply_ast(tree, context)
StartInsertion == /\ pc = "prepared"
                  /\ stack' = <<Frame(Tree)>>
                  /\ pc' = "inserting"
                  /\ UNCHANGED <<schemaVars, source, tree, ids, rows, made, linked, toLink>>

InNode == pc = "inserting" /\ stack # << >>

SerializeItem ==
  /\ InNode /\ AtProperty /\ ItemsLeft /\ ~IsInserted(NextItem)
  /\ stack' = [stack EXCEPT ![Len(stack)] = Received(@, Serialize(NextItem))]
  /\ UNCHANGED <<schemaVars, source, tree, ids, rows, made, linked, toLink, pc>>

\* enter_node
EnterNode ==
  /\ InNode /\ AtProperty /\ ItemsLeft /\ IsInserted(NextItem)
  /\ stack' = Append(stack, Frame(NodeOf(NextItem)))
  /\ UNCHANGED <<schemaVars, source, tree, ids, rows, made, linked, toLink, pc>>

NextProperty ==
  /\ InNode /\ AtProperty /\ ~ItemsLeft
  /\ stack' = [stack EXCEPT ![Len(stack)] =
                  [node |-> Top.node, at |-> Top.at + 1, items |-> << >>,
                   values |-> Assigned(Top, Current)]]
  /\ UNCHANGED <<schemaVars, source, tree, ids, rows, made, linked, toLink, pc>>

\* query_one, and new_reference unless it is the module's; a query that is not accepted
\* raises, and the file gets no further
Insert ==
  /\ InNode /\ ~AtProperty /\ Accepts(Query)
  /\ rows' = Append(rows, Query) /\ made' = Append(made, Top.node)
  /\ LET caller == Len(stack) - 1
         ref == Len(rows) + 1
     IN  IF caller = 0 THEN stack' = << >> /\ UNCHANGED ids
         ELSE /\ stack' = [i \in 1..caller |->
                             IF i = caller THEN Received(stack[i], Row(ref)) ELSE stack[i]]
              /\ ids' = Append(ids, ref)
  /\ UNCHANGED <<schemaVars, source, tree, linked, toLink, pc>>

\* for base_type in Schema.module_annotated_types
StartLinking == /\ pc = "inserting" /\ stack = << >>
                /\ toLink' = moduleTypes /\ pc' = "linking"
                /\ UNCHANGED <<schemaVars, source, tree, stack, ids, rows, made, linked>>

\* UPDATE base_type FILTER .id IN ids SET _module
Link == /\ pc = "linking"
        /\ \E t \in toLink :
             /\ linked' = linked \cup {r \in Elements(ids) : IsA(rows[r].type, t)}
             /\ toLink' = toLink \ {t}
        /\ UNCHANGED <<schemaVars, source, tree, stack, ids, rows, made, pc>>

Commit == /\ pc = "linking" /\ toLink = {}
          /\ pc' = "done"
          /\ UNCHANGED <<schemaVars, source, tree, stack, ids, rows, made, linked, toLink>>

InsertFile == \/ SchemaBuilt \/ PrepareAst \/ StartInsertion
              \/ SerializeItem \/ EnterNode \/ NextProperty \/ Insert
              \/ StartLinking \/ Link \/ Commit

Next == InsertFile \/ (BuildSchema /\ UNCHANGED fileVars)

Spec == Init /\ [][Next]_vars
-----------------------------------------------------------------------------
(* Properties                                                               *)

\* In whatever order the ASDL file defines its types, the database with the schema
\* built from it accepts every query of every tree: all fields are declared as what is
\* sent for them, none that is required is missing, no row refers to one to come.
QueriesAccepted == InNode /\ ~AtProperty => Accepts(Query)

\* in row r, item is what x has become: a row of it that was there before, or its value
StandsFor(item, x, r) ==
  IF IsInserted(x) THEN item.kind = "row" /\ item.ref \in 2..(r - 1) /\ made[item.ref] = NodeOf(x)
  ELSE item = Serialize(x)

KeepsItems(items, p, r) ==
  Len(items) = Len(p.items) /\ \A i \in DOMAIN p.items : StandsFor(items[i], p.items[i], r)

\* values has what is in property p, unless that is None
KeepsProperty(values, p, r) ==
  IF ~p.many /\ p.items = << >> THEN p.name \notin DOMAIN values
  ELSE p.name \in DOMAIN values /\ KeepsItems(values[p.name].items, p, r)

\* Every row has all that is in the node it is made of, in its order, the rows of its
\* nodes included, and the last row is the module's.
RowsKeepNodes ==
  /\ \A r \in 2..Len(rows) : \A p \in Elements(Properties(made[r])) :
       KeepsProperty(rows[r].values, p, r)
  /\ pc \in {"linking", "done"} => made[Len(rows)] = Tree

\* Every row whose type has a link to a module is linked when the file is committed.
AllLinked ==
  pc = "done" => \A r \in DOMAIN rows :
    (\E field \in Declared(rows[r].type) : field.name = "_module") => r \in linked
=============================================================================
