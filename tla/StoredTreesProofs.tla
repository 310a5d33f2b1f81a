-------------------------- MODULE StoredTreesProofs --------------------------
(***************************************************************************)
(* Proofs about StoredTrees, for any ASDL file, any order of its           *)
(* definitions and any modules: the schema, the serializer and the links   *)
(* to the module fit together.                                             *)
(***************************************************************************)
EXTENDS StoredTrees, SchemaBuilderProofs, FiniteSetTheorems

\* The fields fs of the file, as model m has them.
Declares(m, fs) == {IF built THEN Fixed(m, Field(f)) ELSE Field(f) : f \in fs}

\* Each definition that was visited has become the models it stands for ...
ProductShape(d) ==
  models[d.name] = Model("none", {}, Declares(d.name, Elements(d.types[1].fields)
                                                        \cup Elements(d.attributes)))
SumShape(d) ==
  /\ models[d.name] = Model("abstract", {}, Declares(d.name, Elements(d.attributes)))
  /\ \A t \in Elements(d.types) :
       models[t.name] = Model("none", {d.name, "AST"}, Declares(t.name, Elements(t.fields)))
IsSumDefinition(d) == d.kind = "sum" /\ d.name # "custom_types" /\ ~IsSimpleSum(d)

ShapeInv ==
  \A d \in Visited : /\ d.kind = "product" => ProductShape(d)
                     /\ IsSumDefinition(d) => SumShape(d)

\* ... and the models with a link to a module are annotated.
ModulesInv ==
  built => \A m \in DOMAIN models :
    (\E f \in models[m].fields : f.kind = "Module") => m \in moduleTypes

\* How far the file is says what is known of the schema and of the tree.
PhaseInv ==
  /\ pc \in {"schema", "parsed", "prepared", "inserting", "linking", "done"}
  /\ pc # "schema" => built
  /\ pc = "parsed" => File \in Trees
  /\ pc \in {"prepared", "inserting", "linking", "done"} => Tree \in Nodes /\ Tree.type = "Module"

\* Until the module is inserted no row is one of a module and all of them but the
\* project's are referred to; then the last one is the module's, and it is not.
Open == pc \in {"schema", "parsed", "prepared"} \/ InNode
RowsInv ==
  /\ IsSequence(rows) /\ IsSequence(made) /\ IsSequence(ids)
  /\ Len(rows) >= 1 /\ Len(made) = Len(rows) /\ rows[1] = ProjectRow
  /\ \A r \in 2..Len(rows) : made[r] \in Nodes /\ rows[r].type = made[r].type
  /\ Open => /\ Elements(ids) = 2..Len(rows)
             /\ \A r \in 2..Len(rows) : rows[r].type # "Module"
  /\ ~Open => /\ Len(rows) >= 2 /\ made[Len(rows)] = Tree
              /\ Elements(ids) = 2..(Len(rows) - 1)

\* Each row has what is in the node it is made of.
KeptInv ==
  \A r \in 2..Len(rows) : \A p \in Elements(Properties(made[r])) :
    KeepsProperty(rows[r].values, p, r)

\* Before schema types are known nothing is inserted.
NothingYet == pc \in {"schema", "parsed", "prepared"} => Len(rows) = 1

\* The value of a property is sent with indices if an item of it is not basic.
Indexed(values, p) ==
  p.name \in DOMAIN values =>
    /\ IsSequence(values[p.name].items)
    /\ values[p.name].indexed = (p.many /\ \E x \in Elements(p.items) : ~IsBasic(x))

\* A call of apply_ast, as Frame makes one.
Call(node, at, items, values) == [node |-> node, at |-> at, items |-> items, values |-> values]

\* It has the values of the properties before the one it is at, and the first items of
\* that one.
FrameInv(frame) ==
  LET ps == Properties(frame.node)
      next == Len(rows) + 1
  IN  /\ frame = Call(frame.node, frame.at, frame.items, frame.values)
      /\ frame.node \in Nodes /\ frame.at \in 1..(Len(ps) + 1)
      /\ IsSequence(frame.items)
      /\ frame.at <= Len(ps) =>
           /\ Len(frame.items) <= Len(ps[frame.at].items)
           /\ \A i \in 1..Len(frame.items) : StandsFor(frame.items[i], ps[frame.at].items[i], next)
      /\ frame.at = Len(ps) + 1 => frame.items = << >>
      /\ \A q \in 1..(frame.at - 1) :
           KeepsProperty(frame.values, ps[q], next) /\ Indexed(frame.values, ps[q])
      /\ \A name \in DOMAIN frame.values : \E q \in 1..(frame.at - 1) : ps[q].name = name

\* caller waits for the row of node
Awaits(caller, node) ==
  LET ps == Properties(caller.node)
      n  == Len(caller.items) + 1
  IN  /\ caller.at <= Len(ps) /\ n <= Len(ps[caller.at].items)
      /\ IsInserted(ps[caller.at].items[n]) /\ NodeOf(ps[caller.at].items[n]) = node

\* The first call is that of the module, and each other one of a node that the call below
\* it waits for.
StackInv ==
  InNode =>
    /\ IsSequence(stack) /\ stack[1].node = Tree
    /\ \A k \in 1..Len(stack) : FrameInv(stack[k])
    /\ \A k \in 2..Len(stack) : Awaits(stack[k - 1], stack[k].node)

\* The updates that were made have linked the rows of their type.
LinksInv ==
  pc \in {"linking", "done"} =>
    /\ pc = "done" => toLink = {}
    /\ \A t \in moduleTypes \ toLink : \A r \in Elements(ids) :
         IsA(rows[r].type, t) => r \in linked

\* What holds of the file on its way into the database ...
FileInv == PhaseInv /\ RowsInv /\ KeptInv /\ NothingYet /\ StackInv /\ LinksInv

\* ... and of that and the schema: the inductive invariant.
TreesInv == SchemaInv /\ ShapeInv /\ ModulesInv /\ FileInv

-----------------------------------------------------------------------------
(* The classes of the ASDL file                                             *)

\* A constructor belongs to one definition and has one list of fields.
LEMMA ClassOf ==
  ASSUME NEW d \in Elements(Definitions), NEW t \in Elements(d.types)
  PROVE  /\ t.name \in ClassNames /\ DefinitionOf(t.name) = d /\ BaseName(t.name) = d.name
         /\ FieldsOf(t.name) = t.fields
<1>1. t \in Types /\ t.name \in ClassNames
  BY DEF Types, ClassNames
<1>2. \A u \in Types : u.name = t.name => u = t
  BY ClassesAssumption DEF Types
<1>3. FieldsOf(t.name) = t.fields
  BY <1>1, <1>2 DEF FieldsOf
<1>4. \A e \in Elements(Definitions) : (\E u \in Elements(e.types) : u.name = t.name) => e = d
  BY ClassesAssumption
<1>5. DefinitionOf(t.name) = d
  BY <1>4 DEF DefinitionOf
<1> QED
  BY <1>1, <1>3, <1>5 DEF BaseName

\* And each class is one.
LEMMA ClassIs ==
  ASSUME NEW type \in ClassNames
  PROVE  /\ DefinitionOf(type) \in Elements(Definitions)
         /\ \E t \in Elements(DefinitionOf(type).types) :
              t.name = type /\ FieldsOf(type) = t.fields
<1>1. PICK d \in Elements(Definitions) : \E t \in Elements(d.types) : t.name = type
  BY DEF ClassNames, Types
<1> QED
  BY <1>1, ClassOf

\* A definition with models is a product with one constructor, an enumeration or a sum.
LEMMA KindsOfDefinition ==
  ASSUME NEW d \in Elements(Definitions)
  PROVE  /\ d.kind = "product" =>
              /\ d.name # "custom_types" /\ ~IsEnumDefinition(d) /\ NamesOf(d) = {d.name}
              /\ d.types[1] \in Elements(d.types)
              /\ \A t \in Elements(d.types) : t = d.types[1] /\ t.name = d.name
         /\ IsSumDefinition(d) =>
              /\ NamesOf(d) = {d.name} \cup {t.name : t \in Elements(d.types)}
              /\ \A t \in Elements(d.types) : t.name # d.name
         /\ IsEnumDefinition(d) => NamesOf(d) = {d.name}
         /\ d.name # "custom_types" =>
              d.kind = "product" \/ IsSumDefinition(d) \/ IsEnumDefinition(d)
         /\ d.name # "custom_types" => d.name \in NamesOf(d)
<1>1. /\ d.kind \in {"sum", "product"} /\ (d.kind = "product" => 1 \in DOMAIN d.types)
      /\ d.name = "custom_types" => d.kind = "sum"
  BY DefinitionsAssumption
<1>2. \A t \in Elements(d.types) : (t.name = d.name) = (d.kind = "product")
  BY ClassesAssumption
<1>3. \A t, u \in Elements(d.types) : t.name = u.name => t = u
  BY ClassesAssumption
<1>4. d.kind = "product" => d.types[1] \in Elements(d.types)
  BY <1>1 DEF Elements
<1>5. d.kind = "product" => \A t \in Elements(d.types) : t = d.types[1] /\ t.name = d.name
  <2> SUFFICES ASSUME d.kind = "product", NEW t \in Elements(d.types)
               PROVE  t = d.types[1] /\ t.name = d.name
    OBVIOUS
  <2>1. t.name = d.name /\ d.types[1].name = d.name
    BY <1>2, <1>4
  <2> QED
    BY <1>3, <1>4, <2>1
<1>6. d.kind = "product" => NamesOf(d) = {d.name} /\ ~IsEnumDefinition(d)
  BY <1>1 DEF NamesOf, IsEnumDefinition
<1>7. IsSumDefinition(d) => /\ NamesOf(d) = {d.name} \cup {t.name : t \in Elements(d.types)}
                            /\ \A t \in Elements(d.types) : t.name # d.name
  BY <1>2 DEF NamesOf, IsSumDefinition
<1>8. IsEnumDefinition(d) => NamesOf(d) = {d.name}
  BY DEF NamesOf, IsEnumDefinition
<1>9. d.name # "custom_types" => d.kind = "product" \/ IsSumDefinition(d) \/ IsEnumDefinition(d)
  BY <1>1 DEF IsSumDefinition, IsEnumDefinition
<1> QED
  BY <1>1, <1>4, <1>5, <1>6, <1>7, <1>8, <1>9

-----------------------------------------------------------------------------
(* The schema                                                               *)

\* Nothing is visited in the beginning.
LEMMA ShapeStarts ==
  ASSUME InitSchema
  PROVE  ShapeInv /\ ModulesInv
BY DEF InitSchema, ShapeInv, ModulesInv, Visited

\* A visit makes of a definition the models it stands for and leaves the others.
LEMMA ShapeVisit ==
  ASSUME SchemaInv, ShapeInv, VisitDefinition
  PROVE  ShapeInv' /\ ModulesInv'
<1>1. PICK d \in pending :
        /\ VisitProduct(d) \/ VisitEnum(d) \/ VisitSum(d) \/ VisitCustomTypes(d)
        /\ pending' = pending \ {d} /\ UNCHANGED <<moduleTypes, built>>
  BY DEF VisitDefinition
<1>2. /\ d \in Elements(Definitions) /\ d \notin Visited
      /\ \A e \in Visited : NamesOf(d) \cap NamesOf(e) = {}
      /\ NamesOf(d) \cap DOMAIN models = {}
  BY NamesDistinct DEF SchemaInv
<1>3. Visited' = Visited \cup {d} /\ ~built /\ ~built'
  BY <1>1, <1>2 DEF Visited, SchemaInv, BuiltLast
<1>4. \A m, fs : Declares(m, fs) = {Field(f) : f \in fs} /\ Declares(m, fs)' = {Field(f) : f \in fs}
  BY <1>3 DEF Declares
<1>5. \A m \in DOMAIN models : models'[m] = models[m]
  <2>1. CASE VisitProduct(d)
    <3>1. NamesOf(d) = {d.name}
      BY <1>2, <2>1, KindsOfDefinition DEF VisitProduct
    <3> QED
      BY <1>2, <2>1, <3>1 DEF VisitProduct, With, One
  <2>2. CASE VisitEnum(d)
    <3>1. NamesOf(d) = {d.name}
      BY <1>2, <2>2, KindsOfDefinition DEF VisitEnum, IsEnumDefinition
    <3> QED
      BY <1>2, <2>2, <3>1 DEF VisitEnum, With, One
  <2>3. CASE VisitSum(d)
    <3>1. NamesOf(d) = {d.name} \cup {t.name : t \in Elements(d.types)}
      BY <1>2, <2>3, KindsOfDefinition DEF VisitSum, IsSumDefinition
    <3> QED
      BY <1>2, <2>3, <3>1 DEF VisitSum, With
  <2>4. CASE VisitCustomTypes(d)
    BY <2>4 DEF VisitCustomTypes
  <2> QED
    BY <1>1, <2>1, <2>2, <2>3, <2>4
<1>6. ASSUME NEW e \in Visited
      PROVE  /\ e.kind = "product" => ProductShape(e)'
             /\ IsSumDefinition(e) => SumShape(e)'
  <2>1. e \in Elements(Definitions) /\ NamesOf(e) \subseteq DOMAIN models
    BY DEF Visited, SchemaInv, ModelsInv
  <2>2. CASE e.kind = "product"
    <3>1. models'[e.name] = models[e.name]
      BY <1>5, <2>1, <2>2, KindsOfDefinition
    <3>2. ProductShape(e)
      BY <2>2 DEF ShapeInv
    <3>3. ProductShape(e)'
      BY <1>4, <3>1, <3>2 DEF ProductShape
    <3> QED
      BY <2>2, <3>3 DEF IsSumDefinition
  <2>3. CASE IsSumDefinition(e)
    <3>1. models'[e.name] = models[e.name] /\ \A t \in Elements(e.types) : models'[t.name] = models[t.name]
      BY <1>5, <2>1, <2>3, KindsOfDefinition
    <3>2. SumShape(e)
      BY <2>3 DEF ShapeInv
    <3>3. SumShape(e)'
      BY <1>4, <3>1, <3>2 DEF SumShape
    <3> QED
      BY <2>3, <3>3 DEF IsSumDefinition
  <2> QED
    BY <2>2, <2>3
<1>7. d.kind = "product" => ProductShape(d)'
  <2> SUFFICES ASSUME d.kind = "product" PROVE ProductShape(d)'
    OBVIOUS
  <2>1. VisitProduct(d)
    BY <1>1, <1>2, KindsOfDefinition DEF VisitEnum, VisitSum, VisitCustomTypes
  <2>2. models'[d.name] = Model("none", {}, Fields(d.types[1].fields) \cup Fields(d.attributes))
    BY <2>1 DEF VisitProduct, With, One
  <2>3. Fields(d.types[1].fields) \cup Fields(d.attributes)
          = {Field(f) : f \in Elements(d.types[1].fields) \cup Elements(d.attributes)}
    BY DEF Fields
  <2> QED
    BY <1>4, <2>2, <2>3 DEF ProductShape
<1>8. IsSumDefinition(d) => SumShape(d)'
  <2> SUFFICES ASSUME IsSumDefinition(d) PROVE SumShape(d)'
    OBVIOUS
  <2>1. VisitSum(d)
    BY <1>1, <1>2, KindsOfDefinition DEF VisitProduct, VisitEnum, VisitCustomTypes, IsSumDefinition
  <2>2. \A t \in Elements(d.types) :
          t.name # d.name /\ (CHOOSE u \in Elements(d.types) : u.name = t.name) = t
    <3>1. \A t, u \in Elements(d.types) : u.name = t.name => u = t
      BY <1>2, ClassesAssumption
    <3> QED
      BY <1>2, <3>1, KindsOfDefinition
  <2>3. models'[d.name] = Model("abstract", {}, Fields(d.attributes))
    BY <2>1 DEF VisitSum, With
  <2>4. \A t \in Elements(d.types) :
          models'[t.name] = Model("none", {d.name, "AST"}, Fields(t.fields))
    BY <2>1, <2>2 DEF VisitSum, With
  <2> QED
    BY <1>4, <2>3, <2>4 DEF SumShape, Fields
<1>9. ModulesInv'
  BY <1>3 DEF ModulesInv
<1> QED
  BY <1>3, <1>6, <1>7, <1>8, <1>9 DEF ShapeInv

\* Fixing the references fixes each field of a model, and finds those with a module.
LEMMA ShapeFix ==
  ASSUME SchemaInv, ShapeInv, FixReferences
  PROVE  ShapeInv' /\ ModulesInv'
<1>1. /\ ~built /\ built' /\ UNCHANGED <<pending, enumTypes, customTypes>>
      /\ moduleTypes' = ModuleAnnotated /\ DOMAIN models' = DOMAIN models
      /\ \A m \in DOMAIN models :
           models'[m] = [models[m] EXCEPT !.fields = {Fixed(m, f) : f \in models[m].fields}]
  BY DEF FixReferences
<1>2. \A m, f : Fixed(m, f)' = Fixed(m, f)
  BY <1>1 DEF Fixed
<1>3. ASSUME NEW m \in DOMAIN models, NEW c, NEW e, NEW fs,
             models[m] = Model(c, e, Declares(m, fs))
      PROVE  models'[m] = Model(c, e, Declares(m, fs)')
  <2> DEFINE old == {Field(f) : f \in fs}
             new == {Fixed(m, Field(f)) : f \in fs}
  <2>1. Declares(m, fs) = old /\ Declares(m, fs)' = new
    BY <1>1, <1>2 DEF Declares
  <2>2. {Fixed(m, f) : f \in old} = new
    OBVIOUS
  <2> HIDE DEF old, new
  <2>3. /\ IsModel(models[m]) /\ models[m].constraint = c /\ models[m].extending = e
        /\ models[m].fields = old
    BY <1>3, <2>1 DEF Model, IsModel
  <2>4. models'[m] = [models[m] EXCEPT !.fields = new]
    BY <1>1, <2>2, <2>3
  <2> QED
    BY <2>1, <2>3, <2>4, FieldsReplaced
<1>4. ASSUME NEW d \in Visited
      PROVE  /\ d.kind = "product" => ProductShape(d)'
             /\ IsSumDefinition(d) => SumShape(d)'
  <2>1. d \in Elements(Definitions) /\ NamesOf(d) \subseteq DOMAIN models
    BY DEF Visited, SchemaInv, ModelsInv
  <2>2. CASE d.kind = "product"
    <3>1. d.name \in DOMAIN models
      BY <2>1, <2>2, KindsOfDefinition
    <3>2. ProductShape(d)
      BY <2>2 DEF ShapeInv
    <3>3. ProductShape(d)'
      BY <1>3, <3>1, <3>2 DEF ProductShape
    <3> QED
      BY <2>2, <3>3 DEF IsSumDefinition
  <2>3. CASE IsSumDefinition(d)
    <3>1. d.name \in DOMAIN models /\ \A t \in Elements(d.types) : t.name \in DOMAIN models
      BY <2>1, <2>3, KindsOfDefinition
    <3>2. SumShape(d)
      BY <2>3 DEF ShapeInv
    <3>3. models'[d.name] = Model("abstract", {}, Declares(d.name, Elements(d.attributes))')
      BY <1>3, <3>1, <3>2 DEF SumShape
    <3>4. \A t \in Elements(d.types) :
            models'[t.name] = Model("none", {d.name, "AST"}, Declares(t.name, Elements(t.fields))')
      BY <1>3, <3>1, <3>2 DEF SumShape
    <3>5. SumShape(d)'
      BY <3>3, <3>4 DEF SumShape
    <3> QED
      BY <2>3, <3>5 DEF IsSumDefinition
  <2> QED
    BY <2>2, <2>3
<1>5. ShapeInv'
  BY <1>1, <1>4 DEF ShapeInv, Visited
<1>6. ASSUME NEW m \in DOMAIN models, NEW g \in models'[m].fields, g.kind = "Module"
      PROVE  m \in ModuleAnnotated
  <2>1. PICK f \in models[m].fields : g = Fixed(m, f)
    <3>1. IsModel(models[m])
      BY DEF SchemaInv, ModelsInv
    <3> DEFINE fixed == {Fixed(m, f) : f \in models[m].fields}
    <3>2. models'[m] = [models[m] EXCEPT !.fields = fixed]
      BY <1>1
    <3> HIDE DEF fixed
    <3>3. models'[m].fields = fixed
      BY <3>1, <3>2, FieldsReplaced, ModelIs
    <3> QED
      BY <1>6, <3>3 DEF fixed
  <2>2. \E h \in FieldsOfDefinitions : f = Field(h)
    BY <1>1 DEF SchemaInv, FieldsInv
  <2>3. g.kind = IF f.kind \in DOMAIN customTypes THEN ParentInfo ELSE f.kind
    BY <2>1, <2>2 DEF Fixed, Field, SchemaInv, CustomInv
  <2>4. f.kind = "Module"
    BY <1>6, <2>3 DEF ParentInfo
  <2> QED
    BY <2>4 DEF ModuleAnnotated
<1>7. ModulesInv'
  BY <1>1, <1>6 DEF ModulesInv
<1> QED
  BY <1>5, <1>7

\* So what is known of the schema remains true.
LEMMA ShapeSteps ==
  ASSUME SchemaInv, ShapeInv, ModulesInv, [BuildSchema]_schemaVars
  PROVE  SchemaInv' /\ ShapeInv' /\ ModulesInv'
<1>1. CASE UNCHANGED schemaVars
  <2>1. Visited' = Visited /\ models' = models /\ built' = built /\ moduleTypes' = moduleTypes
    BY <1>1 DEF schemaVars, Visited
  <2>2. \A m, fs : Declares(m, fs)' = Declares(m, fs)
    BY <1>1 DEF schemaVars, Declares, Fixed
  <2>3. ShapeInv'
    BY <2>1, <2>2 DEF ShapeInv, ProductShape, SumShape
  <2>4. ModulesInv'
    BY <2>1 DEF ModulesInv
  <2> QED
    BY <1>1, <2>3, <2>4, SchemaSteps
<1> QED
  BY <1>1, ShapeVisit, ShapeFix, SchemaSteps DEF BuildSchema

-----------------------------------------------------------------------------
(* The schema that is built                                                 *)

\* An enumeration is known as one, a custom type as the pair it stands for.
LEMMA EnumsAre ==
  ASSUME SchemaInv, built
  PROVE  /\ Visited = Elements(Definitions) /\ DOMAIN customTypes = CustomNames
         /\ \A c \in CustomNames : customTypes[c] = ParentInfo
         /\ \A d \in Elements(Definitions) : d.name \in enumTypes <=> IsEnumDefinition(d)
<1>1. Visited = Elements(Definitions)
  BY DEF SchemaInv, BuiltLast, Visited
<1>2. enumTypes = {d.name : d \in {e \in Elements(Definitions) : IsEnumDefinition(e)}}
  BY <1>1 DEF SchemaInv, ModelsInv
<1>3. \A d, e \in Elements(Definitions) : d.name = e.name => d = e
  BY DefinitionsAssumption
<1> QED
  BY <1>1, <1>2, <1>3 DEF SchemaInv, CustomInv, CustomNames

\* A class that is no enumeration's has a model with rows, of its own fields and of the
\* attributes of its definition, and its rows are of the definition's type as well.
LEMMA ClassModel ==
  ASSUME SchemaInv, ShapeInv, built,
         NEW d \in Elements(Definitions), NEW t \in Elements(d.types),
         d.name # "custom_types", ~IsEnumDefinition(d)
  PROVE  /\ t.name \in DOMAIN models /\ models[t.name].constraint = "none"
         /\ IsA(t.name, d.name)
         /\ Declared(t.name) = {Fixed(t.name, Field(f)) : f \in Elements(t.fields)}
                                 \cup {Fixed(d.name, Field(a)) : a \in Elements(d.attributes)}
<1>1. d \in Visited /\ NamesOf(d) \subseteq DOMAIN models
  BY EnumsAre DEF SchemaInv, ModelsInv
<1>2. \A m, fs : Declares(m, fs) = {Fixed(m, Field(f)) : f \in fs}
  BY DEF Declares
<1>3. CASE d.kind = "product"
  <2>1. t = d.types[1] /\ t.name = d.name /\ d.name \in DOMAIN models
    BY <1>1, <1>3, KindsOfDefinition
  <2> DEFINE fs == Elements(t.fields) \cup Elements(d.attributes)
             own == {Fixed(d.name, Field(f)) : f \in fs}
  <2>2. models[d.name] = Model("none", {}, own)
    BY <1>1, <1>2, <1>3, <2>1 DEF ShapeInv, ProductShape
  <2> HIDE DEF own
  <2>3. /\ models[d.name].constraint = "none" /\ models[d.name].fields = own
        /\ models[d.name].extending = {}
    BY <2>2 DEF Model
  <2>4. Declared(t.name) = own
    BY <2>1, <2>3 DEF Declared, BaseOf
  <2> QED
    BY <2>1, <2>3, <2>4 DEF IsA, own
<1>4. CASE IsSumDefinition(d)
  <2>1. t.name # d.name /\ {t.name, d.name} \subseteq DOMAIN models /\ d.name # "AST"
    BY <1>1, <1>4, KindsOfDefinition, DefinitionsAssumption
  <2> DEFINE own == {Fixed(t.name, Field(f)) : f \in Elements(t.fields)}
             shared == {Fixed(d.name, Field(a)) : a \in Elements(d.attributes)}
  <2>2. /\ models[t.name] = Model("none", {d.name, "AST"}, own)
        /\ models[d.name] = Model("abstract", {}, shared)
    BY <1>1, <1>2, <1>4 DEF ShapeInv, SumShape
  <2> HIDE DEF own, shared
  <2>3. /\ models[t.name].constraint = "none" /\ models[t.name].fields = own
        /\ models[t.name].extending = {d.name, "AST"} /\ models[d.name].fields = shared
    BY <2>2 DEF Model
  <2>4. BaseOf(t.name) = d.name
    <3>1. \A b \in {d.name, "AST"} : b # "AST" => b = d.name
      OBVIOUS
    <3> QED
      BY <2>1, <2>3, <3>1 DEF BaseOf
  <2>5. Declared(t.name) = own \cup shared
    BY <2>3, <2>4 DEF Declared
  <2> QED
    BY <2>1, <2>3, <2>5 DEF IsA, own, shared
<1> QED
  BY <1>3, <1>4, KindsOfDefinition

\* What the schema makes of a field f of the file.
IsFixed(g, f) ==
  /\ g.name = f.name
  /\ g.required <=> f.qualifier = ""
  /\ g.multi <=> f.qualifier = "*"
  /\ f.kind \in DOMAIN TypeMap => g.kind = TypeMap[f.kind] /\ g.property
  /\ f.kind \in CustomNames => g.kind = ParentInfo /\ g.property
  /\ f.kind \notin DOMAIN TypeMap \cup CustomNames =>
       g.kind = f.kind /\ (g.property <=> f.kind \in enumTypes)

\* A field that is fixed is of the database's type, and a property if that is basic.
LEMMA FixedIs ==
  ASSUME SchemaInv, built, NEW m, NEW f
  PROVE  IsFixed(Fixed(m, Field(f)), f)
<1> DEFINE g == Fixed(m, Field(f))
<1>1. CustomNames \cap (DOMAIN TypeMap \cup BasicKinds) = {} /\ DOMAIN customTypes = CustomNames
  BY EnumsAre, DefinitionsAssumption
<1>2. \A c \in CustomNames : customTypes[c] = ParentInfo
  BY EnumsAre
<1>3. \A k \in DOMAIN TypeMap : TypeMap[k] \in BasicKinds
  BY DEF BasicKinds
<1> DEFINE k == IF f.kind \in DOMAIN TypeMap THEN TypeMap[f.kind] ELSE f.kind
<1>4. /\ g.name = f.name
      /\ g.required <=> f.qualifier = ""
      /\ g.multi <=> f.qualifier = "*"
  BY DEF Fixed, Field
<1>5. /\ g.kind = IF k \in DOMAIN customTypes THEN customTypes[k] ELSE k
      /\ g.property <=> (f.kind \in DOMAIN TypeMap \/ k \in DOMAIN customTypes \/ k \in enumTypes)
  BY DEF Fixed, Field
<1>6. /\ f.kind \in DOMAIN TypeMap => k = TypeMap[f.kind]
      /\ f.kind \notin DOMAIN TypeMap => k = f.kind
  OBVIOUS
<1> HIDE DEF k, g
<1>7. f.kind \in DOMAIN TypeMap => g.kind = TypeMap[f.kind] /\ g.property
  BY <1>1, <1>3, <1>5, <1>6
<1>8. f.kind \in CustomNames => g.kind = ParentInfo /\ g.property
  BY <1>1, <1>2, <1>5, <1>6
<1>9. f.kind \notin DOMAIN TypeMap \cup CustomNames =>
        g.kind = f.kind /\ (g.property <=> f.kind \in enumTypes)
  BY <1>1, <1>5, <1>6
<1> QED
  BY <1>4, <1>7, <1>8, <1>9 DEF IsFixed, g

-----------------------------------------------------------------------------
(* The properties of a node                                                 *)

\* No two properties of s have one name.
NamesDiffer(s) == \A i, j \in DOMAIN s : s[i].name = s[j].name => i = j

\* Each property of iter_properties on its own.
Own(n, i) == Property(FieldsOf(n.type)[i].name, FieldsOf(n.type)[i].qualifier = "*", n.f[i])
Line(position) == Property(position, FALSE, <<Leaf("int", "")>>)
Tag == Property("_tag", FALSE, <<Leaf("int", "")>>)
Parents(n) == Property("_parent_types", TRUE, [i \in 1..Cardinality(n.parents) |-> Leaf("tuple", "")])
Mark(n) == Property("sentinel", FALSE, n.sentinel)

\* Two sequences one after the other, of properties with different names.
LEMMA Joined ==
  ASSUME NEW S, NEW s \in Seq(S), NEW t \in Seq(S), NamesDiffer(s), NamesDiffer(t),
         \A p \in Elements(s), q \in Elements(t) : p.name # q.name
  PROVE  /\ s \o t \in Seq(S) /\ Elements(s \o t) = Elements(s) \cup Elements(t)
         /\ NamesDiffer(s \o t)
<1>1. /\ s \o t \in Seq(S) /\ DOMAIN (s \o t) = 1..(Len(s) + Len(t))
      /\ DOMAIN s = 1..Len(s) /\ DOMAIN t = 1..Len(t) /\ Len(s) \in Nat /\ Len(t) \in Nat
      /\ \A i \in 1..(Len(s) + Len(t)) : (s \o t)[i] = IF i <= Len(s) THEN s[i] ELSE t[i - Len(s)]
  OBVIOUS
<1> DEFINE st == s \o t
<1> HIDE DEF st
<1>2. /\ DOMAIN st = 1..(Len(s) + Len(t))
      /\ \A i \in 1..(Len(s) + Len(t)) : st[i] = IF i <= Len(s) THEN s[i] ELSE t[i - Len(s)]
  BY <1>1 DEF st
<1>3. Elements(st) \subseteq Elements(s) \cup Elements(t)
  <2> SUFFICES ASSUME NEW i \in DOMAIN st PROVE st[i] \in Elements(s) \cup Elements(t)
    BY DEF Elements
  <2>1. CASE i <= Len(s)
    BY <1>1, <1>2, <2>1 DEF Elements
  <2>2. CASE i > Len(s)
    <3>1. st[i] = t[i - Len(s)] /\ i - Len(s) \in 1..Len(t)
      BY <1>1, <1>2, <2>2
    <3> QED
      BY <1>1, <3>1 DEF Elements
  <2> QED
    BY <1>1, <1>2, <2>1, <2>2
<1>4. Elements(s) \subseteq Elements(st)
  <2> SUFFICES ASSUME NEW i \in DOMAIN s PROVE s[i] \in Elements(st)
    BY DEF Elements
  <2>1. i \in DOMAIN st /\ st[i] = s[i]
    BY <1>1, <1>2
  <2> QED
    BY <2>1 DEF Elements
<1>5. Elements(t) \subseteq Elements(st)
  <2> SUFFICES ASSUME NEW i \in DOMAIN t PROVE t[i] \in Elements(st)
    BY DEF Elements
  <2>1. (Len(s) + i) \in DOMAIN st /\ st[Len(s) + i] = t[i]
    BY <1>1, <1>2
  <2> QED
    BY <2>1 DEF Elements
<1>6. NamesDiffer(st)
  <2> SUFFICES ASSUME NEW i \in DOMAIN st, NEW j \in DOMAIN st, st[i].name = st[j].name
               PROVE  i = j
    BY DEF NamesDiffer
  <2>1. \A k \in DOMAIN st : \/ k \in DOMAIN s /\ st[k] = s[k]
                             \/ /\ k - Len(s) \in DOMAIN t /\ k \notin DOMAIN s
                                /\ st[k] = t[k - Len(s)]
    BY <1>1, <1>2
  <2>2. \A k \in DOMAIN s, l \in DOMAIN t : s[k].name # t[l].name
    BY DEF Elements
  <2>3. CASE i \in DOMAIN s /\ j \in DOMAIN s
    BY <2>1, <2>3, <1>1 DEF NamesDiffer
  <2>4. CASE i \notin DOMAIN s /\ j \notin DOMAIN s
    <3>1. i - Len(s) = j - Len(s)
      BY <2>1, <2>4 DEF NamesDiffer
    <3> QED
      BY <1>1, <1>2, <3>1
  <2>5. CASE i \in DOMAIN s /\ j \notin DOMAIN s
    BY <2>1, <2>2, <2>5, <1>1
  <2>6. CASE i \notin DOMAIN s /\ j \in DOMAIN s
    BY <2>1, <2>2, <2>6, <1>1
  <2> QED
    BY <2>3, <2>4, <2>5, <2>6
<1> QED
  BY <1>1, <1>3, <1>4, <1>5, <1>6 DEF st

\* A node is of a class with rows, whose fields it has.
LEMMA NodeIs ==
  ASSUME NEW n \in Nodes
  PROVE  /\ n.type \in ClassNames /\ DefinitionOf(n.type) \in Elements(Definitions)
         /\ DefinitionOf(n.type).name # "custom_types" /\ ~IsEnumDefinition(DefinitionOf(n.type))
         /\ \E t \in Elements(DefinitionOf(n.type).types) :
              t.name = n.type /\ FieldsOf(n.type) = t.fields
         /\ IsSequence(FieldsOf(n.type)) /\ DOMAIN n.f = DOMAIN FieldsOf(n.type)
         /\ NamesDiffer(FieldsOf(n.type))
         /\ \A f \in Elements(FieldsOf(n.type)) :
              /\ f \in FieldsOfDefinitions /\ f.kind # "Module" /\ f.name # "_module"
              /\ \A a \in Elements(DefinitionOf(n.type).attributes) : f.name # a.name
<1>1. IsNode(n)
  BY TreesAssumption
<1>2. /\ n.type \in ClassNames /\ DefinitionOf(n.type).name # "custom_types"
      /\ ~IsEnumDefinition(DefinitionOf(n.type)) /\ DOMAIN n.f = DOMAIN FieldsOf(n.type)
  BY <1>1 DEF IsNode
<1> DEFINE d == DefinitionOf(n.type)
<1>3. PICK t \in Elements(d.types) : t.name = n.type /\ FieldsOf(n.type) = t.fields
  BY <1>2, ClassIs
<1>4. d \in Elements(Definitions)
  BY <1>2, ClassIs
<1> HIDE DEF d
<1>5. /\ IsSequence(t.fields)
      /\ \A i, j \in DOMAIN t.fields : t.fields[i].name = t.fields[j].name => i = j
      /\ \A f \in Elements(t.fields) :
           f.kind # "Module" /\ f.name # "_module" /\ \A a \in Elements(d.attributes) : f.name # a.name
  BY <1>3, <1>4, ClassesAssumption
<1>6. Elements(t.fields) \subseteq FieldsOfDefinitions
  BY <1>2, <1>3, <1>4 DEF FieldsOfDefinitions, d
<1> QED
  BY <1>2, <1>3, <1>4, <1>5, <1>6 DEF NamesDiffer, d

\* What Python and the transformers set of a node is an attribute of its definition.
LEMMA SetBy ==
  ASSUME NEW n \in Nodes
  PROVE  /\ BaseName(n.type) \in Located => \A name \in Elements(Positions) :
              Has(DefinitionOf(n.type), name, "int", "") \/ Has(DefinitionOf(n.type), name, "int", "?")
         /\ n.tag # << >> => /\ Has(DefinitionOf(n.type), "_tag", "int", "?")
                             /\ \E c \in CustomNames : Has(DefinitionOf(n.type), "_parent_types", c, "*")
         /\ n.sentinel # << >> => /\ Has(DefinitionOf(n.type), "sentinel", "expr", "")
                                  /\ n.sentinel = <<SentinelNode>>
         /\ BaseName(n.type) = "slice" => n.sentinel # << >>
<1> DEFINE d == DefinitionOf(n.type)
<1>1. d \in Elements(Definitions)
  BY NodeIs
<1>2. IsNode(n)
  BY TreesAssumption
<1>3. /\ n.tag # << >> => d.name \in Annotated \cup {"arg"}
      /\ n.sentinel = IF d.name = "slice" THEN <<SentinelNode>> ELSE << >>
  BY <1>2 DEF IsNode
<1> HIDE DEF d
<1>4. /\ d.name \in Located => \A name \in Elements(Positions) :
           Has(d, name, "int", "") \/ Has(d, name, "int", "?")
      /\ d.name = "slice" => Has(d, "sentinel", "expr", "")
      /\ d.name \in Annotated \cup {"arg"} =>
           Has(d, "_tag", "int", "?") /\ \E c \in CustomNames : Has(d, "_parent_types", c, "*")
  BY <1>1, AttributesAssumption
<1>5. BaseName(n.type) = d.name
  BY DEF BaseName, d
<1>6. <<SentinelNode>> # << >>
  OBVIOUS
<1> QED
  BY <1>3, <1>4, <1>5, <1>6 DEF d

\* The properties of a node have different names, and are its fields and what Python
\* or the transformers have set of its attributes.
LEMMA PropertiesAre ==
  ASSUME NEW n \in Nodes
  PROVE  /\ IsSequence(Properties(n)) /\ NamesDiffer(Properties(n))
         /\ \A p \in Elements(Properties(n)) :
              \/ \E i \in DOMAIN FieldsOf(n.type) : p = Own(n, i)
              \/ BaseName(n.type) \in Located /\ \E name \in Elements(Positions) : p = Line(name)
              \/ p \in {Tag, Parents(n)} /\ n.tag # << >>
              \/ p = Mark(n) /\ n.sentinel # << >>
         /\ \A i \in DOMAIN FieldsOf(n.type) : Own(n, i) \in Elements(Properties(n))
         /\ BaseName(n.type) \in Located =>
              \A name \in Elements(Positions) : Line(name) \in Elements(Properties(n))
         /\ n.sentinel # << >> => Mark(n) \in Elements(Properties(n))
<1> DEFINE fields == FieldsOf(n.type)
           attributes == DefinitionOf(n.type).attributes
           own  == [i \in DOMAIN fields |-> Own(n, i)]
           lines == [i \in DOMAIN Positions |-> Line(Positions[i])]
           line == IF BaseName(n.type) \in Located THEN lines ELSE << >>
           tag  == IF n.tag = << >> THEN << >> ELSE <<Tag, Parents(n)>>
           mark == IF n.sentinel = << >> THEN << >> ELSE <<Mark(n)>>
           L    == {Line(name) : name \in Elements(Positions)}
           S    == Elements(own) \cup L \cup {Tag, Parents(n), Mark(n)}
<1>1. Properties(n) = ((own \o line) \o tag) \o mark
  BY DEF Properties, Own, Line, Tag, Parents, Mark
<1>2. /\ fields \in Seq(Elements(fields)) /\ NamesDiffer(fields)
      /\ \A f \in Elements(fields), a \in Elements(attributes) : f.name # a.name
  BY NodeIs DEF IsSequence
<1>3. \A i \in DOMAIN fields : own[i].name = fields[i].name
  BY DEF Own, Property
<1>4. /\ own \in Seq(S) /\ NamesDiffer(own)
      /\ \A p \in Elements(own), a \in Elements(attributes) : p.name # a.name
  <2>1. DOMAIN own = DOMAIN fields /\ DOMAIN fields = 1..Len(fields) /\ Len(fields) \in Nat
    BY <1>2
  <2>2. \A i \in DOMAIN own : own[i] \in S
    BY DEF Elements
  <2>3. own \in Seq(S)
    <3> HIDE DEF own, S
    <3>1. own = [i \in 1..Len(fields) |-> own[i]]
      BY <2>1 DEF own
    <3> QED
      BY <2>1, <2>2, <3>1
  <2>4. NamesDiffer(own)
    BY <1>2, <1>3, <2>1 DEF NamesDiffer
  <2>5. \A p \in Elements(own), a \in Elements(attributes) : p.name # a.name
    BY <1>2, <1>3, <2>1 DEF Elements
  <2> QED
    BY <2>3, <2>4, <2>5
<1>5. BaseName(n.type) \in Located =>
        \A name \in Elements(Positions) : \E a \in Elements(attributes) : a.name = name
  <2> SUFFICES ASSUME BaseName(n.type) \in Located, NEW name \in Elements(Positions)
               PROVE  \E a \in Elements(attributes) : a.name = name
    OBVIOUS
  <2>1. Has(DefinitionOf(n.type), name, "int", "") \/ Has(DefinitionOf(n.type), name, "int", "?")
    BY SetBy
  <2> QED
    BY <2>1 DEF Has
<1>6. n.tag # << >> => /\ \E a \in Elements(attributes) : a.name = "_tag"
                       /\ \E a \in Elements(attributes) : a.name = "_parent_types"
  BY SetBy DEF Has
<1>7. n.sentinel # << >> => \E a \in Elements(attributes) : a.name = "sentinel"
  BY SetBy DEF Has
<1>8. /\ Tag.name = "_tag" /\ Parents(n).name = "_parent_types" /\ Mark(n).name = "sentinel"
      /\ \A name : Line(name).name = name
      /\ \A l \in L : l.name \in Elements(Positions)
      /\ {"_tag", "_parent_types", "sentinel"} \cap Elements(Positions) = {}
  <2>1. \A name : Line(name).name = name
    BY DEF Line, Property
  <2> QED
    BY <2>1, AttributesAssumption DEF Tag, Parents, Mark, Property
<1>9. {Tag, Parents(n), Mark(n)} \subseteq S /\ L \subseteq S
  OBVIOUS
<1> HIDE DEF own, S, L
<1>10. /\ line \in Seq(S) /\ NamesDiffer(line)
       /\ Elements(line) = IF BaseName(n.type) \in Located THEN L ELSE {}
  <2>1. /\ Positions \in Seq(Elements(Positions))
        /\ \A i, j \in DOMAIN Positions : Positions[i] = Positions[j] => i = j
    BY AttributesAssumption DEF IsSequence
  <2>2. Len(Positions) \in Nat /\ DOMAIN Positions = 1..Len(Positions)
    BY <2>1
  <2>3. /\ DOMAIN lines = 1..Len(Positions) /\ \A i \in DOMAIN Positions : lines[i] = Line(Positions[i])
        /\ lines = [i \in 1..Len(Positions) |-> lines[i]]
    BY <2>2
  <2> HIDE DEF lines
  <2>4. Elements(lines) = L
    BY <2>2, <2>3 DEF Elements, L
  <2>5. \A i \in 1..Len(Positions) : lines[i] \in S
    BY <1>9, <2>3, <2>4 DEF Elements
  <2>6. lines \in Seq(S)
    BY <2>2, <2>3, <2>5
  <2>7. NamesDiffer(lines)
    BY <1>8, <2>1, <2>2, <2>3 DEF NamesDiffer
  <2>8. << >> \in Seq(S) /\ NamesDiffer(<< >>) /\ Elements(<< >>) = {}
    BY DEF NamesDiffer, Elements
  <2> QED
    BY <2>4, <2>6, <2>7, <2>8
<1>11. /\ mark \in Seq(S) /\ NamesDiffer(mark)
       /\ Elements(mark) = IF n.sentinel # << >> THEN {Mark(n)} ELSE {}
  BY <1>9 DEF Elements, NamesDiffer
<1>12. /\ tag \in Seq(S) /\ NamesDiffer(tag)
       /\ Elements(tag) = IF n.tag # << >> THEN {Tag, Parents(n)} ELSE {}
  <2>1. CASE n.tag = << >>
    BY <2>1 DEF Elements, NamesDiffer
  <2>2. CASE n.tag # << >>
    <3>1. /\ tag = <<Tag, Parents(n)>> /\ DOMAIN tag = {1, 2}
          /\ tag[1] = Tag /\ tag[2] = Parents(n)
      BY <2>2
    <3> HIDE DEF tag
    <3> QED
      BY <1>8, <1>9, <2>2, <3>1 DEF Elements, NamesDiffer
  <2> QED
    BY <2>1, <2>2
<1> HIDE DEF line, tag, mark
<1>13. /\ own \o line \in Seq(S) /\ Elements(own \o line) = Elements(own) \cup Elements(line)
       /\ NamesDiffer(own \o line)
  BY <1>4, <1>5, <1>8, <1>10, Joined
<1>14. /\ (own \o line) \o tag \in Seq(S) /\ NamesDiffer((own \o line) \o tag)
       /\ Elements((own \o line) \o tag) = Elements(own) \cup Elements(line) \cup Elements(tag)
  <2>1. \A p \in Elements(own \o line), q \in Elements(tag) : p.name # q.name
    BY <1>4, <1>6, <1>8, <1>10, <1>12, <1>13
  <2> DEFINE first == own \o line
  <2>2. /\ first \in Seq(S) /\ NamesDiffer(first)
        /\ \A p \in Elements(first), q \in Elements(tag) : p.name # q.name
    BY <1>13, <2>1
  <2> HIDE DEF first
  <2>3. /\ first \o tag \in Seq(S) /\ NamesDiffer(first \o tag)
        /\ Elements(first \o tag) = Elements(first) \cup Elements(tag)
    BY <1>12, <2>2, Joined
  <2> QED
    BY <1>13, <2>3 DEF first
<1>15. /\ Properties(n) \in Seq(S) /\ NamesDiffer(Properties(n))
       /\ Elements(Properties(n)) = Elements(own) \cup Elements(line) \cup Elements(tag)
                                      \cup Elements(mark)
  <2> DEFINE first == (own \o line) \o tag
  <2>1. \A p \in Elements(first), q \in Elements(mark) : p.name # q.name
    BY <1>4, <1>7, <1>8, <1>10, <1>11, <1>12, <1>14
  <2>2. first \in Seq(S) /\ NamesDiffer(first)
    BY <1>14
  <2> HIDE DEF first
  <2>3. /\ first \o mark \in Seq(S) /\ NamesDiffer(first \o mark)
        /\ Elements(first \o mark) = Elements(first) \cup Elements(mark)
    BY <1>11, <2>1, <2>2, Joined
  <2> QED
    BY <1>1, <1>14, <2>3 DEF first
<1>16. Elements(own) = {Own(n, i) : i \in DOMAIN fields}
  BY DEF Elements, own
<1>17. IsSequence(Properties(n))
  BY <1>15 DEF IsSequence, Elements
<1> HIDE DEF fields
<1>18. \A p \in Elements(Properties(n)) :
              \/ \E i \in DOMAIN fields : p = Own(n, i)
              \/ BaseName(n.type) \in Located /\ \E name \in Elements(Positions) : p = Line(name)
              \/ p \in {Tag, Parents(n)} /\ n.tag # << >>
              \/ p = Mark(n) /\ n.sentinel # << >>
  BY <1>10, <1>11, <1>12, <1>15, <1>16 DEF L
<1>19. /\ \A i \in DOMAIN fields : Own(n, i) \in Elements(Properties(n))
       /\ BaseName(n.type) \in Located =>
            \A name \in Elements(Positions) : Line(name) \in Elements(Properties(n))
       /\ n.sentinel # << >> => Mark(n) \in Elements(Properties(n))
  BY <1>10, <1>11, <1>15, <1>16 DEF L
<1> QED
  BY <1>15, <1>17, <1>18, <1>19 DEF fields

\* A sequence of one.
LEMMA OneItem ==
  ASSUME NEW x
  PROVE  IsSequence(<<x>>) /\ Len(<<x>>) = 1 /\ Elements(<<x>>) = {x}
<1>1. <<x>>[1] = x /\ Len(<<x>>) = 1 /\ DOMAIN <<x>> = {1}
  OBVIOUS
<1>2. Elements(<<x>>) = {x}
  BY <1>1 DEF Elements
<1>3. <<x>> \in Seq({x})
  OBVIOUS
<1> QED
  BY <1>1, <1>2, <1>3 DEF IsSequence

\* A sequence that is not empty and not longer than one.
LEMMA OneAtMost ==
  ASSUME NEW s, IsSequence(s), s # << >>, Len(s) <= 1
  PROVE  Len(s) = 1
<1>1. s \in Seq(Elements(s))
  BY DEF IsSequence
<1>2. Len(s) \in Nat /\ Len(s) # 0
  BY <1>1
<1> DEFINE k == Len(s)
<1>3. k \in Nat /\ k # 0 /\ k <= 1
  BY <1>2
<1> HIDE DEF k
<1>4. k = 1
  BY <1>3
<1> QED
  BY <1>4 DEF k

\* The basic types of the ASDL file.
LEMMA TypeMapIs ==
  /\ DOMAIN TypeMap = {"int", "string", "constant", "identifier"}
  /\ LeafTypes = {"int", "string", "constant", "identifier", "None", "tuple"}
<1>1. DOMAIN TypeMap = {"int", "string", "constant", "identifier"}
  BY DEF TypeMap
<1> QED
  BY <1>1 DEF LeafTypes

\* An integer may be in a field that is one.
LEMMA IntFits ==
  ASSUME NEW f, f.kind = "int"
  PROVE  MayBeIn(Leaf("int", ""), f)
<1>1. Leaf("int", "").type = "int"
  BY DEF Leaf, Node
<1> QED
  BY <1>1, TypeMapIs DEF MayBeIn

\* A property is that of a field of the class or of an attribute, unless it is None, and
\* its items are what may be there.
LEMMA PropertyField ==
  ASSUME NEW n \in Nodes, NEW p \in Elements(Properties(n)), p.many \/ p.items # << >>
  PROVE  \E f \in Elements(FieldsOf(n.type)) \cup Elements(DefinitionOf(n.type).attributes) :
           /\ f.name = p.name /\ f.kind # "Module" /\ p.many = (f.qualifier = "*")
           /\ IsSequence(p.items) /\ (~p.many => Len(p.items) = 1)
           /\ \A x \in Elements(p.items) :
                MayBeIn(x, f) \/ (x.type = "tuple" /\ f.kind \in CustomNames)
<1> DEFINE d == DefinitionOf(n.type)
<1>1. d \in Elements(Definitions)
  BY NodeIs
<1>2. CASE \E i \in DOMAIN FieldsOf(n.type) : p = Own(n, i)
  <2>1. PICK i \in DOMAIN FieldsOf(n.type) : p = Own(n, i)
    BY <1>2
  <2> DEFINE f == FieldsOf(n.type)[i]
  <2>2. p.name = f.name /\ p.many = (f.qualifier = "*") /\ p.items = n.f[i]
    BY <2>1 DEF Own, Property
  <2>3. f \in Elements(FieldsOf(n.type)) /\ f.kind # "Module"
    BY NodeIs DEF Elements
  <2>4. /\ IsSequence(n.f[i])
        /\ f.qualifier # "*" => Len(n.f[i]) <= 1
        /\ \A x \in Elements(n.f[i]) : MayBeIn(x, f)
    BY TreesAssumption DEF IsNode
  <2> HIDE DEF f
  <2>5. ~p.many => Len(p.items) = 1
    <3> SUFFICES ASSUME ~p.many PROVE Len(p.items) = 1
      OBVIOUS
    <3>1. Len(n.f[i]) <= 1 /\ n.f[i] # << >>
      BY <2>2, <2>4
    <3>2. Len(n.f[i]) = 1
      BY <2>4, <3>1, OneAtMost
    <3> QED
      BY <2>2, <3>2
  <2> QED
    BY <2>2, <2>3, <2>4, <2>5
<1>3. CASE BaseName(n.type) \in Located /\ \E name \in Elements(Positions) : p = Line(name)
  <2> PICK name \in Elements(Positions) : p = Line(name)
    BY <1>3
  <2>1. PICK a \in Elements(d.attributes) :
          a.name = name /\ a.kind = "int" /\ a.qualifier \in {"", "?"}
    <3>1. Has(d, name, "int", "") \/ Has(d, name, "int", "?")
      BY <1>3, SetBy
    <3> QED
      BY <3>1 DEF Has
  <2>2. p.name = name /\ p.many = FALSE /\ p.items = <<Leaf("int", "")>>
    BY DEF Line, Property
  <2>3. \A x \in Elements(p.items) : MayBeIn(x, a)
    <3>1. Elements(p.items) = {Leaf("int", "")}
      BY <2>2, OneItem
    <3>2. MayBeIn(Leaf("int", ""), a)
      BY <2>1, IntFits
    <3> QED
      BY <3>1, <3>2
  <2>4. IsSequence(p.items) /\ Len(p.items) = 1
    BY <2>2, OneItem
  <2>5. p.many = (a.qualifier = "*") /\ a.kind # "Module" /\ a.name = p.name
    BY <2>1, <2>2
  <2> QED
    BY <2>2, <2>3, <2>4, <2>5
<1>4. CASE p = Tag /\ n.tag # << >>
  <2>1. PICK a \in Elements(d.attributes) : a.name = "_tag" /\ a.kind = "int" /\ a.qualifier = "?"
    BY <1>4, SetBy DEF Has
  <2>2. p.name = "_tag" /\ p.many = FALSE /\ p.items = <<Leaf("int", "")>>
    BY <1>4 DEF Tag, Property
  <2>3. \A x \in Elements(p.items) : MayBeIn(x, a)
    <3>1. Elements(p.items) = {Leaf("int", "")}
      BY <2>2, OneItem
    <3>2. MayBeIn(Leaf("int", ""), a)
      BY <2>1, IntFits
    <3> QED
      BY <3>1, <3>2
  <2>4. IsSequence(p.items) /\ Len(p.items) = 1
    BY <2>2, OneItem
  <2>5. p.many = (a.qualifier = "*") /\ a.kind # "Module" /\ a.name = p.name
    BY <2>1, <2>2
  <2> QED
    BY <2>3, <2>4, <2>5
<1>5. CASE p = Parents(n) /\ n.tag # << >>
  <2>1. PICK c \in CustomNames : Has(d, "_parent_types", c, "*")
    BY <1>5, SetBy
  <2>2. PICK a \in Elements(d.attributes) : a.name = "_parent_types" /\ a.kind = c /\ a.qualifier = "*"
    BY <2>1 DEF Has
  <2>3. /\ p.name = "_parent_types" /\ p.many = TRUE
        /\ p.items = [i \in 1..Cardinality(n.parents) |-> Leaf("tuple", "")]
    BY <1>5 DEF Parents, Property
  <2>4. Cardinality(n.parents) \in Nat
    BY TreesAssumption, FS_CardinalityType DEF IsNode
  <2>5. IsSequence(p.items) /\ \A x \in Elements(p.items) : x.type = "tuple"
    <3> DEFINE k == Cardinality(n.parents)
               s == [i \in 1..k |-> Leaf("tuple", "")]
    <3>1. Leaf("tuple", "").type = "tuple"
      BY DEF Leaf, Node
    <3>2. Elements(s) \subseteq {Leaf("tuple", "")} /\ DOMAIN s = 1..k
      BY DEF Elements
    <3>3. s = [i \in 1..k |-> s[i]] /\ \A i \in 1..k : s[i] \in Elements(s)
      BY DEF Elements
    <3> HIDE DEF s, k
    <3>4. s \in Seq(Elements(s))
      BY <2>4, <3>3 DEF k
    <3> QED
      BY <2>3, <3>1, <3>2, <3>4 DEF IsSequence, s, k
  <2>6. c # "Module"
    <3>1. PICK e \in Elements(Definitions) : e.name = "Module" /\ e.kind = "product"
      BY ClassesAssumption
    <3>2. "Module" \in NamesOf(e)
      BY <3>1, KindsOfDefinition
    <3> QED
      BY <3>2, DefinitionsAssumption
  <2> QED
    BY <2>2, <2>3, <2>5, <2>6
<1>6. CASE p = Mark(n) /\ n.sentinel # << >>
  <2>1. /\ Has(d, "sentinel", "expr", "") /\ n.sentinel = <<SentinelNode>>
    BY <1>6, SetBy
  <2>2. PICK a \in Elements(d.attributes) : a.name = "sentinel" /\ a.kind = "expr" /\ a.qualifier = ""
    BY <2>1 DEF Has
  <2>3. p.name = "sentinel" /\ p.many = FALSE /\ p.items = <<SentinelNode>>
    BY <1>6, <2>1 DEF Mark, Property
  <2>4. MayBeIn(SentinelNode, a)
    <3>1. SentinelNode \in Nodes /\ BaseName("Sentinel") = "expr" /\ SentinelNode.type = "Sentinel"
      BY TreesAssumption DEF SentinelNode, Node
    <3>2. "Sentinel" \in ClassNames
      BY <3>1, NodeIs
    <3> QED
      BY <2>2, <3>1, <3>2 DEF MayBeIn
  <2>5. \A x \in Elements(p.items) : MayBeIn(x, a)
    BY <2>3, <2>4, OneItem
  <2>6. IsSequence(p.items) /\ Len(p.items) = 1
    BY <2>3, OneItem
  <2> QED
    BY <2>2, <2>3, <2>5, <2>6
<1> QED
  BY <1>2, <1>3, <1>4, <1>5, <1>6, PropertiesAre

\* The items of a property are a sequence.
LEMMA ItemsOfProperty ==
  ASSUME NEW n \in Nodes, NEW p \in Elements(Properties(n))
  PROVE  IsSequence(p.items)
<1>1. CASE p.many \/ p.items # << >>
  BY <1>1, PropertyField
<1>2. CASE p.items = << >>
  BY <1>2 DEF IsSequence
<1> QED
  BY <1>1, <1>2

-----------------------------------------------------------------------------
(* What is sent for an item                                                 *)

\* A module and a project are of products of their own, which have no attributes.
LEMMA ProductOf ==
  ASSUME NEW name \in {"Module", "project"}
  PROVE  /\ name \in ClassNames /\ BaseName(name) = name /\ name \notin LeafTypes
         /\ DefinitionOf(name) \in Elements(Definitions) /\ DefinitionOf(name).kind = "product"
         /\ DefinitionOf(name).attributes = << >>
         /\ \A type \in ClassNames : BaseName(type) = name => type = name
<1>1. PICK d \in Elements(Definitions) : d.name = name /\ d.kind = "product" /\ d.attributes = << >>
  BY ClassesAssumption
<1>2. d.types[1] \in Elements(d.types) /\ d.types[1].name = name
  BY <1>1, KindsOfDefinition
<1>3. name \in ClassNames /\ DefinitionOf(name) = d /\ BaseName(name) = name
  BY <1>1, <1>2, ClassOf
<1>4. name \notin LeafTypes
  BY <1>2, ClassesAssumption
<1>5. ASSUME NEW type \in ClassNames, BaseName(type) = name
      PROVE  type = name
  <2>1. DefinitionOf(type) = d
    BY <1>1, <1>5, ClassIs, DefinitionsAssumption DEF BaseName
  <2>2. \E t \in Elements(d.types) : t.name = type
    BY <2>1, ClassIs
  <2> QED
    BY <1>1, <2>2, KindsOfDefinition
<1> QED
  BY <1>1, <1>3, <1>4, <1>5

\* A class is of no basic type.
LEMMA ClassNoLeaf ==
  ASSUME NEW type \in ClassNames
  PROVE  type \notin LeafTypes
BY ClassIs, ClassesAssumption

\* The schema expects of a field what is sent for each item that may be in it.
LEMMA ItemSent ==
  ASSUME SchemaInv, ShapeInv, built, NEW f, NEW x, NEW g, IsFixed(g, f),
         MayBeIn(x, f) \/ (x.type = "tuple" /\ f.kind \in CustomNames)
  PROVE  /\ IsBasic(x) <=> g.property
         /\ ~IsInserted(x) => IF g.property THEN Serialize(x).kind = g.kind
                               ELSE Serialize(x) = Row(1) /\ g.kind = "project"
         /\ IsInserted(x) => /\ ~g.property /\ NodeOf(x) \in Nodes /\ IsA(NodeOf(x).type, g.kind)
                             /\ NodeOf(x).type = "Module" => f.kind = "Module"
<1>1. /\ f.kind \in DOMAIN TypeMap => g.kind = TypeMap[f.kind] /\ g.property
      /\ f.kind \in CustomNames => g.kind = ParentInfo /\ g.property
      /\ f.kind \notin DOMAIN TypeMap \cup CustomNames =>
           g.kind = f.kind /\ (g.property <=> f.kind \in enumTypes)
  BY DEF IsFixed
<1>2. \A kind, shown : Value(kind, shown).kind = kind
  BY DEF Value
<1>3. CASE /\ f.kind \in DOMAIN TypeMap
           /\ x.type \in DOMAIN TypeMap \ {"constant"} /\ TypeMap[x.type] = TypeMap[f.kind]
  <2>1. IsLeaf(x) /\ x.type # "None" /\ x.type # "constant" /\ x.type # "tuple" /\ x.type # "project"
    BY <1>3, TypeMapIs DEF IsLeaf
  <2>2. IsBasic(x) /\ ~IsInserted(x)
    BY <2>1 DEF IsBasic, IsInserted, IsLeaf
  <2>3. Serialize(x) = Value(TypeMap[x.type], x.shown)
    BY <1>3, <2>1 DEF Serialize
  <2> QED
    BY <1>1, <1>2, <1>3, <2>2, <2>3
<1>4. CASE x.type = "tuple" /\ f.kind \in CustomNames
  <2>1. IsLeaf(x) /\ x.type \notin DOMAIN TypeMap
    BY <1>4, TypeMapIs DEF IsLeaf
  <2>2. IsBasic(x) /\ ~IsInserted(x)
    BY <1>4, <2>1 DEF IsBasic, IsInserted, IsLeaf
  <2>3. Serialize(x) = Value(ParentInfo, "")
    BY <1>4, <2>1 DEF Serialize
  <2>4. Serialize(x).kind = ParentInfo
    BY <1>2, <2>3
  <2>5. g.property /\ g.kind = ParentInfo
    BY <1>1, <1>4
  <2> QED
    BY <2>2, <2>4, <2>5
<1>5. CASE f.kind = "expr" /\ f.qualifier = "*" /\ x.type = "None"
  <2>1. IsLeaf(x) /\ IsInserted(x) /\ NodeOf(x) = SentinelNode
    BY <1>5, TypeMapIs DEF IsLeaf, IsInserted, NodeOf
  <2>2. ~IsBasic(x)
    BY <1>5, <2>1 DEF IsBasic
  <2>3. SentinelNode \in Nodes /\ SentinelNode.type = "Sentinel" /\ BaseName("Sentinel") = "expr"
    BY TreesAssumption DEF SentinelNode, Node
  <2> DEFINE d == DefinitionOf("Sentinel")
  <2>4. /\ d \in Elements(Definitions) /\ d.name = "expr" /\ d.name # "custom_types"
        /\ ~IsEnumDefinition(d) /\ \E t \in Elements(d.types) : t.name = "Sentinel"
    BY <2>3, NodeIs DEF BaseName
  <2>5. "expr" \notin DOMAIN TypeMap \cup CustomNames /\ "expr" \notin enumTypes
    BY <2>4, KindsOfDefinition, EnumsAre, DefinitionsAssumption
  <2>6. IsA("Sentinel", "expr")
    BY <2>4, ClassModel
  <2> QED
    BY <1>1, <1>5, <2>1, <2>2, <2>3, <2>5, <2>6
<1>6. CASE /\ x.type \in ClassNames /\ BaseName(x.type) = f.kind
           /\ IsEnumDefinition(DefinitionOf(x.type)) \/ x.type = "project" \/ x \in Nodes
  <2> DEFINE d == DefinitionOf(x.type)
  <2>1. d \in Elements(Definitions) /\ \E t \in Elements(d.types) : t.name = x.type
    BY <1>6, ClassIs
  <2>2. d.name = f.kind /\ d.name # "custom_types"
    <3>1. x.type = "project" => d.name = "project"
      BY ProductOf DEF BaseName
    <3> QED
      BY <1>6, <3>1, NodeIs DEF BaseName, IsEnumDefinition
  <2>3. f.kind \notin DOMAIN TypeMap \cup CustomNames
    BY <2>1, <2>2, KindsOfDefinition, DefinitionsAssumption
  <2>4. IsEnum(x.type) <=> IsEnumDefinition(d)
    BY <2>1, EnumsAre DEF IsEnum, BaseName
  <2>5. f.kind \in enumTypes <=> IsEnumDefinition(d)
    BY <2>1, <2>2, EnumsAre
  <2>6. ~IsLeaf(x) /\ x.type # "None"
    BY <1>6, ClassNoLeaf, TypeMapIs DEF IsLeaf
  <2>7. x.type = "project" => ~IsEnumDefinition(d) /\ f.kind = "project"
    BY <1>6, ProductOf DEF IsEnumDefinition
  <2> HIDE DEF d
  <2>8. CASE IsEnumDefinition(d)
    <3>1. IsBasic(x) /\ ~IsInserted(x)
      BY <2>4, <2>6, <2>8 DEF IsBasic, IsInserted
    <3>2. x.type # "tuple" /\ x.type # "constant" /\ x.type \notin DOMAIN TypeMap /\ x.type # "project"
      BY <2>6, <2>7, <2>8, TypeMapIs DEF IsLeaf
    <3>3. Serialize(x) = Value(BaseName(x.type), x.type)
      BY <3>2 DEF Serialize
    <3>4. g.property /\ g.kind = f.kind
      BY <1>1, <2>3, <2>5, <2>8
    <3> QED
      BY <1>2, <1>6, <3>1, <3>3, <3>4
  <2>9. CASE x.type = "project"
    <3>1. ~IsBasic(x) /\ ~IsInserted(x)
      BY <2>4, <2>6, <2>7, <2>9 DEF IsBasic, IsInserted, IsLeaf
    <3>2. x.type # "tuple" /\ x.type # "constant" /\ x.type \notin DOMAIN TypeMap
      BY <2>6, TypeMapIs DEF IsLeaf
    <3>3. Serialize(x) = Row(1)
      BY <2>9, <3>2 DEF Serialize
    <3>4. ~g.property /\ g.kind = "project"
      BY <1>1, <2>3, <2>5, <2>7, <2>9
    <3> QED
      BY <3>1, <3>3, <3>4
  <2>10. CASE ~IsEnumDefinition(d) /\ x.type # "project"
    <3>1. x \in Nodes
      BY <1>6, <2>10 DEF d
    <3>2. IsInserted(x) /\ ~IsBasic(x) /\ NodeOf(x) = x
      BY <2>4, <2>6, <2>10 DEF IsInserted, IsBasic, IsLeaf, NodeOf
    <3>3. ~g.property /\ g.kind = d.name
      BY <1>1, <2>2, <2>3, <2>5, <2>10
    <3>4. IsA(x.type, d.name)
      BY <2>1, <2>2, <2>10, ClassModel
    <3>5. x.type = "Module" => f.kind = "Module"
      BY <1>6, ProductOf
    <3> QED
      BY <3>1, <3>2, <3>3, <3>4, <3>5
  <2> QED
    BY <2>8, <2>9, <2>10
<1> QED
  BY <1>3, <1>4, <1>5, <1>6 DEF MayBeIn

-----------------------------------------------------------------------------
(* The queries                                                              *)

\* The model a node's rows are of.
LEMMA NodeModel ==
  ASSUME SchemaInv, ShapeInv, built, NEW n \in Nodes
  PROVE  /\ n.type \in DOMAIN models /\ models[n.type].constraint = "none"
         /\ Declared(n.type) =
              {Fixed(n.type, Field(f)) : f \in Elements(FieldsOf(n.type))}
                \cup {Fixed(BaseName(n.type), Field(a)) : a \in Elements(DefinitionOf(n.type).attributes)}
BY NodeIs, ClassModel DEF BaseName

\* What stands for an item fits the field the item is in.
LEMMA ItemFits ==
  ASSUME SchemaInv, ShapeInv, built, RowsInv, NEW f, NEW g, IsFixed(g, f),
         NEW x, MayBeIn(x, f) \/ (x.type = "tuple" /\ f.kind \in CustomNames),
         NEW item, StandsFor(item, x, Len(rows) + 1)
  PROVE  IF g.property THEN item.kind = g.kind
         ELSE item.kind = "row" /\ item.ref \in DOMAIN rows /\ IsA(rows[item.ref].type, g.kind)
<1>1. /\ Len(rows) \in Nat \ {0} /\ DOMAIN rows = 1..Len(rows) /\ rows[1] = ProjectRow
      /\ \A r \in 2..Len(rows) : rows[r].type = made[r].type
  BY DEF RowsInv, IsSequence
<1>2. CASE IsInserted(x)
  <2>1. item.kind = "row" /\ item.ref \in 2..Len(rows) /\ made[item.ref] = NodeOf(x)
    BY <1>1, <1>2 DEF StandsFor
  <2>2. IsInserted(x) => /\ ~g.property /\ NodeOf(x) \in Nodes /\ IsA(NodeOf(x).type, g.kind)
                         /\ NodeOf(x).type = "Module" => f.kind = "Module"
    BY ItemSent
  <2>3. item.ref \in DOMAIN rows /\ rows[item.ref].type = NodeOf(x).type
    BY <1>1, <2>1
  <2>4. ~g.property /\ IsA(NodeOf(x).type, g.kind)
    BY <1>2, <2>2
  <2>5. IsA(rows[item.ref].type, g.kind)
    BY <2>3, <2>4
  <2> QED
    BY <2>1, <2>3, <2>4, <2>5
<1>3. CASE ~IsInserted(x)
  <2>1. item = Serialize(x)
    BY <1>3 DEF StandsFor
  <2>2. IF g.property THEN Serialize(x).kind = g.kind
        ELSE Serialize(x) = Row(1) /\ g.kind = "project"
    BY <1>3, ItemSent
  <2>3. Row(1).kind = "row" /\ Row(1).ref = 1 /\ 1 \in DOMAIN rows
    BY <1>1 DEF Row
  <2>4. rows[1].type = "project" /\ IsA("project", "project")
    BY <1>1 DEF ProjectRow, IsA
  <2> QED
    BY <2>1, <2>2, <2>3, <2>4
<1> QED
  BY <1>2, <1>3

\* What a property has become fits the field it is declared with.
LEMMA PropertyFits ==
  ASSUME SchemaInv, ShapeInv, built, RowsInv,
         NEW n \in Nodes, NEW p \in Elements(Properties(n)), NEW values,
         KeepsProperty(values, p, Len(rows) + 1), Indexed(values, p), p.name \in DOMAIN values
  PROVE  \E field \in Declared(n.type) : field.name = p.name /\ Fits(field, values[p.name])
<1>1. p.many \/ p.items # << >>
  BY DEF KeepsProperty
<1>2. PICK f \in Elements(FieldsOf(n.type)) \cup Elements(DefinitionOf(n.type).attributes) :
        /\ f.name = p.name /\ p.many = (f.qualifier = "*")
        /\ IsSequence(p.items) /\ (~p.many => Len(p.items) = 1)
        /\ \A x \in Elements(p.items) :
             MayBeIn(x, f) \/ (x.type = "tuple" /\ f.kind \in CustomNames)
  BY <1>1, PropertyField
<1>3. PICK m : Fixed(m, Field(f)) \in Declared(n.type)
  BY NodeModel
<1>4. PICK g : g = Fixed(m, Field(f))
  OBVIOUS
<1>5. IsFixed(g, f)
  BY <1>4, FixedIs
<1>6. g.name = p.name /\ (g.multi <=> p.many)
  BY <1>2, <1>5 DEF IsFixed
<1> DEFINE value == values[p.name]
<1>7. KeepsItems(value.items, p, Len(rows) + 1)
  BY <1>1 DEF KeepsProperty
<1>8. IsSequence(value.items) /\ value.indexed = (p.many /\ \E x \in Elements(p.items) : ~IsBasic(x))
  BY DEF Indexed
<1> HIDE DEF value
<1>9. /\ DOMAIN value.items = DOMAIN p.items /\ Len(value.items) = Len(p.items)
      /\ value.items # << >> => Elements(p.items) # {}
      /\ \A i \in DOMAIN p.items : StandsFor(value.items[i], p.items[i], Len(rows) + 1)
  <2>1. /\ value.items \in Seq(Elements(value.items)) /\ p.items \in Seq(Elements(p.items))
        /\ Len(value.items) = Len(p.items)
    BY <1>2, <1>7, <1>8 DEF IsSequence, KeepsItems
  <2>2. DOMAIN value.items = DOMAIN p.items
    BY <2>1
  <2>3. value.items # << >> => 1 \in DOMAIN p.items
    BY <2>1
  <2> QED
    BY <1>7, <2>1, <2>2, <2>3 DEF KeepsItems, Elements
<1>10. g.multi \/ Len(value.items) = 1
  BY <1>2, <1>6, <1>9
<1>11. \A x \in Elements(p.items) : IsBasic(x) <=> g.property
  BY <1>2, <1>5, ItemSent
<1>12. value.items # << >> => value.indexed = IsOrderedSequence(g)
  BY <1>6, <1>8, <1>9, <1>11 DEF IsOrderedSequence
<1>13. ASSUME NEW i \in DOMAIN value.items
       PROVE  IF g.property THEN value.items[i].kind = g.kind
              ELSE /\ value.items[i].kind = "row" /\ value.items[i].ref \in DOMAIN rows
                   /\ IsA(rows[value.items[i].ref].type, g.kind)
  <2>1. p.items[i] \in Elements(p.items) /\ StandsFor(value.items[i], p.items[i], Len(rows) + 1)
    BY <1>9 DEF Elements
  <2> QED
    BY <1>2, <1>5, <2>1, ItemFits
<1>14. Fits(g, value)
  BY <1>10, <1>12, <1>13 DEF Fits
<1> QED
  BY <1>3, <1>4, <1>6, <1>14 DEF value

\* What is required of a type is a property of its nodes that is never None.
LEMMA RequiredSent ==
  ASSUME SchemaInv, ShapeInv, built, NEW n \in Nodes,
         NEW field \in Declared(n.type), field.required
  PROVE  \E p \in Elements(Properties(n)) : p.name = field.name /\ p.items # << >>
<1> DEFINE d == DefinitionOf(n.type)
<1>1. PICK m, f : /\ field = Fixed(m, Field(f))
                  /\ f \in Elements(FieldsOf(n.type)) \cup Elements(d.attributes)
  BY NodeModel
<1>2. field.name = f.name /\ f.qualifier = ""
  BY <1>1, FixedIs DEF IsFixed
<1>3. CASE f \in Elements(FieldsOf(n.type))
  <2>1. PICK i \in DOMAIN FieldsOf(n.type) : f = FieldsOf(n.type)[i]
    BY <1>3 DEF Elements
  <2>2. n.f[i] # << >>
    BY <1>2, <2>1, TreesAssumption DEF IsNode
  <2>3. Own(n, i).name = f.name /\ Own(n, i).items = n.f[i]
    BY <2>1 DEF Own, Property
  <2> QED
    BY <1>2, <2>2, <2>3, PropertiesAre
<1>4. CASE f \in Elements(d.attributes)
  <2>1. \/ f.name \in Elements(Positions) /\ d.name \in Located
        \/ f.name = "sentinel" /\ d.name = "slice"
    BY <1>2, <1>4, NodeIs, AttributesAssumption
  <2>2. CASE f.name \in Elements(Positions) /\ d.name \in Located
    <3>1. Line(f.name).name = f.name /\ Line(f.name).items # << >>
      BY DEF Line, Property
    <3> QED
      BY <1>2, <2>2, <3>1, PropertiesAre DEF BaseName
  <2>3. CASE f.name = "sentinel" /\ d.name = "slice"
    <3>1. n.sentinel # << >>
      BY <2>3, SetBy DEF BaseName
    <3>2. Mark(n).name = "sentinel" /\ Mark(n).items = n.sentinel
      BY DEF Mark, Property
    <3> QED
      BY <1>2, <2>3, <3>1, <3>2, PropertiesAre
  <2> QED
    BY <2>1, <2>2, <2>3
<1> QED
  BY <1>1, <1>3, <1>4

\* Only what a module declares is unique.
LEMMA UniqueOfModules ==
  ASSUME SchemaInv, ShapeInv, built, NEW n \in Nodes,
         NEW field \in Declared(n.type), field.unique
  PROVE  n.type = "Module"
<1>1. PICK m, f : field = Fixed(m, Field(f)) /\ m \in {n.type, BaseName(n.type)}
  BY NodeModel
<1>2. <<m, f.name>> \in UniqueFields
  BY <1>1 DEF Fixed, Field
<1>3. m = "Module"
  BY <1>2, ClassesAssumption
<1> QED
  BY <1>1, <1>3, NodeIs, ProductOf

\* The call of apply_ast that is running, and what is known in it.
LEMMA TopIs ==
  ASSUME TreesInv, InNode
  PROVE  /\ SchemaInv /\ ShapeInv /\ built /\ RowsInv /\ Open
         /\ Len(stack) \in Nat \ {0} /\ DOMAIN stack = 1..Len(stack)
         /\ FrameInv(Top) /\ Top.node \in Nodes
<1>1. SchemaInv /\ ShapeInv /\ built /\ RowsInv /\ Open
  BY DEF TreesInv, FileInv, PhaseInv, InNode, Open
<1>2. IsSequence(stack) /\ stack # << >> /\ \A k \in 1..Len(stack) : FrameInv(stack[k])
  BY DEF TreesInv, FileInv, StackInv, InNode
<1>3. Len(stack) \in Nat \ {0} /\ DOMAIN stack = 1..Len(stack)
  BY <1>2 DEF IsSequence
<1>4. FrameInv(Top)
  BY <1>2, <1>3 DEF Top
<1> QED
  BY <1>1, <1>3, <1>4 DEF FrameInv

\* What is left of a node when its properties are done.
LEMMA FrameDone ==
  ASSUME NEW frame, FrameInv(frame), ~(frame.at <= Len(Properties(frame.node)))
  PROVE  /\ \A p \in Elements(Properties(frame.node)) :
              KeepsProperty(frame.values, p, Len(rows) + 1) /\ Indexed(frame.values, p)
         /\ \A name \in DOMAIN frame.values :
              \E p \in Elements(Properties(frame.node)) : p.name = name
<1> DEFINE ps == Properties(frame.node)
<1>1. /\ frame.node \in Nodes /\ frame.at \in 1..(Len(ps) + 1)
      /\ \A q \in 1..(frame.at - 1) :
           KeepsProperty(frame.values, ps[q], Len(rows) + 1) /\ Indexed(frame.values, ps[q])
      /\ \A name \in DOMAIN frame.values : \E q \in 1..(frame.at - 1) : ps[q].name = name
  BY DEF FrameInv
<1>2. IsSequence(ps)
  BY <1>1, PropertiesAre
<1> HIDE DEF ps
<1>3. Len(ps) \in Nat /\ DOMAIN ps = 1..Len(ps)
  BY <1>2 DEF IsSequence
<1>4. frame.at - 1 = Len(ps)
  BY <1>1, <1>3 DEF ps
<1> QED
  BY <1>1, <1>3, <1>4 DEF Elements, ps

\* The query of a node whose properties are done is accepted.
LEMMA QueryAccepted ==
  ASSUME TreesInv, InNode, ~AtProperty
  PROVE  Accepts(Query)
<1> DEFINE n == Top.node
           values == Top.values
<1>1. /\ SchemaInv /\ ShapeInv /\ built /\ RowsInv /\ Open
      /\ n \in Nodes
  BY TopIs
<1>2. /\ \A p \in Elements(Properties(n)) :
           KeepsProperty(values, p, Len(rows) + 1) /\ Indexed(values, p)
      /\ \A name \in DOMAIN values : \E p \in Elements(Properties(n)) : p.name = name
  BY TopIs, FrameDone DEF AtProperty
<1>3. Query.type = n.type /\ Query.values = values
  BY DEF Query
<1> HIDE DEF n, values
<1>4. n.type \in DOMAIN models /\ models[n.type].constraint = "none"
  BY <1>1, NodeModel
<1>5. ASSUME NEW name \in DOMAIN values
      PROVE  \E field \in Declared(n.type) : field.name = name /\ Fits(field, values[name])
  <2>1. PICK p \in Elements(Properties(n)) : p.name = name
    BY <1>2
  <2>2. KeepsProperty(values, p, Len(rows) + 1) /\ Indexed(values, p) /\ p.name \in DOMAIN values
    BY <1>2, <2>1
  <2>3. \E field \in Declared(n.type) : field.name = p.name /\ Fits(field, values[p.name])
    BY <1>1, <2>2, PropertyFits
  <2> QED
    BY <2>1, <2>3
<1>6. ASSUME NEW field \in Declared(n.type), field.required
      PROVE  field.name \in DOMAIN values
  <2>1. PICK p \in Elements(Properties(n)) : p.name = field.name /\ p.items # << >>
    BY <1>1, <1>6, RequiredSent
  <2>2. KeepsProperty(values, p, Len(rows) + 1)
    BY <1>2
  <2> QED
    BY <2>1, <2>2 DEF KeepsProperty
<1>7. ASSUME NEW field \in Declared(n.type), field.unique, NEW r \in Elements(rows)
      PROVE  r.type # n.type
  <2>1. n.type = "Module"
    BY <1>1, <1>7, UniqueOfModules
  <2>2. /\ IsSequence(rows) /\ rows[1] = ProjectRow
        /\ \A i \in 2..Len(rows) : rows[i].type # "Module"
    BY <1>1 DEF RowsInv
  <2>3. PICK i \in DOMAIN rows : r = rows[i]
    BY DEF Elements
  <2>4. i = 1 \/ i \in 2..Len(rows)
    BY <2>2, <2>3 DEF IsSequence
  <2>5. ProjectRow.type # "Module"
    BY DEF ProjectRow
  <2> QED
    BY <2>1, <2>2, <2>3, <2>4, <2>5
<1> QED
  BY <1>3, <1>4, <1>5, <1>6, <1>7 DEF Accepts

-----------------------------------------------------------------------------
(* What becomes of what is kept when a row is added                         *)

\* No more is needed of a step than this.
RowsGrow == /\ UNCHANGED enumTypes
            /\ Len(rows) \in Nat /\ Len(rows') \in Nat /\ Len(rows) <= Len(rows')
            /\ \A i \in 1..Len(rows) : made'[i] = made[i]

\* What an item is does not change.
LEMMA ItemsSame ==
  ASSUME UNCHANGED enumTypes, NEW x
  PROVE  /\ IsInserted(x)' <=> IsInserted(x)
         /\ IsBasic(x)' <=> IsBasic(x)
BY DEF IsInserted, IsBasic, IsEnum

\* What stands for an item stands for it later.
LEMMA StandsStill ==
  ASSUME RowsGrow, NEW item, NEW x, NEW r \in Nat, NEW s \in Nat, r <= Len(rows) + 1, r <= s,
         StandsFor(item, x, r)
  PROVE  StandsFor(item, x, s)'
<1>1. IsInserted(x)' <=> IsInserted(x)
  BY ItemsSame DEF RowsGrow
<1>2. CASE IsInserted(x)
  <2>1. item.kind = "row" /\ item.ref \in 2..(r - 1) /\ made[item.ref] = NodeOf(x)
    BY <1>2 DEF StandsFor
  <2>2. item.ref \in 2..(s - 1) /\ item.ref \in 1..Len(rows)
    BY <2>1 DEF RowsGrow
  <2>3. made'[item.ref] = NodeOf(x)
    BY <2>1, <2>2 DEF RowsGrow
  <2> QED
    BY <1>1, <1>2, <2>1, <2>2, <2>3 DEF StandsFor
<1>3. CASE ~IsInserted(x)
  BY <1>1, <1>3 DEF StandsFor
<1> QED
  BY <1>2, <1>3

\* So a property that is kept is kept later.
LEMMA KeptStill ==
  ASSUME RowsGrow, NEW values, NEW p, NEW r \in Nat, NEW s \in Nat, r <= Len(rows) + 1, r <= s,
         KeepsProperty(values, p, r)
  PROVE  KeepsProperty(values, p, s)'
<1>1. ASSUME NEW items, KeepsItems(items, p, r)
      PROVE  KeepsItems(items, p, s)'
  BY <1>1, StandsStill DEF KeepsItems
<1> QED
  BY <1>1 DEF KeepsProperty

\* And a call of apply_ast has what it had.
LEMMA FrameStill ==
  ASSUME RowsGrow, NEW frame, FrameInv(frame)
  PROVE  FrameInv(frame)'
<1> DEFINE ps == Properties(frame.node)
<1>1. /\ frame = Call(frame.node, frame.at, frame.items, frame.values)
      /\ frame.node \in Nodes /\ frame.at \in 1..(Len(ps) + 1)
      /\ IsSequence(frame.items)
      /\ frame.at = Len(ps) + 1 => frame.items = << >>
      /\ \A name \in DOMAIN frame.values : \E q \in 1..(frame.at - 1) : ps[q].name = name
  BY DEF FrameInv
<1>2. frame.at <= Len(ps) =>
        /\ Len(frame.items) <= Len(ps[frame.at].items)
        /\ \A i \in 1..Len(frame.items) :
             StandsFor(frame.items[i], ps[frame.at].items[i], Len(rows) + 1)
  BY DEF FrameInv
<1>3. \A q \in 1..(frame.at - 1) :
        KeepsProperty(frame.values, ps[q], Len(rows) + 1) /\ Indexed(frame.values, ps[q])
  BY DEF FrameInv
<1>4. /\ Len(rows) + 1 \in Nat /\ Len(rows') + 1 \in Nat /\ Len(rows) + 1 <= Len(rows) + 1
      /\ Len(rows) + 1 <= Len(rows') + 1
  BY DEF RowsGrow
<1>5. \A i \in 1..Len(frame.items) :
        StandsFor(frame.items[i], ps[frame.at].items[i], Len(rows) + 1)
          => StandsFor(frame.items[i], ps[frame.at].items[i], Len(rows) + 1)'
  BY <1>4, StandsStill
<1>6. \A q \in 1..(frame.at - 1) : KeepsProperty(frame.values, ps[q], Len(rows) + 1)'
  BY <1>3, <1>4, KeptStill
<1>7. \A q \in 1..(frame.at - 1) : Indexed(frame.values, ps[q])'
  <2>1. \A x : IsBasic(x)' <=> IsBasic(x)
    BY ItemsSame DEF RowsGrow
  <2> QED
    BY <1>3, <2>1 DEF Indexed
<1> HIDE DEF ps
<1> QED
  BY <1>1, <1>2, <1>5, <1>6, <1>7 DEF FrameInv, ps

\* One more item of the property a call is at.
LEMMA FrameReceives ==
  ASSUME RowsGrow, NEW frame, FrameInv(frame), NEW item,
         frame.at <= Len(Properties(frame.node)),
         Len(frame.items) < Len(Properties(frame.node)[frame.at].items),
         StandsFor(item, Properties(frame.node)[frame.at].items[Len(frame.items) + 1], Len(rows) + 1)'
  PROVE  FrameInv(Received(frame, item))' /\ Received(frame, item).node = frame.node
<1> DEFINE ps == Properties(frame.node)
           new == Received(frame, item)
<1>1. FrameInv(frame)'
  BY FrameStill
<1>2. /\ frame = Call(frame.node, frame.at, frame.items, frame.values)
      /\ frame.node \in Nodes /\ frame.at \in 1..(Len(ps) + 1) /\ IsSequence(frame.items)
      /\ \A name \in DOMAIN frame.values : \E q \in 1..(frame.at - 1) : ps[q].name = name
  BY DEF FrameInv
<1>3. ASSUME NEW n, NEW at, NEW old, NEW values, NEW items
      PROVE  [Call(n, at, old, values) EXCEPT !.items = items] = Call(n, at, items, values)
  BY DEF Call
<1>4. /\ new.node = frame.node /\ new.at = frame.at /\ new.values = frame.values
      /\ new.items = Append(frame.items, item)
      /\ new = Call(new.node, new.at, new.items, new.values)
  <2>1. PICK n, at, old, values : frame = Call(n, at, old, values)
    BY <1>2
  <2>2. frame.node = n /\ frame.at = at /\ frame.values = values
    BY <2>1 DEF Call
  <2> DEFINE items == Append(frame.items, item)
  <2>3. new = [Call(n, at, old, values) EXCEPT !.items = items]
    BY <2>1 DEF Received
  <2> HIDE DEF items, new
  <2>4. new = Call(n, at, items, values)
    BY <1>3, <2>3
  <2>5. /\ new.node = n /\ new.at = at /\ new.values = values /\ new.items = items
    BY <2>4 DEF Call
  <2> QED
    BY <2>2, <2>4, <2>5 DEF items
<1> HIDE DEF new
<1>5. /\ IsSequence(new.items) /\ Len(new.items) = Len(frame.items) + 1 /\ Len(frame.items) \in Nat
      /\ \A i \in 1..Len(new.items) :
           new.items[i] = IF i = Len(new.items) THEN item ELSE frame.items[i]
  <2>1. frame.items \in Seq(Elements(frame.items))
    BY <1>2 DEF IsSequence
  <2> DEFINE S == Elements(frame.items) \cup {item}
  <2>2. frame.items \in Seq(S) /\ item \in S
    BY <2>1
  <2> HIDE DEF S
  <2>3. /\ new.items \in Seq(S) /\ Len(new.items) = Len(frame.items) + 1 /\ Len(frame.items) \in Nat
        /\ \A i \in 1..Len(new.items) :
             new.items[i] = IF i = Len(new.items) THEN item ELSE frame.items[i]
    BY <1>4, <2>2
  <2>4. IsSequence(new.items)
    BY <2>3 DEF IsSequence, Elements
  <2> QED
    BY <2>3, <2>4
<1>6. Len(ps[frame.at].items) \in Nat
  <2>1. IsSequence(ps) /\ frame.at \in 1..Len(ps)
    <3>1. IsSequence(ps)
      BY <1>2, PropertiesAre
    <3>2. Len(ps) \in Nat
      BY <3>1 DEF IsSequence
    <3> QED
      BY <1>2, <3>1, <3>2
  <2>2. ps[frame.at] \in Elements(ps)
    BY <2>1 DEF IsSequence, Elements
  <2>3. IsSequence(ps[frame.at].items)
    BY <1>2, <2>2, ItemsOfProperty
  <2> QED
    BY <2>3 DEF IsSequence
<1>7. \A i \in 1..Len(frame.items) : StandsFor(frame.items[i], ps[frame.at].items[i], Len(rows) + 1)'
  BY <1>1 DEF FrameInv
<1>8. \A i \in 1..Len(new.items) : StandsFor(new.items[i], ps[frame.at].items[i], Len(rows) + 1)'
  <2> SUFFICES ASSUME NEW i \in 1..Len(new.items)
               PROVE  StandsFor(new.items[i], ps[frame.at].items[i], Len(rows) + 1)'
    OBVIOUS
  <2>1. CASE i = Len(new.items)
    BY <1>5, <2>1
  <2>2. CASE i # Len(new.items)
    <3>1. i \in 1..Len(frame.items) /\ new.items[i] = frame.items[i]
      BY <1>5, <2>2
    <3> QED
      BY <1>7, <3>1
  <2> QED
    BY <2>1, <2>2
<1>9. Len(new.items) <= Len(ps[frame.at].items)
  BY <1>5, <1>6
<1>10. \A q \in 1..(frame.at - 1) :
         KeepsProperty(frame.values, ps[q], Len(rows) + 1)' /\ Indexed(frame.values, ps[q])'
  BY <1>1 DEF FrameInv
<1>11. frame.at # Len(ps) + 1
  <2>1. Len(ps) \in Nat
    BY <1>2, PropertiesAre DEF IsSequence
  <2> QED
    BY <1>2, <2>1
<1> HIDE DEF ps
<1>12. FrameInv(new)'
  BY <1>2, <1>4, <1>5, <1>8, <1>9, <1>10, <1>11 DEF FrameInv, ps
<1> QED
  BY <1>4, <1>12 DEF new

\* A call begins with nothing.
LEMMA FrameEntered ==
  ASSUME NEW n \in Nodes
  PROVE  FrameInv(Frame(n)) /\ Frame(n).node = n
<1>1. /\ Frame(n).node = n /\ Frame(n).at = 1 /\ Frame(n).items = << >> /\ Frame(n).values = << >>
      /\ Frame(n) = Call(Frame(n).node, Frame(n).at, Frame(n).items, Frame(n).values)
  BY DEF Frame, Call
<1>2. Len(Properties(n)) \in Nat
  BY PropertiesAre DEF IsSequence
<1>3. IsSequence(<< >>) /\ Len(<< >>) = 0 /\ DOMAIN << >> = {}
  BY DEF IsSequence
<1>4. Len(Properties(n)) >= 1 => Len(Properties(n)[1].items) >= 0
  <2> SUFFICES ASSUME Len(Properties(n)) >= 1 PROVE Len(Properties(n)[1].items) >= 0
    OBVIOUS
  <2>1. Properties(n)[1] \in Elements(Properties(n))
    BY <1>2, PropertiesAre DEF IsSequence, Elements
  <2>2. IsSequence(Properties(n)[1].items)
    BY <2>1, ItemsOfProperty
  <2> QED
    BY <2>2 DEF IsSequence
<1> QED
  BY <1>1, <1>2, <1>3, <1>4 DEF FrameInv

\* When all items of a property are there, its value is, and the call is at the next one.
LEMMA FrameAdvances ==
  ASSUME NEW frame, FrameInv(frame), frame.at <= Len(Properties(frame.node)),
         ~(Len(frame.items) < Len(Properties(frame.node)[frame.at].items)), NEW new,
         new = Call(frame.node, frame.at + 1, << >>,
                    Assigned(frame, Properties(frame.node)[frame.at]))
  PROVE  FrameInv(new)
<1> DEFINE ps == Properties(frame.node)
           p == ps[frame.at]
           values == Assigned(frame, p)
           next == Len(rows) + 1
<1>1. /\ frame.node \in Nodes /\ frame.at \in 1..(Len(ps) + 1) /\ IsSequence(frame.items)
      /\ Len(frame.items) <= Len(p.items)
      /\ \A i \in 1..Len(frame.items) : StandsFor(frame.items[i], p.items[i], next)
      /\ \A q \in 1..(frame.at - 1) : KeepsProperty(frame.values, ps[q], next) /\ Indexed(frame.values, ps[q])
      /\ \A name \in DOMAIN frame.values : \E q \in 1..(frame.at - 1) : ps[q].name = name
  BY DEF FrameInv
<1>2. IsSequence(ps) /\ NamesDiffer(ps)
  BY <1>1, PropertiesAre
<1>3. Len(ps) \in Nat /\ DOMAIN ps = 1..Len(ps) /\ frame.at \in 1..Len(ps)
  BY <1>1, <1>2 DEF IsSequence
<1>4. p \in Elements(ps)
  BY <1>3 DEF Elements
<1>5. IsSequence(p.items)
  BY <1>1, <1>4, ItemsOfProperty
<1>6. /\ Len(frame.items) = Len(p.items) /\ DOMAIN p.items = 1..Len(p.items)
  BY <1>1, <1>5 DEF IsSequence
<1>7. KeepsItems(frame.items, p, next)
  BY <1>1, <1>6 DEF KeepsItems
<1>8. \A q \in 1..(frame.at - 1) : ps[q].name # p.name
  BY <1>2, <1>3 DEF NamesDiffer
<1>9. p.name \notin DOMAIN frame.values
  BY <1>1, <1>8
<1> DEFINE value == [items |-> frame.items,
                     indexed |-> p.many /\ \E x \in Elements(p.items) : ~IsBasic(x)]
<1>10. value.items = frame.items /\ value.indexed = (p.many /\ \E x \in Elements(p.items) : ~IsBasic(x))
  OBVIOUS
<1>11. values = IF ~p.many /\ p.items = << >> THEN frame.values
                ELSE [name \in DOMAIN frame.values \cup {p.name} |->
                        IF name = p.name THEN value ELSE frame.values[name]]
  BY DEF Assigned
<1> HIDE DEF ps, p, values, value, next
<1>12. /\ DOMAIN frame.values \subseteq DOMAIN values
       /\ DOMAIN values \subseteq DOMAIN frame.values \cup {p.name}
       /\ \A name \in DOMAIN frame.values : values[name] = frame.values[name]
       /\ ~p.many /\ p.items = << >> => p.name \notin DOMAIN values
       /\ p.many \/ p.items # << >> => p.name \in DOMAIN values /\ values[p.name] = value
  BY <1>9, <1>11
<1>13. KeepsProperty(values, p, next) /\ Indexed(values, p)
  BY <1>1, <1>7, <1>10, <1>12 DEF KeepsProperty, Indexed
<1>14. ASSUME NEW q \in 1..(frame.at - 1)
       PROVE  KeepsProperty(values, ps[q], next) /\ Indexed(values, ps[q])
  <2>1. KeepsProperty(frame.values, ps[q], next) /\ Indexed(frame.values, ps[q]) /\ ps[q].name # p.name
    BY <1>1, <1>8
  <2>2. ps[q].name \in DOMAIN values <=> ps[q].name \in DOMAIN frame.values
    BY <1>12, <2>1
  <2>3. ps[q].name \in DOMAIN values => values[ps[q].name] = frame.values[ps[q].name]
    BY <1>12, <2>2
  <2> QED
    BY <2>1, <2>2, <2>3 DEF KeepsProperty, Indexed
<1>15. /\ new.node = frame.node /\ new.at = frame.at + 1 /\ new.items = << >> /\ new.values = values
       /\ new = Call(new.node, new.at, new.items, new.values)
  BY DEF values, p, ps, Call
<1>16. \A q \in 1..(new.at - 1) : KeepsProperty(new.values, ps[q], next) /\ Indexed(new.values, ps[q])
  <2> SUFFICES ASSUME NEW q \in 1..(new.at - 1)
               PROVE  KeepsProperty(values, ps[q], next) /\ Indexed(values, ps[q])
    BY <1>15
  <2>1. q = frame.at \/ q \in 1..(frame.at - 1)
    BY <1>3, <1>15
  <2> QED
    BY <1>13, <1>14, <2>1 DEF p
<1>17. \A name \in DOMAIN new.values : \E q \in 1..(new.at - 1) : ps[q].name = name
  <2> SUFFICES ASSUME NEW name \in DOMAIN values
               PROVE  \E q \in 1..frame.at : ps[q].name = name
    BY <1>3, <1>15
  <2>1. CASE name = p.name
    BY <1>3, <2>1 DEF p
  <2>2. CASE name # p.name
    <3>1. PICK q \in 1..(frame.at - 1) : ps[q].name = name
      BY <1>1, <1>12, <2>2
    <3>2. q \in 1..frame.at
      BY <1>3
    <3> QED
      BY <3>1, <3>2
  <2> QED
    BY <2>1, <2>2
<1>18. new.at \in 1..(Len(ps) + 1)
  BY <1>3, <1>15
<1>19. new.at <= Len(ps) => Len(ps[new.at].items) >= 0
  <2> SUFFICES ASSUME new.at <= Len(ps) PROVE Len(ps[new.at].items) >= 0
    OBVIOUS
  <2>1. ps[new.at] \in Elements(ps)
    BY <1>3, <1>18 DEF Elements
  <2>2. IsSequence(ps[new.at].items)
    BY <1>1, <2>1, ItemsOfProperty DEF ps
  <2> QED
    BY <2>2 DEF IsSequence
<1>20. IsSequence(new.items) /\ Len(new.items) = 0
  <2>1. IsSequence(<< >>) /\ Len(<< >>) = 0
    BY DEF IsSequence
  <2> QED
    BY <1>15, <2>1
<1>21. new.node \in Nodes /\ Properties(new.node) = ps
  BY <1>1, <1>15 DEF ps
<1>22. new.at <= Len(ps) =>
         /\ Len(new.items) <= Len(ps[new.at].items)
         /\ \A i \in 1..Len(new.items) : StandsFor(new.items[i], ps[new.at].items[i], next)
  BY <1>19, <1>20
<1> QED
  BY <1>15, <1>16, <1>17, <1>18, <1>20, <1>21, <1>22 DEF FrameInv, next

-----------------------------------------------------------------------------
(* The steps                                                                *)

\* A step that adds no row keeps what the rows are.
LEMMA RowsStay ==
  ASSUME TreesInv, UNCHANGED <<enumTypes, rows, made>>
  PROVE  RowsGrow /\ KeptInv'
<1>1. IsSequence(rows) /\ rows' = rows /\ made' = made
  BY DEF TreesInv, FileInv, RowsInv
<1>2. Len(rows) \in Nat
  BY <1>1 DEF IsSequence
<1>3. RowsGrow
  BY <1>1, <1>2 DEF RowsGrow
<1>4. ASSUME NEW r \in 2..Len(rows), NEW p \in Elements(Properties(made[r]))
      PROVE  KeepsProperty(rows[r].values, p, r)'
  <2>1. KeepsProperty(rows[r].values, p, r)
    BY <1>4 DEF TreesInv, FileInv, KeptInv
  <2>2. r \in Nat /\ r <= Len(rows) + 1 /\ r <= r
    BY <1>2
  <2> DEFINE values == rows[r].values
  <2>3. values' = values
    BY <1>1
  <2> HIDE DEF values
  <2>4. PICK kept : kept = values
    OBVIOUS
  <2>5. KeepsProperty(kept, p, r)'
    BY <1>3, <2>1, <2>2, <2>4, KeptStill DEF values
  <2> QED
    BY <2>3, <2>4, <2>5 DEF values
<1> QED
  BY <1>1, <1>3, <1>4 DEF KeptInv

\* A sequence of anything is one of its elements.
LEMMA SequenceIs ==
  ASSUME NEW S, NEW s \in Seq(S)
  PROVE  IsSequence(s)
<1>1. Len(s) \in Nat /\ DOMAIN s = 1..Len(s) /\ s = [i \in 1..Len(s) |-> s[i]]
  OBVIOUS
<1>2. \A i \in 1..Len(s) : s[i] \in Elements(s)
  BY <1>1 DEF Elements
<1> DEFINE E == Elements(s)
           n == Len(s)
<1> HIDE DEF E, n
<1>3. s \in [1..n -> E]
  BY <1>1, <1>2 DEF E, n
<1>4. s \in Seq(E)
  BY <1>1, <1>3 DEF n
<1> QED
  BY <1>4 DEF E, IsSequence

\* A call waits for the row of a node as long as no enumeration is added.
LEMMA AwaitsStill ==
  ASSUME NEW caller, NEW node, enumTypes' = enumTypes, Awaits(caller, node)
  PROVE  Awaits(caller, node)'
<1>1. \A x : IsInserted(x)' <=> IsInserted(x)
  BY ItemsSame
<1> QED
  BY <1>1 DEF Awaits

\* The node that is entered for an item is one of the tree and no module.
LEMMA ItemEntered ==
  ASSUME SchemaInv, ShapeInv, built, NEW n \in Nodes, NEW p \in Elements(Properties(n)),
         NEW x \in Elements(p.items), IsInserted(x)
  PROVE  NodeOf(x) \in Nodes /\ NodeOf(x).type # "Module"
<1>1. p.items # << >>
  <2>1. Elements(<< >>) = {}
    BY DEF Elements
  <2> QED
    BY <2>1
<1>2. PICK f : /\ f.kind # "Module"
               /\ MayBeIn(x, f) \/ (x.type = "tuple" /\ f.kind \in CustomNames)
  BY <1>1, PropertyField
<1>3. PICK g : g = Fixed("Module", Field(f))
  OBVIOUS
<1>4. IsFixed(g, f)
  BY <1>3, FixedIs
<1>5. IsInserted(x) => /\ ~g.property /\ NodeOf(x) \in Nodes /\ IsA(NodeOf(x).type, g.kind)
                       /\ NodeOf(x).type = "Module" => f.kind = "Module"
  BY <1>2, <1>4, ItemSent
<1> QED
  BY <1>2, <1>5

\* A step of the call that is running, which adds no row.
LEMMA TopStep ==
  ASSUME TreesInv, InNode, NEW frame, stack' = [stack EXCEPT ![Len(stack)] = frame],
         FrameInv(frame)', frame.node = Top.node,
         UNCHANGED <<schemaVars, source, tree, ids, rows, made, linked, toLink, pc>>
  PROVE  FileInv'
<1>1. /\ UNCHANGED <<enumTypes, rows, made>> /\ built' = built
      /\ UNCHANGED <<source, tree, ids, linked, toLink, pc>>
  BY DEF schemaVars
<1>2. RowsGrow /\ KeptInv'
  BY <1>1, RowsStay
<1>3. /\ IsSequence(stack) /\ stack # << >> /\ stack[1].node = Tree
      /\ \A k \in 1..Len(stack) : FrameInv(stack[k])
      /\ \A k \in 2..Len(stack) : Awaits(stack[k - 1], stack[k].node)
  BY DEF TreesInv, FileInv, StackInv, InNode
<1>4. /\ IsSequence(stack') /\ Len(stack') = Len(stack) /\ Len(stack) \in Nat \ {0}
      /\ stack' # << >>
      /\ \A k \in 1..Len(stack) : stack'[k] = IF k = Len(stack) THEN frame ELSE stack[k]
  <2> DEFINE S == Elements(stack) \cup {frame}
  <2>1. stack \in Seq(S) /\ frame \in S /\ Len(stack) \in Nat \ {0} /\ DOMAIN stack = 1..Len(stack)
    <3>1. IsSequence(stack) /\ stack # << >>
      BY <1>3
    <3> QED
      BY <3>1 DEF IsSequence
  <2> HIDE DEF S
  <2>2. stack' \in Seq(S) /\ Len(stack') = Len(stack)
    BY <2>1
  <2>3. IsSequence(stack')
    <3>1. PICK t : t = stack'
      OBVIOUS
    <3>2. IsSequence(t)
      BY <2>2, <3>1, SequenceIs
    <3> QED
      BY <3>1, <3>2
  <2>4. stack' # << >>
    BY <2>1, <2>2
  <2> QED
    BY <2>1, <2>2, <2>3, <2>4
<1>5. \A k \in 1..Len(stack) : stack'[k].node = stack[k].node
  BY <1>4 DEF Top
<1>6. InNode' /\ Open' /\ Open
  <2>1. stack' # << >> /\ pc' = pc
    BY <1>1, <1>4
  <2> QED
    BY <2>1 DEF InNode, Open
<1>7. StackInv'
  <2>1. stack'[1].node = Tree'
    <3>1. Tree' = Tree
      BY <1>1 DEF Tree
    <3>2. 1 \in 1..Len(stack)
      BY <1>4
    <3>3. stack'[1].node = stack[1].node
      BY <1>5, <3>2
    <3> QED
      BY <1>3, <3>1, <3>3
  <2>2. ASSUME NEW k \in 1..Len(stack)
        PROVE  FrameInv(stack[k])'
    <3>1. CASE k = Len(stack)
      BY <1>4, <3>1
    <3>2. CASE k # Len(stack)
      <4>1. PICK old : old = stack[k]
        OBVIOUS
      <4>2. FrameInv(old)'
        BY <1>2, <1>3, <4>1, FrameStill
      <4>3. stack'[k] = old
        BY <1>4, <3>2, <4>1
      <4> QED
        BY <4>2, <4>3
    <3> QED
      BY <3>1, <3>2
  <2>3. ASSUME NEW k \in 2..Len(stack)
        PROVE  Awaits(stack[k - 1], stack[k].node)'
    <3>1. Awaits(stack[k - 1], stack[k].node)
      BY <1>3
    <3>2. stack'[k - 1] = stack[k - 1] /\ stack'[k].node = stack[k].node
      <4>1. k \in 1..Len(stack) /\ k - 1 \in 1..Len(stack) /\ k - 1 # Len(stack)
        BY <1>4
      <4>2. stack'[k].node = stack[k].node
        BY <1>5, <4>1
      <4>3. stack'[k - 1] = stack[k - 1]
        BY <1>4, <4>1
      <4> QED
        BY <4>2, <4>3
    <3>3. PICK caller, node : caller = stack[k - 1] /\ node = stack[k].node
      OBVIOUS
    <3>4. Awaits(caller, node)'
      BY <1>1, <3>1, <3>3, AwaitsStill
    <3> QED
      BY <3>2, <3>3, <3>4
  <2> QED
    BY <1>4, <2>1, <2>2, <2>3 DEF StackInv
<1>8. RowsInv'
  BY <1>1, <1>6 DEF TreesInv, FileInv, RowsInv
<1>9. PhaseInv' /\ NothingYet' /\ LinksInv'
  BY <1>1, <1>6 DEF TreesInv, FileInv, PhaseInv, NothingYet, LinksInv, File, Tree, InNode
<1> QED
  BY <1>2, <1>7, <1>8, <1>9 DEF FileInv

\* What a step that leaves the rows is about.
LEMMA RowsSame ==
  ASSUME TreesInv, UNCHANGED <<enumTypes, rows, made>>
  PROVE  RowsGrow /\ Len(rows') = Len(rows) /\ Len(rows) \in Nat \ {0}
<1>1. IsSequence(rows) /\ Len(rows) >= 1
  BY DEF TreesInv, FileInv, RowsInv
<1> QED
  BY <1>1, RowsStay DEF IsSequence

\* serialize, of what is not inserted.
LEMMA SerializeKeeps ==
  ASSUME TreesInv, SerializeItem
  PROVE  FileInv'
<1>1. PICK frame, x, item : frame = Top /\ x = NextItem /\ item = Serialize(x)
  OBVIOUS
<1>2. /\ UNCHANGED <<enumTypes, rows, made>>
      /\ InNode /\ AtProperty /\ ItemsLeft /\ ~IsInserted(x)
      /\ UNCHANGED <<schemaVars, source, tree, ids, rows, made, linked, toLink, pc>>
  BY <1>1 DEF SerializeItem, schemaVars
<1>3. RowsGrow
  BY <1>2, RowsSame
<1>4. /\ FrameInv(frame) /\ frame.at <= Len(Properties(frame.node))
      /\ Len(frame.items) < Len(Properties(frame.node)[frame.at].items)
      /\ x = Properties(frame.node)[frame.at].items[Len(frame.items) + 1]
  BY <1>1, <1>2, TopIs DEF AtProperty, ItemsLeft, NextItem, Current, ItemsOf
<1>5. StandsFor(item, x, Len(rows) + 1)'
  <2>1. (~IsInserted(x))' /\ item = Serialize(x)
    BY <1>1, <1>2, ItemsSame
  <2> QED
    BY <2>1 DEF StandsFor
<1>6. PICK new : new = Received(frame, item)
  OBVIOUS
<1>7. stack' = [stack EXCEPT ![Len(stack)] = new]
  BY <1>1, <1>6 DEF SerializeItem, Top
<1>8. FrameInv(Received(frame, item))' /\ Received(frame, item).node = frame.node
  BY <1>3, <1>4, <1>5, FrameReceives
<1>9. FrameInv(new)' /\ new.node = Top.node
  BY <1>1, <1>6, <1>8
<1> QED
  BY <1>2, <1>7, <1>9, TopStep

\* serialize, when all items of a property are there.
LEMMA PropertyKeeps ==
  ASSUME TreesInv, NextProperty
  PROVE  FileInv'
<1> DEFINE frame == Top
           new == Call(frame.node, frame.at + 1, << >>,
                       Assigned(frame, Properties(frame.node)[frame.at]))
<1>1. /\ UNCHANGED <<enumTypes, rows, made>>
      /\ InNode /\ AtProperty /\ ~ItemsLeft
      /\ UNCHANGED <<schemaVars, source, tree, ids, rows, made, linked, toLink, pc>>
  BY DEF NextProperty, schemaVars
<1>2. RowsGrow
  BY <1>1, RowsSame
<1>3. /\ FrameInv(frame) /\ frame.at <= Len(Properties(frame.node))
      /\ ~(Len(frame.items) < Len(Properties(frame.node)[frame.at].items))
  BY <1>1, TopIs DEF AtProperty, ItemsLeft, Current, ItemsOf
<1>4. stack' = [stack EXCEPT ![Len(stack)] = new]
  BY DEF NextProperty, Call, Current
<1>5. new.node = frame.node
  BY DEF Call
<1> HIDE DEF frame
<1>6. FrameInv(new)
  <2>1. PICK call : call = new
    OBVIOUS
  <2>2. FrameInv(call)
    BY <1>3, <2>1, FrameAdvances
  <2> QED
    BY <2>1, <2>2
<1>7. PICK call : call = new
  OBVIOUS
<1>8. FrameInv(call)' /\ call.node = Top.node /\ stack' = [stack EXCEPT ![Len(stack)] = call]
  BY <1>2, <1>4, <1>5, <1>6, <1>7, FrameStill DEF frame
<1> QED
  BY <1>1, <1>8, TopStep

\* enter_node: a call for the row of an item.
LEMMA EnterKeeps ==
  ASSUME TreesInv, EnterNode
  PROVE  FileInv'
<1> DEFINE caller == Top
           x == NextItem
           n == NodeOf(x)
<1>1. /\ UNCHANGED <<enumTypes, rows, made>> /\ built' = built
      /\ UNCHANGED <<source, tree, ids, linked, toLink, pc>>
      /\ InNode /\ AtProperty /\ ItemsLeft /\ IsInserted(x)
  BY DEF EnterNode, schemaVars
<1>2. RowsGrow /\ KeptInv'
  BY <1>1, RowsStay
<1>3. /\ SchemaInv /\ ShapeInv /\ built
      /\ Len(stack) \in Nat \ {0} /\ DOMAIN stack = 1..Len(stack)
      /\ FrameInv(caller) /\ caller.node \in Nodes
  BY <1>1, TopIs
<1>4. caller.at <= Len(Properties(caller.node)) /\ caller.at \in 1..Len(Properties(caller.node))
  BY <1>1, <1>3, PropertiesAre DEF AtProperty, FrameInv, IsSequence
<1> DEFINE p == Properties(caller.node)[caller.at]
<1>5. p \in Elements(Properties(caller.node)) /\ IsSequence(p.items)
  <2>1. p \in Elements(Properties(caller.node))
    BY <1>3, <1>4, PropertiesAre DEF IsSequence, Elements
  <2> QED
    BY <1>3, <2>1, ItemsOfProperty
<1>6. /\ IsSequence(caller.items) /\ Len(caller.items) < Len(p.items)
      /\ x = p.items[Len(caller.items) + 1]
  BY <1>1, <1>3 DEF FrameInv, ItemsLeft, NextItem, Current, ItemsOf
<1>7. Len(caller.items) + 1 <= Len(p.items) /\ x \in Elements(p.items)
  BY <1>5, <1>6 DEF IsSequence, Elements
<1>8. n \in Nodes
  BY <1>1, <1>3, <1>5, <1>7, ItemEntered
<1>9. Awaits(caller, n)
  BY <1>1, <1>4, <1>6, <1>7 DEF Awaits
<1>10. FrameInv(Frame(n)) /\ Frame(n).node = n
  BY <1>8, FrameEntered
<1>11. stack' = Append(stack, Frame(n))
  BY DEF EnterNode
<1> HIDE DEF x, n, p
<1>12. /\ IsSequence(stack) /\ stack[1].node = Tree
       /\ \A k \in 1..Len(stack) : FrameInv(stack[k])
       /\ \A k \in 2..Len(stack) : Awaits(stack[k - 1], stack[k].node)
  BY <1>1 DEF TreesInv, FileInv, StackInv
<1>13. PICK frame : frame = Frame(n)
  OBVIOUS
<1>14. /\ IsSequence(stack') /\ Len(stack') = Len(stack) + 1 /\ stack' # << >>
       /\ stack'[Len(stack) + 1] = frame
       /\ \A k \in 1..Len(stack) : stack'[k] = stack[k]
  <2> DEFINE S == Elements(stack) \cup {frame}
  <2>1. stack \in Seq(S) /\ frame \in S
    BY <1>3, <1>12 DEF IsSequence
  <2> HIDE DEF S
  <2>2. stack' \in Seq(S) /\ Len(stack') = Len(stack) + 1 /\ stack'[Len(stack) + 1] = frame
    BY <1>11, <1>13, <2>1
  <2>3. \A k \in 1..Len(stack) : stack'[k] = stack[k]
    BY <1>11, <2>1
  <2>4. IsSequence(stack')
    <3>1. PICK t : t = stack'
      OBVIOUS
    <3>2. IsSequence(t)
      BY <2>2, <3>1, SequenceIs
    <3> QED
      BY <3>1, <3>2
  <2>5. stack' # << >>
    BY <1>3, <2>2
  <2> QED
    BY <2>2, <2>3, <2>4, <2>5
<1>15. InNode' /\ Open' /\ Open
  <2>1. stack' # << >> /\ pc' = pc
    BY <1>1, <1>14
  <2> QED
    BY <1>1, <2>1 DEF InNode, Open
<1>16. StackInv'
  <2>1. stack'[1].node = Tree'
    <3>1. Tree' = Tree
      BY <1>1 DEF Tree
    <3>2. 1 \in 1..Len(stack)
      BY <1>3
    <3> QED
      BY <1>12, <1>14, <3>1, <3>2
  <2>2. ASSUME NEW k \in 1..Len(stack')
        PROVE  FrameInv(stack[k])'
    <3>1. PICK old : old = IF k = Len(stack) + 1 THEN frame ELSE stack[k]
      OBVIOUS
    <3>2. k \in 1..Len(stack) \/ k = Len(stack) + 1
      BY <1>3, <1>14
    <3>3. FrameInv(old)
      BY <1>3, <1>10, <1>12, <1>13, <3>1, <3>2
    <3>4. FrameInv(old)'
      BY <1>2, <3>3, FrameStill
    <3>5. stack'[k] = old
      BY <1>3, <1>14, <3>1, <3>2
    <3> QED
      BY <3>4, <3>5
  <2>3. ASSUME NEW k \in 2..Len(stack')
        PROVE  Awaits(stack[k - 1], stack[k].node)'
    <3>1. k \in 2..Len(stack) \/ k = Len(stack) + 1
      BY <1>3, <1>14
    <3>2. PICK waiting, node : waiting = stack'[k - 1] /\ node = stack'[k].node
      OBVIOUS
    <3>3. Awaits(waiting, node)
      <4>1. CASE k \in 2..Len(stack)
        <5>1. k \in 1..Len(stack) /\ k - 1 \in 1..Len(stack)
          BY <1>3, <4>1
        <5>2. waiting = stack[k - 1] /\ node = stack[k].node
          BY <1>14, <3>2, <5>1
        <5> QED
          BY <1>12, <4>1, <5>2
      <4>2. CASE k = Len(stack) + 1
        <5>1. k - 1 = Len(stack) /\ Len(stack) \in 1..Len(stack)
          BY <1>3, <4>2
        <5>2. waiting = caller /\ node = n
          BY <1>10, <1>13, <1>14, <3>2, <4>2, <5>1 DEF Top
        <5> QED
          BY <1>9, <5>2
      <4> QED
        BY <3>1, <4>1, <4>2
    <3>4. Awaits(waiting, node)'
      BY <1>1, <3>3, AwaitsStill
    <3> QED
      BY <3>2, <3>4
  <2> QED
    BY <1>14, <2>1, <2>2, <2>3 DEF StackInv
<1>17. RowsInv'
  BY <1>1, <1>15 DEF TreesInv, FileInv, RowsInv
<1>18. PhaseInv' /\ NothingYet' /\ LinksInv'
  BY <1>1, <1>15 DEF TreesInv, FileInv, PhaseInv, NothingYet, LinksInv, File, Tree, InNode
<1> QED
  BY <1>2, <1>16, <1>17, <1>18 DEF FileInv

\* One more element.
IsAppended(t, s, v) == t = Append(s, v)

\* Then there is one more, the last.
LEMMA Appended ==
  ASSUME NEW s, IsSequence(s), NEW v, NEW t, IsAppended(t, s, v)
  PROVE  /\ IsSequence(t) /\ Len(s) \in Nat /\ Len(t) = Len(s) + 1 /\ t[Len(s) + 1] = v
         /\ \A k \in 1..Len(s) : t[k] = s[k]
         /\ Elements(t) = Elements(s) \cup {v}
<1> DEFINE S == Elements(s) \cup {v}
<1>1. s \in Seq(S) /\ v \in S /\ Len(s) \in Nat /\ DOMAIN s = 1..Len(s)
  BY DEF IsSequence
<1> HIDE DEF S
<1>2. t \in Seq(S) /\ Len(t) = Len(s) + 1 /\ t[Len(s) + 1] = v /\ DOMAIN t = 1..(Len(s) + 1)
  BY <1>1 DEF IsAppended
<1>3. \A k \in 1..Len(s) : t[k] = s[k]
  BY <1>1 DEF IsAppended
<1>4. IsSequence(t)
  BY <1>2, SequenceIs
<1>5. Elements(t) = Elements(s) \cup {v}
  <2>1. \A k \in 1..(Len(s) + 1) : k \in 1..Len(s) \/ k = Len(s) + 1
    BY <1>1
  <2>2. \A k \in 1..Len(s) : k \in 1..(Len(s) + 1)
    BY <1>1
  <2>3. Len(s) + 1 \in 1..(Len(s) + 1)
    BY <1>1
  <2>4. \A e \in Elements(t) : e \in Elements(s) \/ e = v
    BY <1>1, <1>2, <1>3, <2>1 DEF Elements
  <2>5. \A e \in Elements(s) : e \in Elements(t)
    BY <1>1, <1>2, <1>3, <2>2 DEF Elements
  <2>6. v \in Elements(t)
    BY <1>2, <2>3 DEF Elements
  <2> QED
    BY <2>4, <2>5, <2>6
<1> QED
  BY <1>1, <1>2, <1>3, <1>4, <1>5

\* What a call waits for is an item of the property it is at; its node is no module.
LEMMA WaitedFor ==
  ASSUME SchemaInv, ShapeInv, built, NEW frame, FrameInv(frame), NEW node, Awaits(frame, node)
  PROVE  /\ frame.at <= Len(Properties(frame.node))
         /\ Len(frame.items) < Len(Properties(frame.node)[frame.at].items)
         /\ node.type # "Module"
<1>1. /\ frame.node \in Nodes /\ IsSequence(frame.items)
      /\ frame.at \in 1..(Len(Properties(frame.node)) + 1)
  BY DEF FrameInv
<1>2. PICK ps : ps = Properties(frame.node)
  OBVIOUS
<1>3. IsSequence(ps)
  BY <1>1, <1>2, PropertiesAre
<1>4. frame.at <= Len(ps) /\ Len(frame.items) + 1 <= Len(ps[frame.at].items)
  BY <1>2 DEF Awaits
<1>5. PICK x : /\ x = ps[frame.at].items[Len(frame.items) + 1]
               /\ IsInserted(x) /\ NodeOf(x) = node
  BY <1>2 DEF Awaits
<1>6. ps[frame.at] \in Elements(ps)
  BY <1>1, <1>2, <1>3, <1>4 DEF IsSequence, Elements
<1>7. IsSequence(ps[frame.at].items)
  BY <1>1, <1>2, <1>6, ItemsOfProperty
<1>8. x \in Elements(ps[frame.at].items) /\ Len(frame.items) < Len(ps[frame.at].items)
  BY <1>1, <1>4, <1>5, <1>7 DEF IsSequence, Elements
<1>9. NodeOf(x) \in Nodes /\ NodeOf(x).type # "Module"
  BY <1>1, <1>2, <1>5, <1>6, <1>8, ItemEntered
<1> QED
  BY <1>2, <1>4, <1>5, <1>8, <1>9

\* The row that was inserted for a node is what its caller waits for.
LEMMA RowReceived ==
  ASSUME RowsGrow, SchemaInv, ShapeInv, built, NEW frame, FrameInv(frame),
         NEW node, Awaits(frame, node), NEW ref \in Nat, ref >= 2, ref = Len(rows'),
         made'[ref] = node
  PROVE  FrameInv(Received(frame, Row(ref)))' /\ Received(frame, Row(ref)).node = frame.node
<1>1. /\ frame.at <= Len(Properties(frame.node))
      /\ Len(frame.items) < Len(Properties(frame.node)[frame.at].items)
  BY WaitedFor
<1>2. PICK x : x = Properties(frame.node)[frame.at].items[Len(frame.items) + 1]
  OBVIOUS
<1>3. IsInserted(x) /\ NodeOf(x) = node
  BY <1>2 DEF Awaits
<1>4. IsInserted(x)'
  BY <1>3, ItemsSame DEF RowsGrow
<1>5. PICK item : item = Row(ref)
  OBVIOUS
<1>6. item.kind = "row" /\ item.ref = ref
  BY <1>5 DEF Row
<1>7. ref \in 2..((Len(rows') + 1) - 1)
  OBVIOUS
<1>8. StandsFor(item, x, Len(rows) + 1)'
  BY <1>3, <1>4, <1>6, <1>7 DEF StandsFor
<1>9. FrameInv(Received(frame, item))' /\ Received(frame, item).node = frame.node
  BY <1>1, <1>2, <1>8, FrameReceives
<1> QED
  BY <1>5, <1>9

\* The row that is inserted has what its node has; the others remain.
LEMMA InsertRows ==
  ASSUME TreesInv, Insert
  PROVE  /\ RowsGrow /\ KeptInv' /\ Len(rows') = Len(rows) + 1 /\ Len(rows) \in Nat \ {0}
         /\ IsSequence(rows') /\ IsSequence(made') /\ Len(made') = Len(rows')
         /\ rows'[Len(rows')].type = Top.node.type /\ made'[Len(rows')] = Top.node
         /\ \A i \in 1..Len(rows) : rows'[i] = rows[i] /\ made'[i] = made[i]
         /\ Top.node \in Nodes
<1>1. InNode /\ ~AtProperty /\ UNCHANGED enumTypes
  BY DEF Insert, schemaVars
<1>2. FrameInv(Top) /\ Top.node \in Nodes /\ RowsInv
  BY <1>1, TopIs
<1>3. PICK row, node, values : row = Query /\ node = Top.node /\ values = Top.values
  OBVIOUS
<1>4. row.type = node.type /\ row.values = values
  BY <1>3 DEF Query
<1>5. PICK newRows, newMade : newRows = rows' /\ newMade = made'
  OBVIOUS
<1>6. IsAppended(newRows, rows, row) /\ IsAppended(newMade, made, node)
  BY <1>3, <1>5 DEF Insert, IsAppended
<1>7. IsSequence(rows) /\ IsSequence(made) /\ Len(rows) >= 1 /\ Len(made) = Len(rows)
  BY <1>2 DEF RowsInv
<1>8. /\ IsSequence(newRows) /\ Len(rows) \in Nat /\ Len(newRows) = Len(rows) + 1
      /\ newRows[Len(rows) + 1] = row
      /\ \A k \in 1..Len(rows) : newRows[k] = rows[k]
  BY <1>6, <1>7, Appended
<1>9. /\ IsSequence(newMade) /\ Len(newMade) = Len(made) + 1 /\ newMade[Len(made) + 1] = node
      /\ \A k \in 1..Len(made) : newMade[k] = made[k]
  BY <1>6, <1>7, Appended
<1>10. /\ Len(rows') = Len(rows) + 1 /\ Len(rows) \in Nat \ {0}
       /\ IsSequence(rows') /\ IsSequence(made') /\ Len(made') = Len(rows')
       /\ rows'[Len(rows')].type = Top.node.type /\ made'[Len(rows')] = Top.node
       /\ \A i \in 1..Len(rows) : rows'[i] = rows[i] /\ made'[i] = made[i]
  BY <1>3, <1>4, <1>5, <1>7, <1>8, <1>9
<1>11. RowsGrow
  BY <1>1, <1>10 DEF RowsGrow
<1>12. ASSUME NEW r \in 2..Len(rows'), NEW p \in Elements(Properties(made'[r]))
       PROVE  KeepsProperty(rows[r].values, p, r)'
  <2>1. PICK kept : kept = newRows[r].values
    OBVIOUS
  <2>2. r \in 2..Len(rows) \/ r = Len(rows) + 1
    BY <1>10
  <2>3. KeepsProperty(kept, p, r) /\ r \in Nat /\ r <= Len(rows) + 1 /\ r <= r
    <3>1. CASE r \in 2..Len(rows)
      <4>1. kept = rows[r].values /\ made'[r] = made[r]
        BY <1>8, <1>10, <2>1, <3>1
      <4>2. KeepsProperty(rows[r].values, p, r)
        BY <3>1, <4>1 DEF TreesInv, FileInv, KeptInv
      <4>3. r \in Nat /\ r <= Len(rows) + 1 /\ r <= r
        BY <1>10, <3>1
      <4> QED
        BY <4>1, <4>2, <4>3
    <3>2. CASE r = Len(rows) + 1
      <4>1. kept = values /\ made'[r] = Top.node
        BY <1>4, <1>8, <1>10, <2>1, <3>2
      <4>2. KeepsProperty(Top.values, p, Len(rows) + 1)
        BY <1>1, <1>2, <4>1, FrameDone DEF AtProperty
      <4> QED
        BY <1>3, <1>10, <3>2, <4>1, <4>2
    <3> QED
      BY <2>2, <3>1, <3>2
  <2>4. KeepsProperty(kept, p, r)'
    BY <1>11, <2>3, KeptStill
  <2>5. kept = rows'[r].values
    BY <1>5, <2>1
  <2> QED
    BY <2>4, <2>5
<1>13. KeptInv'
  BY <1>12 DEF KeptInv
<1> QED
  BY <1>2, <1>10, <1>11, <1>13

\* Insert, of the module: the last row.
LEMMA ModuleInserted ==
  ASSUME TreesInv, Insert, Len(stack) = 1
  PROVE  FileInv'
<1>1. /\ InNode /\ pc = "inserting" /\ pc' = pc
      /\ UNCHANGED <<source, tree, linked, toLink>> /\ built' = built
  BY DEF Insert, InNode, schemaVars
<1>2. stack' = << >> /\ ids' = ids
  BY DEF Insert
<1>3. /\ RowsGrow /\ KeptInv' /\ Len(rows') = Len(rows) + 1 /\ Len(rows) \in Nat \ {0}
      /\ IsSequence(rows') /\ IsSequence(made') /\ Len(made') = Len(rows')
      /\ rows'[Len(rows')].type = Top.node.type /\ made'[Len(rows')] = Top.node
      /\ \A i \in 1..Len(rows) : rows'[i] = rows[i] /\ made'[i] = made[i]
      /\ Top.node \in Nodes
  BY InsertRows
<1>4. Top.node = Tree /\ Tree' = Tree
  BY <1>1 DEF TreesInv, FileInv, StackInv, Top, Tree
<1>5. ~InNode' /\ ~Open' /\ Open
  BY <1>1, <1>2 DEF InNode, Open
<1>6. RowsInv
  BY DEF TreesInv, FileInv
<1>7. ASSUME NEW r \in 2..Len(rows')
      PROVE  made'[r] \in Nodes /\ rows'[r].type = made'[r].type
  <2>1. r \in 2..Len(rows) \/ r = Len(rows')
    BY <1>3
  <2>2. CASE r \in 2..Len(rows)
    <3>1. made'[r] = made[r] /\ rows'[r] = rows[r]
      BY <1>3, <2>2
    <3> QED
      BY <1>6, <2>2, <3>1 DEF RowsInv
  <2>3. CASE r = Len(rows')
    BY <1>3, <2>3
  <2> QED
    BY <2>1, <2>2, <2>3
<1>8. Elements(ids') = 2..(Len(rows') - 1) /\ Len(rows') >= 2 /\ rows'[1] = ProjectRow
  <2>1. Len(rows') - 1 = Len(rows) /\ 1 \in 1..Len(rows)
    BY <1>3
  <2> QED
    BY <1>2, <1>3, <1>5, <1>6, <2>1 DEF RowsInv
<1>9. RowsInv'
  <2>1. IsSequence(ids')
    BY <1>2, <1>6 DEF RowsInv
  <2>2. Len(rows') >= 1 /\ made'[Len(rows')] = Tree'
    BY <1>3, <1>4
  <2> QED
    BY <1>3, <1>5, <1>7, <1>8, <2>1, <2>2 DEF RowsInv
<1>10. PhaseInv'
  BY <1>1, <1>4 DEF TreesInv, FileInv, PhaseInv
<1>11. NothingYet' /\ LinksInv'
  BY <1>1 DEF NothingYet, LinksInv
<1>12. StackInv'
  BY <1>5 DEF StackInv
<1> QED
  BY <1>3, <1>9, <1>10, <1>11, <1>12 DEF FileInv

\* Insert, of any other node: its caller has the row, and reference_pool too.
LEMMA NodeInserted ==
  ASSUME TreesInv, Insert, Len(stack) # 1
  PROVE  FileInv'
<1>1. /\ InNode /\ pc = "inserting" /\ pc' = pc
      /\ UNCHANGED <<source, tree, linked, toLink, enumTypes>> /\ built' = built
  BY DEF Insert, InNode, schemaVars
<1>2. /\ RowsGrow /\ KeptInv' /\ Len(rows') = Len(rows) + 1 /\ Len(rows) \in Nat \ {0}
      /\ IsSequence(rows') /\ IsSequence(made') /\ Len(made') = Len(rows')
      /\ rows'[Len(rows')].type = Top.node.type /\ made'[Len(rows')] = Top.node
      /\ \A i \in 1..Len(rows) : rows'[i] = rows[i] /\ made'[i] = made[i]
      /\ Top.node \in Nodes
  BY InsertRows
<1>3. /\ SchemaInv /\ ShapeInv /\ built /\ RowsInv /\ Open /\ Len(stack) \in Nat \ {0}
  BY <1>1, TopIs
<1>4. /\ IsSequence(stack) /\ stack[1].node = Tree
      /\ \A k \in 1..Len(stack) : FrameInv(stack[k])
      /\ \A k \in 2..Len(stack) : Awaits(stack[k - 1], stack[k].node)
  BY <1>1 DEF TreesInv, FileInv, StackInv
<1>5. PICK caller, ref, node : caller = Len(stack) - 1 /\ ref = Len(rows) + 1 /\ node = Top.node
  OBVIOUS
<1>6. /\ caller \in 1..Len(stack) /\ caller # 0 /\ Len(stack) \in 2..Len(stack)
      /\ Len(stack) = caller + 1 /\ caller \in Nat \ {0}
      /\ ref \in Nat /\ ref >= 2 /\ ref = Len(rows') /\ made'[ref] = node
  BY <1>2, <1>3, <1>5
<1>7. PICK waiting : waiting = stack[caller]
  OBVIOUS
<1>8. FrameInv(waiting) /\ Awaits(waiting, node)
  <2>1. Awaits(stack[Len(stack) - 1], stack[Len(stack)].node)
    BY <1>4, <1>6
  <2> QED
    BY <1>4, <1>5, <1>6, <1>7, <2>1 DEF Top
<1>9. node.type # "Module"
  BY <1>3, <1>8, WaitedFor
<1>10. PICK frame : frame = Received(waiting, Row(ref))
  OBVIOUS
<1>11. FrameInv(frame)' /\ frame.node = waiting.node
  <2>1. FrameInv(Received(waiting, Row(ref)))' /\ Received(waiting, Row(ref)).node = waiting.node
    BY <1>2, <1>3, <1>6, <1>8, RowReceived
  <2> QED
    BY <1>10, <2>1
<1>12. /\ stack' = [i \in 1..caller |-> IF i = caller THEN frame ELSE stack[i]]
       /\ ids' = Append(ids, ref)
  BY <1>5, <1>6, <1>7, <1>10 DEF Insert
<1>13. /\ IsSequence(stack') /\ Len(stack') = caller /\ stack' # << >>
       /\ \A k \in 1..caller : stack'[k] = IF k = caller THEN frame ELSE stack[k]
  <2> DEFINE S == Elements(stack) \cup {frame}
  <2>1. stack \in Seq(S) /\ frame \in S /\ DOMAIN stack = 1..Len(stack)
    BY <1>4 DEF IsSequence
  <2> HIDE DEF S
  <2>2. \A k \in 1..caller : (IF k = caller THEN frame ELSE stack[k]) \in S
    BY <1>6, <2>1
  <2>3. stack' \in [1..caller -> S]
    BY <1>12, <2>2
  <2>4. stack' \in Seq(S) /\ Len(stack') = caller
    BY <1>6, <2>3
  <2>5. IsSequence(stack')
    <3>1. PICK t : t = stack'
      OBVIOUS
    <3>2. IsSequence(t)
      BY <2>4, <3>1, SequenceIs
    <3> QED
      BY <3>1, <3>2
  <2>6. stack' # << >>
    BY <1>6, <2>4
  <2> QED
    BY <1>12, <2>4, <2>5, <2>6
<1>14. \A k \in 1..caller : stack'[k].node = stack[k].node
  BY <1>7, <1>11, <1>13
<1>15. InNode' /\ Open'
  <2>1. stack' # << >> /\ pc' = "inserting"
    BY <1>1, <1>13
  <2> QED
    BY <2>1 DEF InNode, Open
<1>16. StackInv'
  <2>1. stack'[1].node = Tree'
    <3>1. Tree' = Tree
      BY <1>1 DEF Tree
    <3>2. 1 \in 1..caller
      BY <1>6
    <3> QED
      BY <1>4, <1>14, <3>1, <3>2
  <2>2. ASSUME NEW k \in 1..caller
        PROVE  FrameInv(stack[k])'
    <3>1. CASE k = caller
      BY <1>11, <1>13, <3>1
    <3>2. CASE k # caller
      <4>1. PICK old : old = stack[k]
        OBVIOUS
      <4>2. k \in 1..Len(stack)
        BY <1>6
      <4>3. FrameInv(old)
        BY <1>4, <4>1, <4>2
      <4>4. FrameInv(old)'
        BY <1>2, <4>3, FrameStill
      <4>5. stack'[k] = old
        BY <1>13, <3>2, <4>1
      <4> QED
        BY <4>4, <4>5
    <3> QED
      BY <3>1, <3>2
  <2>3. ASSUME NEW k \in 2..caller
        PROVE  Awaits(stack[k - 1], stack[k].node)'
    <3>1. k \in 2..Len(stack) /\ k \in 1..caller /\ k - 1 \in 1..caller /\ k - 1 # caller
      BY <1>6
    <3>2. PICK w, n : w = stack[k - 1] /\ n = stack[k].node
      OBVIOUS
    <3>3. Awaits(w, n)
      BY <1>4, <3>1, <3>2
    <3>4. Awaits(w, n)'
      BY <1>1, <3>3, AwaitsStill
    <3>5. stack'[k - 1] = w
      BY <1>13, <3>1, <3>2
    <3>6. stack'[k].node = n
      BY <1>14, <3>1, <3>2
    <3> QED
      BY <3>4, <3>5, <3>6
  <2> QED
    BY <1>13, <2>1, <2>2, <2>3 DEF StackInv
<1>17. ASSUME NEW r \in 2..Len(rows')
       PROVE  /\ made'[r] \in Nodes /\ rows'[r].type = made'[r].type /\ rows'[r].type # "Module"
  <2>1. r \in 2..Len(rows) \/ r = Len(rows')
    BY <1>2
  <2>2. CASE r \in 2..Len(rows)
    <3>1. made'[r] = made[r] /\ rows'[r] = rows[r]
      BY <1>2, <2>2
    <3> QED
      BY <1>3, <2>2, <3>1 DEF RowsInv
  <2>3. CASE r = Len(rows')
    BY <1>2, <1>5, <1>9, <2>3
  <2> QED
    BY <2>1, <2>2, <2>3
<1>18. IsSequence(ids') /\ Elements(ids') = 2..Len(rows')
  <2>1. PICK t : t = ids'
    OBVIOUS
  <2>2. IsAppended(t, ids, ref) /\ IsSequence(ids) /\ Elements(ids) = 2..Len(rows)
    BY <1>3, <1>12, <2>1 DEF IsAppended, RowsInv
  <2>3. IsSequence(t) /\ Elements(t) = Elements(ids) \cup {ref}
    BY <2>2, Appended
  <2>4. 2..Len(rows') = 2..Len(rows) \cup {ref}
    BY <1>2, <1>6
  <2> QED
    BY <2>1, <2>2, <2>3, <2>4
<1>19. RowsInv'
  <2>1. Len(rows') >= 1 /\ 1 \in 1..Len(rows)
    BY <1>2
  <2>2. rows'[1] = ProjectRow
    BY <1>2, <1>3, <2>1 DEF RowsInv
  <2> QED
    BY <1>2, <1>15, <1>17, <1>18, <2>1, <2>2 DEF RowsInv
<1>20. PhaseInv'
  <2>1. Tree' = Tree
    BY <1>1 DEF Tree
  <2> QED
    BY <1>1, <2>1 DEF TreesInv, FileInv, PhaseInv
<1>21. NothingYet' /\ LinksInv'
  BY <1>1 DEF NothingYet, LinksInv
<1> QED
  BY <1>2, <1>16, <1>19, <1>20, <1>21 DEF FileInv

\* The module is chosen when the schema is there.
LEMMA BuiltKeeps ==
  ASSUME TreesInv, SchemaBuilt
  PROVE  FileInv'
<1>1. /\ pc = "schema" /\ pc' = "parsed" /\ built' = built /\ built
      /\ UNCHANGED <<enumTypes, rows, made, ids>>
  BY DEF SchemaBuilt, schemaVars
<1>2. File' \in Trees
  BY DEF SchemaBuilt, File
<1>3. KeptInv'
  BY <1>1, RowsStay
<1>4. Open /\ Open' /\ ~InNode'
  BY <1>1 DEF Open, InNode
<1>5. RowsInv'
  BY <1>1, <1>4 DEF TreesInv, FileInv, RowsInv
<1>6. PhaseInv'
  BY <1>1, <1>2 DEF PhaseInv
<1>7. NothingYet' /\ LinksInv' /\ StackInv'
  BY <1>1, <1>4 DEF TreesInv, FileInv, NothingYet, LinksInv, StackInv
<1> QED
  BY <1>3, <1>5, <1>6, <1>7 DEF FileInv

\* as_ast gives a module made of nodes.
LEMMA PrepareKeeps ==
  ASSUME TreesInv, PrepareAst
  PROVE  FileInv'
<1>1. /\ pc = "parsed" /\ pc' = "prepared" /\ built' = built /\ built /\ File \in Trees
      /\ UNCHANGED <<enumTypes, rows, made, ids>>
  BY DEF PrepareAst, schemaVars, TreesInv, FileInv, PhaseInv
<1>2. Tree' \in Nodes /\ Tree'.type = "Module"
  <2>1. Tree' = Prepare(File)
    BY DEF PrepareAst, Tree
  <2>2. Prepare(File) \in {Prepare(t) : t \in Trees}
    BY <1>1
  <2> QED
    BY <2>1, <2>2, TreesAssumption
<1>3. KeptInv'
  BY <1>1, RowsStay
<1>4. Open /\ Open' /\ ~InNode'
  BY <1>1 DEF Open, InNode
<1>5. RowsInv'
  BY <1>1, <1>4 DEF TreesInv, FileInv, RowsInv
<1>6. PhaseInv'
  BY <1>1, <1>2 DEF PhaseInv
<1>7. NothingYet' /\ LinksInv' /\ StackInv'
  BY <1>1, <1>4 DEF TreesInv, FileInv, NothingYet, LinksInv, StackInv
<1> QED
  BY <1>3, <1>5, <1>6, <1>7 DEF FileInv

\* The first call is for the module.
LEMMA StartKeeps ==
  ASSUME TreesInv, StartInsertion
  PROVE  FileInv'
<1>1. /\ pc = "prepared" /\ pc' = "inserting" /\ built' = built /\ built
      /\ Tree \in Nodes /\ Tree.type = "Module"
      /\ UNCHANGED <<enumTypes, rows, made, ids, tree>>
  BY DEF StartInsertion, schemaVars, TreesInv, FileInv, PhaseInv
<1>2. PICK t, frame : t = Tree /\ frame = Frame(t)
  OBVIOUS
<1>3. stack' = <<frame>> /\ Tree' = t
  BY <1>1, <1>2 DEF StartInsertion, Tree
<1>4. FrameInv(frame) /\ frame.node = t
  BY <1>1, <1>2, FrameEntered
<1>5. RowsGrow /\ KeptInv'
  BY <1>1, RowsStay
<1>6. FrameInv(frame)'
  BY <1>4, <1>5, FrameStill
<1>7. /\ IsSequence(stack') /\ Len(stack') = 1 /\ stack'[1] = frame /\ stack' # << >>
  <2>1. stack' \in Seq({frame}) /\ Len(stack') = 1 /\ stack'[1] = frame
    BY <1>3
  <2>2. PICK s : s = stack'
    OBVIOUS
  <2>3. IsSequence(s)
    BY <2>1, <2>2, SequenceIs
  <2> QED
    BY <1>3, <2>1, <2>2, <2>3
<1>8. Open /\ Open' /\ InNode'
  BY <1>1, <1>7 DEF Open, InNode
<1>9. StackInv'
  <2>1. ASSUME NEW k \in 1..Len(stack')
        PROVE  FrameInv(stack[k])'
    <3>1. k = 1
      BY <1>7
    <3>2. stack'[k] = frame
      BY <1>7, <3>1
    <3> QED
      BY <1>6, <3>2
  <2>2. 2..Len(stack') = {}
    BY <1>7
  <2>3. stack'[1].node = Tree'
    BY <1>3, <1>4, <1>7
  <2> QED
    BY <1>7, <2>1, <2>2, <2>3 DEF StackInv
<1>10. RowsInv'
  BY <1>1, <1>8 DEF TreesInv, FileInv, RowsInv
<1>11. PhaseInv'
  <2>1. Tree' = Tree
    BY <1>1 DEF Tree
  <2> QED
    BY <1>1, <2>1 DEF PhaseInv
<1>12. NothingYet' /\ LinksInv'
  BY <1>1 DEF NothingYet, LinksInv
<1> QED
  BY <1>5, <1>9, <1>10, <1>11, <1>12 DEF FileInv

\* Linking: what is inserted does not change.
LEMMA LinkingKeeps ==
  ASSUME TreesInv, StartLinking \/ Link \/ Commit
  PROVE  FileInv'
<1>1. /\ ~Open /\ ~Open' /\ ~InNode' /\ pc' \in {"linking", "done"}
      /\ pc \in {"inserting", "linking", "done"}
      /\ UNCHANGED <<enumTypes, models, moduleTypes, built, rows, made, ids, tree>>
  BY DEF StartLinking, Link, Commit, schemaVars, Open, InNode
<1>2. Tree' = Tree
  BY <1>1 DEF Tree
<1>3. KeptInv'
  BY <1>1, RowsStay
<1>4. RowsInv'
  BY <1>1, <1>2 DEF TreesInv, FileInv, RowsInv
<1>5. PhaseInv'
  BY <1>1, <1>2 DEF TreesInv, FileInv, PhaseInv
<1>6. NothingYet' /\ StackInv'
  BY <1>1 DEF NothingYet, StackInv
<1>7. \A type, kind : IsA(type, kind)' <=> IsA(type, kind)
  BY <1>1 DEF IsA
<1>8. LinksInv'
  <2>1. CASE StartLinking
    BY <1>1, <2>1 DEF StartLinking, LinksInv
  <2>2. CASE Link
    <3>1. PICK t \in toLink : /\ linked' = linked \cup {r \in Elements(ids) : IsA(rows[r].type, t)}
                              /\ toLink' = toLink \ {t}
      BY <2>2 DEF Link
    <3>2. pc = "linking" /\ pc' = "linking"
      BY <2>2 DEF Link
    <3>3. ASSUME NEW u \in moduleTypes \ toLink', NEW r \in Elements(ids),
                 IsA(rows[r].type, u)
          PROVE  r \in linked'
      <4>1. u = t \/ u \in moduleTypes \ toLink
        BY <3>1
      <4> QED
        BY <3>1, <3>2, <3>3, <4>1 DEF TreesInv, FileInv, LinksInv
    <3> QED
      BY <1>1, <1>7, <3>2, <3>3 DEF LinksInv
  <2>3. CASE Commit
    <3>1. UNCHANGED <<linked, toLink>> /\ pc = "linking" /\ toLink = {}
      BY <2>3 DEF Commit
    <3>2. \A u \in moduleTypes \ toLink : \A r \in Elements(ids) :
            IsA(rows[r].type, u) => r \in linked
      BY <3>1 DEF TreesInv, FileInv, LinksInv
    <3> QED
      BY <1>1, <1>7, <3>1, <3>2 DEF LinksInv
  <2> QED
    BY <2>1, <2>2, <2>3
<1> QED
  BY <1>3, <1>4, <1>5, <1>6, <1>8 DEF FileInv

\* The schema is built before anything else.
LEMMA SchemaKeeps ==
  ASSUME TreesInv, BuildSchema, UNCHANGED fileVars
  PROVE  FileInv'
<1>1. UNCHANGED <<source, tree, stack, ids, rows, made, linked, toLink, pc>>
  BY DEF fileVars
<1>2. pc = "schema"
  <2>1. built => pending = {}
    BY DEF TreesInv, SchemaInv, BuiltLast
  <2>2. ~built
    BY <2>1 DEF BuildSchema, VisitDefinition, FixReferences
  <2> QED
    BY <2>2 DEF TreesInv, FileInv, PhaseInv
<1>3. Len(rows) = 1 /\ Open /\ Open' /\ ~InNode'
  BY <1>1, <1>2 DEF TreesInv, FileInv, NothingYet, Open, InNode
<1>4. RowsInv'
  BY <1>1, <1>3 DEF TreesInv, FileInv, RowsInv
<1>5. KeptInv'
  <2>1. 2..Len(rows') = {}
    BY <1>1, <1>3
  <2> QED
    BY <2>1 DEF KeptInv
<1>6. PhaseInv' /\ NothingYet' /\ LinksInv' /\ StackInv'
  BY <1>1, <1>2, <1>3 DEF PhaseInv, NothingYet, LinksInv, StackInv
<1> QED
  BY <1>4, <1>5, <1>6 DEF FileInv

\* A step that changes nothing.
LEMMA NothingKeeps ==
  ASSUME TreesInv, UNCHANGED vars
  PROVE  FileInv'
<1>1. /\ UNCHANGED <<enumTypes, rows, made>> /\ UNCHANGED <<models, moduleTypes, built>>
      /\ UNCHANGED <<source, tree, stack, ids, linked, toLink, pc>>
  BY DEF vars, schemaVars, fileVars
<1>2. RowsGrow /\ KeptInv'
  BY <1>1, RowsStay
<1>3. Tree' = Tree /\ File' = File /\ (InNode' <=> InNode) /\ (Open' <=> Open)
  BY <1>1 DEF Tree, File, InNode, Open
<1>4. RowsInv'
  BY <1>1, <1>3 DEF TreesInv, FileInv, RowsInv
<1>5. PhaseInv' /\ NothingYet'
  BY <1>1, <1>3 DEF TreesInv, FileInv, PhaseInv, NothingYet
<1>6. LinksInv'
  BY <1>1 DEF TreesInv, FileInv, LinksInv, IsA
<1>7. StackInv'
  <2> SUFFICES ASSUME InNode PROVE StackInv'
    BY <1>3 DEF StackInv
  <2>1. PICK s : s = stack
    OBVIOUS
  <2>2. /\ IsSequence(s) /\ s[1].node = Tree
        /\ \A k \in 1..Len(s) : FrameInv(s[k])
        /\ \A k \in 2..Len(s) : Awaits(s[k - 1], s[k].node)
    BY <2>1 DEF TreesInv, FileInv, StackInv
  <2>3. \A k \in 1..Len(s) : FrameInv(s[k])'
    BY <1>2, <2>2, FrameStill
  <2>4. \A k \in 2..Len(s) : Awaits(s[k - 1], s[k].node)'
    BY <1>1, <2>2, AwaitsStill
  <2>5. stack' = s
    BY <1>1, <2>1
  <2> QED
    BY <1>3, <2>2, <2>3, <2>4, <2>5 DEF StackInv
<1> QED
  BY <1>2, <1>4, <1>5, <1>6, <1>7 DEF FileInv

-----------------------------------------------------------------------------
(* The specification                                                        *)

\* In the beginning there is the project's row.
LEMMA TreesStart ==
  Init => TreesInv
<1> SUFFICES ASSUME Init PROVE TreesInv
  OBVIOUS
<1>1. SchemaInv /\ ShapeInv /\ ModulesInv
  BY SchemaStarts, ShapeStarts DEF Init
<1>2. pc = "schema" /\ ids = << >>
  BY DEF Init
<1>3. Open /\ ~InNode
  BY <1>2 DEF Open, InNode
<1>4. /\ IsSequence(rows) /\ IsSequence(made) /\ Len(rows) = 1 /\ Len(made) = 1
      /\ rows[1] = ProjectRow
  <2>1. PICK a, b : a = ProjectRow /\ b = SentinelNode
    OBVIOUS
  <2>2. rows = <<a>> /\ made = <<b>>
    BY <2>1 DEF Init
  <2>3. rows \in Seq({a}) /\ made \in Seq({b}) /\ Len(rows) = 1 /\ Len(made) = 1 /\ rows[1] = a
    BY <2>2
  <2>4. PICK s, t : s = rows /\ t = made
    OBVIOUS
  <2>5. IsSequence(s)
    BY <2>3, <2>4, SequenceIs
  <2>6. IsSequence(t)
    BY <2>3, <2>4, SequenceIs
  <2> QED
    BY <2>1, <2>3, <2>4, <2>5, <2>6
<1>5. 2..Len(rows) = {}
  BY <1>4
<1>6. IsSequence(ids) /\ Elements(ids) = {}
  BY <1>2 DEF IsSequence, Elements
<1>7. RowsInv /\ KeptInv
  BY <1>3, <1>4, <1>5, <1>6 DEF RowsInv, KeptInv
<1>8. PhaseInv /\ NothingYet /\ StackInv /\ LinksInv
  BY <1>2, <1>3, <1>4 DEF PhaseInv, NothingYet, StackInv, LinksInv
<1> QED
  BY <1>1, <1>7, <1>8 DEF TreesInv, FileInv

\* Every step keeps what is known of the schema, the calls, the rows and the links.
LEMMA TreesStep ==
  TreesInv /\ [Next]_vars => TreesInv'
<1> SUFFICES ASSUME TreesInv, [Next]_vars PROVE TreesInv'
  OBVIOUS
<1>1. SchemaInv' /\ ShapeInv' /\ ModulesInv'
  <2>1. [BuildSchema]_schemaVars
    BY DEF Next, InsertFile, SchemaBuilt, PrepareAst, StartInsertion, SerializeItem, EnterNode,
           NextProperty, Insert, StartLinking, Link, Commit, vars
  <2> QED
    BY <2>1, ShapeSteps DEF TreesInv
<1>2. FileInv'
  <2>1. CASE SchemaBuilt
    BY <2>1, BuiltKeeps
  <2>2. CASE PrepareAst
    BY <2>2, PrepareKeeps
  <2>3. CASE StartInsertion
    BY <2>3, StartKeeps
  <2>4. CASE SerializeItem
    BY <2>4, SerializeKeeps
  <2>5. CASE EnterNode
    BY <2>5, EnterKeeps
  <2>6. CASE NextProperty
    BY <2>6, PropertyKeeps
  <2>7. CASE Insert
    BY <2>7, ModuleInserted, NodeInserted
  <2>8. CASE StartLinking \/ Link \/ Commit
    BY <2>8, LinkingKeeps
  <2>9. CASE BuildSchema /\ UNCHANGED fileVars
    BY <2>9, SchemaKeeps
  <2>10. CASE UNCHANGED vars
    BY <2>10, NothingKeeps
  <2> QED
    BY <2>1, <2>2, <2>3, <2>4, <2>5, <2>6, <2>7, <2>8, <2>9, <2>10 DEF Next, InsertFile
<1> QED
  BY <1>1, <1>2 DEF TreesInv

\* So it is always true.
LEMMA TreesAlways ==
  Spec => []TreesInv
BY TreesStart, TreesStep, PTL DEF Spec

\* Whatever the ASDL file defines, in whatever order its types come, and whatever the
\* module is: the schema that is built accepts each query the serializer sends.
THEOREM TreesAccepted == Spec => []QueriesAccepted
<1>1. TreesInv => QueriesAccepted
  BY QueryAccepted DEF QueriesAccepted
<1> QED
  BY <1>1, TreesAlways, PTL

\* Nothing of the module is lost or mixed up on its way: a row has the values of the node
\* it is made of and refers to the rows of the node's nodes, each at its place, and
\* the last row is the module's.
THEOREM RowsKeep == Spec => []RowsKeepNodes
<1>1. TreesInv => RowsKeepNodes
  BY DEF TreesInv, FileInv, KeptInv, RowsInv, RowsKeepNodes, Open, InNode
<1> QED
  BY <1>1, TreesAlways, PTL

\* The attributes of a definition are fields of the model it is known as.
LEMMA AttributesDeclared ==
  ASSUME SchemaInv, ShapeInv, built, NEW d \in Elements(Definitions),
         d.name # "custom_types", ~IsEnumDefinition(d), NEW a \in Elements(d.attributes)
  PROVE  /\ d.name \in DOMAIN models /\ Fixed(d.name, Field(a)) \in models[d.name].fields
<1>1. d \in Visited /\ NamesOf(d) \subseteq DOMAIN models
  BY EnumsAre DEF SchemaInv, ModelsInv
<1>2. \A m, fs : Declares(m, fs) = {Fixed(m, Field(f)) : f \in fs}
  BY DEF Declares
<1>3. ASSUME NEW c, NEW fs, models[d.name] = Model(c, {}, Declares(d.name, fs)), a \in fs
      PROVE  Fixed(d.name, Field(a)) \in models[d.name].fields
  <2>1. models[d.name].fields = Declares(d.name, fs)
    BY <1>3 DEF Model
  <2> QED
    BY <1>2, <1>3, <2>1
<1>4. CASE d.kind = "product"
  <2>1. d.name \in DOMAIN models
    BY <1>1, <1>4, KindsOfDefinition
  <2>2. PICK fs : fs = Elements(d.types[1].fields) \cup Elements(d.attributes)
    OBVIOUS
  <2>3. models[d.name] = Model("none", {}, Declares(d.name, fs)) /\ a \in fs
    BY <1>1, <1>4, <2>2 DEF ShapeInv, ProductShape
  <2> QED
    BY <1>3, <2>1, <2>3
<1>5. CASE IsSumDefinition(d)
  <2>1. d.name \in DOMAIN models
    BY <1>1, <1>5, KindsOfDefinition
  <2>2. PICK fs : fs = Elements(d.attributes)
    OBVIOUS
  <2>3. models[d.name] = Model("abstract", {}, Declares(d.name, fs)) /\ a \in fs
    BY <1>1, <1>5, <2>2 DEF ShapeInv, SumShape
  <2> QED
    BY <1>3, <2>1, <2>3
<1> QED
  BY <1>4, <1>5, KindsOfDefinition

\* A field _module is an attribute of the type's definition, so updates are sent for it.
LEMMA ModuleLink ==
  ASSUME SchemaInv, ShapeInv, ModulesInv, built,
         NEW d \in Elements(Definitions), NEW t \in Elements(d.types),
         d.name # "custom_types", ~IsEnumDefinition(d),
         NEW field \in Declared(t.name), field.name = "_module"
  PROVE  d.attributes # << >> /\ d.name \in moduleTypes /\ IsA(t.name, d.name)
<1>1. IsA(t.name, d.name)
  BY ClassModel
<1>2. PICK m, f : field = Fixed(m, Field(f)) /\ f \in Elements(t.fields) \cup Elements(d.attributes)
  BY ClassModel
<1>3. f.name = "_module"
  BY <1>2, FixedIs DEF IsFixed
<1>4. f \in Elements(d.attributes)
  BY <1>2, <1>3, ClassesAssumption
<1>5. f.kind = "Module"
  BY <1>3, <1>4, ClassesAssumption
<1>6. "Module" \notin DOMAIN TypeMap \cup CustomNames
  <2>1. "Module" \notin LeafTypes
    BY ProductOf
  <2>2. PICK e \in Elements(Definitions) : e.name = "Module" /\ e.kind = "product"
    BY ClassesAssumption
  <2>3. "Module" \in NamesOf(e)
    BY <2>2, KindsOfDefinition
  <2> QED
    BY <2>1, <2>3, DefinitionsAssumption DEF LeafTypes
<1>7. PICK g : g = Fixed(d.name, Field(f))
  OBVIOUS
<1>8. IsFixed(g, f)
  BY <1>7, FixedIs
<1>9. g.kind = "Module"
  BY <1>5, <1>6, <1>8 DEF IsFixed
<1>10. d.name \in DOMAIN models /\ g \in models[d.name].fields
  BY <1>4, <1>7, AttributesDeclared
<1>11. d.name \in moduleTypes
  BY <1>9, <1>10 DEF ModulesInv
<1>12. d.attributes # << >>
  <2>1. Elements(<< >>) = {}
    BY DEF Elements
  <2> QED
    BY <1>4, <2>1
<1> QED
  BY <1>1, <1>11, <1>12

\* Inserting a file leaves the schema as it was built: StoredTrees implements SchemaBuilder.
THEOREM SchemaUntouched == Spec => SchemaSpec
<1>1. Init => InitSchema
  BY DEF Init
<1>2. [Next]_vars => [BuildSchema]_schemaVars
  <2> SUFFICES ASSUME [Next]_vars PROVE [BuildSchema]_schemaVars
    OBVIOUS
  <2>1. CASE InsertFile
    BY <2>1 DEF InsertFile, SchemaBuilt, PrepareAst, StartInsertion, SerializeItem, EnterNode,
                NextProperty, Insert, StartLinking, Link, Commit
  <2>2. CASE BuildSchema
    BY <2>2
  <2>3. CASE UNCHANGED vars
    BY <2>3 DEF vars
  <2> QED
    BY <2>1, <2>2, <2>3 DEF Next
<1> QED
  BY <1>1, <1>2, PTL DEF Spec, SchemaSpec

\* So every reference of the schema is resolved while files are inserted as well.
COROLLARY TreesResolved == Spec => []ReferencesResolved
BY SchemaUntouched, SchemaResolved, PTL

\* When a file is committed, every row that has a link to a module has been given it.
THEOREM RowsLinked == Spec => []AllLinked
<1>1. ASSUME TreesInv, pc = "done", NEW r \in DOMAIN rows,
             NEW field \in Declared(rows[r].type), field.name = "_module"
      PROVE  r \in linked
  <2>1. /\ SchemaInv /\ ShapeInv /\ ModulesInv /\ built /\ RowsInv /\ ~Open
        /\ toLink = {} /\ Tree.type = "Module"
        /\ \A u \in moduleTypes \ toLink : \A q \in Elements(ids) : IsA(rows[q].type, u) => q \in linked
    BY <1>1 DEF TreesInv, FileInv, PhaseInv, LinksInv, Open, InNode
  <2>2. /\ IsSequence(rows) /\ rows[1] = ProjectRow /\ made[Len(rows)] = Tree
        /\ Elements(ids) = 2..(Len(rows) - 1) /\ Len(rows) >= 2
        /\ \A q \in 2..Len(rows) : made[q] \in Nodes /\ rows[q].type = made[q].type
    BY <2>1 DEF RowsInv
  <2>3. Len(rows) \in Nat /\ r \in 1..Len(rows)
    BY <2>2 DEF IsSequence
  <2>4. CASE r = 1
    <3>1. rows[r].type = "project"
      BY <2>2, <2>4 DEF ProjectRow
    <3>2. PICK d : d = DefinitionOf("project")
      OBVIOUS
    <3>3. /\ d \in Elements(Definitions) /\ d.attributes = << >> /\ d.name = "project"
          /\ d.kind = "product"
      BY <3>2, ProductOf DEF BaseName
    <3>4. PICK t \in Elements(d.types) : t.name = "project"
      BY <3>2, ProductOf, ClassIs
    <3>5. d.name # "custom_types" /\ ~IsEnumDefinition(d)
      BY <3>3 DEF IsEnumDefinition
    <3> QED
      BY <1>1, <2>1, <3>1, <3>3, <3>4, <3>5, ModuleLink
  <2>5. CASE r # 1
    <3>1. PICK n \in Nodes : n = made[r] /\ rows[r].type = n.type
      BY <2>2, <2>3, <2>5
    <3>2. PICK d : d = DefinitionOf(n.type)
      OBVIOUS
    <3>3. /\ d \in Elements(Definitions) /\ d.name # "custom_types" /\ ~IsEnumDefinition(d)
          /\ \E t \in Elements(d.types) : t.name = n.type
      BY <3>2, NodeIs
    <3>4. PICK t \in Elements(d.types) : t.name = n.type
      BY <3>3
    <3>5. field \in Declared(t.name)
      BY <1>1, <3>1, <3>4
    <3>6. d.attributes # << >> /\ d.name \in moduleTypes /\ IsA(n.type, d.name)
      BY <1>1, <2>1, <3>3, <3>4, <3>5, ModuleLink
    <3>7. r # Len(rows)
      <4>1. DefinitionOf("Module").attributes = << >>
        BY ProductOf
      <4> QED
        BY <2>1, <2>2, <3>1, <3>2, <3>6, <4>1
    <3>8. r \in Elements(ids)
      BY <2>2, <2>3, <2>5, <3>7
    <3> QED
      BY <2>1, <3>1, <3>6, <3>8
  <2> QED
    BY <2>4, <2>5
<1>2. TreesInv => AllLinked
  BY <1>1 DEF AllLinked
<1> QED
  BY <1>2, TreesAlways, PTL
=============================================================================
