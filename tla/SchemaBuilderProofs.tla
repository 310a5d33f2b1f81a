------------------------- MODULE SchemaBuilderProofs -------------------------
(***************************************************************************)
(* Proofs about SchemaBuilder, for any ASDL file and any order of its      *)
(* definitions.                                                            *)
(***************************************************************************)
EXTENDS SchemaBuilder, TLAPS

\* The definitions visited so far, and what a model is.
Visited == Elements(Definitions) \ pending
IsModel(v) == v = Model(v.constraint, v.extending, v.fields)

\* The models are those of the definitions visited ...
ModelsInv ==
  /\ pending \subseteq Elements(Definitions)
  /\ DOMAIN models = {"AST"} \cup UNION {NamesOf(d) : d \in Visited}
  /\ enumTypes = {d.name : d \in {e \in Visited : IsEnumDefinition(e)}}
  /\ \A m \in DOMAIN models : /\ IsModel(models[m])
                              /\ models[m].constraint = "scalar" <=> m \in enumTypes

\* ... so are the custom types ...
CustomInv ==
  /\ DOMAIN customTypes =
       {t.name : t \in UNION {Elements(d.types) :
          d \in {e \in Visited : e.name = "custom_types"}}}
  /\ \A c \in DOMAIN customTypes : customTypes[c] = ParentInfo

\* ... and until the references are fixed, every field is one of the file.
FieldsInv ==
  ~built => \A m \in DOMAIN models : \A f \in models[m].fields :
              \E g \in FieldsOfDefinitions : f = Field(g)

BuiltLast == built => pending = {}

SchemaInv == ModelsInv /\ CustomInv /\ FieldsInv /\ BuiltLast /\ ReferencesResolved

-----------------------------------------------------------------------------
\* A model is a record of its constraint, what it extends, and its fields.
LEMMA ModelIs ==
  ASSUME NEW c, NEW e, NEW f
  PROVE  /\ Model(c, e, f).constraint = c /\ Model(c, e, f).fields = f
         /\ IsModel(Model(c, e, f))
BY DEF Model, IsModel

\* Fixing the fields of a model leaves the rest of it.
LEMMA FieldsReplaced ==
  ASSUME NEW v, IsModel(v), NEW new
  PROVE  [v EXCEPT !.fields = new] = Model(v.constraint, v.extending, new)
<1>1. ASSUME NEW c, NEW e, NEW f
      PROVE  [Model(c, e, f) EXCEPT !.fields = new] = Model(c, e, new)
  BY DEF Model
<1>2. v = Model(v.constraint, v.extending, v.fields)
  BY DEF IsModel
<1> QED
  BY <1>1, <1>2

\* A definition that is visited adds its own models and no others.
LEMMA NamesDistinct ==
  ASSUME ModelsInv, NEW d \in pending
  PROVE  /\ d \in Elements(Definitions) /\ d \notin Visited
         /\ \A e \in Visited : d.name # e.name /\ NamesOf(d) \cap NamesOf(e) = {}
         /\ "AST" \notin NamesOf(d) /\ NamesOf(d) \cap DOMAIN models = {}
<1>1. d \in Elements(Definitions) /\ d \notin Visited
  BY DEF ModelsInv, Visited
<1>2. \A e \in Visited : d.name # e.name /\ NamesOf(d) \cap NamesOf(e) = {}
  BY <1>1, DefinitionsAssumption DEF Visited
<1>3. "AST" \notin NamesOf(d)
  BY <1>1, DefinitionsAssumption
<1> QED
  BY <1>1, <1>2, <1>3 DEF ModelsInv

\* The name of a definition whose model is not an enumeration is no enumeration's.
LEMMA NoEnumYet ==
  ASSUME ModelsInv, NEW d \in pending
  PROVE  NamesOf(d) \cap enumTypes = {}
<1>1. \A e \in Visited : IsEnumDefinition(e) => e.name \in NamesOf(e)
  BY DEF IsEnumDefinition, NamesOf
<1> QED
  BY <1>1, NamesDistinct DEF ModelsInv

\* What is added to the models.
LEMMA WithIs ==
  ASSUME NEW new
  PROVE  /\ DOMAIN With(new) = DOMAIN models \cup DOMAIN new
         /\ \A m \in DOMAIN With(new) :
              With(new)[m] = IF m \in DOMAIN new THEN new[m] ELSE models[m]
BY DEF With

\* A visit that adds the models new of d, scalar if d is an enumeration.
LEMMA VisitKeeps ==
  ASSUME SchemaInv, NEW d \in pending, NEW new, d.name # "custom_types",
         DOMAIN new = NamesOf(d),
         \A m \in DOMAIN new : /\ IsModel(new[m])
                               /\ new[m].constraint = "scalar" <=> IsEnumDefinition(d)
                               /\ \A f \in new[m].fields :
                                    \E g \in FieldsOfDefinitions : f = Field(g),
         models' = With(new),
         enumTypes' = IF IsEnumDefinition(d) THEN enumTypes \cup {d.name} ELSE enumTypes,
         pending' = pending \ {d}, UNCHANGED <<moduleTypes, customTypes, built>>
  PROVE  SchemaInv'
<1> USE DEF SchemaInv
<1>1. Visited' = Visited \cup {d} /\ d \in Elements(Definitions) /\ ~built
  BY DEF Visited, ModelsInv, BuiltLast
<1>2. /\ DOMAIN models' = DOMAIN models \cup NamesOf(d)
      /\ \A m \in DOMAIN models' :
           models'[m] = IF m \in NamesOf(d) THEN new[m] ELSE models[m]
  BY WithIs
<1>3. ModelsInv'
  <2>1. pending' \subseteq Elements(Definitions)
    BY DEF ModelsInv
  <2>2. DOMAIN models' = {"AST"} \cup UNION {NamesOf(e) : e \in Visited'}
    BY <1>1, <1>2 DEF ModelsInv
  <2>3. enumTypes' = {e.name : e \in {c \in Visited' : IsEnumDefinition(c)}}
    BY <1>1 DEF ModelsInv
  <2>4. ASSUME NEW m \in DOMAIN models'
        PROVE  IsModel(models'[m]) /\ (models'[m].constraint = "scalar" <=> m \in enumTypes')
    <3>1. CASE m \in NamesOf(d)
      <4>1. m \notin enumTypes
        BY <3>1, NoEnumYet
      <4>2. IsEnumDefinition(d) => m = d.name
        BY <3>1 DEF IsEnumDefinition, NamesOf
      <4>3. IsModel(models'[m]) /\ (models'[m].constraint = "scalar" <=> IsEnumDefinition(d))
        BY <1>2, <3>1
      <4> QED
        BY <4>1, <4>2, <4>3
    <3>2. CASE m \notin NamesOf(d)
      <4>1. m \in DOMAIN models /\ models'[m] = models[m]
        BY <1>2, <3>2
      <4>2. IsEnumDefinition(d) => d.name \in NamesOf(d)
        BY DEF IsEnumDefinition, NamesOf
      <4> QED
        BY <3>2, <4>1, <4>2 DEF ModelsInv
    <3> QED
      BY <3>1, <3>2
  <2> QED
    BY <2>1, <2>2, <2>3, <2>4 DEF ModelsInv
<1>4. CustomInv'
  <2>1. {e \in Visited' : e.name = "custom_types"} = {e \in Visited : e.name = "custom_types"}
    BY <1>1
  <2> QED
    BY <2>1 DEF CustomInv
<1>5. FieldsInv'
  BY <1>1, <1>2 DEF FieldsInv
<1> QED
  BY <1>1, <1>3, <1>4, <1>5 DEF BuiltLast, ReferencesResolved

\* A field of a definition that becomes a model.
LEMMA OwnFields ==
  ASSUME NEW d \in Elements(Definitions), d.name # "custom_types"
  PROVE  /\ \A f \in Fields(d.attributes) : \E g \in FieldsOfDefinitions : f = Field(g)
         /\ \A t \in Elements(d.types) : \A f \in Fields(t.fields) :
              \E g \in FieldsOfDefinitions : f = Field(g)
<1>1. Elements(d.attributes) \subseteq FieldsOfDefinitions
  BY DEF FieldsOfDefinitions
<1>2. \A t \in Elements(d.types) : Elements(t.fields) \subseteq FieldsOfDefinitions
  BY DEF FieldsOfDefinitions
<1> QED
  BY <1>1, <1>2 DEF Fields

\* Whichever definition is visited next, the invariant is kept.
LEMMA VisitStep ==
  ASSUME SchemaInv, VisitDefinition
  PROVE  SchemaInv'
<1>1. PICK d \in pending :
        /\ VisitProduct(d) \/ VisitEnum(d) \/ VisitSum(d) \/ VisitCustomTypes(d)
        /\ pending' = pending \ {d} /\ UNCHANGED <<moduleTypes, built>>
  BY DEF VisitDefinition
<1>2. /\ d \in Elements(Definitions) /\ d \notin Visited
      /\ d.kind = "product" => 1 \in DOMAIN d.types
      /\ d.name = "custom_types" => d.kind = "sum"
      /\ \A e \in Visited : d.name # e.name
  BY NamesDistinct, DefinitionsAssumption DEF SchemaInv
<1>3. CASE VisitProduct(d)
  <2> DEFINE fields == Fields(d.types[1].fields) \cup Fields(d.attributes)
             new == One(d.name, Model("none", {}, fields))
  <2>1. d.kind = "product" /\ d.name # "custom_types" /\ ~ IsEnumDefinition(d)
    BY <1>2, <1>3 DEF VisitProduct, IsEnumDefinition
  <2>2. DOMAIN new = NamesOf(d) /\ \A m \in DOMAIN new : new[m] = Model("none", {}, fields)
    BY <2>1 DEF NamesOf, One
  <2>3. d.types[1] \in Elements(d.types)
    BY <1>2, <2>1 DEF Elements
  <2>4. \A f \in fields : \E g \in FieldsOfDefinitions : f = Field(g)
    BY <1>2, <2>1, <2>3, OwnFields
  <2>5. models' = With(new) /\ UNCHANGED <<enumTypes, customTypes>>
    BY <1>3 DEF VisitProduct
  <2> HIDE DEF new, fields
  <2> QED
    BY <1>1, <2>1, <2>2, <2>4, <2>5, VisitKeeps DEF Model, IsModel
<1>4. CASE VisitEnum(d)
  <2> DEFINE new == One(d.name, Model("scalar", {t.name : t \in Elements(d.types)}, {}))
  <2>1. d.name # "custom_types" /\ IsEnumDefinition(d)
    BY <1>4 DEF VisitEnum, IsEnumDefinition
  <2>2. /\ DOMAIN new = NamesOf(d)
        /\ \A m \in DOMAIN new : /\ new[m].constraint = "scalar" /\ new[m].fields = {}
                                 /\ IsModel(new[m])
    BY <2>1 DEF NamesOf, One, Model, IsEnumDefinition, IsModel
  <2>3. /\ models' = With(new) /\ enumTypes' = enumTypes \cup {d.name}
        /\ UNCHANGED customTypes
    BY <1>4 DEF VisitEnum
  <2> HIDE DEF new
  <2> QED
    BY <1>1, <2>1, <2>2, <2>3, VisitKeeps
<1>5. CASE VisitSum(d)
  <2> DEFINE new == [m \in {d.name} \cup {t.name : t \in Elements(d.types)} |->
                       IF m = d.name THEN Model("abstract", {}, Fields(d.attributes))
                       ELSE LET t == CHOOSE t \in Elements(d.types) : t.name = m
                            IN  Model("none", {d.name, "AST"}, Fields(t.fields))]
  <2>1. d.kind = "sum" /\ d.name # "custom_types" /\ ~ IsSimpleSum(d) /\ ~ IsEnumDefinition(d)
    BY <1>5 DEF VisitSum, IsEnumDefinition
  <2>2. DOMAIN new = NamesOf(d)
    BY <2>1 DEF NamesOf
  <2>3. ASSUME NEW m \in DOMAIN new
        PROVE  /\ IsModel(new[m]) /\ new[m].constraint # "scalar"
               /\ \A f \in new[m].fields : \E g \in FieldsOfDefinitions : f = Field(g)
    <3>1. CASE m = d.name
      <4>1. new[m] = Model("abstract", {}, Fields(d.attributes))
        BY <3>1
      <4> QED
        BY <1>2, <2>1, <4>1, OwnFields DEF Model, IsModel
    <3>2. CASE m # d.name
      <4>1. PICK t \in Elements(d.types) :
              new[m] = Model("none", {d.name, "AST"}, Fields(t.fields))
        BY <3>2
      <4> QED
        BY <1>2, <2>1, <4>1, OwnFields DEF Model, IsModel
    <3> QED
      BY <3>1, <3>2
  <2>4. models' = With(new) /\ UNCHANGED <<enumTypes, customTypes>>
    BY <1>5 DEF VisitSum
  <2> HIDE DEF new
  <2> QED
    BY <1>1, <2>1, <2>2, <2>3, <2>4, VisitKeeps
<1>6. CASE VisitCustomTypes(d)
  <2> USE DEF SchemaInv
  <2>1. /\ d.name = "custom_types" /\ UNCHANGED <<models, enumTypes, built>>
        /\ customTypes' = [t \in {t.name : t \in Elements(d.types)} |-> ParentInfo]
    BY <1>1, <1>6 DEF VisitCustomTypes
  <2>2. Visited' = Visited \cup {d} /\ ~built
    BY <1>1, <1>2 DEF Visited, BuiltLast
  <2>3. NamesOf(d) = {} /\ ~ IsEnumDefinition(d)
    BY <2>1 DEF NamesOf, IsEnumDefinition
  <2>4. ModelsInv'
    BY <1>1, <2>1, <2>2, <2>3 DEF ModelsInv
  <2>5. {e \in Visited' : e.name = "custom_types"} = {d}
    BY <1>2, <2>1, <2>2
  <2>6. DOMAIN customTypes' = {t.name : t \in UNION {Elements(e.types) : e \in {d}}}
    BY <2>1
  <2>7. CustomInv'
    BY <2>1, <2>5, <2>6 DEF CustomInv
  <2> QED
    BY <2>1, <2>2, <2>4, <2>7 DEF FieldsInv, BuiltLast, ReferencesResolved
<1> QED
  BY <1>1, <1>3, <1>4, <1>5, <1>6

\* A field of the file, fixed when all models are there, is resolved.
LEMMA FixedResolved ==
  ASSUME SchemaInv, pending = {}, NEW m, NEW g \in FieldsOfDefinitions,
         NEW f, f = Fixed(m, Field(g))
  PROVE  IF f.property THEN \/ f.kind \in BasicKinds
                            \/ f.kind \in DOMAIN models /\ models[f.kind].constraint = "scalar"
                       ELSE f.kind \in DOMAIN models /\ models[f.kind].constraint # "scalar"
<1> USE DEF SchemaInv
<1> DEFINE names == UNION {NamesOf(d) : d \in Elements(Definitions)}
<1>1. Visited = Elements(Definitions)
  BY DEF Visited
<1>2. /\ DOMAIN models = {"AST"} \cup names /\ DOMAIN customTypes = CustomNames
      /\ \A n \in DOMAIN models : models[n].constraint = "scalar" <=> n \in enumTypes
      /\ enumTypes \subseteq names
  <2>1. \A d \in Elements(Definitions) : IsEnumDefinition(d) => d.name \in NamesOf(d)
    BY DEF IsEnumDefinition, NamesOf
  <2> QED
    BY <1>1, <2>1 DEF ModelsInv, CustomInv, CustomNames
<1>3. /\ names \cap (DOMAIN TypeMap \cup BasicKinds \cup CustomNames) = {}
      /\ CustomNames \cap (DOMAIN TypeMap \cup BasicKinds) = {}
      /\ g.kind \in DOMAIN TypeMap \cup CustomNames \cup names
  BY DefinitionsAssumption
<1> DEFINE k == IF g.kind \in DOMAIN TypeMap THEN TypeMap[g.kind] ELSE g.kind
<1>4. /\ f.kind = IF k \in CustomNames THEN customTypes[k] ELSE k
      /\ f.property = (g.kind \in DOMAIN TypeMap \/ k \in CustomNames \/ k \in enumTypes)
  BY <1>2 DEF Fixed, Field
<1> HIDE DEF names
<1>5. CASE g.kind \in DOMAIN TypeMap
  <2>1. k \in BasicKinds
    BY <1>5 DEF BasicKinds
  <2>2. f.kind = k
    BY <1>3, <1>4, <2>1
  <2> QED
    BY <1>4, <1>5, <2>1, <2>2
<1>6. CASE g.kind \in CustomNames
  <2>1. f.kind = ParentInfo /\ f.property
    BY <1>2, <1>3, <1>4, <1>6 DEF CustomInv
  <2> QED
    BY <2>1 DEF BasicKinds
<1>7. CASE g.kind \in names
  <2>1. k = g.kind /\ f.kind = k /\ f.property = (k \in enumTypes)
    BY <1>3, <1>4, <1>7
  <2>2. k \in DOMAIN models
    BY <1>2, <1>7, <2>1
  <2> QED
    BY <1>2, <2>1, <2>2
<1> QED
  BY <1>3, <1>5, <1>6, <1>7

\* When nothing is pending, fixing the references resolves all of them.
LEMMA FixStep ==
  ASSUME SchemaInv, FixReferences
  PROVE  SchemaInv'
<1> USE DEF SchemaInv
<1>1. /\ pending = {} /\ ~built /\ built' /\ UNCHANGED <<pending, enumTypes, customTypes>>
      /\ models' = [m \in DOMAIN models |->
                      [models[m] EXCEPT !.fields = {Fixed(m, f) : f \in models[m].fields}]]
  BY DEF FixReferences
<1>2. \A m \in DOMAIN models :
        models'[m] = Model(models[m].constraint, models[m].extending,
                           {Fixed(m, f) : f \in models[m].fields})
  <2> TAKE m \in DOMAIN models
  <2> DEFINE fixed == {Fixed(m, f) : f \in models[m].fields}
  <2>1. IsModel(models[m]) /\ models'[m] = [models[m] EXCEPT !.fields = fixed]
    BY <1>1 DEF ModelsInv
  <2> HIDE DEF fixed
  <2>2. models'[m] = Model(models[m].constraint, models[m].extending, fixed)
    BY <2>1, FieldsReplaced
  <2> QED
    BY <2>2 DEF fixed
<1>3. /\ DOMAIN models' = DOMAIN models
      /\ \A m \in DOMAIN models : /\ IsModel(models'[m])
                                  /\ models'[m].constraint = models[m].constraint
                                  /\ models'[m].fields = {Fixed(m, f) : f \in models[m].fields}
  <2>1. DOMAIN models' = DOMAIN models
    BY <1>1
  <2> SUFFICES ASSUME NEW m \in DOMAIN models
               PROVE  /\ IsModel(models'[m])
                      /\ models'[m].constraint = models[m].constraint
                      /\ models'[m].fields = {Fixed(m, f) : f \in models[m].fields}
    BY <2>1
  <2> DEFINE fixed == {Fixed(m, f) : f \in models[m].fields}
  <2>2. models'[m] = Model(models[m].constraint, models[m].extending, fixed)
    BY <1>2
  <2> HIDE DEF fixed
  <2>3. /\ IsModel(models'[m]) /\ models'[m].constraint = models[m].constraint
        /\ models'[m].fields = fixed
    BY <2>2, ModelIs
  <2> QED
    BY <2>3 DEF fixed
<1>4. ReferencesResolved'
  <2> SUFFICES ASSUME NEW m \in DOMAIN models, NEW f \in models'[m].fields
               PROVE  IF f.property
                      THEN \/ f.kind \in BasicKinds
                           \/ f.kind \in DOMAIN models /\ models[f.kind].constraint = "scalar"
                      ELSE f.kind \in DOMAIN models /\ models[f.kind].constraint # "scalar"
    BY <1>3 DEF ReferencesResolved
  <2>1. PICK g \in FieldsOfDefinitions : f = Fixed(m, Field(g))
    BY <1>1, <1>3 DEF FieldsInv
  <2> QED
    BY <1>1, <2>1, FixedResolved
<1>5. ModelsInv' /\ CustomInv'
  <2>1. Visited' = Visited
    BY <1>1 DEF Visited
  <2> QED
    BY <1>1, <1>3, <2>1 DEF ModelsInv, CustomInv
<1> QED
  BY <1>1, <1>4, <1>5 DEF FieldsInv, BuiltLast

\* The invariant holds of a schema of which no definition is visited.
LEMMA SchemaStarts ==
  InitSchema => SchemaInv
<1> SUFFICES ASSUME InitSchema PROVE SchemaInv
  OBVIOUS
<1>1. Visited = {} /\ ~built
  BY DEF InitSchema, Visited
<1>2. /\ DOMAIN models = {"AST"} /\ models["AST"].constraint = "abstract"
      /\ models["AST"].fields = {}
      /\ IsModel(models["AST"])
  <2>1. models = [m \in {"AST"} |-> Model("abstract", {}, {})]
    BY DEF InitSchema, One
  <2> QED
    BY <2>1, ModelIs
<1>3. pending = Elements(Definitions) /\ enumTypes = {} /\ DOMAIN customTypes = {}
  BY DEF InitSchema
<1>4. ModelsInv
  <2>1. \A m \in DOMAIN models : /\ IsModel(models[m])
                                 /\ models[m].constraint = "scalar" <=> m \in enumTypes
    BY <1>2, <1>3
  <2> QED
    BY <1>1, <1>2, <1>3, <2>1 DEF ModelsInv
<1>5. CustomInv
  BY <1>1, <1>3 DEF CustomInv
<1> QED
  BY <1>1, <1>2, <1>4, <1>5 DEF SchemaInv, FieldsInv, BuiltLast, ReferencesResolved

\* Each step of the builder keeps it.
LEMMA SchemaSteps ==
  SchemaInv /\ [BuildSchema]_schemaVars => SchemaInv'
<1> SUFFICES ASSUME SchemaInv, [BuildSchema]_schemaVars PROVE SchemaInv'
  OBVIOUS
<1>1. CASE UNCHANGED schemaVars
  <2>1. Visited' = Visited
    BY <1>1 DEF schemaVars, Visited
  <2> QED
    BY <1>1, <2>1 DEF schemaVars, SchemaInv, ModelsInv, CustomInv, FieldsInv, BuiltLast,
                      ReferencesResolved
<1> QED
  BY <1>1, VisitStep, FixStep DEF BuildSchema

\* In whatever order the ASDL file defines its types, the schema built from it has no
\* dangling reference and none of the wrong kind: a link to an enumeration, or a
\* property of a type that has objects.
THEOREM SchemaResolved == SchemaSpec => []ReferencesResolved
<1>1. SchemaInv => ReferencesResolved
  BY DEF SchemaInv
<1> QED
  BY <1>1, SchemaStarts, SchemaSteps, PTL DEF SchemaSpec
=============================================================================
