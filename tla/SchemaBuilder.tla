---------------------------- MODULE SchemaBuilder ----------------------------
(***************************************************************************)
(* schema/builders/esdl.py: the definitions of an ASDL file, in the order  *)
(* in which they stand there, become the types of the database, and the    *)
(* references between them are resolved when all of them are known.        *)
(***************************************************************************)
EXTENDS Naturals, Sequences, FiniteSets

CONSTANTS Definitions, \* the ASDL definitions: [name, kind, types, attributes]
          UniqueFields \* "-- unique_fields:" of the file: <<model, field>>

(* A definition is a "sum" with constructors in types, or a "product" with  *)
(* its fields in the only one of its types; attributes are shared by all    *)
(* constructors.  A field is [kind, qualifier, name].                       *)

VARIABLES pending,     \* the definitions that are not visited yet
          models,      \* the models so far, by name
          enumTypes, moduleTypes, customTypes, \* self.enum_types and so on
          built        \* fix_references has been through

schemaVars == <<pending, models, enumTypes, moduleTypes, customTypes, built>>

TypeMap == [int |-> "int64", string |-> "str", constant |-> "str", identifier |-> "str"]
ParentInfo == "tuple<int64, str>"

Elements(s) == {s[i] : i \in DOMAIN s}

\* pyasdl.is_simple_sum
IsSimpleSum(d) == \A i \in DOMAIN d.types : d.types[i].fields = << >>

IsEnumDefinition(d) == d.kind = "sum" /\ d.name # "custom_types" /\ IsSimpleSum(d)

\* The types of the database that are kinds of a property, without enumerations.
BasicKinds == {TypeMap[k] : k \in DOMAIN TypeMap} \cup {ParentInfo}

\* The models a definition becomes.
NamesOf(d) ==
  CASE d.name = "custom_types"                -> {}
    [] d.kind = "sum" /\ d.name # "custom_types" /\ ~IsSimpleSum(d) ->
         {d.name} \cup {t.name : t \in Elements(d.types)}
    [] OTHER                                  -> {d.name}

CustomNames ==
  {t.name : t \in UNION {Elements(d.types) :
     d \in {e \in Elements(Definitions) : e.name = "custom_types"}}}

\* All fields of all definitions that become models.
FieldsOfDefinitions ==
  UNION {Elements(d.attributes) \cup UNION {Elements(t.fields) : t \in Elements(d.types)} :
           d \in {e \in Elements(Definitions) : e.name # "custom_types"}}

\* What pyasdl parses, and an ASDL file means: each name is defined once, none is that
\* of a basic type, and a field is of a type there is.
ASSUME DefinitionsAssumption ==
  /\ \A d \in Elements(Definitions) :
       /\ d.kind \in {"sum", "product"} /\ (d.kind = "product" => 1 \in DOMAIN d.types)
       /\ d.name = "custom_types" => d.kind = "sum"
       /\ NamesOf(d) \cap (DOMAIN TypeMap \cup BasicKinds \cup CustomNames \cup {"AST"}) = {}
  /\ \A d, e \in Elements(Definitions) : d # e =>
       d.name # e.name /\ NamesOf(d) \cap NamesOf(e) = {}
  /\ CustomNames \cap (DOMAIN TypeMap \cup BasicKinds) = {}
  /\ \A f \in FieldsOfDefinitions :
       f.kind \in DOMAIN TypeMap \cup CustomNames \cup UNION {NamesOf(d) : d \in Elements(Definitions)}

\* visit_Field
Field(f) == [name     |-> f.name,
             kind     |-> IF f.kind \in DOMAIN TypeMap THEN TypeMap[f.kind] ELSE f.kind,
             required |-> f.qualifier = "", multi |-> f.qualifier = "*",
             property |-> f.kind \in DOMAIN TypeMap, unique |-> FALSE]

Fields(fs) == {Field(f) : f \in Elements(fs)}

\* Field.is_ordered_sequence: the link is declared with a property index
IsOrderedSequence(field) == field.multi /\ ~field.property

Model(constraint, extending, fields) ==
  [constraint |-> constraint, extending |-> extending, fields |-> fields]

\* one more model, or several
With(new) == [m \in DOMAIN models \cup DOMAIN new |->
                IF m \in DOMAIN new THEN new[m] ELSE models[m]]

One(name, model) == [m \in {name} |-> model]

InitSchema ==
  /\ pending = Elements(Definitions)
  /\ models = One("AST", Model("abstract", {}, {}))
  /\ enumTypes = {} /\ moduleTypes = {} /\ customTypes = << >>
  /\ built = FALSE

VisitProduct(d) ==
  /\ d.kind = "product"
  /\ models' = With(One(d.name, Model("none", {}, Fields(d.types[1].fields)
                                                     \cup Fields(d.attributes))))
  /\ UNCHANGED <<enumTypes, customTypes>>

VisitEnum(d) ==
  /\ d.kind = "sum" /\ d.name # "custom_types" /\ IsSimpleSum(d)
  /\ enumTypes' = enumTypes \cup {d.name}
  /\ models' = With(One(d.name, Model("scalar", {t.name : t \in Elements(d.types)}, {})))
  /\ UNCHANGED customTypes

\* an abstract model with the attributes, and one for each constructor
VisitSum(d) ==
  /\ d.kind = "sum" /\ d.name # "custom_types" /\ ~IsSimpleSum(d)
  /\ models' = With([m \in {d.name} \cup {t.name : t \in Elements(d.types)} |->
                       IF m = d.name THEN Model("abstract", {}, Fields(d.attributes))
                       ELSE LET t == CHOOSE t \in Elements(d.types) : t.name = m
                            IN  Model("none", {d.name, "AST"}, Fields(t.fields))])
  /\ UNCHANGED <<enumTypes, customTypes>>

\* process_custom_types; the one there is is a pair of the id and the field of a parent
VisitCustomTypes(d) ==
  /\ d.name = "custom_types"
  /\ customTypes' = [t \in {t.name : t \in Elements(d.types)} |-> ParentInfo]
  /\ UNCHANGED <<models, enumTypes>>

VisitDefinition ==
  \E d \in pending :
    /\ VisitProduct(d) \/ VisitEnum(d) \/ VisitSum(d) \/ VisitCustomTypes(d)
    /\ pending' = pending \ {d}
    /\ UNCHANGED <<moduleTypes, built>>

\* mutant: enumerations are taken for types, as when they are visited last
FixedEarly(m, f) ==
  [f EXCEPT !.kind = IF f.kind \in DOMAIN customTypes THEN customTypes[f.kind] ELSE f.kind,
            !.property = f.property \/ f.kind \in DOMAIN customTypes,
            !.unique = <<m, f.name>> \in UniqueFields]

Fixed(m, f) ==
  [f EXCEPT !.kind = IF f.kind \in DOMAIN customTypes THEN customTypes[f.kind] ELSE f.kind,
            !.property = f.property \/ f.kind \in DOMAIN customTypes \/ f.kind \in enumTypes,
            !.unique = <<m, f.name>> \in UniqueFields]

\* mutant: a type is annotated with its module if it is a product
ModuleTypesOfProducts ==
  {m \in DOMAIN models : models[m].constraint = "none"
                           /\ \E f \in models[m].fields : f.kind = "Module"}

\* the types whose rows are linked to their module
ModuleAnnotated == {m \in DOMAIN models : \E f \in models[m].fields : f.kind = "Module"}

\* mutant: references are resolved while definitions are still to come
FixReferencesEarly ==
  /\ ~built
  /\ models' = [m \in DOMAIN models |->
                  [models[m] EXCEPT !.fields = {Fixed(m, f) : f \in models[m].fields}]]
  /\ moduleTypes' = ModuleAnnotated
  /\ built' = TRUE
  /\ UNCHANGED <<pending, enumTypes, customTypes>>

FixReferences ==
  /\ pending = {} /\ ~built
  /\ models' = [m \in DOMAIN models |->
                  [models[m] EXCEPT !.fields = {Fixed(m, f) : f \in models[m].fields}]]
  /\ moduleTypes' = ModuleAnnotated
  /\ built' = TRUE
  /\ UNCHANGED <<pending, enumTypes, customTypes>>

BuildSchema == VisitDefinition \/ FixReferences

SchemaSpec == InitSchema /\ [][BuildSchema]_schemaVars
-----------------------------------------------------------------------------
(* What the schema says, for those who use it                               *)

\* the type of the schema another one extends, besides AST
BaseOf(type) == IF models[type].extending = {} THEN type
                ELSE CHOOSE b \in models[type].extending : b # "AST"

\* the fields of a type with those of the type it extends
Declared(type) == models[type].fields \cup models[BaseOf(type)].fields
-----------------------------------------------------------------------------
(* Properties                                                               *)

\* In the schema that is built every reference is resolved, whichever of the two types
\* was defined first: a field is a property if its type is basic, an enumeration or a
\* custom type, and otherwise a link to a type that has objects.
ReferencesResolved ==
  built => \A m \in DOMAIN models : \A f \in models[m].fields :
    IF f.property THEN \/ f.kind \in BasicKinds
                       \/ f.kind \in DOMAIN models /\ models[f.kind].constraint = "scalar"
                  ELSE f.kind \in DOMAIN models /\ models[f.kind].constraint # "scalar"
=============================================================================
