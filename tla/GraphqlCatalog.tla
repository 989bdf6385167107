--------------------------- MODULE GraphqlCatalog ----------------------------
(***************************************************************************)
(* The governed catalog, from the engine to the schema: the four metadata  *)
(* queries of SqlServerMetadataReader against a database whose schema may  *)
(* change between them, the sidecar document read by GraphqlMetadataParser,*)
(* the catalog and the diagnostics of GraphqlCatalogBuilder, and the       *)
(* schema built from the text of GraphqlSchemaSdlGenerator.                *)
(*                                                                         *)
(* Objects and columns are strings, their derived names are NameOf.        *)
(* Diagnostics are a set of severities, codes and objects: the order, the  *)
(* part they point at, the wording and the warnings on unknown keys are    *)
(* left out.  An identity is the sequence of its columns, empty for        *)
(* mode "none".                                                            *)
(***************************************************************************)
EXTENDS Integers, Sequences, GraphqlNames

CONSTANTS
  View,       \* the objects that are views; the others are tables
  NameOf,     \* the name tokenized out of an object, column or constraint
  Databases,  \* what the engine may hold: a shape for each object
  Documents,  \* sidecar documents, as json5 decodes them
  Absent, Malformed,
  MaxDdl  \* schema changes during one introspection

Name == [words : Seq(STRING), style : {"Pascal", "camel", "UPPER", "raw"}]
Limit == [default : Int, max : Int]

(* What the sidecar says is read where it is a name or two integers, and   *)
(* counts as Malformed elsewhere.                                          *)
ASSUME CatalogAssumption ==
  /\ Absent \notin Name
  /\ \A d \in Databases : \A o \in DOMAIN d : NameOf[o] \in Name
  /\ \A s \in Documents : s # Malformed =>
       /\ s.limit \in Limit \cup {Absent, Malformed}
       /\ \A o \in DOMAIN s.objects : s.objects[o] # Malformed =>
            /\ s.objects[o].name \in Name \cup {Absent, Malformed}
            /\ s.objects[o].limit \in Limit \cup {Absent, Malformed}

VARIABLES
  database,    \* what the engine holds now
  ddl,         \* schema changes so far
  step,        \* next step of the build
  physical,    \* the objects loaded so far
  document,    \* the sidecar
  metadata,    \* what the parser made of it
  catalog,     \* the published objects
  diagnostics  \* of the parser and of the builder

inputs == <<database, ddl, document>>
outputs == <<metadata, catalog, diagnostics>>
catalogVars == <<inputs, step, physical, outputs>>

Queries == {"objects", "fields", "identity", "relations"}
Reserved == {Named(<<w>>, "camel") : w \in {"and", "or", "not"}}

CatalogInit ==
  /\ database \in Databases
  /\ ddl = 0
  /\ document \in Documents
  /\ step = "connect"
  /\ physical = << >>
  /\ metadata = Absent
  /\ catalog = << >>
  /\ diagnostics = {}

Finding(severity, code, object) == [severity |-> severity, code |-> code, object |-> object]
Error(code, object) == Finding("error", code, object)
HasErrors == \E d \in diagnostics : d.severity = "error"

------------------------------------------------------------------------------
(* Someone alters the schema between two queries.                          *)
SchemaChanges ==
  /\ ddl < MaxDdl /\ step \in Queries
  /\ ddl' = ddl + 1
  /\ database' \in Databases \ {database}
  /\ UNCHANGED <<document, step, physical, outputs>>

Connect ==
  /\ step = "connect"
  /\ step' \in {"objects", "failed"}
  /\ UNCHANGED <<inputs, physical, outputs>>

(* A query raises, or one of its rows names an object that the first one   *)
(* did not return.  The connection is closed however the queries end.      *)
IntrospectionRaises ==
  /\ step' = "failed"
  /\ UNCHANGED <<inputs, physical, outputs>>

QueryFails == step \in Queries /\ IntrospectionRaises

LoadObjects ==
  /\ step = "objects"
  /\ physical' = [o \in DOMAIN database |-> [columns |-> << >>, key |-> << >>, foreign |-> {}]]
  /\ step' = "fields"
  /\ UNCHANGED <<inputs, outputs>>

(* The rows of `query` are folded into `part` of the objects they name.    *)
LoadRows(query, part, rows, next) ==
  /\ step = query
  /\ IF rows \subseteq DOMAIN physical
       THEN /\ physical' = [o \in DOMAIN physical |->
                 IF o \in rows THEN [physical[o] EXCEPT ![part] = database[o][part]]
                               ELSE physical[o]]
            /\ step' = next
            /\ UNCHANGED <<inputs, outputs>>
       ELSE IntrospectionRaises

LoadFields == LoadRows("fields", "columns", DOMAIN database, "identity")

Tables == DOMAIN database \ View
LoadIdentityFields ==
  LoadRows("identity", "key", {o \in Tables : database[o].key # << >>}, "relations")
LoadRelations ==
  LoadRows("relations", "foreign", {o \in Tables : database[o].foreign # {}}, "parse")

------------------------------------------------------------------------------
(* GraphqlMetadataParser: what has the wrong shape is reported and read as *)
(* absent.                                                                 *)
Optional(value, default) == IF value \in {Absent, Malformed} THEN default ELSE value

ParsedField(f) == [flags |-> f.flags \ f.malformed, name |-> Optional(f.name, Absent)]

ParsedEntry(e) ==
  LET fields == Optional(e.fields, << >>)
      read == {c \in DOMAIN fields : fields[c] # Malformed}
  IN  [name |-> Optional(e.name, Absent),
       key |-> Optional(e.key, << >>),
       fields |-> [c \in read |-> ParsedField(fields[c])],
       relations |-> Optional(e.relations, {}) \ {Malformed},
       limit |-> Optional(e.limit, Absent)]

LimitWrong(limit) == limit = Malformed \/ (limit # Absent /\ limit.default > limit.max)
FieldWrong(f) == f = Malformed \/ f.malformed # {} \/ f.name = Malformed

EntryErrors(o, e) ==
  LET fields == Optional(e.fields, << >>)
  IN  (IF \/ \E part \in {"name", "key", "fields", "relations"} : e[part] = Malformed
          \/ Malformed \in Optional(e.relations, {})
          \/ \E c \in DOMAIN fields : FieldWrong(fields[c])
          \/ LimitWrong(e.limit)
         THEN {Error("metadata_invalid_shape", o)} ELSE {})
      \cup (IF o \notin DOMAIN physical THEN {Error("metadata_object_unknown", o)} ELSE {})
      \cup (IF o \in DOMAIN physical \cap View /\ Optional(e.key, << >>) = << >>
              THEN {Error("view_missing_identity", o)} ELSE {})

(* Only an entry that says publish: true is published.                     *)
Allowed == {o \in DOMAIN document.objects :
              document.objects[o] # Malformed /\ document.objects[o].publish}

ParseDocument ==
  /\ step = "parse"
  /\ IF document = Malformed
       THEN /\ step' = "failed"
            /\ diagnostics' = {Error("metadata_invalid_shape", Absent)}
            /\ UNCHANGED metadata
       ELSE /\ step' = "build"
            /\ metadata' = [objects |-> [o \in Allowed |-> ParsedEntry(document.objects[o])],
                            limit |-> Optional(document.limit, Absent)]
            /\ diagnostics' =
                 (IF document.version = 1 /\ ~LimitWrong(document.limit) THEN {}
                    ELSE {Error("metadata_invalid_shape", Absent)})
                 \cup {Error("metadata_invalid_shape", o) :
                         o \in DOMAIN document.objects \ Allowed}
                 \cup UNION {EntryErrors(o, document.objects[o]) : o \in Allowed}
  /\ UNCHANGED <<inputs, physical, catalog>>

------------------------------------------------------------------------------
(* GraphqlCatalogBuilder.                                                  *)
Published == DOMAIN metadata.objects \cap DOMAIN physical

Identity(o) ==
  IF metadata.objects[o].key # << >> THEN metadata.objects[o].key ELSE physical[o].key

TypeName(o) ==
  IF metadata.objects[o].name # Absent THEN metadata.objects[o].name ELSE Pascal(NameOf[o])

Scalar == [int |-> "Int", nvarchar |-> "String", json |-> "Json", geography |-> "String"]
Unsupported == {"geography"}

Field(o, c) ==
  LET annotated == metadata.objects[o].fields
      flags == IF c \in DOMAIN annotated THEN annotated[c].flags ELSE {}
      column == physical[o].columns[c]
      usable == "hidden" \notin flags /\ Scalar[column.type] # "Json"
  IN  [column |-> c,
       name |-> IF c \in DOMAIN annotated /\ annotated[c].name # Absent
                  THEN annotated[c].name ELSE Camel(NameOf[c]),
       type |-> Scalar[column.type],
       nullable |-> column.nullable,
       hidden |-> "hidden" \in flags,
       filterable |-> usable /\ "noFilter" \notin flags,
       sortable |-> usable /\ "noSort" \notin flags]

Fields(o) == {Field(o, c) : c \in DOMAIN physical[o].columns}

(* The relations an object declares.                                       *)
Declared(o) == IF o \in View THEN metadata.objects[o].relations ELSE physical[o].foreign

(* Mutant: the target of a foreign key is looked up in the physical model. *)
UsableIfPhysical(o, r) ==
  r.target \in DOMAIN physical /\ (o \in View => r.target \in Published /\ Identity(r.target) # << >>)

(* Those whose target is published; a view's also need one with an         *)
(* identity.                                                               *)
Usable(o, r) == r.target \in Published /\ (o \in View => Identity(r.target) # << >>)

Relation(o, r) ==
  IF o \in View
    THEN [name |-> r.name, target |-> r.target, many |-> r.many,
          source |-> r.via, columns |-> Identity(r.target)]
    ELSE [name |-> Camel(NameOf[r.name]), target |-> r.target, many |-> FALSE,
          source |-> r.via, columns |-> r.columns]

FirstOf(limits) == IF limits[1] # Absent THEN limits[1] ELSE limits[2]
Pagination(o) ==
  FirstOf(<<metadata.objects[o].limit, FirstOf(<<metadata.limit, [default |-> 50, max |-> 200]>>)>>)

Object(o) ==
  LET key == Identity(o) IN
  [type |-> TypeName(o),
   item |-> IF key = << >> THEN Absent ELSE ItemField(TypeName(o)),
   collection |-> CollectionField(TypeName(o)),
   identity |-> key,
   fields |-> Fields(o),
   relations |-> {Relation(o, r) : r \in {d \in Declared(o) : Usable(o, d)}},
   limit |-> Pagination(o)]

(* Other objects have the same type name, item or list query.              *)
Shared(objects, o) ==
  \E p \in DOMAIN objects \ {o} :
    \/ objects[p].type = objects[o].type \/ objects[p].collection = objects[o].collection
    \/ objects[o].item # Absent /\ objects[p].item = objects[o].item
Repeated(fields) == \E f, g \in fields : f # g /\ f.name = g.name

BuildErrors(objects) ==
  {Error("metadata_object_unknown", o) : o \in DOMAIN metadata.objects \ DOMAIN physical}
  \cup {Error("view_missing_identity", o) : o \in {o \in Published \cap View : Identity(o) = << >>}}
  \cup {Error("relation_target_unknown", o) :
          o \in {o \in Published : \E r \in Declared(o) : ~Usable(o, r)}}
  \cup {Error("duplicate_public_name", o) :
          o \in {o \in Published : Repeated(objects[o].fields) \/ Shared(objects, o)}}

ScalarWarnings ==
  {Finding("warning", "unsupported_scalar", o) :
     o \in {o \in Published : \E c \in DOMAIN physical[o].columns :
              physical[o].columns[c].type \in Unsupported}}

BuildCatalog ==
  /\ step = "build"
  /\ LET objects == [o \in Published |-> Object(o)] IN
       /\ catalog' = objects
       /\ diagnostics' = diagnostics \cup BuildErrors(objects) \cup ScalarWarnings
  /\ step' = "schema"
  /\ UNCHANGED <<inputs, physical, metadata>>

(* The application's catalog factory stops at errors, or does not look.    *)
FactoryRejects ==
  /\ step \in {"build", "schema"} /\ HasErrors
  /\ step' = "failed"
  /\ UNCHANGED <<inputs, physical, outputs>>

------------------------------------------------------------------------------
(* GraphqlSchemaSdlGenerator and build_schema, which refuses a definition  *)
(* without members and a second definition of a name in one scope.         *)
Public(o) == {f \in catalog[o].fields : ~f.hidden}
Sortable(o) == {f \in Public(o) : f.sortable}
Filterable(o) == {f \in Public(o) : f.filterable}
KeyFields(o) == {f \in catalog[o].fields : \E k \in 1 .. Len(catalog[o].identity) : catalog[o].identity[k] = f.column}
Related(o) == {r \in catalog[o].relations : r.target \in DOMAIN catalog}

Owned(owner, name) == [owner |-> owner, name |-> name]

QueryRoot == Named(<<"query">>, "Pascal")

(* A scope is a set of names with their owners.                            *)
QueryScope ==
  {Owned(<<o, "item">>, catalog[o].item) : o \in {o \in DOMAIN catalog : catalog[o].item # Absent}}
  \cup {Owned(<<o, "list">>, catalog[o].collection) : o \in DOMAIN catalog}

TypeScope ==
  {Owned(<<"root">>, QueryRoot)}
  \cup {Owned(<<o, "">>, catalog[o].type) : o \in DOMAIN catalog}
  \cup {Owned(<<o, s>>, Suffixed(catalog[o].type, s)) :
          o \in DOMAIN catalog, s \in {"list", "filter input", "order input", "order field"}}
  \cup {Owned(<<o, "key">>, Suffixed(catalog[o].type, "key input")) :
          o \in {o \in DOMAIN catalog : catalog[o].item # Absent}}

ObjectScope(o) ==
  {Owned(<<"field", f.column>>, f.name) : f \in Public(o)}
  \cup {Owned(<<"relation", r>>, r.name) : r \in Related(o)}
OrderScope(o) == {Owned(f.column, EnumValue(f.name)) : f \in Sortable(o)}
FilterScope(o) ==
  {Owned(<<"field", f.column>>, f.name) : f \in Filterable(o)}
  \cup {Owned(<<"combinator", n>>, n) : n \in Reserved}
KeyScope(o) == {Owned(f.column, f.name) : f \in KeyFields(o)}

Unambiguous(scope) == \A a, b \in scope : a.name = b.name => a = b
WellFormed(scope) == scope # {} /\ Unambiguous(scope)

(* Mutant: the text is not validated.                                      *)
SchemaBuildsUnchecked == QueryScope # {}

SchemaBuilds ==
  /\ WellFormed(QueryScope) /\ Unambiguous(TypeScope)
  /\ \A o \in DOMAIN catalog :
       /\ WellFormed(ObjectScope(o)) /\ WellFormed(OrderScope(o)) /\ Unambiguous(FilterScope(o))
       /\ catalog[o].item # Absent => WellFormed(KeyScope(o))

BuildSchema ==
  /\ step = "schema"
  /\ step' = IF SchemaBuilds THEN "ready" ELSE "failed"
  /\ UNCHANGED <<inputs, physical, outputs>>

CatalogNext ==
  \/ SchemaChanges
  \/ Connect \/ QueryFails
  \/ LoadObjects \/ LoadFields \/ LoadIdentityFields \/ LoadRelations
  \/ ParseDocument \/ BuildCatalog \/ FactoryRejects \/ BuildSchema

CatalogSpec == CatalogInit /\ [][CatalogNext]_catalogVars

------------------------------------------------------------------------------
(* What a catalog without errors keeps whatever the schema changes that    *)
(* fell between the queries: it publishes nothing the sidecar does not     *)
(* allow, an item query exists exactly where there is an identity, every   *)
(* view has one, relations stay inside the catalog, the default page fits  *)
(* the limit, and names differ within their scope                          *)
(* (docs/archive/graphql_catalog_contract.md 1.4, items 2, 6, 7 and 8, and *)
(* 1.7).  Items 3 and 9 are not kept: KeysAreUsable.                       *)
CatalogIsSound ==
  step \in {"schema", "ready"} /\ ~HasErrors =>
    /\ \A o \in DOMAIN catalog : document.objects[o].publish
    /\ \A o \in DOMAIN catalog :
         /\ catalog[o].item = Absent <=> catalog[o].identity = << >>
         /\ o \in View => catalog[o].identity # << >>
         /\ catalog[o].relations = Related(o)
         /\ catalog[o].limit.default <= catalog[o].limit.max
         /\ \A f, g \in catalog[o].fields : f.name = g.name => f = g
         /\ \A f \in catalog[o].fields : f.hidden => ~f.filterable /\ ~f.sortable
    /\ \A o, p \in DOMAIN catalog : o # p =>
         /\ catalog[o].type # catalog[p].type
         /\ catalog[o].collection # catalog[p].collection

(* docs/archive/graphql_catalog_contract.md:139: "`identity.fields` MUST   *)
(* all exist in `fields` with `nullable: false`", and :148-149: "A         *)
(* `hidden` field MUST NOT appear in `identity.fields` or in any           *)
(* relation's `sourceFields`/`targetFields`".  A catalog without errors    *)
(* that was served identifies and joins its objects by columns they have.  *)
KeysAreUsable ==
  step = "ready" /\ ~HasErrors =>
    \A o \in DOMAIN catalog :
      LET column(p, c) == {f \in catalog[p].fields : f.column = c}
          shown(p, columns) ==
            \A k \in 1 .. Len(columns) : \A f \in column(p, columns[k]) : ~f.hidden
      IN  /\ \A k \in 1 .. Len(catalog[o].identity) :
               \E f \in column(o, catalog[o].identity[k]) : ~f.nullable
          /\ shown(o, catalog[o].identity)
          /\ \A r \in catalog[o].relations : shown(o, r.source) /\ shown(r.target, r.columns)

(* The keys of the resolver registry and the columns the runtime answers   *)
(* by itself: "<type>.<field>" has one meaning in a schema that was built, *)
(* with errors in the catalog or without.  An object's registry entry      *)
(* would silently replace another's.                                       *)
Resolvers ==
  {Owned(q.owner, <<QueryRoot, q.name>>) : q \in QueryScope}
  \cup {Owned(<<o, "total">>, <<Suffixed(catalog[o].type, "list"), Named(<<"total", "count">>, "camel")>>) :
          o \in DOMAIN catalog}
  \cup UNION {{Owned(<<o, m.owner>>, <<catalog[o].type, m.name>>) : m \in ObjectScope(o)} :
              o \in DOMAIN catalog}
ResolversAreUnambiguous == step = "ready" => Unambiguous(Resolvers)
==============================================================================
