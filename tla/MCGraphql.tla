------------------------------- MODULE MCGraphql -------------------------------
(***************************************************************************)
(* The parts of the GraphQL surface side by side: the catalog and its      *)
(* schema, the reads of one object, the batching of relations, and the     *)
(* runtime from its artifacts to its answers.  They hand each other values *)
(* that do not change (a catalog, parsed arguments), so a behaviour        *)
(* exercises one of them, `part`, and the others rest.                     *)
(***************************************************************************)
EXTENDS GraphqlCatalog, GraphqlReads, GraphqlService, GraphqlLimits, RelationLoader, TLC

CONSTANT Parts
VARIABLE part

surface == <<catalogVars, readVars, serviceVars, vars, part>>

PartsInit ==
  /\ part \in Parts
  /\ CatalogInit /\ ReadsInit /\ ServiceInit /\ Init
  /\ part # "catalog" => database = CHOOSE d \in Databases : TRUE
  /\ part # "catalog" => document = Malformed
  /\ part # "reads" => table = CHOOSE t \in Contents : TRUE
  /\ part # "service" => source = 1
  /\ part # "loader" => \A c, d \in Load : wants[c] = wants[d]
  /\ part # "loader" => \A c \in Load : wants[c] = CHOOSE p \in Parent : TRUE

PartsNext ==
  \/ part = "catalog" /\ CatalogNext /\ UNCHANGED <<part, readVars, serviceVars, vars>>
  \/ part = "reads" /\ ReadsNext /\ UNCHANGED <<part, catalogVars, serviceVars, vars>>
  \/ part = "service" /\ ServiceNext /\ UNCHANGED <<part, catalogVars, readVars, vars>>
  \/ part = "loader" /\ Next /\ UNCHANGED <<part, catalogVars, readVars, serviceVars>>

PartsSpec == PartsInit /\ [][PartsNext]_surface /\ Fairness

------------------------------------------------------------------------------
(* Databases and sidecars.                                                 *)
Column(type, nullable) == [type |-> type, nullable |-> nullable]
Views == {"report"}
Names ==
  [customer |-> Named(<<"customer">>, "Pascal"), order |-> Named(<<"order">>, "Pascal"),
   report |-> Named(<<"report">>, "Pascal"), id |-> Named(<<"id">>, "camel"),
   buyer |-> Named(<<"buyer">>, "camel"), fk |-> Named(<<"customer">>, "camel")]

Customer == [columns |-> [id |-> Column("int", FALSE)], key |-> <<"id">>, foreign |-> {}]
Keyless == [Customer EXCEPT !.key = << >>, !.columns = [id |-> Column("geography", TRUE)]]
OrderTable ==
  [columns |-> [id |-> Column("int", FALSE), buyer |-> Column("nvarchar", TRUE)], key |-> <<"id">>,
   foreign |-> {[name |-> "fk", target |-> "customer", via |-> <<"buyer">>, columns |-> <<"id">>]}]
Report == [columns |-> [id |-> Column("int", FALSE), buyer |-> Column("json", TRUE)],
           key |-> << >>, foreign |-> {}]

Engines ==
  {[customer |-> c, order |-> OrderTable, report |-> Report] : c \in {Customer, Keyless}}
  \cup {[order |-> OrderTable, report |-> Report]}

Plain == [publish |-> TRUE, name |-> Absent, key |-> Absent, fields |-> Absent,
          relations |-> Absent, limit |-> Absent]
Annotated(c, flags, name) ==
  [Plain EXCEPT !.fields = [x \in {c} |-> [flags |-> flags, malformed |-> {}, name |-> name]]]
ToCustomer == [name |-> Named(<<"customer">>, "camel"), target |-> "customer", many |-> TRUE, via |-> <<"buyer">>]

(* What the sidecar says of one object.                                    *)
Entries ==
  {Plain, Malformed,
   [Plain EXCEPT !.publish = FALSE],
   [Plain EXCEPT !.key = <<"id">>, !.relations = {ToCustomer, Malformed}],
   [Plain EXCEPT !.key = <<"id">>, !.relations = {ToCustomer}],
   [Plain EXCEPT !.key = <<"buyer">>],
   [Plain EXCEPT !.name = Named(<<"order">>, "raw")],
   [Plain EXCEPT !.name = Named(<<"order", "list">>, "Pascal"), !.key = <<"id">>],
   [Plain EXCEPT !.limit = [default |-> 9, max |-> 3]],
   [Plain EXCEPT !.limit = [default |-> 2, max |-> 3], !.name = Malformed],
   [Plain EXCEPT !.limit = Malformed, !.fields = Malformed],
   Annotated("id", {"hidden"}, Absent),
   Annotated("id", {"noFilter", "noSort"}, Named(<<"customer">>, "camel")),
   Annotated("id", {}, Named(<<"or">>, "camel"))}

Sidecars ==
  {Malformed}
  \cup {[version |-> 1, limit |-> l, objects |-> [customer |-> Plain, order |-> a, report |-> b]] :
          l \in {Absent, [default |-> 5, max |-> 1]}, a \in Entries, b \in Entries}
  \cup {[version |-> v, limit |-> Absent, objects |-> [order |-> Plain, report |-> b]] : v \in {1, 2}, b \in Entries}

------------------------------------------------------------------------------
(* Reads.                                                                  *)
AccountFields == [id |-> Named(<<"id">>, "UPPER"), size |-> Named(<<"size">>, "UPPER"),
           owner |-> Named(<<"owner">>, "camel")]
Parents == [account |-> {"owner"}]
Account(i, s, o) == [id |-> i, size |-> s, owner |-> o]
Three == {Account(1, 5, Null), Account(2, Null, 7), Account(3, 5, 7)}
SomeTables == {Three, Three \ {Account(1, 5, Null)}, {Account(1, 4, 7), Account(2, 5, 7)}}

Test(op, value) == [op |-> op, value |-> value]
On(field, tests) == [kind |-> "field", field |-> field, tests |-> tests]
Combined(kind, operands) == [kind |-> kind, operands |-> operands]

Tests ==
  {Test("eq", 5), Test("ne", 5), Test("eq", Null), Test("lt", 5), Test("in", <<4, 5>>),
   Test("in", Null), Test("isNull", TRUE), Test("isNull", FALSE)}
Simple ==
  {<< >>} \cup {<<On("size", <<t>>)>> : t \in Tests}
  \cup {<<On("size", <<Test("gte", 4), t>>)>> : t \in Tests}
  \cup {<<On("owner", <<Test("isNull", FALSE)>>), On("size", <<Test("ne", 4)>>)>>, <<On("size", << >>)>>}
Nested ==
  {<<Combined("not", <<f>>)>> : f \in Simple} \cup {<<Combined("not", << >>)>>, <<Combined("or", << >>)>>}
  \cup {<<Combined(kind, <<f, <<On("owner", <<Test("eq", 7)>>)>>>>)>> : kind \in {"and", "or"}, f \in Simple}
  \cup {<<On("owner", <<Test("eq", 7)>>), Combined("not", <<f>>)>> : f \in Simple}
  \cup {<<Combined("not", <<<<Combined("or", <<f, <<On("id", <<Test("eq", 1)>>)>>>>)>>>>)>> : f \in Simple}

NullTests == {<<On("size", Null)>>, <<Combined("or", << << >>, <<On("owner", Null)>> >>)>>}

By(field, descending) == [field |-> field, descending |-> descending]
Orders == {<<By("id", TRUE)>>, <<By("size", FALSE), By("id", FALSE)>>, <<By("size", TRUE)>>}
BadOrders == {<< >>, <<By("owner", FALSE)>>}
Page(limit, offset) == [limit |-> limit, offset |-> offset]
Pages == {Page(Omitted, Omitted), Page(2, 1), Page(Omitted, 2), Page(3, 0)}
OddPages == {Page(0, Omitted), Page(4, 0), Page(Null, 0), Page(1, -1), Page(-1, 0)}

List(filter, order, page, selects, total) ==
  [kind |-> "list", filter |-> filter, orderBy |-> order, page |-> page, selects |-> selects, total |-> total]
SomeReads ==
  {[kind |-> "item", key |-> k, selects |-> {"account"}] : k \in {1, 4}}
  \cup {List(f, o, p, {"size"}, TRUE) : f \in Simple \cup Nested, o \in Orders, p \in Pages}
  \cup {List(f, o, p, s, t) : f \in {<< >>, <<On("size", <<Test("eq", Null)>>)>>} \cup NullTests,
          o \in Orders \cup BadOrders, p \in OddPages \cup {Page(1, 0)},
          s \in {{}, {"account"}}, t \in BOOLEAN}

ObjectLimit == [default |-> 2, max |-> 3]
RuntimeLimit == [default |-> 9, max |-> 5]

------------------------------------------------------------------------------
Sub(selections) == [kind |-> "field", selections |-> selections]
Inline(selections) == [kind |-> "inline", selections |-> selections]
Spread(name) == [kind |-> "spread", name |-> name]
Leaf == Sub(<< >>)
NoFragments == [n \in {} |-> << >>]

(* Limits 2 and 6: within them, too deep through a fragment, too complex,  *)
(* with the same fragment spread at two depths, and with two operations.   *)
SomeDocuments ==
  {[operations |-> <<<<Sub(<<Leaf>>)>>>>, fragments |-> NoFragments],
   [operations |-> <<<<Sub(<<Inline(<<Spread("f")>>)>>)>>>>, fragments |-> ("f" :> <<Sub(<<Leaf>>)>>)],
   [operations |-> <<<<Leaf, Leaf, Leaf, Sub(<<Leaf, Leaf>>)>>>>, fragments |-> NoFragments],
   [operations |-> <<<<Spread("f"), Sub(<<Spread("f")>>)>>>>, fragments |-> ("f" :> <<Sub(<<Leaf>>)>>)],
   [operations |-> <<<<Leaf, Leaf, Leaf, Leaf>>, <<Leaf, Sub(<<Leaf>>)>>>>, fragments |-> NoFragments]}
Digests == <<1, 2, 1>>
Measures == [asked \in SomeDocuments |-> [depth |-> Depth(asked), complexity |-> Complexity(asked)]]

(* What is refused for its measures exceeds a limit once its fragments are *)
(* expanded, and a document whose operations spread a fragment at most     *)
(* once is executed only within the limits.                                *)
Exceeds(asked) ==
  LET depths(k) == Depths(asked.operations[k], asked)
      operations == DOMAIN asked.operations
  IN  \/ \E k \in operations : Deepest(depths(k)) > MaxDepth
      \/ FoldSet(LAMBDA k, n : Cost(depths(k)) + n, 0, operations) > MaxComplexity
EachSpreadOnce(asked) ==
  \A k \in DOMAIN asked.operations : SpreadOnce(asked.operations[k], asked)

LimitsAreExact ==
  \A r \in Request : response[r] # Missing =>
    \A asked \in Asked : response[r].asked = asked =>
      IF response[r].executed THEN EachSpreadOnce(asked) => ~Exceeds(asked)
      ELSE Exceeds(asked)

(* docs/archive/graphql_v1_tdd_plan.md:336: "query depth and complexity    *)
(* limits are enforced".  What is executed stays within both once its      *)
(* fragments are expanded.                                                 *)
LimitsAreEnforced ==
  \A r \in Request : response[r] # Missing =>
    \A asked \in Asked : response[r].asked = asked /\ response[r].executed => ~Exceeds(asked)

------------------------------------------------------------------------------
(* Two parents of a relation over two columns, whose values are swapped.   *)
TwoParents == {<<1, 2>>, <<2, 1>>}

CustomerId == <<"companyId", "customerId">>
OwnerId == <<"companyId", "ownerId">>
==============================================================================
