---------------------------- MODULE GraphqlReads -----------------------------
(***************************************************************************)
(* A read of one published object, from the arguments of its GraphQL field *)
(* to the rows of the answer: _resolve_item and _resolve_collection of the *)
(* runtime, the SQL Server read compiler, and the engine that executes the *)
(* commands while others write to the table.                               *)
(*                                                                         *)
(* SQL text is its structure: clauses that refer to parameters by number.  *)
(* A truth value is 0 for false, 1 for unknown and 2 for true.  LIKE,      *)
(* column types and request headers are left out.                          *)
(***************************************************************************)
EXTENDS Integers, Sequences, FiniteSets, SequencesExt, GraphqlNames

CONSTANTS
  PublicName,             \* field of the published object -> its public name
  Key,                    \* the public field of its identity
  LookedUpBy,             \* relation -> public fields its rows are looked up by
  CatalogLimit, Options,  \* [default, max] of the object and the application
  Requests,               \* what clients ask
  Contents,               \* contents the table may have: sets of rows
  Null, Omitted,
  MaxWrites               \* writes during one request

VARIABLES
  table,      \* rows now in the table
  writes,
  request, phase,
  arguments,  \* parsed: filter, order, page
  answer,     \* items and total as they go into the envelope
  seen        \* the table as each command saw it

readVars == <<table, writes, request, phase, arguments, answer, seen>>

ReadsInit ==
  /\ table \in Contents
  /\ writes = 0
  /\ request = Null
  /\ phase = "idle"
  /\ arguments = Null
  /\ answer = [items |-> << >>, total |-> Omitted]
  /\ seen = [items |-> Omitted, total |-> Omitted]

Least(a, b) == IF a < b THEN a ELSE b
Greater(a, b) == IF a < b THEN b ELSE a
Present(nodes) == SelectSeq(nodes, LAMBDA n : n # Null)

------------------------------------------------------------------------------
(* The arguments.  A filter input is the sequence of its entries, in the   *)
(* order of the query; an operator name maps to the operator it names.     *)
Group(kind, nodes) == [kind |-> kind, nodes |-> nodes]
Condition(field, test) == [kind |-> "condition", field |-> field, op |-> test.op, value |-> test.value]
Joined(nodes) ==
  CASE Len(nodes) = 0 -> Null
    [] Len(nodes) = 1 -> nodes[1]
    [] OTHER -> Group("and", nodes)

RECURSIVE ParseFilter(_)
(* What says nothing (an empty input, an empty operand list, a field       *)
(* without operators) leaves no node.                                      *)
ParseFilter(input) ==
  LET Parsed(entry) ==
        CASE entry.kind = "field" ->
               Joined([k \in 1 .. Len(entry.tests) |-> Condition(entry.field, entry.tests[k])])
          [] entry.kind = "not" ->
               LET child == IF entry.operands = << >> THEN Null ELSE ParseFilter(entry.operands[1])
               IN  IF child = Null THEN Null ELSE Group("not", <<child>>)
          [] OTHER ->
               LET children == Present([k \in 1 .. Len(entry.operands) |-> ParseFilter(entry.operands[k])])
               IN  IF children = << >> THEN Null ELSE Group(entry.kind, children)
  IN  Joined(Present([k \in 1 .. Len(input) |-> Parsed(input[k])]))

RECURSIVE FilterAccepted(_)
(* null is nothing in the place of operands, and refused in the place of a *)
(* field's operators, however deep it stands.                              *)
FilterAccepted(input) ==
  \A k \in 1 .. Len(input) :
    IF input[k].kind = "field" THEN input[k].tests # Null
    ELSE \A j \in 1 .. Len(input[k].operands) : FilterAccepted(input[k].operands[j])

(* The order field a client names arrives as the value of the SDL's enum   *)
(* and is looked up among the public names.                                *)
Ordered(entry) == {f \in DOMAIN PublicName : PublicName[f] = EnumValue(PublicName[entry.field])}
ParseOrder(order) ==
  [k \in 1 .. Len(order) |-> [order[k] EXCEPT !.field = CHOOSE f \in Ordered(order[k]) : TRUE]]
OrderKnown(order) == \A k \in 1 .. Len(order) : Ordered(order[k]) # {}

EffectiveMax == Least(CatalogLimit.max, Options.max)
EffectiveDefault == Least(Least(CatalogLimit.default, Options.default), EffectiveMax)

(* Limits are checked, never clamped.                                      *)
PageOf(page) ==
  LET limit == IF page.limit = Omitted THEN EffectiveDefault ELSE page.limit
      offset == IF page.offset = Omitted THEN 0 ELSE page.offset
  IN  [limit |-> limit, offset |-> offset,
       valid |-> limit # Null /\ offset # Null /\ limit >= 0 /\ offset >= 0 /\ limit <= EffectiveMax]

(* The fields a command selects: the identity, what the query selects and  *)
(* what its relations are looked up by.                                    *)
Projected(selected) ==
  {Key} \cup (selected \cap DOMAIN PublicName)
        \cup UNION {LookedUpBy[r] : r \in selected \cap DOMAIN LookedUpBy}

------------------------------------------------------------------------------
(* The compiler.  Parameters are numbered in the order they are added.     *)
Clause(kind, field, refs, value) == [kind |-> kind, field |-> field, refs |-> refs, value |-> value]

Operand(value) == IF value = Null THEN << >> ELSE value

(* eq and ne refuse null; isNull wants a boolean.                          *)
Refused(c) == c.op \in {"eq", "ne", "isNull"} /\ c.value = Null

CompileCondition(c, parameters) ==
  LET next == Len(parameters)
      values == CASE c.op = "in" -> Operand(c.value) [] c.op = "isNull" -> << >> [] OTHER -> <<c.value>>
  IN  [clause |-> Clause(c.op, c.field, [k \in 1 .. Len(values) |-> next + k],
                         IF c.op = "isNull" THEN c.value ELSE Null),
       parameters |-> parameters \o values]

RECURSIVE CompileFilter(_, _)
CompileFilter(node, parameters) ==
  IF node.kind = "condition" THEN CompileCondition(node, parameters)
  ELSE LET Add(acc, child) ==
             LET compiled == CompileFilter(child, acc.parameters)
             IN  [clauses |-> Append(acc.clauses, compiled.clause), parameters |-> compiled.parameters]
           all == FoldLeft(Add, [clauses |-> << >>, parameters |-> parameters], node.nodes)
       IN  [clause |-> [kind |-> node.kind, clauses |-> all.clauses], parameters |-> all.parameters]

RECURSIVE Conditions(_)
Conditions(node) ==
  IF node = Null THEN {}
  ELSE IF node.kind = "condition" THEN {node}
  ELSE UNION {Conditions(node.nodes[k]) : k \in 1 .. Len(node.nodes)}

Compiles(node) == \A c \in Conditions(node) : ~Refused(c)

CompileWhere(node) ==
  IF node = Null THEN [clause |-> Null, parameters |-> << >>] ELSE CompileFilter(node, << >>)

(* Mutant: the limit is added before the offset.                           *)
CompileCollectionSwapped(args) ==
  LET where == CompileWhere(args.filter)
      n == Len(where.parameters)
  IN  [where |-> where.clause, order |-> args.order, offset |-> n + 1, limit |-> n + 2,
       parameters |-> where.parameters \o <<args.page.limit, args.page.offset>>]

CompileCollection(args) ==
  LET where == CompileWhere(args.filter)
      n == Len(where.parameters)
  IN  [where |-> where.clause, order |-> args.order, offset |-> n + 1, limit |-> n + 2,
       parameters |-> where.parameters \o <<args.page.offset, args.page.limit>>]

CompileCount(args) == CompileWhere(args.filter)
CompileItem(key) ==
  [where |-> Clause("eq", Key, <<1>>, Null), parameters |-> <<key>>]

------------------------------------------------------------------------------
(* The engine.                                                             *)
Truth(b) == IF b THEN 2 ELSE 0
Compared(op, a, b) ==
  IF a = Null \/ b = Null THEN 1
  ELSE Truth(CASE op = "eq" -> a = b [] op = "ne" -> a # b [] op = "lt" -> a < b [] op = "gte" -> a >= b)
AllOf(truths) == FoldLeft(Least, 2, truths)
AnyOf(truths) == FoldLeft(Greater, 0, truths)

RECURSIVE Holds(_, _, _)
Holds(clause, parameters, row) ==
  LET Sub(k) == Holds(clause.clauses[k], parameters, row)
      Subs == [k \in 1 .. Len(clause.clauses) |-> Sub(k)]
  IN  CASE clause.kind = "and" -> AllOf(Subs)
        [] clause.kind = "or" -> AnyOf(Subs)
        [] clause.kind = "not" -> 2 - Sub(1)
        [] clause.kind = "isNull" -> Truth((row[clause.field] = Null) = clause.value)
        [] clause.kind = "in" ->
             AnyOf([k \in 1 .. Len(clause.refs) |->
                      Compared("eq", row[clause.field], parameters[clause.refs[k]])])
        [] OTHER -> Compared(clause.kind, row[clause.field], parameters[clause.refs[1]])

SelectedRows(where, parameters) ==
  {row \in table : where = Null \/ Holds(where, parameters, row) = 2}

(* NULL sorts first, as in SQL Server.                                     *)
Below(a, b) == b # Null /\ (a = Null \/ a < b)
Before(order, r, s) ==
  \E k \in 1 .. Len(order) :
    /\ \A j \in 1 .. k - 1 : r[order[j].field] = s[order[j].field]
    /\ IF order[k].descending THEN Below(s[order[k].field], r[order[k].field])
                              ELSE Below(r[order[k].field], s[order[k].field])
Sorted(order, rows) ==
  {s \in SetToSeqs(rows) : \A i, j \in 1 .. Len(s) : i < j => ~Before(order, s[j], s[i])}
Slice(s, offset, limit) == SubSeq(s, offset + 1, Least(Len(s), offset + limit))
Columns(row, fields) == [f \in fields |-> row[f]]

------------------------------------------------------------------------------
TableChanges ==
  /\ writes < MaxWrites /\ phase \in {"items", "total"}
  /\ writes' = writes + 1
  /\ table' \in Contents \ {table}
  /\ UNCHANGED <<request, phase, arguments, answer, seen>>

Fails == phase' = "failed" /\ UNCHANGED <<answer, seen>>

(* The arguments are parsed before anything is read.                       *)
Resolve(r) ==
  /\ request' = r
  /\ IF r.kind = "item"
       THEN phase' = "item" /\ UNCHANGED <<arguments, answer, seen>>
       ELSE IF FilterAccepted(r.filter) /\ OrderKnown(r.orderBy) /\ PageOf(r.page).valid
         THEN /\ arguments' = [filter |-> ParseFilter(r.filter), order |-> ParseOrder(r.orderBy),
                               page |-> PageOf(r.page)]
              /\ phase' = "items"
              /\ UNCHANGED <<answer, seen>>
         ELSE Fails /\ UNCHANGED arguments
  /\ UNCHANGED <<table, writes>>

ReadItem ==
  /\ phase = "item"
  /\ LET command == CompileItem(request.key) IN
       \E rows \in Sorted(<< >>, SelectedRows(command.where, command.parameters)) :
         answer' = [answer EXCEPT !.items =
           [k \in 1 .. Len(Slice(rows, 0, 1)) |-> Columns(rows[k], Projected(request.selects))]]
  /\ seen' = [seen EXCEPT !.items = table]
  /\ phase' = "done"
  /\ UNCHANGED <<table, writes, request, arguments>>

(* OFFSET is part of ORDER BY: the engine refuses it alone.                *)
ReadItems ==
  /\ phase = "items"
  /\ IF request.selects = {} \/ arguments.page.limit = 0
       THEN phase' = "total" /\ UNCHANGED <<answer, seen>>
     ELSE IF ~Compiles(arguments.filter) \/ arguments.order = << >> THEN Fails
     ELSE /\ LET command == CompileCollection(arguments) IN
               \E rows \in Sorted(command.order, SelectedRows(command.where, command.parameters)) :
                 LET page == Slice(rows, command.parameters[command.offset],
                                         command.parameters[command.limit])
                 IN  answer' = [answer EXCEPT !.items =
                       [k \in 1 .. Len(page) |-> Columns(page[k], Projected(request.selects))]]
          /\ seen' = [seen EXCEPT !.items = table]
          /\ phase' = "total"
  /\ UNCHANGED <<table, writes, request, arguments>>

(* The count is its own command, run when totalCount is resolved.          *)
ReadTotal ==
  /\ phase = "total"
  /\ IF ~request.total THEN phase' = "done" /\ UNCHANGED <<answer, seen>>
     ELSE IF ~Compiles(arguments.filter) THEN Fails
     ELSE /\ LET command == CompileCount(arguments) IN
               answer' = [answer EXCEPT !.total = Cardinality(SelectedRows(command.clause, command.parameters))]
          /\ seen' = [seen EXCEPT !.total = table]
          /\ phase' = "done"
  /\ UNCHANGED <<table, writes, request, arguments>>

ReadsNext ==
  \/ TableChanges
  \/ phase = "idle" /\ \E r \in Requests : Resolve(r)
  \/ ReadItem \/ ReadItems \/ ReadTotal

ReadsSpec == ReadsInit /\ [][ReadsNext]_readVars

------------------------------------------------------------------------------
(* What a filter input means for a row, without parsing or compiling it: 3 *)
(* stands for saying nothing.                                              *)
Silent == 3
RECURSIVE Meaning(_, _)
Meaning(input, row) ==
  LET Test(field, t) ==
        CASE t.op = "isNull" -> Truth(t.value = (row[field] = Null))
          [] t.op = "in" -> IF t.value = Null THEN 0 ELSE AnyOf([k \in 1 .. Len(t.value) |-> Compared("eq", row[field], t.value[k])])
          [] OTHER -> Compared(t.op, row[field], t.value)
      Said(truths) == SelectSeq(truths, LAMBDA x : x # Silent)
      All(truths) == IF Said(truths) = << >> THEN Silent ELSE AllOf(Said(truths))
      Some(truths) == IF Said(truths) = << >> THEN Silent ELSE AnyOf(Said(truths))
      Of(entry) ==
        LET Operands == [k \in 1 .. Len(entry.operands) |-> Meaning(entry.operands[k], row)]
        IN  CASE entry.kind = "field" -> All([k \in 1 .. Len(entry.tests) |-> Test(entry.field, entry.tests[k])])
              [] entry.kind = "not" -> IF All(Operands) = Silent THEN Silent ELSE 2 - All(Operands)
              [] entry.kind = "or" -> Some(Operands)
              [] OTHER -> All(Operands)
  IN  All([k \in 1 .. Len(input) |-> Of(input[k])])

Matching(rows) == {row \in rows : Meaning(request.filter, row) >= 2}
RowOf(rows, item) == CHOOSE row \in rows : row[Key] = item[Key]

PageIsExact ==
  LET match == Matching(seen.items)
      rows == [k \in 1 .. Len(answer.items) |-> RowOf(seen.items, answer.items[k])]
      offset == PageOf(request.page).offset
      order == arguments.order
  IN  /\ Len(rows) = Least(PageOf(request.page).limit, Greater(0, Cardinality(match) - offset))
      /\ Len(rows) <= Least(CatalogLimit.max, Options.max)
      /\ \A i, j \in 1 .. Len(rows) : rows[i] = rows[j] => i = j
      /\ \A k \in 1 .. Len(rows) :
           /\ rows[k] \in match
           /\ Cardinality({r \in match : Before(order, r, rows[k])}) < offset + k
           /\ offset + k <= Cardinality({r \in match : ~Before(order, rows[k], r)})
           /\ \A relation \in request.selects \cap DOMAIN LookedUpBy :
                LookedUpBy[relation] \subseteq DOMAIN answer.items[k]

ItemIsExact ==
  {answer.items[k][Key] : k \in 1 .. Len(answer.items)} = {request.key} \cap {row[Key] : row \in seen.items}

(* A collection that was read is the page asked for: the rows that match   *)
(* the filter as it was written, whole and without repetition, each at the *)
(* place the order gives it, and as many as the limits of the object and   *)
(* the application allow; every relation finds the fields it looks its     *)
(* rows up by.  The total counts the rows that match when it is read, also *)
(* when no items were asked for.  An item is the row with the key.         *)
AnswerIsExact ==
  phase = "done" =>
    /\ request.kind = "item" => ItemIsExact
    /\ request.kind = "list" /\ seen.items # Omitted => PageIsExact
    /\ seen.total # Omitted => answer.total = Cardinality(Matching(seen.total))

(* docs/archive/graphql_catalog_contract.md:757-761 and 814: orderBy is    *)
(* optional, and its field is an enum derived from the public names.  A    *)
(* collection with a valid filter and page is read whichever order it asks *)
(* for.                                                                    *)
OrderIsAccepted ==
  phase = "failed" =>
    \/ ~PageOf(request.page).valid
    \/ ~FilterAccepted(request.filter)
    \/ ~Compiles(ParseFilter(request.filter))
==============================================================================
