---------------------------- MODULE GraphqlLimits -----------------------------
(***************************************************************************)
(* The two measures of an operation that the runtime compares with         *)
(* max_depth and max_complexity before it executes it.                     *)
(*                                                                         *)
(* A document has the selections of its operation and those of its         *)
(* fragments; a selection is a field with selections, an inline fragment   *)
(* or the spread of a fragment.                                            *)
(***************************************************************************)
EXTENDS Naturals, Sequences, FiniteSetsExt

(* _selection_set_depth and _selection_set_complexity walk alike, and are  *)
(* one walk here, at a depth; each fragment is entered once in an          *)
(* operation, wherever it is spread again.                                 *)
Enters(document, selection, visited) ==
  selection.kind = "spread" /\ selection.name \in DOMAIN document.fragments \ visited

Most(a, b) == IF a > b THEN a ELSE b

RECURSIVE Walk(_, _, _, _)
Walk(document, selections, visited, depth) ==
  IF selections = << >> THEN [deepest |-> 0, cost |-> 0, visited |-> visited]
  ELSE LET s == Head(selections)
           inside == CASE s.kind = "field" -> Walk(document, s.selections, visited, depth + 1)
                       [] s.kind = "inline" -> Walk(document, s.selections, visited, depth)
                       [] Enters(document, s, visited) ->
                            Walk(document, document.fragments[s.name], visited \cup {s.name}, depth)
                       [] OTHER -> Walk(document, << >>, visited, depth)
           here == IF s.kind = "field" THEN depth ELSE 0
           rest == Walk(document, Tail(selections), inside.visited, depth)
       IN  [deepest |-> Most(here, Most(inside.deepest, rest.deepest)),
            cost |-> here + inside.cost + rest.cost,
            visited |-> rest.visited]

(* The fragments visited are forgotten between operations.                 *)
Measured(document, k) == Walk(document, document.operations[k], {}, 1)
Depth(document) ==
  FoldSet(LAMBDA k, n : Most(Measured(document, k).deepest, n), 0, DOMAIN document.operations)
Complexity(document) ==
  FoldSet(LAMBDA k, n : Measured(document, k).cost + n, 0, DOMAIN document.operations)

------------------------------------------------------------------------------
(* What the measures stand for: the fields, with their depths, and the     *)
(* spreads met when every spread is replaced by its fragment, for a        *)
(* document whose fragments do not refer to themselves.                    *)
RECURSIVE Expansion(_, _, _)
Expansion(document, selections, depth) ==
  IF selections = << >> THEN << >>
  ELSE LET s == Head(selections)
           here == CASE s.kind = "field" ->
                          <<[field |-> TRUE, depth |-> depth]>> \o Expansion(document, s.selections, depth + 1)
                     [] s.kind = "inline" -> Expansion(document, s.selections, depth)
                     [] s.kind = "spread" ->
                          <<[field |-> FALSE, name |-> s.name]>>
                            \o Expansion(document, document.fragments[s.name], depth)
       IN  here \o Expansion(document, Tail(selections), depth)

Expanded(operation, document) == Expansion(document, operation, 1)
Depths(operation, document) ==
  LET fields == SelectSeq(Expanded(operation, document), LAMBDA e : e.field)
  IN  [k \in DOMAIN fields |-> fields[k].depth]
SpreadOnce(operation, document) ==
  LET spreads == SelectSeq(Expanded(operation, document), LAMBDA e : ~e.field)
  IN  \A j, k \in DOMAIN spreads : spreads[j].name = spreads[k].name => j = k
Deepest(depths) == FoldSet(LAMBDA k, n : Most(depths[k], n), 0, DOMAIN depths)
Cost(depths) == FoldSet(LAMBDA k, n : depths[k] + n, 0, DOMAIN depths)
==============================================================================
