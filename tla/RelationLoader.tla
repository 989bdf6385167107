--------------------------- MODULE RelationLoader ---------------------------
(***************************************************************************)
(* The batching of relation reads inside one GraphQL request               *)
(* (_RelationBatchLoader, graphql_runtime_plugin.py): resolvers of many    *)
(* parents call load() on one loader, a flush scheduled on the event loop  *)
(* reads the rows of all queued parents with one command, and the rows are *)
(* handed back by a key computed from their columns.  It implements        *)
(* KeyedReads; the rows are those of the parent as long as the keys have   *)
(* the same column names on both sides of the relation.                    *)
(***************************************************************************)
EXTENDS Naturals, Sequences, FiniteSets

CONSTANTS
  Load,        \* calls of load() in the request
  Parent,      \* values of the relation's columns: one tuple per parent row
  SourceNames, \* public names of the columns in the parent rows
  TargetNames  \* and of the columns they are compared with

(* A relation has as many columns on both sides, and the catalog refuses   *)
(* two fields of one object with the same public name.                     *)
ASSUME LoaderAssumption ==
  /\ IsFiniteSet(Load)
  /\ Len(SourceNames) \in Nat /\ Len(SourceNames) = Len(TargetNames)
  /\ \A i, j \in 1 .. Len(SourceNames) : SourceNames[i] = SourceNames[j] => i = j
  /\ \A p \in Parent : p = [i \in 1 .. Len(SourceNames) |-> p[i]]

(* _relation_key_from_values: the sorted (name, value) pairs, as JSON.     *)
KeyFromValues(names, values) == {<<names[i], values[i]>> : i \in 1 .. Len(names)}

CacheKey(p) == KeyFromValues(SourceNames, p)
CacheKeys == {CacheKey(p) : p \in Parent}

(* The rows of the target table, as one read sees them: for every parent   *)
(* value none or one, marked with the read.                                *)
Row == [values : Parent, read : Nat \ {0}]

VARIABLES
  wants,     \* parent key of each load
  caller,    \* idle, waiting, answered, failed or cancelled
  future,    \* the future each load awaits, 0 before it starts
  got,       \* {answer} once it has one
  futures,   \* every future: state, rows, the read that settled it
  cache,     \* _cache: the future of a cache key, 0 for none
  queued,    \* _queued_keys
  scheduled, \* _flush_scheduled
  callbacks, \* _schedule_flush callbacks waiting in the event loop
  flushes,   \* _flush tasks
  tables,    \* parents that have a row, as seen by each read
  cancelled  \* the request was cancelled

loaderVars == <<futures, cache, queued, scheduled, callbacks, flushes>>
vars == <<wants, caller, future, got, loaderVars, tables, cancelled>>

Init ==
  /\ wants \in [Load -> Parent]
  /\ caller = [c \in Load |-> "idle"]
  /\ future = [c \in Load |-> 0]
  /\ got = [c \in Load |-> {}]
  /\ futures = << >>
  /\ cache = [k \in CacheKeys |-> 0]
  /\ queued = {} /\ scheduled = FALSE /\ callbacks = 0
  /\ flushes = << >> /\ tables = << >>
  /\ cancelled = FALSE

------------------------------------------------------------------------------
(* load()                                                                  *)

Pending == [state |-> "pending", rows |-> {}]

(* The first load of a key queues it, and makes sure a flush is coming.    *)
LoadNew(c) ==
  /\ cache[CacheKey(wants[c])] = 0
  /\ futures' = Append(futures, Pending)
  /\ future' = [future EXCEPT ![c] = Len(futures')]
  /\ cache' = [cache EXCEPT ![CacheKey(wants[c])] = Len(futures')]
  /\ queued' = queued \cup {wants[c]}
  /\ scheduled' = TRUE
  /\ callbacks' = IF scheduled THEN callbacks ELSE callbacks + 1

LoadCached(c) ==
  /\ cache[CacheKey(wants[c])] # 0
  /\ future' = [future EXCEPT ![c] = cache[CacheKey(wants[c])]]
  /\ UNCHANGED <<futures, cache, queued, scheduled, callbacks>>

LoadStarts(c) ==
  /\ caller[c] = "idle" /\ ~cancelled
  /\ caller' = [caller EXCEPT ![c] = "waiting"]
  /\ LoadNew(c) \/ LoadCached(c)
  /\ UNCHANGED <<wants, got, flushes, tables, cancelled>>

(* The await goes on once its future is done.                              *)
LoadEnds(c) ==
  /\ caller[c] = "waiting"
  /\ LET f == futures[future[c]]
     IN  \/ /\ f.state = "done"
            /\ caller' = [caller EXCEPT ![c] = "answered"]
            /\ got' = [got EXCEPT ![c] = {f.rows}]
         \/ /\ f.state = "failed"
            /\ caller' = [caller EXCEPT ![c] = "failed"]
            /\ UNCHANGED got
  /\ UNCHANGED <<wants, future, loaderVars, tables, cancelled>>

(* Cancelling the request cancels every resolver that waits, and with it   *)
(* the future the resolver awaits.  The flushes are tasks of their own.    *)
RequestCancelled ==
  /\ ~cancelled
  /\ cancelled' = TRUE
  /\ caller' = [c \in Load |-> IF caller[c] \in {"idle", "waiting"} THEN "cancelled"
                                                                  ELSE caller[c]]
  /\ futures' = [i \in 1 .. Len(futures) |->
       IF futures[i].state = "pending" /\ \E c \in Load : caller[c] = "waiting" /\ future[c] = i
         THEN [futures[i] EXCEPT !.state = "cancelled"] ELSE futures[i]]
  /\ UNCHANGED <<wants, future, got, cache, queued, scheduled, callbacks, flushes, tables>>

------------------------------------------------------------------------------
(* _flush()                                                                *)

ScheduleFlush ==
  /\ callbacks > 0
  /\ callbacks' = callbacks - 1
  /\ flushes' = Append(flushes, [state |-> "created", keys |-> {}])
  /\ UNCHANGED <<wants, caller, future, got, futures, cache, queued, scheduled, tables,
                 cancelled>>

(* Mutant: the keys are read, and not taken, from the queue.               *)
FlushStartsKeepingQueue(n) ==
  /\ flushes[n].state = "created"
  /\ flushes' = [flushes EXCEPT ![n] = [state |-> "reading", keys |-> queued]]
  /\ scheduled' = FALSE
  /\ UNCHANGED <<wants, caller, future, got, futures, cache, queued, callbacks, tables,
                 cancelled>>

(* Mutant: the flag is reset when the flush ends.                          *)
FlushStartsScheduled(n) ==
  /\ flushes[n].state = "created"
  /\ flushes' = [flushes EXCEPT ![n] = [state |-> "reading", keys |-> queued]]
  /\ queued' = {}
  /\ UNCHANGED <<wants, caller, future, got, futures, cache, scheduled, callbacks, tables,
                 cancelled>>

(* Up to the command: what is queued by now is read by this flush.         *)
FlushStarts(n) ==
  /\ flushes[n].state = "created"
  /\ flushes' = [flushes EXCEPT ![n] = [state |-> "reading", keys |-> queued]]
  /\ queued' = {} /\ scheduled' = FALSE
  /\ UNCHANGED <<wants, caller, future, got, futures, cache, callbacks, tables, cancelled>>

(* The rows the command selects: those whose columns equal a parent's.     *)
Selected(keys, table, read) == {[values |-> v, read |-> read] : v \in keys \cap table}

(* _group_relation_rows, and the lookup by the parent's cache key.         *)
RowsFor(p, rows) == {row \in rows : KeyFromValues(TargetNames, row.values) = CacheKey(p)}

(* Mutant: the futures are set whether or not they are done.               *)
SettleAnyway(keys, state, rows) ==
  futures' = [i \in 1 .. Len(futures) |->
    IF \E p \in keys : cache[CacheKey(p)] = i
      THEN [state |-> state,
            rows |-> LET p == CHOOSE p \in keys : cache[CacheKey(p)] = i
                     IN  RowsFor(p, rows)]
      ELSE futures[i]]

(* The pending futures of the keys get their rows, or the exception.       *)
Settle(keys, state, rows) ==
  futures' = [i \in 1 .. Len(futures) |->
    IF \E p \in keys : cache[CacheKey(p)] = i /\ futures[i].state = "pending"
      THEN [state |-> state,
            rows |-> LET p == CHOOSE p \in keys : cache[CacheKey(p)] = i
                     IN  RowsFor(p, rows)]
      ELSE futures[i]]

(* Mutant: a key leaves the cache with its answer.                         *)
FlushSucceedsPopping(n) ==
  /\ flushes[n].state = "reading"
  /\ \E table \in SUBSET Parent :
       /\ tables' = Append(tables, table)
       /\ Settle(flushes[n].keys, "done",
                 Selected(flushes[n].keys, table, Len(tables) + 1))
  /\ flushes' = [flushes EXCEPT ![n].state = "done"]
  /\ cache' = [k \in CacheKeys |->
       IF \E p \in flushes[n].keys : CacheKey(p) = k THEN 0 ELSE cache[k]]
  /\ UNCHANGED <<wants, caller, future, got, queued, scheduled, callbacks, cancelled>>

(* Mutant: every row of the batch is handed to every parent.               *)
FlushSucceedsUngrouped(n) ==
  /\ flushes[n].state = "reading"
  /\ \E table \in SUBSET Parent :
       /\ tables' = Append(tables, table)
       /\ futures' = [i \in 1 .. Len(futures) |->
            IF \E p \in flushes[n].keys : cache[CacheKey(p)] = i /\ futures[i].state = "pending"
              THEN [state |-> "done",
                    rows |-> Selected(flushes[n].keys, table, Len(tables) + 1)]
              ELSE futures[i]]
  /\ flushes' = [flushes EXCEPT ![n].state = "done"]
  /\ UNCHANGED <<wants, caller, future, got, cache, queued, scheduled, callbacks, cancelled>>

FlushSucceeds(n) ==
  /\ flushes[n].state = "reading"
  /\ \E table \in SUBSET Parent :
       /\ tables' = Append(tables, table)
       /\ Settle(flushes[n].keys, "done",
                 Selected(flushes[n].keys, table, Len(tables) + 1))
  /\ flushes' = [flushes EXCEPT ![n].state = "done"]
  /\ UNCHANGED <<wants, caller, future, got, cache, queued, scheduled, callbacks, cancelled>>

(* The command cannot be compiled or executed: the keys may be read again. *)
FlushFails(n) ==
  /\ flushes[n].state = "reading"
  /\ flushes' = [flushes EXCEPT ![n].state = "failed"]
  /\ Settle(flushes[n].keys, "failed", {})
  /\ cache' = [k \in CacheKeys |->
       IF \E p \in flushes[n].keys : CacheKey(p) = k THEN 0 ELSE cache[k]]
  /\ UNCHANGED <<wants, caller, future, got, queued, scheduled, callbacks, tables, cancelled>>

------------------------------------------------------------------------------
FlushStep(n) == FlushStarts(n) \/ FlushSucceeds(n) \/ FlushFails(n)

Next ==
  \/ \E c \in Load : LoadStarts(c) \/ LoadEnds(c)
  \/ ScheduleFlush
  \/ \E n \in 1 .. Len(flushes) : FlushStep(n)
  \/ RequestCancelled

(* The event loop runs its callbacks and tasks, and the executor answers.  *)
(* Every flush has a new key to read: there are no more than loads.        *)
Fairness ==
  /\ \A c \in Load : WF_vars(LoadEnds(c))
  /\ WF_vars(ScheduleFlush)
  /\ \A n \in 1 .. Cardinality(Load) : WF_vars(n <= Len(flushes) /\ FlushStep(n))

Spec == Init /\ [][Next]_vars /\ Fairness
------------------------------------------------------------------------------
(* Properties                                                              *)

Reading == {n \in 1 .. Len(flushes) : flushes[n].state = "reading"}
(* A future that is pending is queued or being read, once; so two flushes  *)
(* in flight never read the same parent, and a failing one never evicts or *)
(* rejects the future of another.                                          *)
OneReadAtATime ==
  \A p \in Parent :
    LET f == cache[CacheKey(p)]
        places == (IF p \in queued THEN 1 ELSE 0)
                    + Cardinality({n \in Reading : p \in flushes[n].keys})
    IN  /\ places <= 1
        /\ f # 0 /\ futures[f].state = "pending" => places = 1

(* A future is settled once: set_result and set_exception are not called   *)
(* on one that is done or that the cancelled request has cancelled.        *)
FuturesSettleOnce ==
  [][\A i \in 1 .. Len(futures) :
       futures[i].state # "pending" => futures'[i] = futures[i]]_vars

(* A resolver gets the rows of its own parent, all of them, from one read. *)
(* docs/archive/graphql_catalog_contract.md: "the executor executes it     *)
(* once, and the runtime redistributes rows to parent objects."            *)
RowsReachParents ==
  \A c \in Load : caller[c] = "answered" =>
    \E read \in 1 .. Len(tables) :
      got[c] = {Selected({wants[c]}, tables[read], read)}

(* KeyedReads, with what is known of a key read off its settled future.    *)
Known ==
  [p \in Parent |->
    LET f == cache[CacheKey(p)]
    IN  IF f # 0 /\ futures[f].state = "done" THEN {futures[f].rows} ELSE {}]

Promise == INSTANCE KeyedReads WITH Reply <- SUBSET Row, known <- Known

ImplementsKeyedReads == Promise!ReadSpec

EveryLoadEnds == \A c \in Load : caller[c] = "waiting" ~> caller[c] # "waiting"
==============================================================================
