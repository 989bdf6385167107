------------------------- MODULE RelationLoader_proofs -------------------------
(***************************************************************************)
(* For any number of loads and of parents: no two flushes in flight read   *)
(* the same parent, a future is settled once, every answer is the rows of  *)
(* the parent in one read, and the loader implements KeyedReads.           *)
(*                                                                         *)
(* The cache is what ties the actors together.  A key that is queued or    *)
(* being read has a future in the cache that is not settled yet (Underway) *)
(* and, the other way around, a pending future is queued or being read     *)
(* (Awaited), in one place only (ReadOnce).  Hence a flush that fails      *)
(* takes only futures of its own out of the cache, and the future a load   *)
(* awaits stays in the cache unless it has failed (LoadOK).                *)
(***************************************************************************)
EXTENDS RelationLoader, TLAPS, FiniteSetTheorems, SequenceTheorems

Held(p) == cache[CacheKey(p)]
BeingRead(n, p) == flushes[n].state = "reading" /\ p \in flushes[n].keys
InFlight(p) == p \in queued \/ \E n \in DOMAIN flushes : BeingRead(n, p)

Callers == {"idle", "waiting", "answered", "failed", "cancelled"}
Future == [state : {"pending", "done", "failed", "cancelled"}, rows : SUBSET Row]
FlushTask == [state : {"created", "reading", "done", "failed"}, keys : SUBSET Parent]

TypesOK ==
  /\ wants \in [Load -> Parent]
  /\ caller \in [Load -> Callers]
  /\ futures \in Seq(Future)
  /\ future \in [Load -> 0 .. Len(futures)]
  /\ DOMAIN got = Load
  /\ cache \in [CacheKeys -> 0 .. Len(futures)]
  /\ queued \in SUBSET Parent
  /\ flushes \in Seq(FlushTask)
  /\ tables \in Seq(SUBSET Parent)

(* Two keys have two futures.                                              *)
KeysApart == \A p, q \in Parent : Held(p) # 0 /\ Held(p) = Held(q) => p = q

ReadOnce ==
  \A p \in Parent, n \in DOMAIN flushes :
    BeingRead(n, p) => /\ p \notin queued
                       /\ \A m \in DOMAIN flushes : BeingRead(m, p) => m = n

Underway ==
  \A p \in Parent :
    InFlight(p) => Held(p) # 0 /\ futures[Held(p)].state \in {"pending", "cancelled"}

Awaited ==
  \A p \in Parent : Held(p) # 0 /\ futures[Held(p)].state = "pending" => InFlight(p)

AskedFor ==
  \A p \in Parent : Held(p) # 0 => \E c \in Load : wants[c] = p /\ caller[c] # "idle"

LoadOK(c) ==
  /\ caller[c] = "idle" => future[c] = 0
  /\ caller[c] \in {"waiting", "answered"} => future[c] # 0
  /\ future[c] # 0 /\ futures[future[c]].state \in {"pending", "done"} => Held(wants[c]) = future[c]
  /\ caller[c] = "answered" =>
       futures[future[c]].state = "done" /\ got[c] = {futures[future[c]].rows}

LoaderInv ==
  /\ TypesOK
  /\ KeysApart /\ ReadOnce /\ Underway /\ Awaited /\ AskedFor
  /\ \A c \in Load : LoadOK(c)

(* What is known of a parent are its rows in one read.                     *)
RowsOK ==
  \A p \in Parent :
    Held(p) # 0 /\ futures[Held(p)].state = "done" =>
      \E read \in 1 .. Len(tables) : futures[Held(p)].rows = Selected({p}, tables[read], read)

USE DEF Callers, loaderVars, vars

------------------------------------------------------------------------------
(* Keys and cached futures.                                                *)

(* Parents have different cache keys, for the names of columns differ.     *)
LEMMA KeysDiffer ==
  ASSUME NEW p \in Parent, NEW q \in Parent, CacheKey(p) = CacheKey(q)
  PROVE  p = q
<1>1. ASSUME NEW i \in 1 .. Len(SourceNames) PROVE p[i] = q[i]
  <2>1. <<SourceNames[i], p[i]>> \in CacheKey(q)
    BY DEF CacheKey, KeyFromValues
  <2>2. PICK j \in 1 .. Len(SourceNames) : <<SourceNames[i], p[i]>> = <<SourceNames[j], q[j]>>
    BY <2>1 DEF CacheKey, KeyFromValues
  <2>3. SourceNames[i] = SourceNames[j] /\ p[i] = q[j]
    BY <2>2
  <2> QED BY <2>3, LoaderAssumption
<1>2. p = [i \in 1 .. Len(SourceNames) |-> p[i]] /\ q = [i \in 1 .. Len(SourceNames) |-> q[i]]
  BY LoaderAssumption
<1>3. [i \in 1 .. Len(SourceNames) |-> p[i]] = [i \in 1 .. Len(SourceNames) |-> q[i]]
  BY <1>1
<1> QED BY <1>2, <1>3

LEMMA KeysOfParents == \A p \in Parent : CacheKey(p) \in CacheKeys
  BY DEF CacheKeys

LEMMA HeldType ==
  ASSUME TypesOK
  PROVE  /\ \A p \in Parent : Held(p) \in 0 .. Len(futures)
         /\ \A i \in 1 .. Len(futures) : futures[i] \in Future
         /\ Len(futures) \in Nat
  BY KeysOfParents DEF TypesOK, Held

LEMMA FlushType ==
  ASSUME TypesOK, NEW n \in 1 .. Len(flushes)
  PROVE  flushes[n] \in FlushTask /\ flushes[n].keys \in SUBSET Parent
<1>1. flushes[n] \in FlushTask
  BY DEF TypesOK
<1> QED BY <1>1 DEF FlushTask

(* Only pending futures of the keys are settled, with the rows of a key.   *)
LEMMA Settled ==
  ASSUME NEW keys, NEW state, NEW rows, futures \in Seq(Future), Settle(keys, state, rows)
  PROVE  /\ Len(futures') = Len(futures) /\ DOMAIN futures' = 1 .. Len(futures)
         /\ \A i \in 1 .. Len(futures) :
              \/ /\ futures'[i] = futures[i]
                 /\ futures[i].state = "pending" => \A p \in keys : Held(p) # i
              \/ /\ futures[i].state = "pending"
                 /\ \E p \in keys : /\ Held(p) = i
                                    /\ futures'[i] = [state |-> state, rows |-> RowsFor(p, rows)]
<1>1. futures' = [i \in 1 .. Len(futures) |->
        IF \E p \in keys : Held(p) = i /\ futures[i].state = "pending"
          THEN [state |-> state, rows |-> LET p == CHOOSE p \in keys : Held(p) = i IN RowsFor(p, rows)]
          ELSE futures[i]]
  BY DEF Settle, Held
<1>2. Len(futures) \in Nat
  OBVIOUS
<1>3. Len(futures') = Len(futures) /\ DOMAIN futures' = 1 .. Len(futures)
  BY <1>1, <1>2
<1>4. ASSUME NEW i \in 1 .. Len(futures), ~ \E p \in keys : Held(p) = i /\ futures[i].state = "pending"
      PROVE  /\ futures'[i] = futures[i]
             /\ futures[i].state = "pending" => \A p \in keys : Held(p) # i
  BY <1>1, <1>4
<1>5. ASSUME NEW i \in 1 .. Len(futures), \E p \in keys : Held(p) = i /\ futures[i].state = "pending"
      PROVE  /\ futures[i].state = "pending"
             /\ \E p \in keys : /\ Held(p) = i
                                /\ futures'[i] = [state |-> state, rows |-> RowsFor(p, rows)]
  <2>1. PICK p : p = CHOOSE q \in keys : Held(q) = i
    OBVIOUS
  <2>2. p \in keys /\ Held(p) = i
    BY <1>5, <2>1
  <2>3. futures'[i] = [state |-> state, rows |-> RowsFor(p, rows)]
    BY <1>1, <1>5, <2>1
  <2> QED BY <1>5, <2>2, <2>3
<1> QED BY <1>3, <1>4, <1>5

LEMMA RowsForType ==
  ASSUME NEW p, NEW rows \in SUBSET Row
  PROVE  RowsFor(p, rows) \in SUBSET Row
  BY DEF RowsFor

------------------------------------------------------------------------------
(* The first load of a key.                                                *)
LEMMA LoadNewInv ==
  ASSUME LoaderInv, NEW c \in Load, LoadStarts(c), LoadNew(c)
  PROVE  LoaderInv'
<1> DEFINE p == wants[c]
           i == Len(futures) + 1
<1>1. /\ TypesOK /\ p \in Parent /\ caller[c] = "idle" /\ Held(p) = 0
      /\ Len(futures) \in Nat /\ i \in Nat /\ Len(futures') = i
  BY DEF LoaderInv, TypesOK, LoadStarts, LoadNew, Held, Pending
<1>2. /\ \A j \in 1 .. Len(futures) : futures'[j] = futures[j]
      /\ futures'[i] = Pending
  BY <1>1 DEF TypesOK, LoadNew
<1>3. /\ wants' = wants /\ flushes' = flushes /\ got' = got
      /\ queued' = queued \cup {p}
      /\ caller' = [caller EXCEPT ![c] = "waiting"]
      /\ future' = [future EXCEPT ![c] = i]
  BY <1>1 DEF LoadStarts, LoadNew
<1>4. \A q \in Parent : Held(q)' = IF q = p THEN i ELSE Held(q)
  <2>1. cache' = [cache EXCEPT ![CacheKey(p)] = i]
    BY <1>1 DEF LoadNew
  <2> QED BY <1>1, <2>1, KeysDiffer, KeysOfParents DEF Held, TypesOK
<1>5. \A q \in Parent : Held(q) \in 0 .. Len(futures)
  BY <1>1, HeldType
<1>6. TypesOK'
  <2>1. Pending \in Future
    BY DEF Pending, Future
  <2>2. futures' \in Seq(Future)
    BY <1>1, <2>1 DEF TypesOK, LoadNew
  <2>3. cache' \in [CacheKeys -> 0 .. i] /\ future' \in [Load -> 0 .. i]
    BY <1>1, KeysOfParents DEF TypesOK, LoadNew
  <2>4. tables' = tables
    BY DEF LoadStarts
  <2> QED BY <1>1, <1>3, <2>2, <2>3, <2>4 DEF TypesOK
<1>7. ~InFlight(p)
  BY <1>1 DEF LoaderInv, Underway
<1>8. \A q \in Parent : InFlight(q)' <=> InFlight(q) \/ q = p
  BY <1>3 DEF InFlight, BeingRead
<1>9. KeysApart'
  BY <1>1, <1>4, <1>5 DEF KeysApart, LoaderInv
<1>10. ReadOnce'
  BY <1>3, <1>7 DEF ReadOnce, LoaderInv, BeingRead, InFlight
<1>11. Underway'
  <2>1. ASSUME NEW q \in Parent, InFlight(q)'
        PROVE  Held(q)' # 0 /\ futures'[Held(q)'].state \in {"pending", "cancelled"}
    <3>1. CASE q = p
      BY <3>1, <1>1, <1>2, <1>4 DEF Pending
    <3>2. CASE q # p
      BY <3>2, <2>1, <1>2, <1>4, <1>5, <1>8 DEF LoaderInv, Underway
    <3> QED BY <3>1, <3>2
  <2> QED BY <2>1 DEF Underway
<1>12. Awaited'
  <2>1. ASSUME NEW q \in Parent, Held(q)' # 0, futures'[Held(q)'].state = "pending"
        PROVE  InFlight(q)'
    <3>1. CASE q # p
      BY <3>1, <2>1, <1>2, <1>4, <1>5, <1>8 DEF LoaderInv, Awaited
    <3> QED BY <3>1, <1>8
  <2> QED BY <2>1 DEF Awaited
<1>13. AskedFor'
  BY <1>1, <1>3, <1>4 DEF LoaderInv, AskedFor, TypesOK
<1>14. ASSUME NEW d \in Load PROVE LoadOK(d)'
  <2>1. CASE d = c
    BY <2>1, <1>1, <1>2, <1>3, <1>4 DEF LoadOK, TypesOK
  <2>2. CASE d # c
    <3>1. caller'[d] = caller[d] /\ future'[d] = future[d] /\ got'[d] = got[d] /\ wants'[d] = wants[d]
      BY <2>2, <1>1, <1>3 DEF TypesOK
    <3>2. future[d] \in 0 .. Len(futures) /\ wants[d] \in Parent
      BY <1>1 DEF TypesOK
    <3>3. future[d] # 0 => futures'[future[d]] = futures[future[d]]
      BY <3>2, <1>2
    <3>4. LoadOK(d)
      BY DEF LoaderInv
    <3>5. Held(wants[d])' = IF wants[d] = p THEN i ELSE Held(wants[d])
      BY <3>1, <3>2, <1>4, <1>3 DEF Held
    <3>6. /\ caller[d] = "idle" => future[d] = 0
          /\ caller[d] \in {"waiting", "answered"} => future[d] # 0
      BY <3>4 DEF LoadOK
    <3>7. ASSUME future[d] # 0, futures[future[d]].state \in {"pending", "done"}
          PROVE  Held(wants[d])' = future[d]
      BY <3>4, <3>5, <3>7, <1>1 DEF LoadOK
    <3>8. caller[d] = "answered" =>
            futures[future[d]].state = "done" /\ got[d] = {futures[future[d]].rows}
      BY <3>4 DEF LoadOK
    <3> QED BY <3>1, <3>3, <3>6, <3>7, <3>8 DEF LoadOK
  <2> QED BY <2>1, <2>2
<1> QED BY <1>6, <1>9, <1>10, <1>11, <1>12, <1>13, <1>14 DEF LoaderInv

(* A load that finds the future of its key.                                *)
LEMMA LoadCachedInv ==
  ASSUME LoaderInv, NEW c \in Load, LoadStarts(c), LoadCached(c)
  PROVE  LoaderInv'
<1>1. /\ wants' = wants /\ flushes' = flushes /\ got' = got /\ tables' = tables
      /\ queued' = queued /\ futures' = futures /\ cache' = cache
      /\ caller' = [caller EXCEPT ![c] = "waiting"]
      /\ future' = [future EXCEPT ![c] = Held(wants[c])]
      /\ Held(wants[c]) # 0
  BY DEF LoadStarts, LoadCached, Held
<1>2. TypesOK /\ wants[c] \in Parent
  BY DEF LoaderInv, TypesOK
<1>3. TypesOK'
  BY <1>1, <1>2, HeldType DEF TypesOK
<1>4. /\ \A p \in Parent : Held(p)' = Held(p)
      /\ \A p : InFlight(p)' = InFlight(p)
  BY <1>1 DEF Held, InFlight, BeingRead
<1>5. KeysApart' /\ ReadOnce' /\ Underway' /\ Awaited'
  BY <1>1, <1>4 DEF LoaderInv, KeysApart, ReadOnce, Underway, Awaited, BeingRead
<1>6. AskedFor'
  BY <1>1, <1>2, <1>4 DEF LoaderInv, AskedFor, TypesOK
<1>7. ASSUME NEW d \in Load PROVE LoadOK(d)'
  <2>1. CASE d = c
    BY <2>1, <1>1, <1>2, <1>4 DEF LoadOK, TypesOK
  <2>2. CASE d # c
    <3>1. caller'[d] = caller[d] /\ future'[d] = future[d] /\ got'[d] = got[d]
      BY <2>2, <1>1, <1>2 DEF TypesOK
    <3>2. Held(wants[d])' = Held(wants[d]) /\ LoadOK(d)
      BY <1>1, <1>2, <1>4 DEF TypesOK, LoaderInv
    <3> QED BY <1>1, <3>1, <3>2 DEF LoadOK
  <2> QED BY <2>1, <2>2
<1> QED BY <1>3, <1>5, <1>6, <1>7 DEF LoaderInv

(* The await of a load goes on.                                            *)
LEMMA LoadEndsInv ==
  ASSUME LoaderInv, NEW c \in Load, LoadEnds(c)
  PROVE  LoaderInv'
<1>1. /\ wants' = wants /\ future' = future /\ futures' = futures /\ cache' = cache
      /\ queued' = queued /\ flushes' = flushes /\ tables' = tables
      /\ caller[c] = "waiting"
  BY DEF LoadEnds
<1>2. TypesOK /\ DOMAIN got = Load
  BY DEF LoaderInv, TypesOK
<1>3. \/ /\ futures[future[c]].state = "done"
         /\ caller' = [caller EXCEPT ![c] = "answered"]
         /\ got' = [got EXCEPT ![c] = {futures[future[c]].rows}]
      \/ caller' = [caller EXCEPT ![c] = "failed"] /\ got' = got
  BY DEF LoadEnds
<1>4. TypesOK'
  BY <1>1, <1>2, <1>3 DEF TypesOK
<1>5. KeysApart' /\ ReadOnce' /\ Underway' /\ Awaited'
  BY <1>1 DEF LoaderInv, KeysApart, ReadOnce, Underway, Awaited, Held, InFlight, BeingRead
<1>6. AskedFor'
  BY <1>1, <1>2, <1>3 DEF LoaderInv, AskedFor, TypesOK, Held
<1>7. ASSUME NEW d \in Load PROVE LoadOK(d)'
  <2>1. LoadOK(d) /\ LoadOK(c) /\ Held(wants[d])' = Held(wants[d])
    BY <1>1 DEF LoaderInv, Held
  <2>2. CASE d = c
    BY <2>1, <2>2, <1>1, <1>2, <1>3 DEF LoadOK, TypesOK
  <2>3. CASE d # c
    <3>1. caller'[d] = caller[d] /\ got'[d] = got[d]
      BY <2>3, <1>2, <1>3 DEF TypesOK
    <3> QED BY <1>1, <2>1, <3>1 DEF LoadOK
  <2> QED BY <2>2, <2>3
<1> QED BY <1>4, <1>5, <1>6, <1>7 DEF LoaderInv

(* Cancelling touches pending futures only; what is in flight goes on.     *)
LEMMA RequestCancelledInv ==
  ASSUME LoaderInv, RequestCancelled
  PROVE  LoaderInv'
<1>1. /\ wants' = wants /\ future' = future /\ got' = got /\ cache' = cache
      /\ queued' = queued /\ flushes' = flushes /\ tables' = tables
  BY DEF RequestCancelled
<1>2. TypesOK /\ Len(futures) \in Nat
  BY DEF LoaderInv, TypesOK
<1>3. /\ Len(futures') = Len(futures) /\ futures' \in Seq(Future)
      /\ \A i \in 1 .. Len(futures) :
           \/ futures'[i] = futures[i]
           \/ futures[i].state = "pending" /\ futures'[i].state = "cancelled"
  <2>1. \A i \in 1 .. Len(futures) : futures[i] \in Future
    BY <1>2, HeldType
  <2>2. \A i \in 1 .. Len(futures) : [futures[i] EXCEPT !.state = "cancelled"] \in Future
    BY <2>1 DEF Future
  <2>3. futures' = [i \in 1 .. Len(futures) |->
          IF futures[i].state = "pending" /\ \E c \in Load : caller[c] = "waiting" /\ future[c] = i
            THEN [futures[i] EXCEPT !.state = "cancelled"] ELSE futures[i]]
    BY DEF RequestCancelled
  <2>4. \A i \in 1 .. Len(futures) : [futures[i] EXCEPT !.state = "cancelled"].state = "cancelled"
    BY <2>1 DEF Future
  <2> QED BY <1>2, <2>1, <2>2, <2>3, <2>4
<1>4. \A c \in Load : caller'[c] = IF caller[c] \in {"idle", "waiting"} THEN "cancelled" ELSE caller[c]
  BY DEF RequestCancelled
<1>5. TypesOK'
  <2>1. caller' \in [Load -> Callers]
    BY <1>2 DEF RequestCancelled, TypesOK
  <2> QED BY <1>1, <1>2, <1>3, <2>1 DEF TypesOK
<1>6. /\ \A p : Held(p)' = Held(p)
      /\ \A p : InFlight(p)' = InFlight(p)
      /\ \A n, p : BeingRead(n, p)' = BeingRead(n, p)
  BY <1>1 DEF Held, InFlight, BeingRead
<1>7. KeysApart' /\ ReadOnce'
  BY <1>1, <1>6 DEF LoaderInv, KeysApart, ReadOnce
<1>8. \A p \in Parent : Held(p) \in 0 .. Len(futures)
  BY <1>2, HeldType
<1>9. Underway' /\ Awaited'
  BY <1>3, <1>6, <1>8 DEF LoaderInv, Underway, Awaited
<1>10. AskedFor'
  BY <1>1, <1>4, <1>6 DEF LoaderInv, AskedFor
<1>11. ASSUME NEW c \in Load PROVE LoadOK(c)'
  <2>1. LoadOK(c) /\ future[c] \in 0 .. Len(futures) /\ caller[c] \in Callers
    BY <1>2 DEF LoaderInv, TypesOK
  <2>2. Held(wants[c])' = Held(wants[c])
    BY <1>1, <1>6 DEF Held
  <2>3. caller'[c] = "answered" => caller[c] = "answered"
    BY <1>4, <2>1
  <2>4. caller'[c] \notin {"idle", "waiting"}
    BY <1>4, <2>1
  <2>5. PICK f : f = future[c]
    OBVIOUS
  <2>6. f # 0 => futures'[f] = futures[f] \/ (futures[f].state = "pending" /\ futures'[f].state = "cancelled")
    BY <1>3, <2>1, <2>5
  <2>7. caller[c] = "answered" => f # 0 /\ futures[f].state = "done" /\ got[c] = {futures[f].rows}
    BY <2>1, <2>5 DEF LoadOK
  <2>8. f # 0 /\ futures'[f].state \in {"pending", "done"} => Held(wants[c]) = f
    BY <2>1, <2>5, <2>6 DEF LoadOK
  <2>9. caller'[c] = "answered" => futures'[f].state = "done" /\ got[c] = {futures'[f].rows} /\ f # 0
    BY <2>3, <2>6, <2>7
  <2> QED BY <1>1, <2>2, <2>4, <2>5, <2>8, <2>9 DEF LoadOK
<1> QED BY <1>5, <1>7, <1>9, <1>10, <1>11 DEF LoaderInv

(* Steps of a flush that leave the futures and the cache alone.            *)
LEMMA FlushMovesInv ==
  ASSUME LoaderInv, ScheduleFlush \/ \E n \in 1 .. Len(flushes) : FlushStarts(n)
  PROVE  LoaderInv'
<1>1. /\ wants' = wants /\ future' = future /\ got' = got /\ cache' = cache
      /\ caller' = caller /\ futures' = futures /\ tables' = tables
  BY DEF ScheduleFlush, FlushStarts
<1>2. TypesOK
  BY DEF LoaderInv
<1>3. flushes' \in Seq(FlushTask) /\ queued' \in SUBSET Parent
  <2>1. CASE ScheduleFlush
    <3>1. [state |-> "created", keys |-> {}] \in FlushTask
      BY DEF FlushTask
    <3> QED BY <2>1, <3>1, <1>2 DEF ScheduleFlush, TypesOK
  <2>2. ASSUME NEW n \in 1 .. Len(flushes), FlushStarts(n)
        PROVE  flushes' \in Seq(FlushTask) /\ queued' \in SUBSET Parent
    <3>1. [state |-> "reading", keys |-> queued] \in FlushTask
      BY <1>2 DEF FlushTask, TypesOK
    <3> QED BY <2>2, <3>1, <1>2 DEF FlushStarts, TypesOK
  <2> QED BY <2>1, <2>2
<1>4. TypesOK'
  BY <1>1, <1>2, <1>3 DEF TypesOK
<1>5. (\A p : InFlight(p)' <=> InFlight(p)) /\ ReadOnce'
  <2>1. CASE ScheduleFlush
    <3>1. queued' = queued /\ flushes' = Append(flushes, [state |-> "created", keys |-> {}])
      BY <2>1 DEF ScheduleFlush
    <3>2. /\ Len(flushes) \in Nat /\ DOMAIN flushes = 1 .. Len(flushes)
          /\ DOMAIN flushes' = 1 .. Len(flushes) + 1
          /\ \A n \in DOMAIN flushes : flushes'[n] = flushes[n]
          /\ flushes'[Len(flushes) + 1].state = "created"
      BY <3>1, <1>2 DEF TypesOK
    <3>3. \A n, p : n \in DOMAIN flushes' /\ BeingRead(n, p)' <=> n \in DOMAIN flushes /\ BeingRead(n, p)
      BY <3>2 DEF BeingRead
    <3>4. \A p : InFlight(p)' <=> InFlight(p)
      BY <3>1, <3>3 DEF InFlight
    <3>5. ReadOnce'
      BY <3>1, <3>3 DEF LoaderInv, ReadOnce
    <3> QED BY <3>4, <3>5
  <2>2. ASSUME NEW n \in 1 .. Len(flushes), FlushStarts(n)
        PROVE  (\A p : InFlight(p)' <=> InFlight(p)) /\ ReadOnce'
    <3>1. /\ queued' = {} /\ flushes[n].state = "created"
          /\ flushes' = [flushes EXCEPT ![n] = [state |-> "reading", keys |-> queued]]
      BY <2>2 DEF FlushStarts
    <3>2. /\ DOMAIN flushes' = DOMAIN flushes /\ n \in DOMAIN flushes
          /\ \A m \in DOMAIN flushes : m # n => flushes'[m] = flushes[m]
          /\ flushes'[n].state = "reading" /\ flushes'[n].keys = queued
      BY <3>1, <1>2 DEF TypesOK
    <3>3. \A m \in DOMAIN flushes : \A p :
            BeingRead(m, p)' <=> IF m = n THEN p \in queued ELSE BeingRead(m, p)
      BY <3>2 DEF BeingRead
    <3>4. \A p : ~BeingRead(n, p)
      BY <3>1 DEF BeingRead
    <3>5. \A p : InFlight(p)' <=> InFlight(p)
      BY <3>1, <3>2, <3>3, <3>4 DEF InFlight
    <3>6. ReadOnce'
      BY <3>1, <3>2, <3>3, <3>4 DEF LoaderInv, ReadOnce
    <3> QED BY <3>5, <3>6
  <2> QED BY <2>1, <2>2
<1>6. \A p : Held(p)' = Held(p)
  BY <1>1 DEF Held
<1>7. KeysApart' /\ Underway' /\ Awaited' /\ AskedFor'
  BY <1>1, <1>5, <1>6 DEF LoaderInv, KeysApart, Underway, Awaited, AskedFor
<1>8. \A c \in Load : LoadOK(c)'
  BY <1>1 DEF LoaderInv, LoadOK, Held
<1> QED BY <1>4, <1>5, <1>7, <1>8 DEF LoaderInv

(* A flush that is over has settled its keys, and no other; when it fails, *)
(* they leave the cache.                                                   *)
LEMMA FlushEndsInv ==
  ASSUME LoaderInv, NEW n \in 1 .. Len(flushes), flushes[n].state = "reading",
         NEW state \in {"done", "failed"}, NEW rows \in SUBSET Row,
         Settle(flushes[n].keys, state, rows),
         flushes' = [flushes EXCEPT ![n].state = state],
         tables' \in Seq(SUBSET Parent),
         cache' = [k \in CacheKeys |->
           IF state = "failed" /\ \E p \in flushes[n].keys : CacheKey(p) = k THEN 0 ELSE cache[k]],
         UNCHANGED <<wants, caller, future, got, queued>>
  PROVE  LoaderInv'
<1> DEFINE keys == flushes[n].keys
<1>1. TypesOK /\ Len(futures) \in Nat /\ flushes[n] \in FlushTask /\ keys \in SUBSET Parent
  <2>1. TypesOK
    BY DEF LoaderInv
  <2>2. Len(futures) \in Nat
    BY <2>1 DEF TypesOK
  <2> QED BY <2>1, <2>2, FlushType
<1>2. /\ Len(futures') = Len(futures) /\ DOMAIN futures' = 1 .. Len(futures)
      /\ \A i \in 1 .. Len(futures) :
           \/ /\ futures'[i] = futures[i]
              /\ futures[i].state = "pending" => \A p \in keys : Held(p) # i
           \/ /\ futures[i].state = "pending"
              /\ \E p \in keys : /\ Held(p) = i
                                 /\ futures'[i] = [state |-> state, rows |-> RowsFor(p, rows)]
  <2>1. futures \in Seq(Future)
    BY <1>1 DEF TypesOK
  <2> QED BY <2>1, Settled
<1>3. \A p \in Parent : Held(p)' = IF state = "failed" /\ p \in keys THEN 0 ELSE Held(p)
  BY <1>1, KeysDiffer, KeysOfParents DEF Held
<1>4. \A p \in Parent : Held(p) \in 0 .. Len(futures)
  BY <1>1, HeldType
<1>5. /\ DOMAIN flushes' = DOMAIN flushes /\ n \in DOMAIN flushes
      /\ \A m \in DOMAIN flushes : \A p : BeingRead(m, p)' <=> m # n /\ BeingRead(m, p)
  <2>1. /\ DOMAIN flushes' = DOMAIN flushes /\ n \in DOMAIN flushes
        /\ \A m \in DOMAIN flushes : m # n => flushes'[m] = flushes[m]
        /\ flushes'[n].state = state
    BY <1>1 DEF TypesOK, FlushTask
  <2> QED BY <2>1 DEF BeingRead
<1>6. \A p \in keys : BeingRead(n, p) /\ InFlight(p)
  BY <1>5 DEF BeingRead, InFlight
<1>7. \A p \in Parent : InFlight(p)' <=> InFlight(p) /\ p \notin keys
  <2>1. ASSUME NEW p \in Parent, p \in keys PROVE ~InFlight(p)'
    BY <2>1, <1>5, <1>6 DEF LoaderInv, ReadOnce, InFlight
  <2>2. ASSUME NEW p \in Parent, p \notin keys PROVE InFlight(p)' <=> InFlight(p)
    BY <2>2, <1>5 DEF InFlight, BeingRead
  <2> QED BY <2>1, <2>2
<1>8. TypesOK'
  <2>1. \A i \in 1 .. Len(futures) : futures'[i] \in Future
    <3>1. \A i \in 1 .. Len(futures) : futures[i] \in Future
      BY <1>1, HeldType
    <3>2. \A p : [state |-> state, rows |-> RowsFor(p, rows)] \in Future
      BY RowsForType DEF Future
    <3> QED BY <1>2, <3>1, <3>2
  <2>2. futures' \in Seq(Future)
    <3>1. futures' = [i \in 1 .. Len(futures) |-> futures'[i]]
      BY <1>1, <1>2 DEF Settle
    <3> QED BY <1>1, <2>1, <3>1
  <2>3. cache' \in [CacheKeys -> 0 .. Len(futures)]
    BY <1>1 DEF TypesOK
  <2>4. flushes' \in Seq(FlushTask)
    <3>1. [flushes[n] EXCEPT !.state = state] \in FlushTask
      BY <1>1 DEF FlushTask
    <3> QED BY <1>1, <3>1 DEF TypesOK
  <2> QED BY <1>1, <1>2, <2>2, <2>3, <2>4 DEF TypesOK
<1>9. KeysApart'
  BY <1>3 DEF LoaderInv, KeysApart
<1>10. ReadOnce'
  BY <1>5 DEF LoaderInv, ReadOnce
<1>11. Underway'
  <2>1. ASSUME NEW q \in Parent, InFlight(q)'
        PROVE  Held(q)' # 0 /\ futures'[Held(q)'].state \in {"pending", "cancelled"}
    <3>1. q \notin keys /\ InFlight(q) /\ Held(q)' = Held(q)
      BY <2>1, <1>3, <1>7
    <3>2. Held(q) # 0 /\ futures[Held(q)].state \in {"pending", "cancelled"}
      BY <3>1 DEF LoaderInv, Underway
    <3>3. \A p \in keys : Held(p) # Held(q)
      BY <3>1, <3>2, <1>1 DEF LoaderInv, KeysApart
    <3>4. futures'[Held(q)] = futures[Held(q)]
      BY <3>2, <3>3, <1>2, <1>4
    <3> QED BY <3>1, <3>2, <3>4
  <2> QED BY <2>1 DEF Underway
<1>12. Awaited'
  <2>1. ASSUME NEW q \in Parent, Held(q)' # 0, futures'[Held(q)'].state = "pending"
        PROVE  InFlight(q)'
    <3>1. Held(q)' = Held(q) /\ Held(q) \in 1 .. Len(futures)
      BY <2>1, <1>3, <1>4
    <3>2. futures'[Held(q)] = futures[Held(q)] /\ q \notin keys
      BY <2>1, <3>1, <1>2
    <3>3. InFlight(q)
      BY <2>1, <3>1, <3>2 DEF LoaderInv, Awaited
    <3> QED BY <3>2, <3>3, <1>7
  <2> QED BY <2>1 DEF Awaited
<1>13. AskedFor'
  BY <1>3 DEF LoaderInv, AskedFor
<1>14. ASSUME NEW c \in Load PROVE LoadOK(c)'
  <2>1. LoadOK(c) /\ future[c] \in 0 .. Len(futures) /\ wants[c] \in Parent
    BY <1>1 DEF LoaderInv, TypesOK
  <2>2. PICK f, q : f = future[c] /\ q = wants[c]
    OBVIOUS
  <2>3. /\ caller[c] = "idle" => f = 0
        /\ caller[c] \in {"waiting", "answered"} => f # 0
        /\ f # 0 /\ futures[f].state \in {"pending", "done"} => Held(q) = f
        /\ caller[c] = "answered" => futures[f].state = "done" /\ got[c] = {futures[f].rows}
    BY <2>1, <2>2 DEF LoadOK
  <2>4. ASSUME f # 0, futures'[f].state \in {"pending", "done"} PROVE Held(q)' = f
    <3>1. f \in 1 .. Len(futures) /\ q \in Parent
      BY <2>1, <2>2, <2>4
    <3>2. CASE futures'[f] = futures[f] /\ (futures[f].state = "pending" => \A p \in keys : Held(p) # f)
      <4>1. Held(q) = f
        BY <2>3, <2>4, <3>2
      <4>2. q \notin keys
        BY <2>4, <3>1, <3>2, <4>1, <1>6 DEF LoaderInv, Underway
      <4> QED BY <3>1, <4>1, <4>2, <1>3
    <3>3. CASE /\ futures[f].state = "pending"
               /\ \E p \in keys : /\ Held(p) = f
                                  /\ futures'[f] = [state |-> state, rows |-> RowsFor(p, rows)]
      <4>1. Held(q) = f /\ state = "done"
        BY <2>3, <2>4, <3>3
      <4> QED BY <3>1, <4>1, <1>3
    <3> QED BY <3>1, <3>2, <3>3, <1>2
  <2>5. caller[c] = "answered" => futures'[f].state = "done" /\ got[c] = {futures'[f].rows}
    <3>1. f \in 0 .. Len(futures)
      BY <2>1, <2>2
    <3> QED BY <2>3, <3>1, <1>2
  <2>6. Held(wants[c])' = Held(q)'
    BY <2>2 DEF Held
  <2> QED BY <2>2, <2>3, <2>4, <2>5, <2>6 DEF LoadOK
<1> QED BY <1>8, <1>9, <1>10, <1>11, <1>12, <1>13, <1>14 DEF LoaderInv

LEMMA SelectedType ==
  ASSUME TypesOK, NEW n \in 1 .. Len(flushes), NEW table \in SUBSET Parent
  PROVE  Selected(flushes[n].keys, table, Len(tables) + 1) \in SUBSET Row
<1>1. flushes[n].keys \in SUBSET Parent
  BY FlushType DEF FlushTask
<1>2. Len(tables) + 1 \in Nat \ {0}
  <2>1. tables \in Seq(SUBSET Parent)
    BY DEF TypesOK
  <2> QED BY <2>1, LenProperties
<1> QED BY <1>1, <1>2 DEF Selected, Row

LEMMA FlushSucceedsInv ==
  ASSUME LoaderInv, NEW n \in 1 .. Len(flushes), FlushSucceeds(n)
  PROVE  LoaderInv'
<1>1. PICK table \in SUBSET Parent :
        /\ tables' = Append(tables, table)
        /\ Settle(flushes[n].keys, "done", Selected(flushes[n].keys, table, Len(tables) + 1))
  BY DEF FlushSucceeds
<1>2. PICK rows : rows = Selected(flushes[n].keys, table, Len(tables) + 1)
  OBVIOUS
<1>3. rows \in SUBSET Row /\ Settle(flushes[n].keys, "done", rows)
  BY <1>1, <1>2, SelectedType DEF LoaderInv
<1>4. tables' \in Seq(SUBSET Parent)
  BY <1>1 DEF LoaderInv, TypesOK
<1>5. PICK state : state = "done"
  OBVIOUS
<1>6. cache' = [k \in CacheKeys |->
        IF state = "failed" /\ \E p \in flushes[n].keys : CacheKey(p) = k THEN 0 ELSE cache[k]]
  BY <1>5 DEF FlushSucceeds, LoaderInv, TypesOK
<1>7. /\ flushes[n].state = "reading" /\ flushes' = [flushes EXCEPT ![n].state = state]
      /\ UNCHANGED <<wants, caller, future, got, queued>>
  BY <1>5 DEF FlushSucceeds
<1> QED BY <1>3, <1>4, <1>5, <1>6, <1>7, FlushEndsInv

LEMMA FlushFailsInv ==
  ASSUME LoaderInv, NEW n \in 1 .. Len(flushes), FlushFails(n)
  PROVE  LoaderInv'
<1>1. tables' \in Seq(SUBSET Parent)
  BY DEF FlushFails, LoaderInv, TypesOK
<1>2. PICK state : state = "failed"
  OBVIOUS
<1>3. PICK rows : rows = {}
  OBVIOUS
<1>4. /\ flushes[n].state = "reading" /\ flushes' = [flushes EXCEPT ![n].state = state]
      /\ Settle(flushes[n].keys, state, rows)
      /\ cache' = [k \in CacheKeys |->
           IF state = "failed" /\ \E p \in flushes[n].keys : CacheKey(p) = k THEN 0 ELSE cache[k]]
      /\ UNCHANGED <<wants, caller, future, got, queued>>
  BY <1>2, <1>3 DEF FlushFails
<1>5. state \in {"done", "failed"} /\ rows \in SUBSET Row
  BY <1>2, <1>3
<1> QED BY <1>1, <1>4, <1>5, FlushEndsInv

LEMMA LoaderInvInit == Init => LoaderInv
<1> SUFFICES ASSUME Init PROVE LoaderInv
  OBVIOUS
<1>1. \A p \in Parent : Held(p) = 0 /\ ~InFlight(p)
  BY KeysOfParents DEF Init, Held, InFlight, BeingRead
<1>2. TypesOK
  BY DEF Init, TypesOK
<1>3. KeysApart /\ Underway /\ Awaited /\ AskedFor
  BY <1>1 DEF KeysApart, Underway, Awaited, AskedFor
<1>4. ReadOnce
  BY DEF Init, ReadOnce, BeingRead
<1>5. \A c \in Load : LoadOK(c)
  BY DEF Init, LoadOK
<1> QED BY <1>2, <1>3, <1>4, <1>5 DEF LoaderInv

LEMMA LoaderInvNext == LoaderInv /\ [Next]_vars => LoaderInv'
<1> SUFFICES ASSUME LoaderInv, [Next]_vars PROVE LoaderInv'
  OBVIOUS
<1>1. ASSUME NEW c \in Load, LoadStarts(c) PROVE LoaderInv'
  BY <1>1, LoadNewInv, LoadCachedInv DEF LoadStarts
<1>2. ASSUME NEW c \in Load, LoadEnds(c) PROVE LoaderInv'
  BY <1>2, LoadEndsInv
<1>3. CASE ScheduleFlush
  BY <1>3, FlushMovesInv
<1>4. ASSUME NEW n \in 1 .. Len(flushes), FlushStarts(n) PROVE LoaderInv'
  BY <1>4, FlushMovesInv
<1>5. ASSUME NEW n \in 1 .. Len(flushes), FlushSucceeds(n) PROVE LoaderInv'
  BY <1>5, FlushSucceedsInv
<1>6. ASSUME NEW n \in 1 .. Len(flushes), FlushFails(n) PROVE LoaderInv'
  BY <1>6, FlushFailsInv
<1>7. CASE RequestCancelled
  BY <1>7, RequestCancelledInv
<1>8. CASE UNCHANGED vars
  BY <1>8 DEF LoaderInv, TypesOK, KeysApart, ReadOnce, Underway, Awaited, AskedFor, LoadOK,
              Held, InFlight, BeingRead
<1> QED BY <1>1, <1>2, <1>3, <1>4, <1>5, <1>6, <1>7, <1>8 DEF Next, FlushStep

(* At every step: what is queued or being read has a future that is not    *)
(* settled, each key in one place, and what a load awaits is in the cache  *)
(* unless it has failed.                                                   *)
THEOREM LoaderInvariant == Spec => []LoaderInv
BY LoaderInvInit, LoaderInvNext, PTL DEF Spec

------------------------------------------------------------------------------
(* A parent whose read is pending is in one place: in the queue, or in one *)
(* flush; so no flush fails or answers the loads of another.               *)
THEOREM ReadsDoNotOverlap == Spec => []OneReadAtATime
<1>1. LoaderInv => OneReadAtATime
  <2> SUFFICES ASSUME LoaderInv, NEW p \in Parent
               PROVE  LET f == cache[CacheKey(p)]
                          places == (IF p \in queued THEN 1 ELSE 0)
                                      + Cardinality({n \in Reading : p \in flushes[n].keys})
                      IN  /\ places <= 1
                          /\ f # 0 /\ futures[f].state = "pending" => places = 1
    BY DEF OneReadAtATime
  <2>1. DOMAIN flushes = 1 .. Len(flushes)
    BY DEF LoaderInv, TypesOK
  <2>2. PICK readers : readers = {n \in Reading : p \in flushes[n].keys}
    OBVIOUS
  <2>3. readers = {n \in DOMAIN flushes : BeingRead(n, p)}
    BY <2>1, <2>2 DEF Reading, BeingRead
  <2>4. ASSUME NEW n \in readers
        PROVE  p \notin queued /\ Cardinality(readers) = 1
    <3>1. p \notin queued /\ readers = {n}
      BY <2>3, <2>4 DEF LoaderInv, ReadOnce
    <3> QED BY <3>1, FS_Singleton
  <2>5. readers = {} => Cardinality(readers) = 0
    BY FS_EmptySet
  <2>6. Held(p) # 0 /\ futures[Held(p)].state = "pending" => p \in queued \/ readers # {}
    BY <2>3 DEF LoaderInv, Awaited, InFlight
  <2>7. CASE readers = {}
    BY <2>2, <2>5, <2>6, <2>7 DEF Held
  <2>8. CASE readers # {}
    BY <2>2, <2>4, <2>8
  <2> QED BY <2>7, <2>8
<1> QED BY <1>1, LoaderInvariant, PTL

(* A future that has an answer, has failed or was cancelled stays as it is. *)
THEOREM FuturesAreSettledOnce == Spec => FuturesSettleOnce
<1>1. LoaderInv /\ [Next]_vars =>
        [\A i \in 1 .. Len(futures) :
           futures[i].state # "pending" => futures'[i] = futures[i]]_vars
  <2> SUFFICES ASSUME LoaderInv, [Next]_vars, NEW i \in 1 .. Len(futures), futures[i].state # "pending"
               PROVE  futures'[i] = futures[i]
    OBVIOUS
  <2>1. futures \in Seq(Future)
    BY DEF LoaderInv, TypesOK
  <2>2. ASSUME NEW c \in Load, LoadStarts(c) PROVE futures'[i] = futures[i]
    BY <2>1, <2>2 DEF LoadStarts, LoadNew, LoadCached
  <2>3. CASE RequestCancelled
    BY <2>3 DEF RequestCancelled
  <2>4. ASSUME NEW n \in 1 .. Len(flushes), FlushSucceeds(n) PROVE futures'[i] = futures[i]
    BY <2>1, <2>4, Settled DEF FlushSucceeds
  <2>5. ASSUME NEW n \in 1 .. Len(flushes), FlushFails(n) PROVE futures'[i] = futures[i]
    BY <2>1, <2>5, Settled DEF FlushFails
  <2>6. ASSUME UNCHANGED futures PROVE futures'[i] = futures[i]
    BY <2>6
  <2> QED BY <2>2, <2>3, <2>4, <2>5, <2>6 DEF Next, FlushStep, LoadEnds, ScheduleFlush, FlushStarts
<1> QED BY <1>1, LoaderInvariant, PTL DEF Spec, FuturesSettleOnce

------------------------------------------------------------------------------
(* Grouping by key finds the rows of a parent, when both sides of the      *)
(* relation name their columns alike.                                      *)
LEMMA RowsOfParent ==
  ASSUME SourceNames = TargetNames, NEW keys \in SUBSET Parent, NEW p \in keys,
         NEW table, NEW read
  PROVE  RowsFor(p, Selected(keys, table, read)) = Selected({p}, table, read)
<1>1. \A v \in keys : KeyFromValues(TargetNames, v) = CacheKey(v)
  BY DEF CacheKey
<1>2. \A v \in keys : KeyFromValues(TargetNames, v) = CacheKey(p) <=> v = p
  BY <1>1, KeysDiffer
<1>3. RowsFor(p, Selected(keys, table, read))
        = {row \in {[values |-> v, read |-> read] : v \in keys \cap table} :
             KeyFromValues(TargetNames, row.values) = CacheKey(p)}
  BY DEF RowsFor, Selected
<1>4. Selected({p}, table, read) = {[values |-> v, read |-> read] : v \in {p} \cap table}
  BY DEF Selected
<1> QED BY <1>2, <1>3, <1>4

LEMMA RowsOKNext ==
  ASSUME SourceNames = TargetNames
  PROVE  LoaderInv /\ LoaderInv' /\ RowsOK /\ [Next]_vars => RowsOK'
<1> SUFFICES ASSUME LoaderInv, LoaderInv', RowsOK, [Next]_vars,
                    NEW p \in Parent, Held(p)' # 0, futures'[Held(p)'].state = "done"
             PROVE  \E read \in 1 .. Len(tables') :
                      futures'[Held(p)'].rows = Selected({p}, tables'[read], read)
  BY DEF RowsOK
<1>1. /\ futures \in Seq(Future) /\ tables \in Seq(SUBSET Parent) /\ Len(tables) \in Nat
      /\ Held(p) \in 0 .. Len(futures)
  BY HeldType DEF LoaderInv, TypesOK
<1>2. ASSUME Held(p)' = Held(p), futures'[Held(p)] = futures[Held(p)],
             \/ tables' = tables
             \/ \E table : tables' = Append(tables, table)
      PROVE  \E read \in 1 .. Len(tables') :
               futures'[Held(p)'].rows = Selected({p}, tables'[read], read)
  <2>1. PICK read \in 1 .. Len(tables) : futures[Held(p)].rows = Selected({p}, tables[read], read)
    BY <1>2 DEF RowsOK
  <2>2. read \in 1 .. Len(tables') /\ tables'[read] = tables[read]
    BY <1>1, <1>2
  <2> QED BY <1>2, <2>1, <2>2
<1>3. ASSUME NEW c \in Load, LoadStarts(c), LoadNew(c)
      PROVE  Held(p)' = Held(p) /\ futures'[Held(p)] = futures[Held(p)] /\ tables' = tables
  <2>1. /\ cache' = [cache EXCEPT ![CacheKey(wants[c])] = Len(futures')]
        /\ futures' = Append(futures, Pending) /\ tables' = tables
        /\ wants[c] \in Parent
    BY <1>3 DEF LoadStarts, LoadNew, LoaderInv, TypesOK
  <2>2. futures'[Len(futures')] = Pending /\ Len(futures') = Len(futures) + 1
    BY <1>1, <2>1
  <2>3. p # wants[c]
    BY <1>1, <2>1, <2>2, KeysOfParents DEF Held, Pending, LoaderInv, TypesOK
  <2>4. Held(p)' = Held(p)
    BY <2>1, <2>3, KeysDiffer, KeysOfParents DEF Held, LoaderInv, TypesOK
  <2> QED BY <1>1, <2>1, <2>4
<1>4. ASSUME UNCHANGED <<futures, cache, tables>>
      PROVE  Held(p)' = Held(p) /\ futures'[Held(p)] = futures[Held(p)] /\ tables' = tables
  BY <1>4 DEF Held
<1>5. ASSUME RequestCancelled
      PROVE  Held(p)' = Held(p) /\ futures'[Held(p)] = futures[Held(p)] /\ tables' = tables
  <2>1. Held(p)' = Held(p) /\ tables' = tables
    BY <1>5 DEF RequestCancelled, Held
  <2>2. \A i \in 1 .. Len(futures) :
          futures'[i] = futures[i] \/ futures'[i] = [futures[i] EXCEPT !.state = "cancelled"]
    BY <1>5 DEF RequestCancelled
  <2>3. \A i \in 1 .. Len(futures) : [futures[i] EXCEPT !.state = "cancelled"].state = "cancelled"
    BY <1>1, HeldType DEF Future, LoaderInv
  <2>4. Held(p) \in 1 .. Len(futures) /\ futures'[Held(p)].state = "done"
    BY <1>1, <2>1
  <2>5. futures'[Held(p)] = futures[Held(p)]
    <3>1. PICK i \in 1 .. Len(futures) : i = Held(p)
      BY <2>4
    <3>2. futures'[i] # [futures[i] EXCEPT !.state = "cancelled"]
      BY <2>3, <2>4, <3>1
    <3> QED BY <2>2, <3>1, <3>2
  <2> QED BY <2>1, <2>5
<1>6. ASSUME NEW n \in 1 .. Len(flushes), FlushFails(n)
      PROVE  Held(p)' = Held(p) /\ futures'[Held(p)] = futures[Held(p)] /\ tables' = tables
  <2>1. Settle(flushes[n].keys, "failed", {}) /\ tables' = tables
        /\ cache' = [k \in CacheKeys |->
             IF \E q \in flushes[n].keys : CacheKey(q) = k THEN 0 ELSE cache[k]]
    BY <1>6 DEF FlushFails
  <2>2. Held(p)' = Held(p)
    BY <2>1, KeysOfParents DEF Held
  <2>3. PICK i \in 1 .. Len(futures) : i = Held(p)
    BY <1>1, <2>2
  <2>4. futures'[i].state = "done"
    BY <2>2, <2>3
  <2>5. PICK keys, rows : Settle(keys, "failed", rows)
    BY <2>1
  <2>6. \/ futures'[i] = futures[i]
        \/ \E q \in keys : futures'[i] = [state |-> "failed", rows |-> RowsFor(q, rows)]
    BY <1>1, <2>5, Settled
  <2>7. ASSUME NEW q, futures'[i] = [state |-> "failed", rows |-> RowsFor(q, rows)] PROVE FALSE
    <3>1. [state |-> "failed", rows |-> RowsFor(q, rows)].state = "failed"
      OBVIOUS
    <3>2. futures'[i].state = "failed"
      BY <2>7, <3>1, Zenon
    <3> QED BY <2>4, <3>2
  <2>8. futures'[i] = futures[i]
    BY <2>6, <2>7
  <2> QED BY <2>1, <2>2, <2>3, <2>8
<1>7. ASSUME NEW n \in 1 .. Len(flushes), FlushSucceeds(n)
      PROVE  \E read \in 1 .. Len(tables') :
               futures'[Held(p)'].rows = Selected({p}, tables'[read], read)
  <2>1. PICK table \in SUBSET Parent :
          /\ tables' = Append(tables, table)
          /\ Settle(flushes[n].keys, "done", Selected(flushes[n].keys, table, Len(tables) + 1))
    BY <1>7 DEF FlushSucceeds
  <2>2. Held(p)' = Held(p) /\ Held(p) \in 1 .. Len(futures)
    BY <1>1, <1>7 DEF FlushSucceeds, Held
  <2>3. CASE futures'[Held(p)] = futures[Held(p)]
    BY <2>1, <2>2, <2>3, <1>2
  <2>4. CASE \E q \in flushes[n].keys :
               /\ Held(q) = Held(p)
               /\ futures'[Held(p)] =
                    [state |-> "done",
                     rows |-> RowsFor(q, Selected(flushes[n].keys, table, Len(tables) + 1))]
    <3>1. flushes[n].keys \in SUBSET Parent
      BY FlushType DEF LoaderInv
    <3>2. /\ p \in flushes[n].keys
          /\ futures'[Held(p)].rows = RowsFor(p, Selected(flushes[n].keys, table, Len(tables) + 1))
      BY <2>2, <2>4, <3>1 DEF LoaderInv, KeysApart
    <3>3. futures'[Held(p)].rows = Selected({p}, table, Len(tables) + 1)
      BY <3>1, <3>2, RowsOfParent
    <3>4. Len(tables) + 1 \in 1 .. Len(tables') /\ tables'[Len(tables) + 1] = table
      BY <1>1, <2>1
    <3> QED BY <2>2, <3>3, <3>4
  <2>5. PICK rows : rows = Selected(flushes[n].keys, table, Len(tables) + 1)
    OBVIOUS
  <2>6. Settle(flushes[n].keys, "done", rows)
    BY <2>1, <2>5
  <2>7. \/ futures'[Held(p)] = futures[Held(p)]
        \/ \E q \in flushes[n].keys :
             Held(q) = Held(p) /\ futures'[Held(p)] = [state |-> "done", rows |-> RowsFor(q, rows)]
    BY <1>1, <2>2, <2>6, Settled
  <2> QED BY <2>3, <2>4, <2>5, <2>7
<1>8. CASE \E c \in Load : LoadStarts(c) \/ LoadEnds(c)
  BY <1>2, <1>3, <1>4, <1>8 DEF LoadStarts, LoadCached, LoadEnds
<1>9. CASE ScheduleFlush \/ RequestCancelled \/ UNCHANGED vars
  BY <1>2, <1>4, <1>5, <1>9 DEF ScheduleFlush
<1>10. ASSUME NEW n \in 1 .. Len(flushes), FlushStep(n)
       PROVE  \E read \in 1 .. Len(tables') :
                futures'[Held(p)'].rows = Selected({p}, tables'[read], read)
  BY <1>2, <1>4, <1>6, <1>7, <1>10 DEF FlushStep, FlushStarts
<1> QED BY <1>8, <1>9, <1>10 DEF Next

(* A resolver that is answered gets the rows of its own parent, all of them *)
(* and from one read, when both sides of the relation name their columns    *)
(* alike.                                                                   *)
THEOREM AnswersAreOfTheParent ==
  ASSUME SourceNames = TargetNames
  PROVE  Spec => []RowsReachParents
<1>1. Init => RowsOK
  BY KeysOfParents DEF Init, RowsOK, Held
<1>2. LoaderInv /\ LoaderInv' /\ RowsOK /\ [Next]_vars => RowsOK'
  BY RowsOKNext
<1>3. LoaderInv /\ RowsOK => RowsReachParents
  <2> SUFFICES ASSUME LoaderInv, RowsOK, NEW c \in Load, caller[c] = "answered"
               PROVE  \E read \in 1 .. Len(tables) :
                        got[c] = {Selected({wants[c]}, tables[read], read)}
    BY DEF RowsReachParents
  <2>1. /\ future[c] # 0 /\ Held(wants[c]) = future[c]
        /\ futures[future[c]].state = "done" /\ got[c] = {futures[future[c]].rows}
    BY DEF LoaderInv, LoadOK
  <2>2. wants[c] \in Parent
    BY DEF LoaderInv, TypesOK
  <2> QED BY <2>1, <2>2 DEF RowsOK
<1> QED BY <1>1, <1>2, <1>3, LoaderInvariant, PTL DEF Spec

------------------------------------------------------------------------------
(* Every step of the loader is a step of KeyedReads, or leaves callers,    *)
(* answers and what is known of the keys as they are.                      *)
LEMMA KnownOf ==
  \A p \in Parent :
    Known[p] = IF Held(p) # 0 /\ futures[Held(p)].state = "done" THEN {futures[Held(p)].rows} ELSE {}
  BY DEF Known, Held

LEMMA KnownStays ==
  ASSUME \A p \in Parent :
           (Held(p)' # 0 /\ futures'[Held(p)'].state = "done"
              <=> Held(p) # 0 /\ futures[Held(p)].state = "done")
           /\ (Held(p) # 0 /\ futures[Held(p)].state = "done" =>
                 futures'[Held(p)'].rows = futures[Held(p)].rows)
  PROVE  Known' = Known
<1>1. Known = [p \in Parent |->
        IF Held(p) # 0 /\ futures[Held(p)].state = "done" THEN {futures[Held(p)].rows} ELSE {}]
  BY DEF Known, Held
<1>2. Known' = [p \in Parent |->
        IF Held(p)' # 0 /\ futures'[Held(p)'].state = "done" THEN {futures'[Held(p)'].rows} ELSE {}]
  BY DEF Known, Held
<1> QED BY <1>1, <1>2

LEMMA AskSimulated ==
  ASSUME LoaderInv, NEW c \in Load, LoadStarts(c)
  PROVE  Promise!Ask(c)
<1>1. TypesOK /\ wants[c] \in Parent
  BY DEF LoaderInv, TypesOK
<1>2. /\ caller[c] = "idle" /\ caller' = [caller EXCEPT ![c] = "waiting"]
      /\ wants' = wants /\ got' = got
  BY DEF LoadStarts
<1>3. Known' = Known
  <2>1. CASE LoadCached(c)
    BY <2>1 DEF LoadCached, Known
  <2>2. CASE LoadNew(c)
    <3>1. /\ cache' = [cache EXCEPT ![CacheKey(wants[c])] = Len(futures')]
          /\ futures' = Append(futures, Pending) /\ Held(wants[c]) = 0
      BY <2>2 DEF LoadNew, Held
    <3>2. /\ futures \in Seq(Future)
          /\ \A p \in Parent : Held(p) \in 0 .. Len(futures)
      BY <1>1, HeldType DEF TypesOK
    <3>3. futures'[Len(futures')] = Pending /\ Pending.state = "pending"
          /\ \A i \in 1 .. Len(futures) : futures'[i] = futures[i]
      BY <3>1, <3>2 DEF Pending
    <3>4. \A p \in Parent : Held(p)' = IF p = wants[c] THEN Len(futures') ELSE Held(p)
      BY <1>1, <3>1, KeysDiffer, KeysOfParents DEF Held, TypesOK
    <3>5. ASSUME NEW p \in Parent
          PROVE  /\ Held(p)' # 0 /\ futures'[Held(p)'].state = "done"
                      <=> Held(p) # 0 /\ futures[Held(p)].state = "done"
                 /\ Held(p) # 0 /\ futures[Held(p)].state = "done" =>
                      futures'[Held(p)'].rows = futures[Held(p)].rows
      <4>1. CASE p = wants[c]
        BY <4>1, <3>1, <3>3, <3>4
      <4>2. CASE p # wants[c]
        <5>1. Held(p)' = Held(p)
          BY <4>2, <3>4
        <5>2. Held(p) # 0 => futures'[Held(p)] = futures[Held(p)]
          BY <3>2, <3>3
        <5> QED BY <5>1, <5>2
      <4> QED BY <4>1, <4>2
    <3> QED BY <3>5, KnownStays
  <2> QED BY <2>1, <2>2 DEF LoadStarts
<1> QED BY <1>2, <1>3 DEF Promise!Ask

LEMMA EndSimulated ==
  ASSUME LoaderInv, NEW c \in Load, LoadEnds(c)
  PROVE  Promise!Answered(c) \/ Promise!Failed(c)
<1>1. /\ wants' = wants /\ caller[c] = "waiting" /\ wants[c] \in Parent
      /\ LoadOK(c)
  BY DEF LoadEnds, LoaderInv, TypesOK
<1>2. Known' = Known
  BY DEF LoadEnds, Known
<1>3. CASE /\ futures[future[c]].state = "done"
           /\ caller' = [caller EXCEPT ![c] = "answered"]
           /\ got' = [got EXCEPT ![c] = {futures[future[c]].rows}]
  <2>1. future[c] # 0 /\ Held(wants[c]) = future[c]
    BY <1>1, <1>3 DEF LoadOK
  <2>2. Known[wants[c]] = {futures[future[c]].rows}
    BY <1>1, <1>3, <2>1, KnownOf
  <2> QED BY <1>1, <1>2, <1>3, <2>2 DEF Promise!Answered
<1>4. CASE caller' = [caller EXCEPT ![c] = "failed"] /\ got' = got
  BY <1>1, <1>2, <1>4 DEF Promise!Failed
<1> QED BY <1>3, <1>4 DEF LoadEnds

LEMMA CancelSimulated ==
  ASSUME LoaderInv, RequestCancelled
  PROVE  Promise!Abandon
<1>1. /\ futures \in Seq(Future)
      /\ \A p \in Parent : Held(p) \in 0 .. Len(futures)
  BY HeldType DEF LoaderInv, TypesOK
<1>2. \A p : Held(p)' = Held(p)
  BY DEF RequestCancelled, Held
<1>3. ASSUME NEW i \in 1 .. Len(futures)
      PROVE  /\ futures'[i].state = "done" <=> futures[i].state = "done"
             /\ futures'[i].rows = futures[i].rows
  <2>1. futures[i] \in Future
    BY <1>1
  <2>2. \/ futures'[i] = futures[i]
        \/ futures[i].state = "pending" /\ futures'[i] = [futures[i] EXCEPT !.state = "cancelled"]
    BY DEF RequestCancelled
  <2>3. /\ [futures[i] EXCEPT !.state = "cancelled"].state = "cancelled"
        /\ [futures[i] EXCEPT !.state = "cancelled"].rows = futures[i].rows
    BY <2>1 DEF Future
  <2> QED BY <2>2, <2>3
<1>4. Known' = Known
  BY <1>1, <1>2, <1>3, KnownStays
<1> QED BY <1>4 DEF RequestCancelled, Promise!Abandon

LEMMA FailureSimulated ==
  ASSUME LoaderInv, NEW n \in 1 .. Len(flushes), FlushFails(n)
  PROVE  Known' = Known
<1>1. /\ futures \in Seq(Future)
      /\ \A p \in Parent : Held(p) \in 0 .. Len(futures)
  BY HeldType DEF LoaderInv, TypesOK
<1>2. PICK rows : Settle(flushes[n].keys, "failed", rows)
  BY DEF FlushFails
<1>3. flushes[n].keys \in SUBSET Parent /\ flushes[n].state = "reading" /\ n \in DOMAIN flushes
  BY FlushType DEF FlushFails, LoaderInv, TypesOK
<1>4. \A p \in Parent : Held(p)' = IF p \in flushes[n].keys THEN 0 ELSE Held(p)
  BY <1>3, KeysDiffer, KeysOfParents DEF FlushFails, Held
<1>5. \A p \in flushes[n].keys : Held(p) # 0 /\ futures[Held(p)].state # "done"
  BY <1>3 DEF LoaderInv, Underway, InFlight, BeingRead
<1>6. ASSUME NEW i \in 1 .. Len(futures)
      PROVE  /\ futures'[i].state = "done" <=> futures[i].state = "done"
             /\ futures[i].state = "done" => futures'[i] = futures[i]
  <2>1. \/ futures'[i] = futures[i]
        \/ /\ futures[i].state = "pending"
           /\ \E p \in flushes[n].keys : futures'[i] = [state |-> "failed", rows |-> RowsFor(p, rows)]
    BY <1>1, <1>2, Settled
  <2>2. \A p : [state |-> "failed", rows |-> RowsFor(p, rows)].state = "failed"
    OBVIOUS
  <2> QED BY <2>1, <2>2
<1>7. ASSUME NEW p \in Parent
      PROVE  /\ Held(p)' # 0 /\ futures'[Held(p)'].state = "done"
                  <=> Held(p) # 0 /\ futures[Held(p)].state = "done"
             /\ Held(p) # 0 /\ futures[Held(p)].state = "done" =>
                  futures'[Held(p)'].rows = futures[Held(p)].rows
  <2>1. CASE p \in flushes[n].keys
    BY <2>1, <1>4, <1>5
  <2>2. CASE p \notin flushes[n].keys
    <3>1. Held(p)' = Held(p)
      BY <2>2, <1>4
    <3>2. Held(p) # 0 => Held(p) \in 1 .. Len(futures)
      BY <1>1
    <3> QED BY <3>1, <3>2, <1>6
  <2> QED BY <2>1, <2>2
<1> QED BY <1>7, KnownStays

(* A read tells something new of keys that were asked for, or nothing.     *)
LEMMA ReadSimulated ==
  ASSUME LoaderInv, NEW n \in 1 .. Len(flushes), FlushSucceeds(n)
  PROVE  Promise!Learn \/ Known' = Known
<1>1. /\ TypesOK /\ futures \in Seq(Future)
      /\ \A p \in Parent : Held(p) \in 0 .. Len(futures)
      /\ flushes[n].keys \in SUBSET Parent
  BY HeldType, FlushType DEF LoaderInv, TypesOK
<1>2. PICK rows \in SUBSET Row : Settle(flushes[n].keys, "done", rows)
  BY <1>1, SelectedType DEF FlushSucceeds
<1>3. \A p : Held(p)' = Held(p)
  BY DEF FlushSucceeds, Held
<1>4. /\ Known \in [Parent -> SUBSET SUBSET Row]
      /\ \A p \in Parent : Known[p] # {} <=> Held(p) # 0 /\ futures[Held(p)].state = "done"
  <2>1. \A i \in 1 .. Len(futures) : futures[i].rows \in SUBSET Row
    BY <1>1, HeldType DEF Future
  <2>2. \A p \in Parent : Held(p) # 0 => futures[Held(p)].rows \in SUBSET Row
    BY <1>1, <2>1
  <2> QED BY <2>2, KnownOf DEF Known, Held
<1>5. ASSUME NEW p \in Parent
      PROVE  \/ Known'[p] = Known[p]
             \/ /\ Known[p] = {} /\ Held(p) # 0
                /\ \E q : Known'[p] = {RowsFor(q, rows)}
  <2>1. CASE Held(p) = 0
    BY <2>1, <1>3 DEF Known, Held
  <2>2. CASE Held(p) # 0
    <3>1. PICK i \in 1 .. Len(futures) : i = Held(p)
      BY <2>2, <1>1
    <3>2. /\ Known[p] = IF futures[i].state = "done" THEN {futures[i].rows} ELSE {}
          /\ Known'[p] = IF futures'[i].state = "done" THEN {futures'[i].rows} ELSE {}
      BY <2>2, <3>1, <1>3 DEF Known, Held
    <3>3. \/ futures'[i] = futures[i]
          \/ /\ futures[i].state = "pending"
             /\ \E q \in flushes[n].keys : futures'[i] = [state |-> "done", rows |-> RowsFor(q, rows)]
      BY <1>1, <1>2, Settled
    <3>4. \A q : [state |-> "done", rows |-> RowsFor(q, rows)].rows = RowsFor(q, rows)
                 /\ [state |-> "done", rows |-> RowsFor(q, rows)].state = "done"
      OBVIOUS
    <3>5. CASE futures'[i] = futures[i]
      BY <3>2, <3>5
    <3>6. ASSUME futures[i].state = "pending", NEW q,
                 futures'[i] = [state |-> "done", rows |-> RowsFor(q, rows)]
          PROVE  Known[p] = {} /\ Known'[p] = {RowsFor(q, rows)}
      BY <3>2, <3>4, <3>6
    <3> QED BY <2>2, <3>3, <3>5, <3>6
  <2> QED BY <2>1, <2>2
<1>6. DOMAIN Known' = Parent /\ DOMAIN Known = Parent
  BY DEF Known
<1>7. Known' \in [Parent -> SUBSET SUBSET Row]
  <2>1. \A q : RowsFor(q, rows) \in SUBSET Row
    BY RowsForType
  <2>2. \A p \in Parent : Known'[p] \in SUBSET SUBSET Row
    BY <1>4, <1>5, <2>1
  <2>3. Known' = [p \in Parent |-> Known'[p]]
    BY DEF Known
  <2> QED BY <2>2, <2>3
<1>8. \A p \in Parent : Known'[p] # Known[p] =>
        /\ Known[p] = {} /\ \E reply \in Known'[p] : Known'[p] = {reply}
        /\ \E c \in Load : wants[c] = p /\ caller[c] # "idle"
  BY <1>5 DEF LoaderInv, AskedFor
<1>9. UNCHANGED <<wants, caller, got>>
  BY DEF FlushSucceeds
<1> QED BY <1>7, <1>8, <1>9 DEF Promise!Learn

(* For any loads, parents and names of columns, the loader keeps what      *)
(* KeyedReads promises: loads of one parent get one read's rows, and those *)
(* of a parent not known before.                                           *)
THEOREM LoaderKeepsPromise == Spec => ImplementsKeyedReads
<1>1. Init => Promise!ReadInit
  <2>1. Init => Known = [p \in Parent |-> {}]
    BY KeysOfParents DEF Init, Known
  <2> QED BY <2>1 DEF Init, Promise!ReadInit
<1>2. LoaderInv /\ [Next]_vars => [Promise!ReadNext]_(Promise!readVars)
  <2> SUFFICES ASSUME LoaderInv, [Next]_vars
               PROVE  Promise!ReadNext \/ UNCHANGED <<wants, caller, got, Known>>
    BY DEF Promise!readVars
  <2>1. ASSUME NEW c \in Load, LoadStarts(c) PROVE Promise!ReadNext
    BY <2>1, AskSimulated DEF Promise!ReadNext
  <2>2. ASSUME NEW c \in Load, LoadEnds(c) PROVE Promise!ReadNext
    BY <2>2, EndSimulated DEF Promise!ReadNext
  <2>3. CASE RequestCancelled
    BY <2>3, CancelSimulated DEF Promise!ReadNext
  <2>4. ASSUME NEW n \in 1 .. Len(flushes), FlushSucceeds(n)
        PROVE  Promise!ReadNext \/ UNCHANGED <<wants, caller, got, Known>>
    BY <2>4, ReadSimulated DEF Promise!ReadNext, FlushSucceeds
  <2>5. ASSUME NEW n \in 1 .. Len(flushes), FlushFails(n)
        PROVE  UNCHANGED <<wants, caller, got, Known>>
    BY <2>5, FailureSimulated DEF FlushFails
  <2>6. ASSUME UNCHANGED <<wants, caller, got, futures, cache>>
        PROVE  UNCHANGED <<wants, caller, got, Known>>
    BY <2>6 DEF Known
  <2> QED BY <2>1, <2>2, <2>3, <2>4, <2>5, <2>6 DEF Next, FlushStep, ScheduleFlush, FlushStarts
<1> QED BY <1>1, <1>2, LoaderInvariant, PTL DEF Spec, ImplementsKeyedReads, Promise!ReadSpec
=============================================================================
