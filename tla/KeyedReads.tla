----------------------------- MODULE KeyedReads -----------------------------
(***************************************************************************)
(* What a relation loader promises the resolvers of one request: every     *)
(* load is answered, and all loads of one parent key that are answered get *)
(* the same rows, those of a single read.  A load may fail; a failure does *)
(* not settle the key.                                                     *)
(***************************************************************************)
CONSTANTS
  Load,    \* the calls of load()
  Parent,  \* parent keys
  Reply    \* what a read may answer for a key

VARIABLES
  wants,   \* the key of each load
  caller,  \* what has become of each load
  got,     \* its answer, {} until it has one
  known    \* the answers read so far: at most one per key

readVars == <<wants, caller, got, known>>

ReadInit ==
  /\ wants \in [Load -> Parent]
  /\ caller = [c \in Load |-> "idle"]
  /\ got = [c \in Load |-> {}]
  /\ known = [k \in Parent |-> {}]

Ask(c) ==
  /\ caller[c] = "idle"
  /\ caller' = [caller EXCEPT ![c] = "waiting"]
  /\ UNCHANGED <<wants, got, known>>

(* One read answers some of the keys asked for, none of them known before. *)
Learn ==
  /\ known' \in [Parent -> SUBSET Reply] /\ known' # known
  /\ \A k \in Parent : known'[k] # known[k] =>
       /\ known[k] = {} /\ \E reply \in known'[k] : known'[k] = {reply}
       /\ \E c \in Load : wants[c] = k /\ caller[c] # "idle"
  /\ UNCHANGED <<wants, caller, got>>

Answered(c) ==
  /\ caller[c] = "waiting" /\ known[wants[c]] # {}
  /\ caller' = [caller EXCEPT ![c] = "answered"]
  /\ got' = [got EXCEPT ![c] = known[wants[c]]]
  /\ UNCHANGED <<wants, known>>

Failed(c) ==
  /\ caller[c] = "waiting"
  /\ caller' = [caller EXCEPT ![c] = "failed"]
  /\ UNCHANGED <<wants, got, known>>

(* The request is cancelled, with all loads it waits for.                  *)
Abandon ==
  /\ caller' = [c \in Load |-> IF caller[c] \in {"idle", "waiting"} THEN "cancelled"
                                                                  ELSE caller[c]]
  /\ UNCHANGED <<wants, got, known>>

ReadNext == (\E c \in Load : Ask(c) \/ Answered(c) \/ Failed(c)) \/ Learn \/ Abandon

ReadSpec == ReadInit /\ [][ReadNext]_readVars
==============================================================================
