------------------------------- MODULE Metrics --------------------------------
(***************************************************************************)
(* MetricRegistry and its metric types: registration of families by the    *)
(* framework and, through MetricsRegistrar, by the application, labelled   *)
(* children found by a key made of their labels, and the exposition that   *)
(* serialize() gives Prometheus.                                           *)
(*                                                                         *)
(* A label set is the sequence of its <<name, value>> pairs, sorted, and a *)
(* value a sequence of characters.  Amounts, boundaries and observations   *)
(* are integers; the sum of a histogram is left out.                       *)
(***************************************************************************)
EXTENDS Integers, Sequences, FiniteSets, SequencesExt

CONSTANTS
  Name,        \* metric names
  Invalid,     \* those that do not match the pattern or start with "__"
  Buckets,     \* boundaries a histogram may be created with
  LabelSets,   \* label sets in use
  Amounts,     \* what is added, set or observed; may be 0 or negative
  MaxSteps     \* bound: labelled changes, and the value of a root

ASSUME MetricsAssumption == Amounts \subseteq Int /\ Buckets \subseteq Seq(Int) /\ MaxSteps \in Nat

VARIABLES
  names,      \* names taken
  rejected,   \* of these, those of histograms with invalid buckets
  families,   \* _metrics, in order
  told        \* what the application did to each child, in order

metricVars == <<names, rejected, families, told>>

Family(name, type, buckets) ==
  [name |-> name, type |-> type, buckets |-> buckets, root |-> 0, children |-> << >>]

MetricsInit ==
  /\ names = {} /\ rejected = {}
  /\ families = << >>
  /\ told = << >>

------------------------------------------------------------------------------
(* _label_key: the pairs name=value, joined by commas.                     *)
LabelKey(labels) ==
  FlattenSeq([k \in 1 .. Len(labels) |->
    (IF k > 1 THEN <<",">> ELSE << >>) \o <<labels[k][1], "=">> \o labels[k][2]])

Increasing(buckets) == buckets # << >> /\ \A k \in 2 .. Len(buckets) : buckets[k - 1] < buckets[k]

(* The registrar checks the name; the registry takes it before the buckets *)
(* of a histogram are validated.                                           *)
Create(name, type, buckets) ==
  /\ name \notin Invalid /\ name \notin names
  /\ names' = names \cup {name}
  /\ IF type = "histogram" /\ ~Increasing(buckets)
       THEN rejected' = rejected \cup {name} /\ UNCHANGED families
       ELSE families' = Append(families, Family(name, type, buckets)) /\ UNCHANGED rejected
  /\ UNCHANGED told

(* labels(): the child with this key, or a new one with these labels.      *)
Child(f, labels) ==
  LET known == {i \in 1 .. Len(f.children) : LabelKey(f.children[i].labels) = LabelKey(labels)}
  IN  IF known = {} THEN Len(f.children) + 1 ELSE CHOOSE i \in known : TRUE

NewChild(f, labels) ==
  [labels |-> labels, value |-> 0, counts |-> [k \in 1 .. Len(f.buckets) + 1 |-> 0]]

(* What each type makes of an amount: a counter adds what is positive, a   *)
(* gauge adds or takes away, a histogram counts it in every bucket that    *)
(* holds it and in +Inf.                                                   *)
Accepts(f, amount) ==
  CASE f.type = "counter" -> amount > 0 [] f.type = "gauge" -> TRUE [] OTHER -> amount >= 0

(* Mutant: an observation on a boundary falls into the next bucket.        *)
ChangedBelow(f, child, amount) ==
  IF f.type # "histogram" THEN [child EXCEPT !.value = @ + amount]
  ELSE [child EXCEPT !.value = @ + 1,
                     !.counts = [k \in DOMAIN @ |->
                       IF k = Len(@) \/ amount < f.buckets[k] THEN @[k] + 1 ELSE @[k]]]

Changed(f, child, amount) ==
  IF f.type # "histogram" THEN [child EXCEPT !.value = @ + amount]
  ELSE [child EXCEPT !.value = @ + 1,
                     !.counts = [k \in DOMAIN @ |->
                       IF k = Len(@) \/ amount <= f.buckets[k] THEN @[k] + 1 ELSE @[k]]]

Past(i, labels) == IF <<i, labels>> \in DOMAIN told THEN told[<<i, labels>>] ELSE << >>
Tell(i, labels, amounts) ==
  told' = [x \in DOMAIN told \cup {<<i, labels>>} |-> IF x = <<i, labels>> THEN amounts ELSE told[x]]
InBounds == FoldFunction(LAMBDA s, n : Len(s) + n, 0, told) < MaxSteps

(* The child at c becomes `child`; it is created even when the amount is   *)
(* refused.                                                                *)
Children(f, labels) ==
  IF Child(f, labels) > Len(f.children) THEN Append(f.children, NewChild(f, labels)) ELSE f.children
Current(i, labels) == Children(families[i], labels)[Child(families[i], labels)]
Put(i, labels, child) ==
  LET f == families[i]
  IN  families' = [families EXCEPT ![i].children =
                     [Children(f, labels) EXCEPT ![Child(f, labels)] = child]]

Change(i, labels, amount) ==
  /\ InBounds
  /\ LET child == Current(i, labels)
     IN  IF Accepts(families[i], amount)
           THEN /\ Put(i, labels, Changed(families[i], child, amount))
                /\ Tell(i, labels, Append(Past(i, labels), amount))
           ELSE Put(i, labels, child) /\ UNCHANGED told
  /\ UNCHANGED <<names, rejected>>

Set(i, labels, amount) ==
  /\ InBounds /\ families[i].type = "gauge"
  /\ Put(i, labels, [Current(i, labels) EXCEPT !.value = amount])
  /\ Tell(i, labels, <<amount>>)
  /\ UNCHANGED <<names, rejected>>

(* inc and dec without labels, of a counter or a gauge; a histogram        *)
(* observes into the child of the empty label set.                         *)
ChangeRoot(i, amount) ==
  /\ families[i].type # "histogram" /\ Accepts(families[i], amount)
  /\ families[i].root + amount \in 0 .. MaxSteps
  /\ families' = [families EXCEPT ![i].root = @ + amount]
  /\ UNCHANGED <<names, rejected, told>>

SetRoot(i, amount) ==
  /\ families[i].type = "gauge" /\ amount \in 0 .. MaxSteps
  /\ families' = [families EXCEPT ![i].root = amount]
  /\ UNCHANGED <<names, rejected, told>>

(* collect and serialize: the children, or the root of a gauge without.    *)
Samples(f) ==
  IF f.type = "gauge" /\ f.children = << >>
    THEN <<[labels |-> << >>, value |-> f.root]>> ELSE f.children

MetricsNext ==
  \/ \E name \in Name, type \in {"counter", "gauge"} : Create(name, type, << >>)
  \/ \E name \in Name, b \in Buckets : Create(name, "histogram", b)
  \/ \E i \in 1 .. Len(families), amount \in Amounts :
       \/ \E labels \in LabelSets : Change(i, labels, amount) \/ Set(i, labels, amount)
       \/ ChangeRoot(i, amount) \/ SetRoot(i, amount)

MetricsSpec == MetricsInit /\ [][MetricsNext]_metricVars

------------------------------------------------------------------------------
Total(amounts) ==
  LET sum[k \in 0 .. Len(amounts)] == IF k = 0 THEN 0 ELSE sum[k - 1] + amounts[k]
  IN  sum[Len(amounts)]
AtMost(bound, amounts) == Cardinality({k \in 1 .. Len(amounts) : amounts[k] <= bound})
Used(i) == {key[2] : key \in {k \in DOMAIN told : k[1] = i}}
Shared(i, labels) ==
  \E other \in Used(i) \cup {families[i].children[k].labels : k \in 1 .. Len(families[i].children)} :
    other # labels /\ LabelKey(other) = LabelKey(labels)

(* What Prometheus reads is what the application did: one family for each  *)
(* name that was not lost to invalid buckets, one sample for each label    *)
(* set (unless another one has the same key), with the total of a counter, *)
(* the value of a gauge since it was last set, or the number of            *)
(* observations of a histogram up to each boundary and in all.             *)
ExpositionIsExact ==
  /\ \A i, j \in 1 .. Len(families) : families[i].name = families[j].name => i = j
  /\ {families[i].name : i \in 1 .. Len(families)} = names \ rejected
  /\ \A i \in 1 .. Len(families) :
       LET f == families[i] IN
       \A labels \in Used(i) : ~Shared(i, labels) =>
         \E s \in {Samples(f)[k] : k \in 1 .. Len(Samples(f))} :
           /\ s.labels = labels
           /\ IF f.type # "histogram" THEN s.value = Total(told[<<i, labels>>])
              ELSE /\ s.value = Len(told[<<i, labels>>])
                   /\ \A k \in 1 .. Len(f.buckets) : s.counts[k] = AtMost(f.buckets[k], told[<<i, labels>>])
                   /\ s.counts[Len(f.buckets) + 1] = s.value

(* Prometheus also reads what is done without labels (`logins.inc()`).     *)
RootsAreExposed ==
  \A i \in 1 .. Len(families) :
    LET f == families[i] IN
    f.root # 0 => \E k \in 1 .. Len(Samples(f)) :
                    Samples(f)[k].labels = << >> /\ Samples(f)[k].value = f.root

==============================================================================
