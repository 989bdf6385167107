------------------------ MODULE RequestPipeline_proofs ------------------------
(***************************************************************************)
(* For every stack of middlewares and every number of requests: the gauge  *)
(* is the number of requests inside the metrics middleware, a request that *)
(* is not cancelled is answered, and what log, span, counter and audit say *)
(* of it is what its client saw.                                           *)
(*                                                                         *)
(* The gauge only needs to know how a request moves: every layer but the   *)
(* metrics middleware keeps a request on its side of it (Walk).  That a    *)
(* request is answered needs what a result says on the way out: a layer    *)
(* that returned has been answered, and so has one that raised outside     *)
(* error normalisation.  The observers need to know what cannot come after *)
(* an answer: one that is on its way out is the last thing that was sent,  *)
(* for a second start message is refused and raises (Told).                *)
(***************************************************************************)
EXTENDS RequestPipeline, TLAPS, FiniteSetTheorems, SequenceTheorems

PositionsOK ==
  /\ at \in [Request -> [depth : 0 .. Endpoint, dir : Directions]]
  /\ operational \in [Request -> BOOLEAN]

Inside == {r \in Request : InsideMetrics(r)}

GaugeInv == PositionsOK /\ inFlight = Cardinality(Inside)

(* A step of any layer but the metrics middleware, as the gauge sees it.   *)
Moves(r, d, e, dir) == at[r].depth = d /\ GoTo(r, e, dir)

Walk(r) ==
  /\ UNCHANGED <<operational, inFlight>>
  /\ \/ UNCHANGED at
     \/ \E d \in (0 .. Endpoint) \ Metrics, e \in 0 .. Endpoint, dir \in Directions :
          /\ Moves(r, d, e, dir)
          /\ e = d \/ (e = d - 1 /\ dir = "out") \/ (e = d + 1 /\ dir = "in")

USE DEF inputs, observers, vars, Tracing, Logging, Errors, Directions

LEMMA Shape ==
  /\ Endpoint \in Nat /\ Endpoint >= 4
  /\ Middleware \subseteq 4 .. Endpoint - 1
  /\ Users \subseteq Middleware \ Metrics
  /\ Metrics \subseteq Middleware
  /\ \A m, n \in Metrics : m = n
<1>1. Len(Stack) \in Nat
  BY PipelineAssumption, LenProperties
<1>2. Endpoint \in Nat /\ Endpoint >= 4 /\ Middleware \subseteq 4 .. Endpoint - 1
  BY <1>1 DEF Endpoint, Middleware
<1>3. Users \subseteq Middleware \ Metrics /\ Metrics \subseteq Middleware
  BY DEF Users, Metrics
<1>4. ASSUME NEW m \in Metrics, NEW n \in Metrics PROVE m = n
  <2>1. m \in 4 .. Len(Stack) + 3 /\ n \in 4 .. Len(Stack) + 3
    BY DEF Metrics, Middleware
  <2>2. m - 3 \in 1 .. Len(Stack) /\ n - 3 \in 1 .. Len(Stack)
    BY <2>1, <1>1
  <2>3. Stack[m - 3].kind = "metrics" /\ Stack[n - 3].kind = "metrics"
    BY DEF Metrics, Layer
  <2>4. m - 3 = n - 3
    BY <2>2, <2>3, PipelineAssumption
  <2>. QED
    BY <2>1, <2>4, <1>1
<1>. QED
  BY <1>2, <1>3, <1>4

------------------------------------------------------------------------------
(* The gauge                                                               *)

(* A step of r does not move another request in or out.                    *)
LEMMA OthersStay ==
  ASSUME PositionsOK, NEW r \in Request, NEW e, NEW dir, GoTo(r, e, dir),
         UNCHANGED operational, NEW q \in Request, q # r
  PROVE  InsideMetrics(q)' <=> InsideMetrics(q)
<1>1. at'[q] = at[q]
  BY DEF GoTo, PositionsOK
<1>. QED
  BY <1>1 DEF InsideMetrics, Observed, At

LEMMA WalkKeepsGauge ==
  ASSUME GaugeInv, NEW r \in Request, Walk(r)
  PROVE  GaugeInv'
<1>1. CASE UNCHANGED at
  <2>1. Inside' = Inside
    BY <1>1 DEF Walk, Inside, InsideMetrics, Observed, At
  <2>. QED
    BY <1>1, <2>1 DEF GaugeInv, Walk, PositionsOK
<1>2. ASSUME NEW d \in (0 .. Endpoint) \ Metrics, NEW e \in 0 .. Endpoint,
             NEW dir \in Directions, Moves(r, d, e, dir),
             e = d \/ (e = d - 1 /\ dir = "out") \/ (e = d + 1 /\ dir = "in")
      PROVE  GaugeInv'
  <2>1. UNCHANGED <<operational, inFlight>>
    BY DEF Walk
  <2>2. at'[r] = [depth |-> e, dir |-> dir] /\ PositionsOK'
    BY <1>2, <2>1 DEF Moves, GoTo, GaugeInv, PositionsOK
  <2>3. InsideMetrics(r)' <=> InsideMetrics(r)
    <3>1. ASSUME NEW m \in Metrics
          PROVE  (at'[r].depth > m \/ at'[r] = [depth |-> m, dir |-> "out"])
                   <=> (at[r].depth > m \/ at[r] = [depth |-> m, dir |-> "out"])
      <4>1. m \in Nat /\ d \in Nat /\ d # m /\ e \in Nat
        BY Shape
      <4>2. at[r].depth = d /\ at[r] # [depth |-> m, dir |-> "out"]
        BY <1>2, <4>1 DEF Moves
      <4>3. at'[r].depth = e /\ (at'[r] = [depth |-> m, dir |-> "out"] <=> e = m /\ dir = "out")
        BY <2>2
      <4>4. (e > m \/ (e = m /\ dir = "out")) <=> d > m
        BY <1>2, <4>1
      <4>. QED
        BY <4>2, <4>3, <4>4
    <3>. QED
      BY <2>1, <3>1 DEF InsideMetrics, Observed, At
  <2>4. \A q \in Request : InsideMetrics(q)' <=> InsideMetrics(q)
    BY <2>1, <2>3, <1>2, OthersStay DEF GaugeInv, Moves
  <2>5. Inside' = Inside
    BY <2>4 DEF Inside
  <2>. QED
    BY <2>1, <2>2, <2>5 DEF GaugeInv
<1>. QED
  BY <1>1, <1>2 DEF Walk

LEMMA SendGoesOut ==
  ASSUME NEW r, NEW d, NEW status, NEW how, Send(r, d, status, how)
  PROVE  GoTo(r, d - 1, "out")
BY Zenon DEF Send, SendTo, End

(* The layers of the stack, one by one, walk.                              *)
LEMMA UserCodeWalks ==
  ASSUME PositionsOK, NEW r \in Request, UserCode(r)
  PROVE  Walk(r)
<1>. PICK d \in Users : \/ EnterMiddleware(r, d) \/ CallNext(r, d) \/ Answer(r, d)
                        \/ Raise(r, d) \/ Catch(r, d) \/ PassOutwards(r, d)
  BY DEF UserCode
<1>1. d \in (0 .. Endpoint) \ Metrics /\ d - 1 \in 0 .. Endpoint /\ d + 1 \in 0 .. Endpoint
  BY Shape
<1>2. CASE EnterMiddleware(r, d)
  <2>1. Moves(r, d, d, "run") /\ UNCHANGED <<operational, inFlight>>
    BY <1>2 DEF EnterMiddleware, At, Moves
  <2>. QED
    BY <1>1, <2>1 DEF Walk
<1>3. CASE CallNext(r, d)
  <2>1. Moves(r, d, d + 1, "in") /\ UNCHANGED <<operational, inFlight>>
    BY <1>3 DEF CallNext, Running, At, Moves
  <2>. QED
    BY <1>1, <2>1 DEF Walk
<1>4. CASE Answer(r, d) \/ Raise(r, d) \/ PassOutwards(r, d)
  <2>1. UNCHANGED <<operational, inFlight>>
    BY <1>4 DEF Answer, Raise, PassOutwards
  <2>2. GoTo(r, d - 1, "out")
    BY <1>4, SendGoesOut DEF Answer, Raise, PassOutwards, End
  <2>3. at[r].depth = d
    BY <1>4 DEF Answer, Raise, PassOutwards, Raisable, Running, At
  <2>. QED
    BY <1>1, <2>1, <2>2, <2>3 DEF Walk, Moves
<1>5. CASE Catch(r, d)
  <2>1. Moves(r, d, d, "caught") /\ UNCHANGED <<operational, inFlight>>
    BY <1>5 DEF Catch, At, Moves
  <2>. QED
    BY <1>1, <2>1 DEF Walk
<1>. QED
  BY <1>2, <1>3, <1>4, <1>5

LEMMA OtherLayersWalk ==
  ASSUME PositionsOK, NEW r \in Request, In(r) \/ Out(r) \/ AnEndpoint(r) \/ Cancel(r)
  PROVE  Walk(r)
<1>1. CASE In(r)
  <2>1. UNCHANGED <<operational, inFlight>>
    BY <1>1 DEF In, Arrive, EnterTracing, EnterLogging, EnterErrors
  <2>2. \E d \in 0 .. 3 : Moves(r, d, d + 1, "in")
    BY <1>1 DEF In, Arrive, EnterTracing, EnterLogging, EnterErrors, At, Moves
  <2>3. \A d \in 0 .. 3 : d \in (0 .. Endpoint) \ Metrics /\ d + 1 \in 0 .. Endpoint
    BY Shape
  <2>. QED
    BY <2>1, <2>2, <2>3 DEF Walk
<1>2. CASE Out(r)
  <2>1. UNCHANGED <<operational, inFlight>>
    BY <1>2 DEF Out, LeaveErrors, LeaveLogging, LeaveTracing, Normalise
  <2>2. \E d \in 1 .. 3 : Moves(r, d, d - 1, "out")
    BY <1>2 DEF Out, LeaveErrors, LeaveLogging, LeaveTracing, Normalise, At, Moves,
                Send, SendTo, End
  <2>3. \A d \in 1 .. 3 : d \in (0 .. Endpoint) \ Metrics /\ d - 1 \in 0 .. Endpoint
    BY Shape
  <2>. QED
    BY <2>1, <2>2, <2>3 DEF Walk
<1>3. CASE AnEndpoint(r)
  <2>1. UNCHANGED <<operational, inFlight>>
    BY <1>3 DEF AnEndpoint, NotFound, PluginRouteSends, PluginRouteRaises,
                UseCasePrepared, UseCaseAnswers, UseCaseRaises
  <2>2. UNCHANGED at \/ Moves(r, Endpoint, Endpoint - 1, "out")
    <3>1. at[r].depth = Endpoint
      BY <1>3 DEF AnEndpoint, NotFound, PluginRouteSends, PluginRouteRaises,
                  UseCasePrepared, UseCaseAnswers, UseCaseRaises, AtEndpoint, At
    <3>2. UNCHANGED at \/ GoTo(r, Endpoint - 1, "out")
      BY <1>3, SendGoesOut DEF AnEndpoint, NotFound, PluginRouteSends, PluginRouteRaises,
                               UseCasePrepared, UseCaseAnswers, UseCaseRaises, End
    <3>. QED
      BY <3>1, <3>2 DEF Moves
  <2>3. Endpoint \in (0 .. Endpoint) \ Metrics /\ Endpoint - 1 \in 0 .. Endpoint
    BY Shape
  <2>. QED
    BY <2>1, <2>2, <2>3 DEF Walk
<1>4. CASE Cancel(r)
  <2>1. UNCHANGED <<operational, inFlight>>
    BY <1>4 DEF Cancel
  <2>2. PICK d \in Users \cup {Endpoint} : Moves(r, d, d - 1, "out")
    BY <1>4 DEF Cancel, Moves, End
  <2>3. d \in (0 .. Endpoint) \ Metrics /\ d - 1 \in 0 .. Endpoint
    BY Shape
  <2>. QED
    BY <2>1, <2>2, <2>3 DEF Walk
<1>. QED
  BY <1>1, <1>2, <1>3, <1>4

LEMMA MetricsKeepsGauge ==
  ASSUME GaugeInv, NEW r \in Request, MetricsCode(r)
  PROVE  GaugeInv'
<1>. PICK m \in Metrics : EnterMetrics(r, m) \/ LeaveMetrics(r, m)
  BY DEF MetricsCode
<1>1. m \in Nat /\ m - 1 \in 0 .. Endpoint /\ m + 1 \in 0 .. Endpoint /\ m # m - 1
  BY Shape
<1>2. \A n \in Metrics : n = m
  BY Shape
<1>3. IsFiniteSet(Inside) /\ r \in Request
  BY PipelineAssumption, FS_Subset DEF Inside
<1>4. operational[r] \in BOOLEAN /\ UNCHANGED operational
  BY DEF GaugeInv, PositionsOK, EnterMetrics, LeaveMetrics, LeaveMetricsBy
<1>5. CASE EnterMetrics(r, m)
  <2>1. at[r] = [depth |-> m, dir |-> "in"] /\ GoTo(r, m + 1, "in")
    BY <1>5 DEF EnterMetrics, At
  <2>2. at'[r] = [depth |-> m + 1, dir |-> "in"] /\ PositionsOK'
    BY <2>1, <1>1, <1>4 DEF GoTo, GaugeInv, PositionsOK
  <2>3. \A q \in Request : q # r => (InsideMetrics(q)' <=> InsideMetrics(q))
    BY <2>1, <1>4, OthersStay DEF GaugeInv
  <2>4. ~InsideMetrics(r)
    <3>1. ~(at[r].depth > m) /\ at[r] # [depth |-> m, dir |-> "out"]
      BY <2>1, <1>1
    <3>. QED
      BY <3>1, <1>2 DEF InsideMetrics, At
  <2>5. InsideMetrics(r)' <=> ~operational[r]
    <3>1. at'[r].depth > m
      BY <2>2, <1>1
    <3>. QED
      BY <3>1, <1>4 DEF InsideMetrics, Observed
  <2>6. CASE operational[r]
    <3>1. Inside' = Inside /\ inFlight' = inFlight
      BY <2>3, <2>4, <2>5, <2>6, <1>5 DEF Inside, EnterMetrics
    <3>. QED
      BY <3>1, <2>2 DEF GaugeInv
  <2>7. CASE ~operational[r]
    <3>1. Inside' = Inside \cup {r} /\ r \notin Inside
      BY <2>3, <2>4, <2>5, <2>7 DEF Inside
    <3>2. inFlight' = inFlight + 1
      BY <2>7, <1>5 DEF EnterMetrics
    <3>3. Cardinality(Inside \cup {r}) = Cardinality(Inside) + 1
      BY <3>1, <1>3, FS_AddElement
    <3>. QED
      BY <3>1, <3>2, <3>3, <2>2 DEF GaugeInv
  <2>. QED
    BY <2>6, <2>7, <1>4
<1>6. CASE LeaveMetrics(r, m)
  <2>1. at[r] = [depth |-> m, dir |-> "out"] /\ GoTo(r, m - 1, "out")
    BY <1>6 DEF LeaveMetrics, LeaveMetricsBy, At, End
  <2>2. at'[r] = [depth |-> m - 1, dir |-> "out"] /\ PositionsOK'
    BY <2>1, <1>1, <1>4 DEF GoTo, GaugeInv, PositionsOK
  <2>3. \A q \in Request : q # r => (InsideMetrics(q)' <=> InsideMetrics(q))
    BY <2>1, <1>4, OthersStay DEF GaugeInv
  <2>4. InsideMetrics(r) <=> ~operational[r]
    BY <2>1 DEF InsideMetrics, Observed, At
  <2>5. ~InsideMetrics(r)'
    <3>1. ~(at'[r].depth > m) /\ at'[r] # [depth |-> m, dir |-> "out"]
      BY <2>2, <1>1
    <3>. QED
      BY <3>1, <1>2 DEF InsideMetrics, At
  <2>6. CASE operational[r]
    <3>1. Inside' = Inside
      BY <2>3, <2>4, <2>5, <2>6 DEF Inside
    <3>2. inFlight' = inFlight - 0 /\ inFlight \in Nat
      BY <2>6, <1>3, <1>6, FS_CardinalityType DEF LeaveMetrics, LeaveMetricsBy, GaugeInv
    <3>. QED
      BY <3>1, <3>2, <2>2 DEF GaugeInv
  <2>7. CASE ~operational[r]
    <3>1. Inside' = Inside \ {r} /\ r \in Inside
      BY <2>3, <2>4, <2>5, <2>7 DEF Inside
    <3>2. inFlight' = inFlight - 1
      BY <2>7, <1>6 DEF LeaveMetrics, LeaveMetricsBy
    <3>3. Cardinality(Inside \ {r}) = Cardinality(Inside) - 1
      BY <3>1, <1>3, FS_RemoveElement
    <3>. QED
      BY <3>1, <3>2, <3>3, <2>2 DEF GaugeInv
  <2>. QED
    BY <2>6, <2>7, <1>4
<1>. QED
  BY <1>5, <1>6

(* The gauge is exact in every state of every behaviour: InFlightExact.    *)
THEOREM GaugeIsExact == Spec => []InFlightExact
<1>1. Init => GaugeInv
  <2>1. SUFFICES ASSUME Init PROVE GaugeInv
    OBVIOUS
  <2>2. PositionsOK
    BY <2>1, Shape DEF Init, PositionsOK
  <2>3. \A r \in Request : ~InsideMetrics(r)
    <3>1. ASSUME NEW r \in Request, NEW m \in Metrics
          PROVE  ~(at[r].depth > m) /\ at[r] # [depth |-> m, dir |-> "out"]
      <4>1. at[r].depth = 0 /\ m \in Nat /\ m > 0
        BY <2>1, Shape DEF Init
      <4>. QED
        BY <4>1
    <3>. QED
      BY <3>1 DEF InsideMetrics, At
  <2>4. Inside = {}
    BY <2>3 DEF Inside
  <2>. QED
    BY <2>1, <2>2, <2>4, FS_EmptySet DEF Init, GaugeInv
<1>2. GaugeInv /\ [Next]_vars => GaugeInv'
  <2>1. SUFFICES ASSUME GaugeInv, [Next]_vars PROVE GaugeInv'
    OBVIOUS
  <2>2. CASE UNCHANGED vars
    BY <2>1, <2>2 DEF GaugeInv, PositionsOK, Inside, InsideMetrics, Observed, At
  <2>3. ASSUME NEW r \in Request, Step(r) \/ Cancel(r) PROVE GaugeInv'
    <3>1. CASE In(r) \/ Out(r) \/ AnEndpoint(r) \/ Cancel(r)
      BY <2>1, <3>1, OtherLayersWalk, WalkKeepsGauge DEF GaugeInv
    <3>2. CASE UserCode(r)
      BY <2>1, <3>2, UserCodeWalks, WalkKeepsGauge DEF GaugeInv
    <3>3. CASE MetricsCode(r)
      BY <2>1, <3>3, MetricsKeepsGauge
    <3>. QED
      BY <2>3, <3>1, <3>2, <3>3 DEF Step
  <2>. QED
    BY <2>1, <2>2, <2>3 DEF Next
<1>3. GaugeInv => InFlightExact
  BY DEF GaugeInv, InFlightExact, Inside
<1>. QED
  BY <1>1, <1>2, <1>3, PTL DEF Spec

------------------------------------------------------------------------------
(* Answers                                                                 *)

AnswersOK ==
  /\ at \in [Request -> [depth : 0 .. Endpoint, dir : Directions]]
  /\ result \in [Request -> {"returned", "raised", "cancelled"}]
  /\ response \in [Request -> [status : Nat, sender : Nat, direct : BOOLEAN]]

(* On the way out, what returned has been answered; so has what raised     *)
(* outside error normalisation, for it raised because of that answer.      *)
Settled(r) ==
  at[r].dir = "out" =>
    /\ result[r] = "returned" => response[r].status # 0
    /\ result[r] = "raised" /\ at[r].depth < Errors => response[r].status # 0

AnswerInv == AnswersOK /\ \A r \in Request : Settled(r)

LEMMA MovingOnSettles ==
  ASSUME AnswerInv, NEW r \in Request, NEW e \in 0 .. Endpoint,
         NEW dir \in Directions \ {"out"}, GoTo(r, e, dir), UNCHANGED <<result, response>>
  PROVE  AnswerInv'
<1>1. AnswersOK' /\ at'[r].dir = dir /\ \A q \in Request : q # r => at'[q] = at[q]
  BY DEF AnswerInv, AnswersOK, GoTo
<1>. QED
  BY <1>1 DEF AnswerInv, Settled

LEMMA EndSettles ==
  ASSUME AnswerInv, NEW r \in Request, NEW d \in 1 .. Endpoint,
         NEW how \in {"returned", "raised", "cancelled"}, End(r, d, how),
         UNCHANGED response,
         response[r].status # 0 \/ how = "cancelled" \/ (how = "raised" /\ d > Errors)
  PROVE  AnswerInv'
<1>1. Endpoint \in Nat /\ d - 1 \in 0 .. Endpoint
  BY Shape
<1>2. /\ at'[r] = [depth |-> d - 1, dir |-> "out"] /\ result'[r] = how
      /\ \A q \in Request : q # r => at'[q] = at[q] /\ result'[q] = result[q]
  BY DEF AnswerInv, AnswersOK, GoTo, End
<1>3. AnswersOK'
  BY <1>1 DEF AnswerInv, AnswersOK, GoTo, End
<1>4. Settled(r)'
  BY <1>2 DEF Settled
<1>5. \A q \in Request : q # r => Settled(q)'
  BY <1>2 DEF AnswerInv, Settled
<1>. QED
  BY <1>3, <1>4, <1>5 DEF AnswerInv

LEMMA SendSettles ==
  ASSUME AnswerInv, NEW r \in Request, NEW d \in 1 .. Endpoint, NEW status \in Nat \ {0},
         NEW how \in {"returned", "raised"}, Send(r, d, status, how)
  PROVE  AnswerInv'
<1>1. CASE response[r].status # 0
  <2>1. UNCHANGED response /\ End(r, d, "raised")
    BY <1>1 DEF Send, SendTo
  <2>. QED
    BY <1>1, <2>1, EndSettles
<1>2. CASE response[r].status = 0
  <2>0. Endpoint \in Nat /\ d - 1 \in 0 .. Endpoint /\ d \in Nat
    BY Shape
  <2>1. /\ response' = [response EXCEPT ![r] = [status |-> status, sender |-> d,
                                                direct |-> at[r].dir # "caught"]]
        /\ End(r, d, how)
    BY <1>2 DEF Send, SendTo
  <2>2. AnswersOK'
    BY <2>0, <2>1 DEF AnswerInv, AnswersOK, GoTo, End
  <2>3. response'[r].status = status /\ \A q \in Request : q # r =>
          at'[q] = at[q] /\ result'[q] = result[q] /\ response'[q] = response[q]
    BY <2>1 DEF AnswerInv, AnswersOK, GoTo, End
  <2>. QED
    BY <2>2, <2>3 DEF AnswerInv, Settled
<1>. QED
  BY <1>1, <1>2

LEMMA UserCodeSettles ==
  ASSUME AnswerInv, NEW r \in Request, UserCode(r)
  PROVE  AnswerInv'
<1>. PICK d \in Users : \/ EnterMiddleware(r, d) \/ CallNext(r, d) \/ Answer(r, d)
                        \/ Raise(r, d) \/ Catch(r, d) \/ PassOutwards(r, d)
  BY DEF UserCode
<1>1. d \in 1 .. Endpoint /\ d > Errors /\ d \in 0 .. Endpoint /\ d + 1 \in 0 .. Endpoint
  BY Shape
<1>2. CASE EnterMiddleware(r, d)
  BY <1>1, <1>2, MovingOnSettles DEF EnterMiddleware
<1>3. CASE CallNext(r, d)
  BY <1>1, <1>3, MovingOnSettles DEF CallNext
<1>4. CASE Answer(r, d)
  <2>1. PICK status \in Statuses : Send(r, d, status, "returned")
    BY <1>4 DEF Answer
  <2>. QED
    BY <1>1, <2>1, SendSettles, PipelineAssumption
<1>5. CASE Raise(r, d)
  BY <1>1, <1>5, EndSettles DEF Raise
<1>6. CASE Catch(r, d)
  BY <1>1, <1>6, MovingOnSettles DEF Catch
<1>7. CASE PassOutwards(r, d)
  <2>1. at[r].dir = "out" /\ result[r] \in {"returned", "cancelled"}
    BY <1>7 DEF PassOutwards, At, AnswerInv, AnswersOK
  <2>2. response[r].status # 0 \/ result[r] = "cancelled"
    BY <2>1 DEF AnswerInv, Settled
  <2>. QED
    BY <1>1, <1>7, <2>1, <2>2, EndSettles DEF PassOutwards
<1>. QED
  BY <1>2, <1>3, <1>4, <1>5, <1>6, <1>7

LEMMA MetricsCodeSettles ==
  ASSUME AnswerInv, NEW r \in Request, MetricsCode(r)
  PROVE  AnswerInv'
<1>. PICK m \in Metrics : EnterMetrics(r, m) \/ LeaveMetrics(r, m)
  BY DEF MetricsCode
<1>1. m \in 1 .. Endpoint /\ m > Errors /\ m + 1 \in 0 .. Endpoint
  BY Shape
<1>2. CASE EnterMetrics(r, m)
  BY <1>1, <1>2, MovingOnSettles DEF EnterMetrics
<1>3. CASE LeaveMetrics(r, m)
  <2>1. at[r].dir = "out" /\ result[r] \in {"returned", "raised", "cancelled"}
    BY <1>3 DEF LeaveMetrics, LeaveMetricsBy, At, AnswerInv, AnswersOK
  <2>2. response[r].status # 0 \/ result[r] = "cancelled" \/ result[r] = "raised"
    BY <2>1 DEF AnswerInv, Settled
  <2>. QED
    BY <1>1, <1>3, <2>1, <2>2, EndSettles DEF LeaveMetrics, LeaveMetricsBy
<1>. QED
  BY <1>2, <1>3

LEMMA EndpointSettles ==
  ASSUME AnswerInv, NEW r \in Request, AnEndpoint(r)
  PROVE  AnswerInv'
<1>1. Endpoint \in 1 .. Endpoint /\ Endpoint > Errors
  BY Shape
<1>2. \A status \in Statuses \cup {400, 404, 500} : status \in Nat \ {0}
  BY PipelineAssumption
<1>3. CASE NotFound(r)
  BY <1>1, <1>3, SendSettles DEF NotFound
<1>4. CASE PluginRouteSends(r)
  <2>1. PICK status \in Statuses, how \in {"returned", "raised"} :
          Send(r, Endpoint, status, how)
    BY <1>4 DEF PluginRouteSends
  <2>. QED
    BY <1>1, <1>2, <2>1, SendSettles
<1>5. CASE UseCaseAnswers(r)
  <2>1. PICK status \in Statuses \cup {400, 500} : Send(r, Endpoint, status, "returned")
    BY <1>5 DEF UseCaseAnswers
  <2>. QED
    BY <1>1, <1>2, <2>1, SendSettles
<1>6. CASE PluginRouteRaises(r) \/ UseCaseRaises(r)
  BY <1>1, <1>6, EndSettles DEF PluginRouteRaises, UseCaseRaises
<1>7. CASE UseCasePrepared(r)
  BY <1>7 DEF UseCasePrepared, AnswerInv, AnswersOK, Settled
<1>. QED
  BY <1>3, <1>4, <1>5, <1>6, <1>7 DEF AnEndpoint

LEMMA OutSettles ==
  ASSUME AnswerInv, NEW r \in Request, Out(r)
  PROVE  AnswerInv'
<1>1. Logging \in 1 .. Endpoint /\ Tracing \in 1 .. Endpoint /\ Errors \in 1 .. Endpoint
  BY Shape
<1>2. result[r] \in {"returned", "raised", "cancelled"}
  BY DEF AnswerInv, AnswersOK
<1>3. CASE LeaveErrors(r)
  <2>1. CASE result[r] = "raised"
    <3>1. Send(r, Errors, 500, "returned")
      BY <1>3, <2>1 DEF LeaveErrors, Normalise
    <3>. QED
      BY <1>1, <3>1, SendSettles
  <2>2. CASE result[r] # "raised"
    <3>1. at[r].dir = "out" /\ End(r, Errors, result[r]) /\ UNCHANGED response
      BY <1>3, <2>2 DEF LeaveErrors, Normalise, At
    <3>2. response[r].status # 0 \/ result[r] = "cancelled"
      BY <1>2, <2>2, <3>1 DEF AnswerInv, Settled
    <3>. QED
      BY <1>1, <1>2, <3>1, <3>2, EndSettles
  <2>. QED
    BY <2>1, <2>2
<1>4. ASSUME NEW d \in {Tracing, Logging}, At(r, d, "out"), End(r, d, result[r]),
             UNCHANGED response
      PROVE  AnswerInv'
  <2>1. at[r].dir = "out" /\ at[r].depth < Errors
    BY <1>4 DEF At
  <2>2. response[r].status # 0 \/ result[r] = "cancelled"
    BY <1>2, <2>1 DEF AnswerInv, Settled
  <2>. QED
    BY <1>1, <1>2, <1>4, <2>2, EndSettles
<1>5. CASE LeaveLogging(r)
  BY <1>4, <1>5, Zenon DEF LeaveLogging
<1>6. CASE LeaveTracing(r)
  BY <1>4, <1>6, Zenon DEF LeaveTracing
<1>. QED
  BY <1>3, <1>5, <1>6 DEF Out

LEMMA AnswersStart == Init => AnswerInv
BY Shape DEF Init, AnswerInv, AnswersOK, Settled

LEMMA AnswersKept == AnswerInv /\ [Next]_vars => AnswerInv'
<1>1. SUFFICES ASSUME AnswerInv, [Next]_vars PROVE AnswerInv'
  OBVIOUS
<1>2. CASE UNCHANGED vars
  BY <1>1, <1>2 DEF AnswerInv, AnswersOK, Settled
<1>3. ASSUME NEW r \in Request, In(r) PROVE AnswerInv'
  <2>1. PICK e \in 1 .. 4 : GoTo(r, e, "in") /\ UNCHANGED <<result, response>>
    BY <1>3 DEF In, Arrive, EnterTracing, EnterLogging, EnterErrors
  <2>. QED
    BY <1>1, <2>1, Shape, MovingOnSettles
<1>4. ASSUME NEW r \in Request, Cancel(r) PROVE AnswerInv'
  <2>1. PICK d \in Users \cup {Endpoint} : End(r, d, "cancelled")
    BY <1>4 DEF Cancel
  <2>2. d \in 1 .. Endpoint
    BY Shape
  <2>. QED
    BY <1>1, <1>4, <2>1, <2>2, EndSettles DEF Cancel
<1>. QED
  BY <1>1, <1>2, <1>3, <1>4, UserCodeSettles, MetricsCodeSettles, EndpointSettles,
     OutSettles DEF Next, Step

(* A request that is not cancelled is answered, whatever the middlewares   *)
(* and the endpoint do: AlwaysAnswered.                                    *)
THEOREM EveryRequestIsAnswered == Spec => []AlwaysAnswered
<1>1. AnswerInv => AlwaysAnswered
  BY DEF AnswerInv, AnswersOK, Settled, AlwaysAnswered, Done, At
<1>. QED
  BY <1>1, AnswersStart, AnswersKept, PTL DEF Spec

------------------------------------------------------------------------------
(* Observers                                                               *)

RecordsOK ==
  /\ candidate \in [Request -> Nat]
  /\ seen \in [Request -> [log : Nat, trace : Nat, metrics : Nat]]
  /\ span \in [Request -> [state : {"none", "open", "ended"}, error : BOOLEAN]]
  /\ journal \in [Request -> [line : {"none", "received", "completed", "unhandled"},
                              status : Nat, audit : Nat]]
  /\ counted \in [Request -> Seq(Nat)]

Answered(r) == at[r].dir = "out" /\ result[r] = "returned"
Cancelled(r) == at[r].dir = "out" /\ result[r] = "cancelled"

(* While an answer goes outwards, the wrappers hold its status: no start   *)
(* message was sent after it.                                              *)
Noted(r) ==
  Observed(r) /\ Answered(r) =>
    /\ seen[r].log = response[r].status
    /\ seen[r].trace = response[r].status
    /\ response[r].status >= 500 => span[r].error

LastIs(r, status) == counted[r] = << >> \/ counted[r][Len(counted[r])] = status

(* Before there is an answer the metrics middleware can only have counted  *)
(* exceptions; an answer from inside it is counted as it passes.           *)
Counted(r) ==
  Observed(r) =>
    /\ response[r].status = 0 => LastIs(r, 500)
    /\ Answered(r) => at[r].depth < response[r].sender
    /\ Answered(r) => \A m \in Metrics :
         /\ response[r].sender > m /\ at[r].depth >= m =>
              seen[r].metrics = response[r].status
         /\ response[r].sender = Errors \/ (response[r].sender > m /\ at[r].depth < m) =>
              LastIs(r, response[r].status)

(* Outside the logging middleware the line says how the request ended, and *)
(* outside the tracing middleware the span does.                           *)
Ended(r) ==
  Observed(r) /\ at[r].dir = "out" =>
    /\ at[r].depth < Logging =>
         /\ result[r] = "raised" => journal[r].line = "unhandled"
         /\ result[r] = "returned" => /\ journal[r].line = "completed"
                                      /\ journal[r].status = response[r].status
    /\ at[r].depth < Tracing => /\ span[r].state = "ended"
                                /\ result[r] = "raised" => span[r].error

Audited(r) ==
  IF response[r].sender \in Plugins /\ response[r].direct THEN response[r].sender ELSE 0

(* Until there is an answer, the candidate is the plugin's middleware that *)
(* is running and has called nothing yet; the answer freezes it.           *)
Candidate(r) ==
  /\ response[r].status = 0 /\ ~Cancelled(r) =>
       candidate[r] = IF at[r].dir = "run" /\ at[r].depth \in Plugins THEN at[r].depth ELSE 0
  /\ Answered(r) => candidate[r] = Audited(r)

Logged(r) ==
  journal[r].line = "completed" =>
    Answered(r) /\ at[r].depth < Logging /\ journal[r].audit = Audited(r)

Told(r) == Noted(r) /\ Counted(r) /\ Ended(r) /\ Candidate(r) /\ Logged(r)

ObserverInv == AnswerInv /\ RecordsOK /\ \A r \in Request : Told(r)

(* A step of one request leaves the records of another alone.              *)
Same(q) ==
  /\ at'[q] = at[q] /\ result'[q] = result[q] /\ response'[q] = response[q]
  /\ candidate'[q] = candidate[q] /\ seen'[q] = seen[q] /\ span'[q] = span[q]
  /\ journal'[q] = journal[q] /\ counted'[q] = counted[q]

LEMMA SameIsTold ==
  ASSUME NEW q \in Request, Told(q), Same(q), UNCHANGED operational
  PROVE  Told(q)'
<1>1. Noted(q)'
  BY DEF Told, Same, Noted, Observed, Answered
<1>2. Counted(q)'
  BY DEF Told, Same, Counted, Observed, Answered, LastIs
<1>3. Ended(q)'
  BY DEF Told, Same, Ended, Observed
<1>4. Candidate(q)'
  BY DEF Told, Same, Candidate, Answered, Cancelled, Audited
<1>5. Logged(q)'
  BY DEF Told, Same, Logged, Answered, Audited
<1>. QED
  BY <1>1, <1>2, <1>3, <1>4, <1>5 DEF Told

(* Clearing removes the candidate of this middleware, and never adds one.  *)
LEMMA ClearedCandidate ==
  ASSUME RecordsOK, NEW r \in Request, NEW d, candidate' = Cleared(r, d)
  PROVE  /\ candidate' \in [Request -> Nat]
         /\ \A q \in Request \ {r} : candidate'[q] = candidate[q]
         /\ candidate'[r] = candidate[r] \/ candidate'[r] = 0
         /\ d \in Plugins /\ candidate[r] = d => candidate'[r] = 0
<1>1. candidate \in [Request -> Nat]
  BY DEF RecordsOK
<1>2. CASE d \in Plugins /\ candidate[r] # 0 /\ Layer(candidate[r]).id = Layer(d).id
  <2>1. candidate' = [candidate EXCEPT ![r] = 0]
    BY <1>2 DEF Cleared
  <2>. QED
    BY <1>1, <2>1
<1>3. CASE ~(d \in Plugins /\ candidate[r] # 0 /\ Layer(candidate[r]).id = Layer(d).id)
  <2>1. candidate' = candidate
    BY <1>3 DEF Cleared
  <2>2. d \in Plugins /\ candidate[r] = d => candidate'[r] = 0
    BY <1>3, <2>1
  <2>. QED
    BY <1>1, <2>1, <2>2
<1>. QED
  BY <1>2, <1>3

(* What a start message does to the records of its request.                *)
LEMMA SendEffect ==
  ASSUME AnswersOK, RecordsOK, NEW r \in Request, NEW d \in 1 .. Endpoint,
         NEW status \in Nat \ {0}, NEW how \in {"returned", "raised"},
         Send(r, d, status, how)
  PROVE  /\ seen' \in [Request -> [log : Nat, trace : Nat, metrics : Nat]]
         /\ span' \in [Request -> [state : {"none", "open", "ended"}, error : BOOLEAN]]
         /\ \A q \in Request \ {r} :
              /\ at'[q] = at[q] /\ result'[q] = result[q] /\ response'[q] = response[q]
              /\ seen'[q] = seen[q] /\ span'[q] = span[q]
         /\ at'[r] = [depth |-> d - 1, dir |-> "out"]
         /\ response[r].status # 0 => response'[r] = response[r] /\ result'[r] = "raised"
         /\ response[r].status = 0 =>
              /\ response'[r] = [status |-> status, sender |-> d,
                                 direct |-> at[r].dir # "caught"]
              /\ result'[r] = how
         /\ Observed(r) =>
              /\ seen'[r].log = status /\ seen'[r].trace = status
              /\ (\E m \in Metrics : m < d) => seen'[r].metrics = status
              /\ status >= 500 => span'[r].error
<1>1. CASE operational[r]
  <2>1. seen' = seen /\ span' = span /\ ~Observed(r)
    BY <1>1 DEF Send, SendTo, Observed
  <2>2. CASE response[r].status # 0
    <3>1. UNCHANGED response /\ End(r, d, "raised")
      BY <2>2 DEF Send, SendTo
    <3>. QED
      BY <2>1, <2>2, <3>1 DEF AnswersOK, RecordsOK, End, GoTo
  <2>3. CASE response[r].status = 0
    <3>1. /\ response' = [response EXCEPT ![r] = [status |-> status, sender |-> d,
                                                  direct |-> at[r].dir # "caught"]]
          /\ End(r, d, how)
      BY <2>3 DEF Send, SendTo
    <3>. QED
      BY <2>1, <2>3, <3>1 DEF AnswersOK, RecordsOK, End, GoTo
  <2>. QED
    BY <2>2, <2>3
<1>2. CASE ~operational[r]
  <2>1. PICK inner \in Nat :
          /\ seen' = [seen EXCEPT ![r].log = status, ![r].trace = status, ![r].metrics = inner]
          /\ (\E m \in Metrics : m < d) => inner = status
    <3>1. seen[r].metrics \in Nat
      BY DEF RecordsOK
    <3>. QED
      BY <1>2, <3>1 DEF Send, SendTo
  <2>2. /\ seen' \in [Request -> [log : Nat, trace : Nat, metrics : Nat]]
        /\ seen'[r].log = status /\ seen'[r].trace = status /\ seen'[r].metrics = inner
        /\ \A q \in Request \ {r} : seen'[q] = seen[q]
    BY <2>1 DEF RecordsOK
  <2>3. /\ span' \in [Request -> [state : {"none", "open", "ended"}, error : BOOLEAN]]
        /\ status >= 500 => span'[r].error
        /\ \A q \in Request \ {r} : span'[q] = span[q]
    <3>1. CASE status >= 500
      <4>1. span' = [span EXCEPT ![r].error = TRUE]
        BY <1>2, <3>1 DEF Send, SendTo
      <4>. QED
        BY <4>1 DEF RecordsOK
    <3>2. CASE ~(status >= 500)
      <4>1. span' = span
        BY <3>2 DEF Send, SendTo
      <4>. QED
        BY <3>2, <4>1 DEF RecordsOK
    <3>. QED
      BY <3>1, <3>2
  <2>4. CASE response[r].status # 0
    <3>1. UNCHANGED response /\ End(r, d, "raised")
      BY <2>4 DEF Send, SendTo
    <3>. QED
      BY <2>1, <2>2, <2>3, <2>4, <3>1 DEF AnswersOK, End, GoTo
  <2>5. CASE response[r].status = 0
    <3>1. /\ response' = [response EXCEPT ![r] = [status |-> status, sender |-> d,
                                                  direct |-> at[r].dir # "caught"]]
          /\ End(r, d, how)
      BY <2>5 DEF Send, SendTo
    <3>. QED
      BY <2>1, <2>2, <2>3, <2>5, <3>1 DEF AnswersOK, End, GoTo
  <2>. QED
    BY <2>4, <2>5
<1>. QED
  BY <1>1, <1>2 DEF AnswersOK

(* A request that goes in, runs or has caught claims nothing but the       *)
(* candidate; and it is not logged.                                        *)
LEMMA MovingOnTells ==
  ASSUME NEW r \in Request, Told(r), NEW e, NEW dir \in Directions \ {"out"},
         at'[r] = [depth |-> e, dir |-> dir], UNCHANGED operational,
         response'[r] = response[r], counted'[r] = counted[r],
         journal'[r].line # "completed",
         response[r].status = 0 =>
           candidate'[r] = IF dir = "run" /\ e \in Plugins THEN e ELSE 0
  PROVE  Told(r)'
<1>1. at'[r].dir = dir /\ at'[r].depth = e /\ dir # "out"
  OBVIOUS
<1>2. ~Answered(r)'
  BY <1>1 DEF Answered
<1>3. Noted(r)' /\ Ended(r)' /\ Logged(r)'
  BY <1>1, <1>2 DEF Noted, Ended, Logged
<1>4. Counted(r)'
  BY <1>2 DEF Told, Counted, Observed, LastIs
<1>5. Candidate(r)'
  BY <1>1, <1>2 DEF Candidate
<1>. QED
  BY <1>3, <1>4, <1>5 DEF Told

LEMMA Senders ==
  ASSUME NEW d \in (Errors .. Endpoint) \ Metrics
  PROVE  /\ Endpoint \in Nat /\ d \in 1 .. Endpoint /\ d \in Nat /\ d >= Errors
         /\ \A m \in Metrics : m \in Nat /\ m # d /\ m > Errors
BY Shape

(* A layer of the stack, or error normalisation, sends.                    *)
LEMMA SendTells ==
  ASSUME ObserverInv, NEW r \in Request, NEW d \in (Errors .. Endpoint) \ Metrics,
         NEW status \in Nat \ {0}, NEW how \in {"returned", "raised"},
         Send(r, d, status, how), at[r].depth = d, ~Cancelled(r),
         UNCHANGED <<operational, journal, counted>>,
         d = Errors => status = 500,
         d \in Plugins => at[r].dir \in {"run", "caught"},
         response[r].status = 0 => candidate'[r] = candidate[r]
  PROVE  Told(r)'
<1>0. /\ Endpoint \in Nat /\ d \in 1 .. Endpoint /\ d \in Nat /\ d >= Errors
      /\ \A m \in Metrics : m \in Nat /\ m # d /\ m > Errors
  BY Senders
<1>1. /\ at'[r] = [depth |-> d - 1, dir |-> "out"]
      /\ response[r].status # 0 => response'[r] = response[r] /\ result'[r] = "raised"
      /\ response[r].status = 0 =>
           /\ response'[r] = [status |-> status, sender |-> d,
                              direct |-> at[r].dir # "caught"]
           /\ result'[r] = how
      /\ Observed(r) =>
           /\ seen'[r].log = status /\ seen'[r].trace = status
           /\ (\E m \in Metrics : m < d) => seen'[r].metrics = status
           /\ status >= 500 => span'[r].error
  BY <1>0, SendEffect DEF ObserverInv, AnswerInv
<1>2. Told(r) /\ (Observed(r)' <=> Observed(r)) /\ ~(d < Logging) /\ ~(d - 1 < Logging)
  BY <1>0 DEF ObserverInv, Observed
<1>3. journal[r].line # "completed"
  BY <1>2 DEF Told, Logged
<1>4. at'[r].depth = d - 1 /\ at'[r].dir = "out"
  BY <1>1
<1>5. Ended(r)' /\ Logged(r)'
  <2>1. ~(d - 1 < Tracing)
    BY <1>0
  <2>. QED
    BY <1>2, <1>3, <1>4, <2>1 DEF Ended, Logged
<1>6. CASE response[r].status # 0
  <2>1. response'[r] = response[r] /\ ~Answered(r)' /\ response'[r].status # 0
    BY <1>1, <1>6 DEF Answered
  <2>. QED
    BY <1>5, <2>1 DEF Told, Noted, Counted, Candidate
<1>7. CASE response[r].status = 0
  <2>1. /\ response'[r].status = status /\ response'[r].sender = d
        /\ response'[r].direct = (at[r].dir # "caught") /\ status # 0
    BY <1>1, <1>7
  <2>2. Noted(r)'
    BY <1>1, <1>2, <2>1 DEF Noted
  <2>3. Counted(r)'
    <3>1. SUFFICES ASSUME Observed(r)', NEW m \in Metrics
                   PROVE  /\ d > m /\ d - 1 >= m => seen'[r].metrics = status
                          /\ d = Errors \/ (d > m /\ d - 1 < m) => LastIs(r, status)'
      BY <1>0, <1>4, <2>1 DEF Counted
    <3>2. d > m => seen'[r].metrics = status
      BY <1>0, <1>1, <1>2, <3>1
    <3>3. d = Errors => LastIs(r, status)'
      BY <1>2, <1>7, <3>1 DEF Told, Counted, LastIs
    <3>4. ~(d > m /\ d - 1 < m)
      BY <1>0
    <3>. QED
      BY <3>2, <3>3, <3>4
  <2>4. Candidate(r)'
    <3>1. candidate'[r] = IF at[r].dir = "run" /\ d \in Plugins THEN d ELSE 0
      BY <1>2, <1>7 DEF Told, Candidate
    <3>2. candidate'[r] = Audited(r)'
      <4>1. CASE d \in Plugins /\ at[r].dir = "run"
        <5>1. response'[r].direct
          BY <2>1, <4>1
        <5>. QED
          BY <2>1, <3>1, <4>1, <5>1 DEF Audited
      <4>2. CASE ~(d \in Plugins /\ at[r].dir = "run")
        <5>1. ~(d \in Plugins /\ response'[r].direct)
          BY <2>1, <4>2
        <5>. QED
          BY <2>1, <3>1, <4>2, <5>1 DEF Audited
      <4>. QED
        BY <4>1, <4>2
    <3>. QED
      BY <2>1, <3>2 DEF Candidate
  <2>. QED
    BY <1>5, <2>2, <2>3, <2>4 DEF Told
<1>. QED
  BY <1>6, <1>7

(* A layer of the stack, or error normalisation, ends without sending:     *)
(* what returned below it still does, or it raises, or it is cancelled.    *)
LEMMA EndTells ==
  ASSUME ObserverInv, NEW r \in Request, NEW d \in (Errors .. Endpoint) \ Metrics,
         NEW how \in {"returned", "raised", "cancelled"}, at[r].depth = d,
         at'[r] = [depth |-> d - 1, dir |-> "out"], result'[r] = how,
         UNCHANGED <<operational, response, seen, span, journal, counted>>,
         how = "returned" => Answered(r) /\ candidate'[r] = candidate[r],
         how = "raised" /\ response[r].status = 0 => candidate'[r] = 0
  PROVE  Told(r)'
<1>0. /\ Endpoint \in Nat /\ d \in Nat /\ d >= Errors
      /\ \A m \in Metrics : m \in Nat /\ m # d /\ m > Errors
  BY Senders
<1>1. /\ Told(r) /\ (Observed(r)' <=> Observed(r)) /\ ~(d < Logging) /\ ~(d - 1 < Logging)
      /\ ~(d - 1 < Tracing)
  BY <1>0 DEF ObserverInv, Observed
<1>2. journal[r].line # "completed"
  BY <1>1 DEF Told, Logged
<1>3. at'[r].depth = d - 1 /\ at'[r].dir = "out" /\ (Answered(r)' <=> how = "returned")
  BY DEF Answered
<1>4. Answered(r)' => Answered(r) /\ candidate'[r] = candidate[r]
  BY <1>3
<1>5. Ended(r)' /\ Logged(r)'
  BY <1>1, <1>2, <1>3 DEF Ended, Logged
<1>6. Noted(r)'
  BY <1>1, <1>4 DEF Told, Noted
<1>7. Counted(r)'
  <2>1. Observed(r) /\ response[r].status = 0 => LastIs(r, 500)'
    BY <1>1 DEF Told, Counted, LastIs
  <2>2. ASSUME Observed(r), Answered(r)', NEW m \in Metrics
        PROVE  /\ response[r].sender > m /\ d - 1 >= m => seen[r].metrics = response[r].status
               /\ response[r].sender = Errors \/ (response[r].sender > m /\ d - 1 < m) =>
                    LastIs(r, response[r].status)'
    <3>1. /\ response[r].sender > m /\ d >= m => seen[r].metrics = response[r].status
          /\ response[r].sender = Errors \/ (response[r].sender > m /\ d < m) =>
               LastIs(r, response[r].status)
      BY <1>1, <1>4, <2>2 DEF Told, Counted
    <3>2. (d - 1 >= m => d >= m) /\ (d - 1 < m => d < m)
      BY <1>0
    <3>. QED
      BY <3>1, <3>2 DEF LastIs
  <2>3. Observed(r) /\ Answered(r)' => d - 1 < response[r].sender
    <3>1. response[r].sender \in Nat
      BY DEF ObserverInv, AnswerInv, AnswersOK
    <3>. QED
      BY <1>0, <1>1, <1>4, <3>1 DEF Told, Counted
  <2>. QED
    BY <1>1, <1>3, <2>1, <2>2, <2>3 DEF Counted
<1>8. Candidate(r)'
  <2>1. Answered(r)' => candidate'[r] = Audited(r)'
    BY <1>1, <1>4 DEF Told, Candidate, Audited
  <2>2. response[r].status = 0 /\ how # "cancelled" => how = "raised"
    <3>1. Answered(r) => response[r].status # 0
      BY DEF ObserverInv, AnswerInv, Settled, Answered
    <3>. QED
      BY <3>1
  <2>. QED
    BY <1>3, <2>1, <2>2 DEF Candidate, Cancelled
<1>. QED
  BY <1>5, <1>6, <1>7, <1>8 DEF Told

(* What a step of r has to show.                                           *)
Kept(r) ==
  /\ RecordsOK' /\ UNCHANGED operational
  /\ Told(r)' /\ \A q \in Request \ {r} : Same(q)

LEMMA UserCodeTells ==
  ASSUME ObserverInv, NEW r \in Request, UserCode(r)
  PROVE  Kept(r)
<1>. PICK d \in Users : \/ EnterMiddleware(r, d) \/ CallNext(r, d) \/ Answer(r, d)
                        \/ Raise(r, d) \/ Catch(r, d) \/ PassOutwards(r, d)
  BY DEF UserCode
<1>1. /\ d \in (Errors .. Endpoint) \ Metrics /\ d \in 1 .. Endpoint
      /\ d # Errors /\ d - 1 \in Nat /\ ~(d < Logging)
  BY Shape
<1>2. AnswersOK /\ RecordsOK /\ Told(r) /\ Settled(r)
  BY DEF ObserverInv, AnswerInv
<1>3. at[r].depth = d => journal[r].line # "completed"
  BY <1>1, <1>2 DEF Told, Logged
<1>4. CASE EnterMiddleware(r, d)
  <2>1. /\ at[r] = [depth |-> d, dir |-> "in"] /\ GoTo(r, d, "run")
        /\ candidate' = IF d \in Plugins THEN [candidate EXCEPT ![r] = d] ELSE candidate
        /\ UNCHANGED <<operational, result, response, seen, span, journal, counted>>
    BY <1>4 DEF EnterMiddleware, At
  <2>2. /\ at'[r] = [depth |-> d, dir |-> "run"]
        /\ \A q \in Request \ {r} : Same(q)
    BY <1>2, <2>1 DEF GoTo, AnswersOK, RecordsOK, Same
  <2>3. RecordsOK'
    BY <1>1, <1>2, <2>1 DEF RecordsOK
  <2>4. response[r].status = 0 => candidate'[r] = IF d \in Plugins THEN d ELSE 0
    <3>1. at[r].dir = "in"
      BY <2>1
    <3>2. response[r].status = 0 => candidate[r] = 0
      BY <1>2, <3>1 DEF Told, Candidate, Cancelled
    <3>. QED
      BY <1>2, <2>1, <3>2 DEF RecordsOK
  <2>5. Told(r)'
    <3>1. at[r].depth = d
      BY <2>1
    <3>. QED
      BY <1>2, <1>3, <2>1, <2>2, <2>4, <3>1, MovingOnTells
  <2>. QED
    BY <2>1, <2>2, <2>3, <2>5 DEF Kept
<1>5. CASE CallNext(r, d)
  <2>1. /\ at[r].depth = d /\ at[r].dir \in {"run", "caught"} /\ GoTo(r, d + 1, "in")
        /\ candidate' = Cleared(r, d)
        /\ UNCHANGED <<operational, result, response, seen, span, journal, counted>>
    BY <1>5 DEF CallNext, Running, At
  <2>2. /\ candidate' \in [Request -> Nat]
        /\ \A q \in Request \ {r} : candidate'[q] = candidate[q]
        /\ candidate'[r] = candidate[r] \/ candidate'[r] = 0
        /\ d \in Plugins /\ candidate[r] = d => candidate'[r] = 0
    BY <1>2, <2>1, ClearedCandidate
  <2>3. at'[r] = [depth |-> d + 1, dir |-> "in"] /\ \A q \in Request \ {r} : Same(q)
    BY <1>2, <2>1, <2>2 DEF GoTo, AnswersOK, Same
  <2>4. RecordsOK'
    BY <1>2, <2>1, <2>2 DEF RecordsOK
  <2>5. response[r].status = 0 => candidate'[r] = 0
    <3>1. response[r].status = 0 => candidate[r] = 0 \/ (d \in Plugins /\ candidate[r] = d)
      BY <1>2, <2>1 DEF Told, Candidate, Cancelled
    <3>. QED
      BY <2>2, <3>1
  <2>6. Told(r)'
    BY <1>2, <1>3, <2>1, <2>3, <2>5, MovingOnTells
  <2>. QED
    BY <2>1, <2>3, <2>4, <2>6 DEF Kept
<1>6. CASE Answer(r, d)
  <2>1. /\ at[r].depth = d /\ at[r].dir \in {"run", "caught"}
        /\ candidate' = IF response[r].status # 0 THEN Cleared(r, d) ELSE candidate
        /\ UNCHANGED <<operational, journal, counted>>
    BY <1>6 DEF Answer, Running, At
  <2>2. PICK status \in Nat \ {0} : Send(r, d, status, "returned")
    BY <1>6, PipelineAssumption DEF Answer
  <2>3. /\ candidate' \in [Request -> Nat]
        /\ \A q \in Request \ {r} : candidate'[q] = candidate[q]
    <3>1. CASE response[r].status # 0
      BY <1>2, <2>1, <3>1, ClearedCandidate
    <3>2. CASE response[r].status = 0
      BY <1>2, <2>1, <3>2 DEF RecordsOK
    <3>. QED
      BY <3>1, <3>2
  <2>4. RecordsOK' /\ \A q \in Request \ {r} : Same(q)
    <3>1. /\ seen' \in [Request -> [log : Nat, trace : Nat, metrics : Nat]]
          /\ span' \in [Request -> [state : {"none", "open", "ended"}, error : BOOLEAN]]
          /\ \A q \in Request \ {r} :
               /\ at'[q] = at[q] /\ result'[q] = result[q] /\ response'[q] = response[q]
               /\ seen'[q] = seen[q] /\ span'[q] = span[q]
      BY <1>1, <1>2, <2>2, SendEffect
    <3>. QED
      BY <1>2, <2>1, <2>3, <3>1 DEF RecordsOK, Same
  <2>5. Told(r)'
    <3>1. ~Cancelled(r) /\ (response[r].status = 0 => candidate'[r] = candidate[r])
      BY <2>1 DEF Cancelled
    <3>. QED
      BY <1>1, <2>1, <2>2, <3>1, SendTells
  <2>. QED
    BY <2>1, <2>4, <2>5 DEF Kept
<1>7. CASE Raise(r, d)
  <2>1. /\ at[r].depth = d /\ ~Cancelled(r) /\ End(r, d, "raised")
        /\ candidate' = Cleared(r, d)
        /\ UNCHANGED <<operational, response, seen, span, journal, counted>>
    BY <1>7 DEF Raise, Raisable, Running, At, Cancelled
  <2>2. /\ candidate' \in [Request -> Nat]
        /\ \A q \in Request \ {r} : candidate'[q] = candidate[q]
        /\ candidate'[r] = candidate[r] \/ candidate'[r] = 0
        /\ d \in Plugins /\ candidate[r] = d => candidate'[r] = 0
    BY <1>2, <2>1, ClearedCandidate
  <2>3. /\ at'[r] = [depth |-> d - 1, dir |-> "out"] /\ result'[r] = "raised"
        /\ \A q \in Request \ {r} : Same(q)
    BY <1>2, <2>1, <2>2 DEF End, GoTo, AnswersOK, Same
  <2>4. RecordsOK'
    BY <1>2, <2>1, <2>2 DEF RecordsOK
  <2>5. response[r].status = 0 => candidate'[r] = 0
    <3>1. response[r].status = 0 => candidate[r] = 0 \/ (d \in Plugins /\ candidate[r] = d)
      BY <1>2, <2>1 DEF Told, Candidate
    <3>. QED
      BY <2>2, <3>1
  <2>6. Told(r)'
    BY <1>1, <2>1, <2>3, <2>5, EndTells
  <2>. QED
    BY <2>1, <2>3, <2>4, <2>6 DEF Kept
<1>8. CASE Catch(r, d)
  <2>1. /\ at[r].depth = d /\ at[r].dir = "out" /\ result[r] = "raised"
        /\ GoTo(r, d, "caught")
        /\ UNCHANGED <<operational, result, candidate, response, seen, span, journal, counted>>
    BY <1>8 DEF Catch, At
  <2>2. at'[r] = [depth |-> d, dir |-> "caught"] /\ \A q \in Request \ {r} : Same(q)
    BY <1>2, <2>1 DEF GoTo, AnswersOK, Same
  <2>3. RecordsOK'
    BY <1>2, <2>1 DEF RecordsOK
  <2>4. response[r].status = 0 => candidate'[r] = 0
    BY <1>2, <2>1 DEF Told, Candidate, Cancelled
  <2>5. Told(r)'
    BY <1>2, <1>3, <2>1, <2>2, <2>4, MovingOnTells
  <2>. QED
    BY <2>1, <2>2, <2>3, <2>5 DEF Kept
<1>9. CASE PassOutwards(r, d)
  <2>1. /\ at[r].depth = d /\ at[r].dir = "out" /\ End(r, d, result[r])
        /\ UNCHANGED <<operational, candidate, response, seen, span, journal, counted>>
    BY <1>9 DEF PassOutwards, At
  <2>2. result[r] \in {"returned", "cancelled"}
    BY <1>2, <1>9 DEF PassOutwards, AnswersOK
  <2>3. /\ at'[r] = [depth |-> d - 1, dir |-> "out"] /\ result'[r] = result[r]
        /\ \A q \in Request \ {r} : Same(q)
    BY <1>2, <2>1 DEF End, GoTo, AnswersOK, Same
  <2>4. RecordsOK'
    BY <1>2, <2>1 DEF RecordsOK
  <2>5. Told(r)'
    <3>1. result[r] = "returned" => Answered(r) /\ candidate'[r] = candidate[r]
      BY <2>1 DEF Answered
    <3>. QED
      BY <1>1, <2>1, <2>2, <2>3, <3>1, EndTells
  <2>. QED
    BY <2>1, <2>3, <2>4, <2>5 DEF Kept
<1>. QED
  BY <1>4, <1>5, <1>6, <1>7, <1>8, <1>9

LEMMA EnterMetricsTells ==
  ASSUME ObserverInv, NEW r \in Request, NEW m \in Metrics, EnterMetrics(r, m)
  PROVE  Kept(r)
<1>1. AnswersOK /\ RecordsOK /\ Told(r) /\ m \in Nat /\ ~(m < Logging)
  BY Shape DEF ObserverInv, AnswerInv
<1>2. /\ at[r].depth = m /\ GoTo(r, m + 1, "in")
      /\ candidate' = [candidate EXCEPT ![r] = 0]
      /\ seen' = [seen EXCEPT ![r].metrics = 500]
      /\ UNCHANGED <<operational, result, response, span, journal, counted>>
  BY DEF EnterMetrics, At
<1>3. at'[r] = [depth |-> m + 1, dir |-> "in"] /\ \A q \in Request \ {r} : Same(q)
  BY <1>1, <1>2 DEF GoTo, AnswersOK, RecordsOK, Same
<1>4. RecordsOK' /\ candidate'[r] = 0
  <2>1. seen' \in [Request -> [log : Nat, trace : Nat, metrics : Nat]]
    <3>1. seen \in [Request -> [log : Nat, trace : Nat, metrics : Nat]]
      BY <1>1 DEF RecordsOK
    <3>2. seen' = [seen EXCEPT ![r].metrics = 500]
      BY <1>2
    <3>. QED
      BY <3>1, <3>2
  <2>2. candidate' \in [Request -> Nat] /\ candidate'[r] = 0
    BY <1>1, <1>2 DEF RecordsOK
  <2>. QED
    BY <1>1, <1>2, <2>1, <2>2 DEF RecordsOK
<1>5. journal[r].line # "completed"
  BY <1>1, <1>2 DEF Told, Logged
<1>6. Told(r)'
  BY <1>1, <1>2, <1>3, <1>4, <1>5, MovingOnTells
<1>. QED
  BY <1>2, <1>3, <1>4, <1>6 DEF Kept

(* The count takes the status the wrapper saw, or 500; it passes the       *)
(* metrics middleware in the step that moves the request out of it.        *)
LEMMA LeaveMetricsTells ==
  ASSUME ObserverInv, NEW r \in Request, NEW m \in Metrics, LeaveMetrics(r, m)
  PROVE  Kept(r)
<1>1. /\ AnswersOK /\ RecordsOK /\ Told(r) /\ Settled(r)
      /\ m \in Nat /\ m > Errors /\ \A n \in Metrics : n = m
  BY Shape DEF ObserverInv, AnswerInv
<1>2. /\ at[r].depth = m /\ at[r].dir = "out" /\ End(r, m, result[r])
      /\ candidate' = IF result[r] = "raised" THEN Cleared(r, m) ELSE candidate
      /\ counted' = [counted EXCEPT ![r] =
           IF operational[r] \/ result[r] = "cancelled" THEN @
           ELSE Append(@, IF result[r] = "returned" THEN seen[r].metrics ELSE 500)]
      /\ UNCHANGED <<operational, response, seen, span, journal>>
  BY DEF LeaveMetrics, LeaveMetricsBy, At
<1>3. /\ candidate' \in [Request -> Nat]
      /\ \A q \in Request \ {r} : candidate'[q] = candidate[q]
      /\ candidate'[r] = candidate[r] \/ candidate'[r] = 0
      /\ result[r] # "raised" => candidate'[r] = candidate[r]
  <2>1. CASE result[r] = "raised"
    BY <1>1, <1>2, <2>1, ClearedCandidate
  <2>2. CASE result[r] # "raised"
    BY <1>1, <1>2, <2>2 DEF RecordsOK
  <2>. QED
    BY <2>1, <2>2
<1>4. counted[r] \in Seq(Nat) /\ seen[r].metrics \in Nat
  BY <1>1 DEF RecordsOK
<1>. DEFINE count == IF result[r] = "returned" THEN seen[r].metrics ELSE 500
<1>5. /\ count \in Nat
      /\ result[r] = "returned" => count = seen[r].metrics
      /\ result[r] # "returned" => count = 500
      /\ counted' = [counted EXCEPT ![r] =
           IF operational[r] \/ result[r] = "cancelled" THEN @ ELSE Append(@, count)]
  BY <1>2, <1>4
<1>. HIDE DEF count
<1>6. counted' \in [Request -> Seq(Nat)] /\ \A q \in Request \ {r} : counted'[q] = counted[q]
  BY <1>1, <1>4, <1>5 DEF RecordsOK
<1>7. /\ operational[r] \/ result[r] = "cancelled" => counted'[r] = counted[r]
      /\ ~(operational[r] \/ result[r] = "cancelled") => counted'[r] = Append(counted[r], count)
  BY <1>1, <1>5 DEF RecordsOK
<1>8. /\ at'[r] = [depth |-> m - 1, dir |-> "out"] /\ result'[r] = result[r]
      /\ \A q \in Request \ {r} : Same(q)
  BY <1>1, <1>2, <1>3, <1>6 DEF End, GoTo, AnswersOK, Same
<1>9. RecordsOK'
  BY <1>1, <1>2, <1>3, <1>6 DEF RecordsOK
<1>10. at'[r].depth = m - 1 /\ at'[r].dir = "out" /\ (Answered(r)' <=> Answered(r))
  BY <1>2, <1>8 DEF Answered
<1>11. Noted(r)'
  BY <1>1, <1>2, <1>10 DEF Told, Noted, Observed
<1>12. ~(m < Logging) /\ ~(m - 1 < Logging) /\ ~(m - 1 < Tracing)
  BY <1>1
<1>13. Ended(r)' /\ Logged(r)'
  <2>1. journal[r].line # "completed"
    BY <1>1, <1>2, <1>12 DEF Told, Logged
  <2>. QED
    BY <1>2, <1>10, <1>12, <2>1 DEF Ended, Logged
<1>14. Candidate(r)'
  <2>1. Answered(r)' => candidate'[r] = Audited(r)'
    BY <1>1, <1>2, <1>3, <1>10 DEF Told, Candidate, Audited, Answered
  <2>2. response[r].status = 0 /\ ~Cancelled(r) => candidate[r] = 0
    BY <1>1, <1>2 DEF Told, Candidate
  <2>. QED
    BY <1>2, <1>3, <1>8, <1>10, <2>1, <2>2 DEF Candidate, Cancelled
<1>15. Counted(r)'
  <2>1. CASE operational[r]
    BY <1>2, <2>1 DEF Counted, Observed
  <2>2. CASE ~operational[r] /\ result[r] = "cancelled"
    <3>1. ~Answered(r)' /\ counted'[r] = counted[r]
      BY <1>7, <1>10, <2>2 DEF Answered
    <3>. QED
      BY <1>1, <1>2, <3>1 DEF Told, Counted, Observed, LastIs
  <2>3. CASE ~operational[r] /\ result[r] # "cancelled"
    <3>1. counted'[r] = Append(counted[r], count)
      BY <1>7, <2>3
    <3>2. counted'[r][Len(counted'[r])] = count
      BY <1>4, <3>1
    <3>3. response[r].status = 0 => count = 500
      BY <1>1, <1>2, <1>5 DEF Settled
    <3>4. ASSUME Answered(r), NEW n \in Metrics
          PROVE  /\ ~(m - 1 >= n)
                 /\ response[r].sender = Errors \/ (response[r].sender > n /\ m - 1 < n) =>
                      count = response[r].status
      <4>1. n = m /\ count = seen[r].metrics
        BY <1>1, <1>5, <3>4 DEF Answered
      <4>2. response[r].sender > m => seen[r].metrics = response[r].status
        BY <1>1, <1>2, <2>3, <3>4 DEF Told, Counted, Observed
      <4>3. response[r].sender # Errors
        BY <1>1, <1>2, <2>3, <3>4 DEF Told, Counted, Observed
      <4>. QED
        BY <1>1, <4>1, <4>2, <4>3
    <3>5. Answered(r) => m - 1 < response[r].sender
      <4>1. response[r].sender \in Nat
        BY <1>1 DEF AnswersOK
      <4>. QED
        BY <1>1, <1>2, <2>3, <4>1 DEF Told, Counted, Observed
    <3>. QED
      BY <1>2, <1>10, <3>2, <3>3, <3>4, <3>5 DEF Counted, LastIs
  <2>. QED
    BY <2>1, <2>2, <2>3
<1>. QED
  BY <1>2, <1>8, <1>9, <1>11, <1>13, <1>14, <1>15 DEF Kept, Told

(* Error normalisation answers with 500, and with nothing else.            *)
Normal(d, status) == d = Errors => status = 500

(* The endpoint and error normalisation: a start message, and nothing else *)
(* that an observer could see.                                             *)
LEMMA SendKeeps ==
  ASSUME ObserverInv, NEW r \in Request, NEW d \in (Errors .. Endpoint) \ Metrics,
         NEW status \in Nat \ {0}, NEW how \in {"returned", "raised"},
         Send(r, d, status, how), at[r].depth = d, ~Cancelled(r), d \notin Plugins,
         UNCHANGED <<operational, candidate, journal, counted>>,
         Normal(d, status)
  PROVE  Kept(r)
<1>0. Send(r, d, status, "returned") \/ Send(r, d, status, "raised")
  OBVIOUS
<1>1. AnswersOK /\ RecordsOK /\ d \in 1 .. Endpoint
  BY Senders DEF ObserverInv, AnswerInv
<1>2. /\ seen' \in [Request -> [log : Nat, trace : Nat, metrics : Nat]]
      /\ span' \in [Request -> [state : {"none", "open", "ended"}, error : BOOLEAN]]
      /\ \A q \in Request \ {r} :
           /\ at'[q] = at[q] /\ result'[q] = result[q] /\ response'[q] = response[q]
           /\ seen'[q] = seen[q] /\ span'[q] = span[q]
  BY <1>0, <1>1, SendEffect
<1>3. RecordsOK' /\ \A q \in Request \ {r} : Same(q)
  BY <1>1, <1>2 DEF RecordsOK, Same
<1>4. (d \in Plugins => at[r].dir \in {"run", "caught"}) /\ candidate'[r] = candidate[r]
  OBVIOUS
<1>5. Told(r)'
  BY <1>4, SendTells DEF Normal
<1>. QED
  BY <1>3, <1>5 DEF Kept

LEMMA EndKeeps ==
  ASSUME ObserverInv, NEW r \in Request, NEW d \in (Errors .. Endpoint) \ Metrics,
         NEW how \in {"returned", "raised", "cancelled"}, at[r].depth = d, End(r, d, how),
         UNCHANGED <<operational, candidate, response, seen, span, journal, counted>>,
         how = "returned" => Answered(r),
         how = "raised" /\ response[r].status = 0 => candidate[r] = 0
  PROVE  Kept(r)
<1>1. AnswersOK /\ RecordsOK
  BY DEF ObserverInv, AnswerInv
<1>2. /\ at'[r] = [depth |-> d - 1, dir |-> "out"] /\ result'[r] = how
      /\ \A q \in Request \ {r} : Same(q)
  BY <1>1 DEF End, GoTo, AnswersOK, Same
<1>3. RecordsOK'
  BY <1>1 DEF RecordsOK
<1>4. Told(r)'
  BY <1>2, EndTells
<1>. QED
  BY <1>2, <1>3, <1>4 DEF Kept

LEMMA EndpointTells ==
  ASSUME ObserverInv, NEW r \in Request, AnEndpoint(r)
  PROVE  Kept(r)
<1>1. /\ Endpoint \in (Errors .. Endpoint) \ Metrics /\ Endpoint # Errors
      /\ Endpoint \notin Plugins
  <2>1. Plugins \subseteq Middleware
    BY DEF Plugins
  <2>. QED
    BY <2>1, Shape
<1>2. /\ at[r].depth = Endpoint /\ at[r].dir = "in" /\ ~Cancelled(r)
      /\ UNCHANGED <<operational, candidate, journal, counted>>
  <2>1. At(r, Endpoint, "in") /\ UNCHANGED <<operational, candidate, journal, counted>>
    BY DEF AnEndpoint, NotFound, PluginRouteSends, PluginRouteRaises, UseCasePrepared,
           UseCaseAnswers, UseCaseRaises, AtEndpoint
  <2>. QED
    BY <2>1 DEF At, Cancelled
<1>3. \A status \in Statuses \cup {400, 404, 500} : status \in Nat \ {0}
  BY PipelineAssumption
<1>4. ASSUME NEW status \in Statuses \cup {400, 404, 500}, NEW how \in {"returned", "raised"},
             Send(r, Endpoint, status, how)
      PROVE  Kept(r)
  BY <1>1, <1>2, <1>3, <1>4, SendKeeps DEF Normal
<1>5. CASE NotFound(r)
  BY <1>4, <1>5 DEF NotFound
<1>6. CASE PluginRouteSends(r)
  BY <1>4, <1>6 DEF PluginRouteSends
<1>7. CASE UseCaseAnswers(r)
  BY <1>4, <1>7 DEF UseCaseAnswers
<1>8. CASE PluginRouteRaises(r) \/ UseCaseRaises(r)
  <2>1. End(r, Endpoint, "raised") /\ UNCHANGED <<response, seen, span>>
    BY <1>8 DEF PluginRouteRaises, UseCaseRaises
  <2>2. response[r].status = 0 => candidate[r] = 0
    BY <1>2 DEF ObserverInv, Told, Candidate
  <2>. QED
    BY <1>1, <1>2, <2>1, <2>2, EndKeeps
<1>9. CASE UseCasePrepared(r)
  <2>1. UNCHANGED <<at, result, response, seen, span>>
    BY <1>9 DEF UseCasePrepared
  <2>2. \A q \in Request : Same(q)
    BY <1>2, <2>1 DEF Same
  <2>3. RecordsOK'
    BY <1>2, <2>1 DEF ObserverInv, RecordsOK
  <2>4. Told(r)'
    BY <1>2, <2>2, SameIsTold DEF ObserverInv
  <2>. QED
    BY <1>2, <2>2, <2>3, <2>4 DEF Kept
<1>. QED
  BY <1>5, <1>6, <1>7, <1>8, <1>9 DEF AnEndpoint

LEMMA CancelTells ==
  ASSUME ObserverInv, NEW r \in Request, Cancel(r)
  PROVE  Kept(r)
<1>1. PICK d \in Users \cup {Endpoint} : at[r].depth = d /\ End(r, d, "cancelled")
  BY DEF Cancel
<1>2. d \in (Errors .. Endpoint) \ Metrics
  BY Shape
<1>3. UNCHANGED <<operational, candidate, response, seen, span, journal, counted>>
  BY DEF Cancel
<1>. QED
  BY <1>1, <1>2, <1>3, EndKeeps

LEMMA InTells ==
  ASSUME ObserverInv, NEW r \in Request, In(r)
  PROVE  Kept(r)
<1>1. AnswersOK /\ RecordsOK /\ Told(r)
  BY DEF ObserverInv, AnswerInv
<1>2. PICK d \in 0 .. 3 : At(r, d, "in") /\ GoTo(r, d + 1, "in")
  BY DEF In, Arrive, EnterTracing, EnterLogging, EnterErrors
<1>3. UNCHANGED <<operational, result, candidate, response, seen, counted>>
  BY DEF In, Arrive, EnterTracing, EnterLogging, EnterErrors
<1>4. span' = span \/ span' = [span EXCEPT ![r].state = "open"]
  BY DEF In, Arrive, EnterTracing, EnterLogging, EnterErrors
<1>5. journal' = journal \/ journal' = [journal EXCEPT ![r].line = "received"]
  BY DEF In, Arrive, EnterTracing, EnterLogging, EnterErrors
<1>6. /\ span' \in [Request -> [state : {"none", "open", "ended"}, error : BOOLEAN]]
      /\ \A q \in Request \ {r} : span'[q] = span[q]
  <2>1. span \in [Request -> [state : {"none", "open", "ended"}, error : BOOLEAN]]
    BY <1>1 DEF RecordsOK
  <2>. QED
    BY <1>4, <2>1
<1>7. /\ journal' \in [Request -> [line : {"none", "received", "completed", "unhandled"},
                                   status : Nat, audit : Nat]]
      /\ \A q \in Request \ {r} : journal'[q] = journal[q]
      /\ journal'[r].line \in {journal[r].line, "received"}
  <2>1. journal \in [Request -> [line : {"none", "received", "completed", "unhandled"},
                                 status : Nat, audit : Nat]]
    BY <1>1 DEF RecordsOK
  <2>2. CASE journal' = journal
    BY <2>1, <2>2
  <2>3. CASE journal' = [journal EXCEPT ![r].line = "received"]
    BY <2>1, <2>3
  <2>. QED
    BY <1>5, <2>2, <2>3
<1>8. RecordsOK'
  BY <1>1, <1>3, <1>6, <1>7 DEF RecordsOK
<1>9. at'[r] = [depth |-> d + 1, dir |-> "in"] /\ \A q \in Request \ {r} : Same(q)
  BY <1>1, <1>2, <1>3, <1>6, <1>7 DEF GoTo, AnswersOK, Same
<1>10. Told(r)'
  <2>1. at[r].dir = "in"
    BY <1>2 DEF At
  <2>2. journal'[r].line # "completed"
    BY <1>1, <1>7, <2>1 DEF Told, Logged, Answered
  <2>3. response[r].status = 0 => candidate'[r] = 0
    BY <1>1, <1>3, <2>1 DEF Told, Candidate, Cancelled
  <2>. QED
    BY <1>1, <1>3, <1>9, <2>2, <2>3, MovingOnTells
<1>. QED
  BY <1>3, <1>8, <1>9, <1>10 DEF Kept

LEMMA LeaveErrorsTells ==
  ASSUME ObserverInv, NEW r \in Request, LeaveErrors(r)
  PROVE  Kept(r)
<1>1. Errors \in (Errors .. Endpoint) \ Metrics /\ Errors \notin Plugins
  <2>1. Plugins \subseteq Middleware
    BY DEF Plugins
  <2>. QED
    BY <2>1, Shape
<1>2. /\ at[r].depth = Errors /\ at[r].dir = "out"
      /\ UNCHANGED <<operational, candidate, journal, counted>>
  BY DEF LeaveErrors, Normalise, At
<1>3. CASE result[r] = "raised"
  <2>1. Send(r, Errors, 500, "returned") /\ ~Cancelled(r)
    BY <1>3 DEF LeaveErrors, Normalise, Cancelled
  <2>. QED
    BY <1>1, <1>2, <2>1, SendKeeps DEF Normal
<1>4. CASE result[r] # "raised"
  <2>1. End(r, Errors, result[r]) /\ UNCHANGED <<response, seen, span>>
    BY <1>4 DEF LeaveErrors, Normalise
  <2>2. result[r] \in {"returned", "cancelled"} /\ (result[r] = "returned" => Answered(r))
    BY <1>2, <1>4 DEF ObserverInv, AnswerInv, AnswersOK, Answered
  <2>. QED
    BY <1>1, <1>2, <2>1, <2>2, EndKeeps
<1>. QED
  BY <1>3, <1>4

LEMMA LeaveLoggingTells ==
  ASSUME ObserverInv, NEW r \in Request, LeaveLogging(r)
  PROVE  Kept(r)
<1>1. /\ AnswersOK /\ RecordsOK /\ Told(r)
      /\ \A m \in Metrics : m \in Nat /\ m > Errors
  BY Shape DEF ObserverInv, AnswerInv
<1>2. /\ at[r].depth = Logging /\ at[r].dir = "out" /\ End(r, Logging, result[r])
      /\ UNCHANGED <<operational, candidate, response, seen, span, counted>>
  BY DEF LeaveLogging, At
<1>3. PICK entry \in [line : {"none", "received", "completed", "unhandled"},
                     status : Nat, audit : Nat] :
        /\ journal' = [journal EXCEPT ![r] = entry]
        /\ operational[r] \/ result[r] = "cancelled" => entry = journal[r]
        /\ ~operational[r] /\ result[r] = "returned" =>
             entry = [line |-> "completed", status |-> seen[r].log, audit |-> candidate[r]]
        /\ ~operational[r] /\ result[r] = "raised" => entry.line = "unhandled"
  <2>1. /\ journal[r] \in [line : {"none", "received", "completed", "unhandled"},
                           status : Nat, audit : Nat]
        /\ seen[r].log \in Nat /\ candidate[r] \in Nat
        /\ result[r] \in {"returned", "raised", "cancelled"}
    BY <1>1 DEF RecordsOK, AnswersOK
  <2>2. CASE operational[r] \/ result[r] = "cancelled"
    <3>1. journal' = [journal EXCEPT ![r] = journal[r]]
      BY <2>2 DEF LeaveLogging
    <3>2. ~(~operational[r] /\ result[r] = "returned") /\ ~(~operational[r] /\ result[r] = "raised")
      BY <2>2
    <3>. QED
      BY <2>1, <3>1, <3>2
  <2>3. CASE ~operational[r] /\ result[r] = "returned"
    <3>. DEFINE e == [line |-> "completed", status |-> seen[r].log, audit |-> candidate[r]]
    <3>1. journal' = [journal EXCEPT ![r] = e]
      BY <2>3 DEF LeaveLogging
    <3>2. e \in [line : {"none", "received", "completed", "unhandled"},
                 status : Nat, audit : Nat]
      BY <2>1
    <3>3. result[r] # "cancelled" /\ result[r] # "raised"
      BY <2>3
    <3>. QED
      BY <2>3, <3>1, <3>2, <3>3
  <2>4. CASE ~operational[r] /\ result[r] = "raised"
    <3>. DEFINE e == [journal[r] EXCEPT !.line = "unhandled"]
    <3>1. journal' = [journal EXCEPT ![r] = e]
      BY <2>4 DEF LeaveLogging
    <3>2. e \in [line : {"none", "received", "completed", "unhandled"},
                 status : Nat, audit : Nat] /\ e.line = "unhandled"
      BY <2>1
    <3>3. result[r] # "cancelled" /\ result[r] # "returned"
      BY <2>4
    <3>. QED
      BY <2>4, <3>1, <3>2, <3>3
  <2>. QED
    BY <2>1, <2>2, <2>3, <2>4
<1>4. /\ journal' \in [Request -> [line : {"none", "received", "completed", "unhandled"},
                                   status : Nat, audit : Nat]]
      /\ journal'[r] = entry /\ \A q \in Request \ {r} : journal'[q] = journal[q]
  <2>1. journal \in [Request -> [line : {"none", "received", "completed", "unhandled"},
                                 status : Nat, audit : Nat]]
    BY <1>1 DEF RecordsOK
  <2>. QED
    BY <1>3, <2>1
<1>5. /\ at'[r] = [depth |-> Logging - 1, dir |-> "out"] /\ result'[r] = result[r]
      /\ \A q \in Request \ {r} : Same(q)
  BY <1>1, <1>2, <1>4 DEF End, GoTo, AnswersOK, Same
<1>6. RecordsOK'
  BY <1>1, <1>2, <1>4 DEF RecordsOK
<1>7. /\ at'[r].depth = 1 /\ at'[r].dir = "out" /\ (Answered(r)' <=> Answered(r))
      /\ (Answered(r) <=> result[r] = "returned")
      /\ (Observed(r)' <=> Observed(r)) /\ (Observed(r) <=> ~operational[r])
  BY <1>2, <1>5 DEF Answered, Observed
<1>8. Noted(r)'
  BY <1>1, <1>2, <1>7 DEF Told, Noted
<1>9. Counted(r)'
  <2>1. Observed(r) /\ response[r].status = 0 => LastIs(r, 500)'
    BY <1>1, <1>2 DEF Told, Counted, LastIs
  <2>2. ASSUME Observed(r), Answered(r), NEW m \in Metrics
        PROVE  /\ ~(1 >= m) /\ 1 < m
               /\ response[r].sender = Errors \/ response[r].sender > m =>
                    LastIs(r, response[r].status)'
    <3>1. m > Logging /\ m \in Nat
      BY <1>1
    <3>2. response[r].sender = Errors \/ (response[r].sender > m /\ Logging < m) =>
            LastIs(r, response[r].status)
      BY <1>1, <1>2, <2>2 DEF Told, Counted
    <3>. QED
      BY <1>2, <3>1, <3>2 DEF LastIs
  <2>3. Observed(r) /\ Answered(r) => 1 < response[r].sender
    <3>1. response[r].sender \in Nat
      BY <1>1 DEF AnswersOK
    <3>. QED
      BY <1>1, <1>2, <3>1 DEF Told, Counted
  <2>. QED
    BY <1>2, <1>7, <2>1, <2>2, <2>3 DEF Counted
<1>10. Candidate(r)'
  BY <1>1, <1>2, <1>5, <1>7 DEF Told, Candidate, Cancelled, Audited
<1>11. Ended(r)'
  <2>1. Observed(r) /\ result[r] = "returned" => entry.status = response[r].status
    BY <1>1, <1>3, <1>7 DEF Told, Noted
  <2>2. Observed(r) /\ result[r] = "returned" => entry.line = "completed"
    BY <1>3, <1>7
  <2>3. Observed(r) /\ result[r] = "raised" => entry.line = "unhandled"
    BY <1>3, <1>7
  <2>. QED
    BY <1>2, <1>4, <1>5, <1>7, <2>1, <2>2, <2>3 DEF Ended
<1>12. Logged(r)'
  <2>1. journal[r].line # "completed"
    BY <1>1, <1>2 DEF Told, Logged
  <2>2. entry.line = "completed" => ~operational[r] /\ result[r] = "returned"
    <3>1. result[r] \in {"returned", "raised", "cancelled"}
      BY <1>1 DEF AnswersOK
    <3>. QED
      BY <1>3, <2>1, <3>1
  <2>3. entry.line = "completed" => entry.audit = candidate[r] /\ candidate[r] = Audited(r)
    BY <1>1, <1>3, <1>7, <2>2 DEF Told, Candidate
  <2>. QED
    BY <1>2, <1>4, <1>7, <2>2, <2>3 DEF Logged, Audited
<1>. QED
  BY <1>2, <1>5, <1>6, <1>8, <1>9, <1>10, <1>11, <1>12 DEF Kept, Told

LEMMA LeaveTracingTells ==
  ASSUME ObserverInv, NEW r \in Request, LeaveTracing(r)
  PROVE  Kept(r)
<1>1. /\ AnswersOK /\ RecordsOK /\ Told(r)
      /\ \A m \in Metrics : m \in Nat /\ m > Errors
  BY Shape DEF ObserverInv, AnswerInv
<1>2. /\ at[r].depth = Tracing /\ at[r].dir = "out" /\ End(r, Tracing, result[r])
      /\ UNCHANGED <<operational, candidate, response, seen, journal, counted>>
  BY DEF LeaveTracing, At
<1>3. PICK s \in [state : {"none", "open", "ended"}, error : BOOLEAN] :
        /\ span' = [span EXCEPT ![r] = s]
        /\ operational[r] \/ (s.state = "ended" /\ (span[r].error => s.error)
                                /\ (result[r] = "raised" => s.error))
  <2>1. /\ span \in [Request -> [state : {"none", "open", "ended"}, error : BOOLEAN]]
        /\ span[r].error \in BOOLEAN
    BY <1>1 DEF RecordsOK
  <2>2. CASE operational[r]
    <3>1. span' = span
      BY <2>2 DEF LeaveTracing
    <3>2. span' = [span EXCEPT ![r] = span[r]] /\ span[r] \in [state : {"none", "open", "ended"}, error : BOOLEAN]
      BY <2>1, <3>1
    <3>. QED
      BY <2>2, <3>2
  <2>3. CASE ~operational[r]
    <3>1. PICK noted \in BOOLEAN :
            span' = [span EXCEPT ![r] =
              [state |-> "ended",
               error |-> @.error \/ result[r] = "raised"
                                 \/ (noted /\ result[r] = "cancelled")]]
      BY <2>3 DEF LeaveTracing
    <3>. DEFINE wrong == span[r].error \/ result[r] = "raised" \/ (noted /\ result[r] = "cancelled")
    <3>2. span' = [span EXCEPT ![r] = [state |-> "ended", error |-> wrong]]
      BY <3>1
    <3>3. wrong \in BOOLEAN /\ (span[r].error => wrong) /\ (result[r] = "raised" => wrong)
      OBVIOUS
    <3>. HIDE DEF wrong
    <3>4. [state |-> "ended", error |-> wrong]
            \in [state : {"none", "open", "ended"}, error : BOOLEAN]
      BY <3>3
    <3>5. /\ [state |-> "ended", error |-> wrong].state = "ended"
          /\ [state |-> "ended", error |-> wrong].error = wrong
      OBVIOUS
    <3>. QED
      BY <3>2, <3>3, <3>4, <3>5
  <2>. QED
    BY <2>2, <2>3
<1>4. /\ span' \in [Request -> [state : {"none", "open", "ended"}, error : BOOLEAN]]
      /\ span'[r] = s /\ \A q \in Request \ {r} : span'[q] = span[q]
  <2>1. span \in [Request -> [state : {"none", "open", "ended"}, error : BOOLEAN]]
    BY <1>1 DEF RecordsOK
  <2>. QED
    BY <1>3, <2>1
<1>5. /\ at'[r] = [depth |-> Tracing - 1, dir |-> "out"] /\ result'[r] = result[r]
      /\ \A q \in Request \ {r} : Same(q)
  BY <1>1, <1>2, <1>4 DEF End, GoTo, AnswersOK, Same
<1>6. RecordsOK'
  BY <1>1, <1>2, <1>4 DEF RecordsOK
<1>7. /\ at'[r].depth = 0 /\ at'[r].dir = "out" /\ (Answered(r)' <=> Answered(r))
      /\ (Answered(r) <=> result[r] = "returned")
      /\ (Observed(r)' <=> Observed(r)) /\ (Observed(r) <=> ~operational[r])
  BY <1>2, <1>5 DEF Answered, Observed
<1>8. Noted(r)'
  BY <1>1, <1>2, <1>3, <1>4, <1>7 DEF Told, Noted
<1>9. Counted(r)'
  <2>1. Observed(r) /\ response[r].status = 0 => LastIs(r, 500)'
    BY <1>1, <1>2 DEF Told, Counted, LastIs
  <2>2. ASSUME Observed(r), Answered(r), NEW m \in Metrics
        PROVE  /\ ~(0 >= m) /\ 0 < m
               /\ response[r].sender = Errors \/ response[r].sender > m =>
                    LastIs(r, response[r].status)'
    <3>1. m > Tracing /\ m \in Nat
      BY <1>1
    <3>2. response[r].sender = Errors \/ (response[r].sender > m /\ Tracing < m) =>
            LastIs(r, response[r].status)
      BY <1>1, <1>2, <2>2 DEF Told, Counted
    <3>. QED
      BY <1>2, <3>1, <3>2 DEF LastIs
  <2>3. Observed(r) /\ Answered(r) => 0 < response[r].sender
    <3>1. response[r].sender \in Nat
      BY <1>1 DEF AnswersOK
    <3>. QED
      BY <1>1, <1>2, <3>1 DEF Told, Counted
  <2>. QED
    BY <1>2, <1>7, <2>1, <2>2, <2>3 DEF Counted
<1>10. Candidate(r)'
  BY <1>1, <1>2, <1>5, <1>7 DEF Told, Candidate, Cancelled, Audited
<1>11. Ended(r)'
  <2>1. Observed(r) => /\ result[r] = "raised" => journal[r].line = "unhandled"
                       /\ result[r] = "returned" => /\ journal[r].line = "completed"
                                                    /\ journal[r].status = response[r].status
    BY <1>1, <1>2 DEF Told, Ended
  <2>2. Observed(r) => s.state = "ended" /\ (result[r] = "raised" => s.error)
    BY <1>3, <1>7
  <2>. QED
    BY <1>2, <1>4, <1>5, <1>7, <2>1, <2>2 DEF Ended
<1>12. Logged(r)'
  BY <1>1, <1>2, <1>7 DEF Told, Logged, Audited
<1>. QED
  BY <1>2, <1>5, <1>6, <1>8, <1>9, <1>10, <1>11, <1>12 DEF Kept, Told

LEMMA ObserversStart == Init => ObserverInv
<1>1. SUFFICES ASSUME Init PROVE ObserverInv
  OBVIOUS
<1>2. AnswerInv
  BY <1>1, Shape DEF Init, AnswerInv, AnswersOK, Settled
<1>3. RecordsOK
  BY <1>1 DEF Init, RecordsOK, NoLine
<1>4. ASSUME NEW r \in Request PROVE Told(r)
  <2>1. at[r].dir = "in" /\ counted[r] = << >> /\ candidate[r] = 0 /\ journal[r].line = "none"
    BY <1>1 DEF Init, NoLine
  <2>. QED
    BY <2>1 DEF Told, Noted, Counted, Ended, Candidate, Logged, Answered, Cancelled, LastIs
<1>. QED
  BY <1>2, <1>3, <1>4 DEF ObserverInv

LEMMA ObserversKept == ObserverInv /\ [Next]_vars => ObserverInv'
<1>1. SUFFICES ASSUME ObserverInv, [Next]_vars PROVE ObserverInv'
  OBVIOUS
<1>2. AnswerInv'
  BY <1>1, AnswersKept DEF ObserverInv
<1>3. CASE UNCHANGED vars
  <2>1. RecordsOK'
    BY <1>1, <1>3 DEF ObserverInv, RecordsOK
  <2>2. \A q \in Request : Same(q) /\ UNCHANGED operational
    BY <1>3 DEF Same
  <2>. QED
    BY <1>1, <1>2, <2>1, <2>2, SameIsTold DEF ObserverInv
<1>4. ASSUME NEW r \in Request, Step(r) \/ Cancel(r) PROVE ObserverInv'
  <2>1. Kept(r)
    <3>1. CASE MetricsCode(r)
      BY <1>1, <3>1, EnterMetricsTells, LeaveMetricsTells DEF MetricsCode
    <3>2. CASE Out(r)
      BY <1>1, <3>2, LeaveErrorsTells, LeaveLoggingTells, LeaveTracingTells DEF Out
    <3>. QED
      BY <1>1, <1>4, <3>1, <3>2, InTells, UserCodeTells, EndpointTells, CancelTells DEF Step
  <2>2. \A q \in Request : Told(q)'
    BY <1>1, <2>1, SameIsTold DEF Kept, ObserverInv
  <2>. QED
    BY <1>2, <2>1, <2>2 DEF Kept, ObserverInv
<1>. QED
  BY <1>1, <1>3, <1>4 DEF Next

(* What log, span and counter say of a finished request is what its client *)
(* saw, whatever answered, raised, caught or retried: ObserversAgree.      *)
THEOREM ObserversTellTheTruth == Spec => []ObserversAgree
<1>1. ObserverInv => ObserversAgree
  <2>1. SUFFICES ASSUME ObserverInv, NEW r \in Request, Done(r), Observed(r)
                 PROVE  /\ span[r].state = "ended"
                        /\ result[r] = "raised" => journal[r].line = "unhandled" /\ span[r].error
                        /\ result[r] = "returned" =>
                             /\ journal[r].line = "completed"
                             /\ journal[r].status = response[r].status
                             /\ seen[r].trace = response[r].status
                             /\ response[r].status >= 500 => span[r].error
                             /\ \A m \in Metrics :
                                  response[r].sender = Errors \/ response[r].sender > m =>
                                    counted[r] = << >> \/ counted[r][Len(counted[r])] = response[r].status
    BY DEF ObserversAgree
  <2>2. at[r].depth = 0 /\ at[r].dir = "out" /\ Told(r)
    BY <2>1 DEF Done, At, ObserverInv
  <2>3. \A m \in Metrics : 0 < m
    BY Shape
  <2>4. result[r] = "returned" => Answered(r)
    BY <2>2 DEF Answered
  <2>5. Ended(r) /\ Noted(r) /\ Counted(r)
    BY <2>2 DEF Told
  <2>6. result[r] = "returned" => \A m \in Metrics :
          response[r].sender = Errors \/ response[r].sender > m => LastIs(r, response[r].status)
    BY <2>1, <2>2, <2>3, <2>4, <2>5 DEF Counted
  <2>. QED
    BY <2>1, <2>2, <2>4, <2>5, <2>6 DEF Ended, Noted, LastIs
<1>. QED
  BY <1>1, ObserversStart, ObserversKept, PTL DEF Spec

(* The completed line names the plugin middleware that answered in place   *)
(* of the layers below it, and no other: AuditTruth.                       *)
THEOREM AuditTellsTheTruth == Spec => []AuditTruth
<1>1. ObserverInv => AuditTruth
  BY DEF ObserverInv, Told, Logged, AuditTruth, Audited
<1>. QED
  BY <1>1, ObserversStart, ObserversKept, PTL DEF Spec
==============================================================================
