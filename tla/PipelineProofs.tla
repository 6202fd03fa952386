---------------------------- MODULE PipelineProofs ----------------------------
(***************************************************************************)
(* Theorems about RequestPipeline and the AppMonitor over it, for every    *)
(* finite set of requests, every choice of routes and buckets.             *)
(***************************************************************************)
EXTENDS AppMonitor, SequenceTheorems, FiniteSetTheorems, TLAPS

\* What a request has left behind, by how far it is.
Underway(s) ==
  s.pc # "done" => s.lines = <<>> /\ s.reports = <<>> /\ s.sent = NoStatus

PassedTheGuard(s) ==
  /\ s.pc \in {"new", "guard"} => ~ s.handled
  /\ s.pc = "handler" => s.handled
  /\ s.pc = "guard" \/ s.handled => s.route \in Route

HasId(s) ==
  /\ s.pc = "new" => s.id = "undefined"
  /\ s.pc \in {"guard", "handler"} => s.id = "assigned"

LoggedOnce(s) ==
  s.lines = IF s.handled /\ s.pc = "done" THEN <<s.sent>> ELSE <<>>

ReportedOnce(s) ==
  CASE s.sent = 500 -> s.reports = <<s.id>> /\ s.id # "undefined"
    [] s.sent \in {413, 415} -> s.reports = <<"undefined">>
    [] s.sent = 400 /\ s.id = "undefined" -> s.reports \in {<<>>, <<"undefined">>}
    [] OTHER -> s.reports = <<>>

RequestInv(s) ==
  /\ s \in RequestState
  /\ Underway(s) /\ PassedTheGuard(s) /\ HasId(s)
  /\ LoggedOnce(s) /\ ReportedOnce(s)

RequestsInv == request \in [Request -> RequestState]
               /\ \A r \in Request : RequestInv(request[r])

-----------------------------------------------------------------------------
(* One request *)

LEMMA EmptyLists ==
  /\ <<>> \in Seq(Status) /\ <<>> \in Seq(Id)
  /\ \A s \in Status : /\ Append(<<>>, s) = <<s>> /\ <<s>> \in Seq(Status)
  /\ \A i \in Id : /\ Append(<<>>, i) = <<i>> /\ <<i>> \in Seq(Id)
OBVIOUS

LEMMA Responded ==
  ASSUME NEW s \in RequestState, NEW status \in Status
  PROVE  LET t == Respond(s, status) IN
         /\ t \in RequestState /\ t.pc = "done" /\ t.sent = status
         /\ t.id = s.id /\ t.handled = s.handled /\ t.lines = s.lines
         /\ t.route = s.route /\ t.took = s.took /\ t.reports = s.reports
BY DEF Respond, RequestState

LEMMA Routed ==
  ASSUME NEW s \in RequestState, NEW h \in Route
  PROVE  LET t == [s EXCEPT !.route = h] IN
         /\ t \in RequestState /\ t.pc = s.pc /\ t.sent = s.sent
         /\ t.id = s.id /\ t.handled = s.handled /\ t.lines = s.lines
         /\ t.route = h /\ t.took = s.took /\ t.reports = s.reports
BY DEF RequestState

\* What the filter makes of a request without reports.
LEMMA Caught ==
  ASSUME NEW s \in RequestState, NEW e, FilterStatus(e) \in Status,
         s.reports = <<>>
  PROVE  LET t == Catch(s, e) IN
         /\ t \in RequestState /\ t.pc = "done" /\ t.sent = FilterStatus(e)
         /\ t.id = s.id /\ t.handled = s.handled /\ t.lines = s.lines
         /\ t.route = s.route /\ t.took = s.took
         /\ t.reports = IF Reported(e) THEN <<s.id>> ELSE <<>>
<1> DEFINE f == FilterStatus(e)
           u == Respond(s, f)
<1> HIDE DEF f
<1>1. f \in Status
  BY DEF f
<1>2. /\ u \in RequestState /\ u.pc = "done" /\ u.sent = f
      /\ u.id = s.id /\ u.handled = s.handled /\ u.lines = s.lines
      /\ u.route = s.route /\ u.took = s.took /\ u.reports = <<>> /\ s.id \in Id
  BY <1>1 DEF Respond, RequestState
<1> HIDE DEF u
<1>3. Catch(s, e) = [u EXCEPT !.reports = IF Reported(e) THEN Append(@, s.id) ELSE @]
  BY DEF Catch, u, f
<1>4. (IF Reported(e) THEN <<s.id>> ELSE <<>>) \in Seq(Id)
  BY <1>2, EmptyLists
<1>5. Catch(s, e) = [u EXCEPT !.reports = IF Reported(e) THEN <<s.id>> ELSE <<>>]
  BY <1>2, <1>3, EmptyLists
<1> QED
  BY <1>2, <1>4, <1>5 DEF RequestState, f

LEMMA CaughtUnreported ==
  ASSUME NEW s \in RequestState, NEW e, FilterStatus(e) \in Status,
         s.reports = <<>>, ~ Reported(e)
  PROVE  LET t == Catch(s, e) IN
         /\ t \in RequestState /\ t.pc = "done" /\ t.sent = FilterStatus(e)
         /\ t.handled = s.handled /\ t.lines = s.lines /\ t.reports = <<>>
<1> DEFINE t == Catch(s, e)
<1>1. /\ t \in RequestState /\ t.pc = "done" /\ t.sent = FilterStatus(e)
      /\ t.handled = s.handled /\ t.lines = s.lines
      /\ t.reports = IF Reported(e) THEN <<s.id>> ELSE <<>>
  BY Caught
<1> HIDE DEF t
<1>2. t.reports = <<>>
  BY <1>1, Zenon
<1> QED
  BY <1>1, <1>2 DEF t

LEMMA Exceptions ==
  /\ \A s \in Status \ {NoStatus} :
       /\ FilterStatus(HttpException(s)) = s
       /\ InterceptorStatus(HttpException(s)) = s
       /\ Reported(HttpException(s)) <=> s >= 500
  /\ \A s \in Status \ {NoStatus} :
       FilterStatus(RawError(s)) = s /\ Reported(RawError(s))
  /\ FilterStatus(PlainError) = 500 /\ Reported(PlainError)
  /\ InterceptorStatus(PlainError) = 500
BY DEF FilterStatus, InterceptorStatus, HttpException, RawError,
       PlainError, Reported, NoStatus, Status

\* A request goes on, or is answered before its handler: no interceptor sees it.
Passes(r) ==
  \E t \in RequestState :
    /\ RequestInv(t) /\ ~ (t.handled /\ t.pc = "done")
    /\ request[r].pc # "done" /\ request' = [request EXCEPT ![r] = t]
    /\ UNCHANGED <<counter, histogram>>

\* A handler ends, and its request is logged and measured as it is answered.
Ends(r) ==
  \E t \in RequestState, status \in Status, d \in Duration :
    /\ RequestInv(t) /\ t.handled /\ t.pc = "done"
    /\ t.sent = status /\ t.took = d /\ t.route = request[r].route
    /\ request[r].pc = "handler" /\ request' = [request EXCEPT ![r] = t]
    /\ Measure(r, status, d)

LEMMA BeforeTheHandler ==
  ASSUME RequestsInv, NEW r \in Request, NEW h \in Route,
         \/ AnswerOutsideNest(r, h) \/ BodyRejected(r, h)
         \/ NotFound(r, h) \/ MetricsRefused(r, h)
         \/ AwaitGuard(r, h) \/ Unguarded(r, h)
  PROVE  Passes(r)
<1> DEFINE s == request[r]
           n == [s EXCEPT !.route = h]
           i == WithRequestId(s)
<1>0. /\ s \in RequestState /\ s.pc = "new" /\ s.id = "undefined"
      /\ s.lines = <<>> /\ s.reports = <<>> /\ s.sent = NoStatus
      /\ ~ s.handled
  BY DEF RequestsInv, RequestInv, Underway, HasId, PassedTheGuard,
     AnswerOutsideNest, BodyRejected, NotFound, MetricsRefused, AwaitGuard,
     Unguarded, Enter
<1>1. /\ n \in RequestState /\ n.pc = "new" /\ n.id = "undefined"
      /\ n.lines = <<>> /\ n.reports = <<>> /\ ~ n.handled
  BY <1>0 DEF RequestState
<1>2. /\ i \in RequestState /\ i.pc = "new" /\ i.id = "assigned"
      /\ i.lines = <<>> /\ i.reports = <<>> /\ i.sent = NoStatus
      /\ ~ i.handled
  BY <1>0 DEF RequestState, WithRequestId, Id
<1>a. ASSUME NEW t \in RequestState, ~ t.handled, t.pc = "done",
             t.lines = <<>>, ReportedOnce(t),
             request' = [request EXCEPT ![r] = t],
             UNCHANGED <<counter, histogram>>
      PROVE  Passes(r)
  <2>1. RequestInv(t)
    BY <1>a DEF RequestInv, Underway, PassedTheGuard, HasId, LoggedOnce
  <2> QED
    BY <1>0, <1>a, <2>1 DEF Passes
<1>b. ASSUME NEW t \in RequestState, ~ t.handled, t.pc = "done",
             t.lines = <<>>, t.reports = <<>>, t.sent \notin {413, 415, 500},
             Enter(r, h, t)
      PROVE  Passes(r)
  <2> DEFINE v == [t EXCEPT !.route = h]
  <2>1. /\ v \in RequestState /\ v.pc = "done" /\ ~ v.handled
        /\ v.sent = t.sent /\ v.lines = <<>> /\ v.reports = <<>>
    BY <1>b, Routed
  <2>2. request' = [request EXCEPT ![r] = v] /\ UNCHANGED <<counter, histogram>>
    BY <1>b DEF Enter
  <2> HIDE DEF v
  <2>3. ReportedOnce(v)
    BY <1>b, <2>1 DEF ReportedOnce
  <2> QED
    BY <1>a, <2>1, <2>2, <2>3
<1> HIDE DEF s, n, i
<1>3. CASE AnswerOutsideNest(r, h)
  <2>1. PICK status \in OutsideNest(h) :
          request' = [request EXCEPT ![r] = Respond([s EXCEPT !.route = h], status)]
    BY <1>3 DEF AnswerOutsideNest, s
  <2>2. status \in {200, 204, 401, 403}
    BY DEF OutsideNest
  <2> DEFINE t == Respond(n, status)
  <2>3. /\ t \in RequestState /\ t.pc = "done" /\ ~ t.handled /\ t.sent = status
        /\ t.lines = <<>> /\ t.reports = <<>>
    BY <1>1, <2>2, Responded DEF Status
  <2>4. request' = [request EXCEPT ![r] = t] /\ UNCHANGED <<counter, histogram>>
    BY <1>3, <2>1 DEF AnswerOutsideNest, n
  <2> HIDE DEF t
  <2>5. ReportedOnce(t)
    BY <2>2, <2>3 DEF ReportedOnce
  <2> QED
    BY <1>a, <2>3, <2>4, <2>5
<1>4. CASE BodyRejected(r, h)
  <2>1. PICK e \in {HttpException(400)} \cup ParserErrors :
          request' = [request EXCEPT ![r] = Catch(n, e)]
    BY <1>4 DEF BodyRejected, n, s
  <2>2. \/ FilterStatus(e) = 400 /\ ~ Reported(e)
        \/ FilterStatus(e) \in {400, 413, 415} /\ Reported(e)
    BY <2>1, Exceptions DEF ParserErrors, Status, NoStatus
  <2> DEFINE t == Catch(n, e)
  <2>3. /\ t \in RequestState /\ t.pc = "done" /\ ~ t.handled
        /\ t.sent = FilterStatus(e) /\ t.lines = <<>> /\ t.id = "undefined"
        /\ t.reports = IF Reported(e) THEN <<"undefined">> ELSE <<>>
    BY <1>1, <2>2, Caught DEF Status
  <2>4. ReportedOnce(t)
    BY <2>2, <2>3 DEF ReportedOnce
  <2> QED
    BY <1>4, <1>a, <2>1, <2>3, <2>4 DEF BodyRejected
<1>5. CASE NotFound(r, h)
  <2>1. PICK u \in {request[r], WithRequestId(request[r])} :
          Enter(r, h, Catch(u, HttpException(404)))
    BY <1>5 DEF NotFound
  <2>x. PICK e : e = HttpException(404)
    OBVIOUS
  <2> DEFINE t == Catch(u, e)
  <2>2. FilterStatus(e) = 404 /\ ~ Reported(e) /\ FilterStatus(e) \in Status
    BY <2>x, Exceptions DEF Status, NoStatus
  <2>u. u \in RequestState /\ u.reports = <<>> /\ u.lines = <<>> /\ ~ u.handled
    BY <1>0, <1>2 DEF i, s
  <2>3. /\ t \in RequestState /\ t.pc = "done" /\ ~ t.handled /\ t.sent = 404
        /\ t.lines = <<>> /\ t.reports = <<>>
    BY <2>u, <2>2, CaughtUnreported
  <2>e. Enter(r, h, t)
    BY <2>1, <2>x
  <2> HIDE DEF t
  <2> QED
    BY <1>b, <2>3, <2>e
<1>6. CASE MetricsRefused(r, h)
  <2>1. PICK status \in {401, 503} :
          Enter(r, h, Respond(WithRequestId(request[r]), status))
    BY <1>6 DEF MetricsRefused
  <2> DEFINE t == Respond(WithRequestId(request[r]), status)
  <2>2. /\ t \in RequestState /\ t.pc = "done" /\ ~ t.handled /\ t.sent = status
        /\ t.lines = <<>> /\ t.reports = <<>>
    <3>1. status \in Status
      BY DEF Status
    <3>2. t = Respond(i, status)
      BY DEF i, s
    <3> HIDE DEF t
    <3> QED
      BY <1>2, <3>1, <3>2, Responded
  <2>e. Enter(r, h, t)
    BY <2>1
  <2> HIDE DEF t
  <2> QED
    BY <1>b, <2>2, <2>e
<1>7. CASE AwaitGuard(r, h)
  <2> DEFINE v == [[i EXCEPT !.pc = "guard"] EXCEPT !.route = h]
  <2>1. request' = [request EXCEPT ![r] = v]
    BY <1>7 DEF AwaitGuard, Enter, i, s
  <2>2. /\ v \in RequestState /\ v.pc = "guard" /\ ~ v.handled /\ v.id = "assigned"
        /\ v.lines = <<>> /\ v.reports = <<>> /\ v.sent = NoStatus /\ v.route = h
    BY <1>2 DEF RequestState
  <2>3. RequestInv(v)
    BY <2>2 DEF RequestInv, Underway, PassedTheGuard, HasId, LoggedOnce,
       ReportedOnce, NoStatus
  <2> QED
    BY <1>0, <1>7, <2>1, <2>2, <2>3 DEF AwaitGuard, Enter, Passes, s
<1>8. CASE Unguarded(r, h)
  <2> DEFINE v == [Handle(i) EXCEPT !.route = h]
  <2>1. request' = [request EXCEPT ![r] = v]
    BY <1>8 DEF Unguarded, Enter, i, s
  <2>2. /\ v \in RequestState /\ v.pc = "handler" /\ v.handled /\ v.id = "assigned"
        /\ v.lines = <<>> /\ v.reports = <<>> /\ v.sent = NoStatus /\ v.route = h
    BY <1>2 DEF Handle, RequestState
  <2>3. RequestInv(v)
    BY <2>2 DEF RequestInv, Underway, PassedTheGuard, HasId, LoggedOnce,
       ReportedOnce, NoStatus
  <2> QED
    BY <1>0, <1>8, <2>1, <2>2, <2>3 DEF Unguarded, Enter, Passes, s
<1> QED
  BY <1>3, <1>4, <1>5, <1>6, <1>7, <1>8

LEMMA AtTheGuard ==
  ASSUME RequestsInv, NEW r \in Request, GuardAllows(r) \/ GuardDenies(r)
  PROVE  Passes(r)
<1> DEFINE s == request[r]
<1>0. /\ s \in RequestState /\ s.pc = "guard" /\ s.id = "assigned"
      /\ s.lines = <<>> /\ s.reports = <<>> /\ s.sent = NoStatus
      /\ ~ s.handled
  BY DEF RequestsInv, RequestInv, Underway, HasId, PassedTheGuard,
     GuardAllows, GuardDenies
<1>1. CASE GuardAllows(r)
  <2> DEFINE t == Handle(s)
  <2>1. /\ request' = [request EXCEPT ![r] = t]
        /\ UNCHANGED <<counter, histogram>>
    BY <1>1 DEF GuardAllows
  <2>2. /\ t \in RequestState /\ t.pc = "handler" /\ t.handled
        /\ t.id = "assigned" /\ t.route = s.route
        /\ t.lines = <<>> /\ t.reports = <<>> /\ t.sent = NoStatus
    BY <1>0 DEF Handle, RequestState
  <2>3. t.route \in Route
    BY <1>0, <2>2 DEF RequestsInv, RequestInv, PassedTheGuard
  <2> HIDE DEF t
  <2>4. RequestInv(t)
    BY <2>2, <2>3 DEF RequestInv, Underway, PassedTheGuard, HasId, LoggedOnce,
       ReportedOnce, NoStatus
  <2> QED
    BY <1>0, <2>1, <2>2, <2>4 DEF Passes
<1>2. CASE GuardDenies(r)
  <2>x. PICK e : e = HttpException(403)
    OBVIOUS
  <2> DEFINE t == Catch(s, e)
  <2>1. /\ request' = [request EXCEPT ![r] = t]
        /\ UNCHANGED <<counter, histogram>>
    BY <1>2, <2>x DEF GuardDenies
  <2>2. FilterStatus(e) = 403 /\ ~ Reported(e) /\ FilterStatus(e) \in Status
    BY <2>x, Exceptions DEF Status, NoStatus
  <2>3. /\ t \in RequestState /\ t.pc = "done" /\ ~ t.handled /\ t.sent = 403
        /\ t.lines = <<>> /\ t.reports = <<>>
    BY <1>0, <2>2, CaughtUnreported
  <2> HIDE DEF t
  <2>4. RequestInv(t)
    BY <2>3 DEF RequestInv, Underway, PassedTheGuard, HasId, LoggedOnce,
       ReportedOnce, NoStatus
  <2> QED
    BY <1>0, <2>1, <2>3, <2>4 DEF Passes
<1> QED
  BY <1>1, <1>2

LEMMA InTheHandler ==
  ASSUME RequestsInv, NEW r \in Request, HandlerReturns(r) \/ HandlerThrows(r)
  PROVE  Ends(r)
<1> DEFINE s == request[r]
<1>0. /\ s \in RequestState /\ s.pc = "handler" /\ s.id = "assigned"
      /\ s.lines = <<>> /\ s.reports = <<>> /\ s.handled /\ s.route \in Route
  BY DEF RequestsInv, RequestInv, Underway, HasId, PassedTheGuard,
     HandlerReturns, HandlerThrows
<1>a. ASSUME NEW status \in Status, NEW d \in Duration
      PROVE  LET t == Logged(s, status, d) IN
             /\ t \in RequestState /\ t.pc = "handler" /\ t.id = "assigned"
             /\ t.handled /\ t.route = s.route /\ t.took = d
             /\ t.lines = <<status>> /\ t.reports = <<>>
  <2>1. Logged(s, status, d) = [s EXCEPT !.lines = <<status>>, !.took = d]
    BY <1>0, EmptyLists DEF Logged
  <2>2. <<status>> \in Seq(Status)
    BY EmptyLists
  <2> QED
    BY <1>0, <2>1, <2>2 DEF RequestState
<1>b. ASSUME NEW t \in RequestState, NEW status \in Status, NEW d \in Duration,
             t.handled, t.pc = "done", t.sent = status, t.took = d,
             t.route = s.route, t.lines = <<status>>, ReportedOnce(t),
             request' = [request EXCEPT ![r] = t], Measure(r, status, d)
      PROVE  Ends(r)
  <2>1. RequestInv(t)
    BY <1>0, <1>b DEF RequestInv, Underway, PassedTheGuard, HasId, LoggedOnce
  <2> QED
    BY <1>0, <1>b, <2>1 DEF Ends
<1> HIDE DEF s
<1>1. CASE HandlerReturns(r)
  <2>1. PICK status \in Returned(s.route), d \in Duration :
          /\ request' = [request EXCEPT ![r] = Respond(Logged(s, status, d), status)]
          /\ Measure(r, status, d)
    BY <1>1 DEF HandlerReturns, s
  <2>2. status \in {200, 201, 204, 404} /\ status \in Status
    BY DEF Returned, Status
  <2> DEFINE u == Logged(s, status, d)
             t == Respond(u, status)
  <2>3. /\ u \in RequestState /\ u.id = "assigned" /\ u.handled
        /\ u.route = s.route /\ u.took = d /\ u.lines = <<status>>
        /\ u.reports = <<>>
    BY <1>a, <2>2
  <2> HIDE DEF u
  <2>4. /\ t \in RequestState /\ t.pc = "done" /\ t.sent = status /\ t.handled
        /\ t.route = s.route /\ t.took = d /\ t.lines = <<status>>
        /\ t.reports = <<>>
    BY <2>2, <2>3, Responded
  <2>5. request' = [request EXCEPT ![r] = t]
    BY <2>1 DEF u
  <2> HIDE DEF t
  <2>6. ReportedOnce(t)
    BY <2>2, <2>4 DEF ReportedOnce
  <2> QED
    BY <1>b, <2>1, <2>2, <2>4, <2>5, <2>6
<1>2. CASE HandlerThrows(r)
  <2>1. PICK e \in Thrown(s.route), d \in Duration :
          /\ request' = [request EXCEPT ![r] =
               Catch(Logged(s, InterceptorStatus(e), d), e)]
          /\ Measure(r, InterceptorStatus(e), d)
    BY <1>2 DEF HandlerThrows, s
  <2>2. e \in {HttpException(400), HttpException(409), HttpException(500), PlainError}
    BY DEF Thrown
  <2> DEFINE status == InterceptorStatus(e)
  <2>3. /\ status \in {400, 409, 500} /\ FilterStatus(e) = status
        /\ Reported(e) <=> status = 500
    BY <2>2, Exceptions DEF Status, NoStatus
  <2>s. status \in Status /\ FilterStatus(e) \in Status
    BY <2>3 DEF Status
  <2> DEFINE u == Logged(s, status, d)
             t == Catch(u, e)
  <2> HIDE DEF status
  <2>4. /\ u \in RequestState /\ u.id = "assigned" /\ u.handled
        /\ u.route = s.route /\ u.took = d /\ u.lines = <<status>>
        /\ u.reports = <<>>
    BY <1>a, <2>s
  <2> HIDE DEF u
  <2>5. /\ t \in RequestState /\ t.pc = "done" /\ t.sent = status /\ t.handled
        /\ t.route = s.route /\ t.took = d /\ t.lines = <<status>>
        /\ t.id = "assigned"
        /\ t.reports = IF Reported(e) THEN <<"assigned">> ELSE <<>>
    BY <2>3, <2>s, <2>4, Caught
  <2>6. request' = [request EXCEPT ![r] = t] /\ Measure(r, status, d)
    BY <2>1 DEF u, status
  <2> HIDE DEF t
  <2>7. ReportedOnce(t)
    BY <2>3, <2>5 DEF ReportedOnce
  <2> QED
    BY <1>b, <2>s, <2>5, <2>6, <2>7
<1> QED
  BY <1>1, <1>2

LEMMA OneRequest ==
  ASSUME RequestsInv, NEW r \in Request, RequestStep(r)
  PROVE  Passes(r) \/ Ends(r)
BY BeforeTheHandler, AtTheGuard, InTheHandler DEF RequestStep

LEMMA RequestsStep ==
  ASSUME RequestsInv, NEW r \in Request, Passes(r) \/ Ends(r)
  PROVE  RequestsInv'
<1>1. PICK t \in RequestState :
        RequestInv(t) /\ request' = [request EXCEPT ![r] = t]
  BY DEF Passes, Ends
<1> QED
  BY <1>1 DEF RequestsInv

-----------------------------------------------------------------------------
(* The registry *)

With(l, s) == {r \in Labelled(l) : request[r].sent = s}
Within(l, b) == {r \in Labelled(l) : request[r].took <= b}

CounterInv ==
  /\ counter \in [Label -> [Status -> Nat]]
  /\ \A l \in Label, s \in Status : counter[l][s] = Cardinality(With(l, s))

Tells(series) ==
  /\ series.count = Cardinality(Labelled(series.label))
  /\ \A b \in Bucket : series.within[b] = Cardinality(Within(series.label, b))

HasSeries(l) == \E i \in DOMAIN histogram : histogram[i].label = l

HistogramInv ==
  /\ histogram \in Seq(Series)
  /\ \A i, j \in DOMAIN histogram : histogram[i].label = histogram[j].label => i = j
  /\ \A l \in Label : HasSeries(l) <=> Labelled(l) # {}
  /\ \A i \in DOMAIN histogram : Tells(histogram[i])

PipelineInv == RequestsInv /\ CounterInv /\ HistogramInv

LEMMA Finite ==
  \A l, x :
    /\ IsFiniteSet(Labelled(l)) /\ Cardinality(Labelled(l)) \in Nat
    /\ IsFiniteSet(With(l, x)) /\ Cardinality(With(l, x)) \in Nat
    /\ IsFiniteSet(Within(l, x)) /\ Cardinality(Within(l, x)) \in Nat
<1> SUFFICES ASSUME NEW l, NEW x
             PROVE  /\ IsFiniteSet(Labelled(l)) /\ Cardinality(Labelled(l)) \in Nat
                    /\ IsFiniteSet(With(l, x)) /\ Cardinality(With(l, x)) \in Nat
                    /\ IsFiniteSet(Within(l, x)) /\ Cardinality(Within(l, x)) \in Nat
  OBVIOUS
<1>1. /\ Labelled(l) \in SUBSET Request
      /\ With(l, x) \in SUBSET Request /\ Within(l, x) \in SUBSET Request
  BY DEF Labelled, Served, With, Within
<1>2. IsFiniteSet(Request)
  BY PipelineAssumption
<1> QED
  BY <1>1, <1>2, FS_Subset, FS_CardinalityType

\* What passes leaves the sets that are counted as they are.
LEMMA PassingCountsNothing ==
  ASSUME RequestsInv, NEW r \in Request, Passes(r)
  PROVE  \A l, x : /\ Labelled(l)' = Labelled(l)
                   /\ With(l, x)' = With(l, x) /\ Within(l, x)' = Within(l, x)
<1> SUFFICES ASSUME NEW l, NEW x
             PROVE  /\ Labelled(l)' = Labelled(l)
                    /\ With(l, x)' = With(l, x) /\ Within(l, x)' = Within(l, x)
  OBVIOUS
<1>1. PICK t \in RequestState :
        /\ ~ (t.handled /\ t.pc = "done") /\ request[r].pc # "done"
        /\ request' = [request EXCEPT ![r] = t]
  BY DEF Passes
<1>2. /\ request \in [Request -> RequestState] /\ request'[r] = t
      /\ \A q \in Request \ {r} : request'[q] = request[q]
  BY <1>1 DEF RequestsInv
<1>3. Served' = Served /\ r \notin Served /\ Served \subseteq Request
  BY <1>1, <1>2 DEF Served
<1>4. Labelled(l)' = Labelled(l) /\ Labelled(l) \subseteq Request \ {r}
  BY <1>2, <1>3 DEF Labelled
<1> QED
  BY <1>2, <1>4 DEF With, Within

\* A request that ends is counted with those of its label, status and time.
LEMMA EndingCountsOne ==
  ASSUME RequestsInv, NEW r \in Request, NEW t \in RequestState,
         t.handled, t.pc = "done", request[r].pc = "handler",
         t.route = request[r].route, request' = [request EXCEPT ![r] = t]
  PROVE  LET h == NormaliseRoute(t.route) IN
         /\ h \in Label /\ r \notin Labelled(h)
         /\ \A l : Labelled(l)' = Labelled(l) \cup (IF l = h THEN {r} ELSE {})
         /\ \A l, s : With(l, s)' =
              With(l, s) \cup (IF l = h /\ s = t.sent THEN {r} ELSE {})
         /\ \A l, b : Within(l, b)' =
              Within(l, b) \cup (IF l = h /\ t.took <= b THEN {r} ELSE {})
<1> DEFINE h == NormaliseRoute(t.route)
<1>2. /\ request \in [Request -> RequestState] /\ request'[r] = t
      /\ \A q \in Request \ {r} : request'[q] = request[q]
  BY DEF RequestsInv
<1>3. Served' = Served \cup {r} /\ r \notin Served /\ Served \subseteq Request
  BY <1>2 DEF Served
<1>h. h \in Label
  BY DEF RequestsInv, RequestInv, PassedTheGuard, Label
<1>4. \A l : /\ Labelled(l)' = Labelled(l) \cup (IF l = h THEN {r} ELSE {})
             /\ Labelled(l) \subseteq Request \ {r}
  BY <1>2, <1>3 DEF Labelled
<1> HIDE DEF h
<1>5. \A l, s : With(l, s)' =
        With(l, s) \cup (IF l = h /\ s = t.sent THEN {r} ELSE {})
  BY <1>2, <1>4 DEF With
<1>6. \A l, b : Within(l, b)' =
        Within(l, b) \cup (IF l = h /\ t.took <= b THEN {r} ELSE {})
  BY <1>2, <1>4 DEF Within
<1> QED
  BY <1>h, <1>4, <1>5, <1>6 DEF h

LEMMA OneMore ==
  ASSUME NEW S, IsFiniteSet(S), NEW r, r \notin S, NEW c \in BOOLEAN
  PROVE  Cardinality(S \cup (IF c THEN {r} ELSE {}))
           = IF c THEN Cardinality(S) + 1 ELSE Cardinality(S)
<1>1. CASE c
  BY <1>1, FS_AddElement
<1>2. CASE ~ c
  <2>1. S \cup (IF c THEN {r} ELSE {}) = S
    BY <1>2
  <2> QED
    BY <1>2, <2>1
<1> QED
  BY <1>1, <1>2

\* The counter after a request that ended.
LEMMA CounterCounts ==
  ASSUME PipelineInv, NEW r \in Request, NEW t \in RequestState,
         t.handled, t.pc = "done", request[r].pc = "handler", t.sent \in Status,
         t.route = request[r].route, request' = [request EXCEPT ![r] = t],
         counter' = [counter EXCEPT ![NormaliseRoute(t.route)][t.sent] = @ + 1]
  PROVE  CounterInv'
<1> DEFINE h == NormaliseRoute(t.route)
<1>0. /\ h \in Label /\ r \notin Labelled(h)
      /\ \A l, s : With(l, s)' =
           With(l, s) \cup (IF l = h /\ s = t.sent THEN {r} ELSE {})
  BY EndingCountsOne DEF PipelineInv
<1>1. counter' = [counter EXCEPT ![h][t.sent] = @ + 1]
  OBVIOUS
<1> HIDE DEF h
<1>2. counter' \in [Label -> [Status -> Nat]]
  BY <1>0, <1>1 DEF PipelineInv, CounterInv
<1>3. ASSUME NEW l \in Label, NEW s \in Status
      PROVE  counter'[l][s] = Cardinality(With(l, s)')
  <2> DEFINE c == l = h /\ s = t.sent
  <2>1. counter[l][s] = Cardinality(With(l, s)) /\ counter[l][s] \in Nat
    BY DEF PipelineInv, CounterInv
  <2>2. counter'[l][s] = IF c THEN counter[l][s] + 1 ELSE counter[l][s]
    BY <1>0, <1>1 DEF PipelineInv, CounterInv
  <2>3. CASE c
    <3>1. With(l, s)' = With(l, s) \cup {r}
      BY <1>0, <2>3
    <3>r. r \notin With(l, s)
      BY <1>0, <2>3 DEF With
    <3>2. Cardinality(With(l, s) \cup {r}) = Cardinality(With(l, s)) + 1
      BY <3>r, Finite, FS_AddElement
    <3> QED
      BY <2>1, <2>2, <2>3, <3>1, <3>2
  <2>4. CASE ~ c
    <3>1. With(l, s)' = With(l, s)
      BY <1>0, <2>4
    <3> QED
      BY <2>1, <2>2, <2>4, <3>1
  <2> QED
    BY <2>3, <2>4
<1> QED
  BY <1>2, <1>3 DEF CounterInv

LEMMA ObservedOnce ==
  ASSUME NEW x \in Series, NEW d \in Duration
  PROVE  LET y == Observed(x, d) IN
         /\ y \in Series /\ y.label = x.label /\ y.count = x.count + 1
         /\ \A b \in Bucket :
              y.within[b] = IF d <= b THEN x.within[b] + 1 ELSE x.within[b]
<1> DEFINE w == [b \in Bucket |-> IF d <= b THEN x.within[b] + 1 ELSE x.within[b]]
<1>1. x.within \in [Bucket -> Nat] /\ x.count \in Nat
  BY DEF Series
<1>2. w \in [Bucket -> Nat]
  BY <1>1
<1>3. PICK l \in Label, f \in [Bucket -> Nat], n \in Nat :
        x = [label |-> l, within |-> f, count |-> n]
  BY DEF Series
<1>4. Observed(x, d) = [label |-> l, within |-> w, count |-> n + 1]
  <2>1. Observed(x, d) = [x EXCEPT !.count = n + 1, !.within = w]
    BY <1>3 DEF Observed
  <2> HIDE DEF w
  <2> QED
    BY <1>3, <2>1
<1> HIDE DEF w
<1>5. LET y == Observed(x, d) IN
      y \in Series /\ y.label = x.label /\ y.count = x.count + 1 /\ y.within = w
  BY <1>1, <1>2, <1>3, <1>4 DEF Series
<1> QED
  BY <1>5 DEF w

\* A series that tells the truth, after a request that ended.
LEMMA TellingGoesOn ==
  ASSUME RequestsInv, NEW r \in Request, NEW t \in RequestState,
         t.handled, t.pc = "done", request[r].pc = "handler",
         t.took \in Duration,
         t.route = request[r].route, request' = [request EXCEPT ![r] = t],
         NEW x \in Series, Tells(x)
  PROVE  Tells(IF x.label = NormaliseRoute(t.route)
               THEN Observed(x, t.took) ELSE x)'
<1> DEFINE h == NormaliseRoute(t.route)
<1>0. /\ r \notin Labelled(h)
      /\ \A l : Labelled(l)' = Labelled(l) \cup (IF l = h THEN {r} ELSE {})
      /\ \A l, b : Within(l, b)' =
           Within(l, b) \cup (IF l = h /\ t.took <= b THEN {r} ELSE {})
  BY EndingCountsOne
<1> HIDE DEF h
<1>1. CASE x.label = h
  <2> DEFINE y == Observed(x, t.took)
  <2>1. /\ y.label = h /\ y.count = x.count + 1
        /\ \A b \in Bucket :
             y.within[b] = IF t.took <= b THEN x.within[b] + 1 ELSE x.within[b]
    BY <1>1, ObservedOnce
  <2> HIDE DEF y
  <2>2. y.count = Cardinality(Labelled(h)')
    <3>1. Labelled(h)' = Labelled(h) \cup {r}
      BY <1>0
    <3>2. Cardinality(Labelled(h) \cup {r}) = Cardinality(Labelled(h)) + 1
      BY <1>0, Finite, FS_AddElement
    <3> QED
      BY <1>1, <2>1, <3>1, <3>2 DEF Tells
  <2>3. ASSUME NEW b \in Bucket
        PROVE  y.within[b] = Cardinality(Within(h, b)')
    <3>1. x.within[b] = Cardinality(Within(h, b)) /\ r \notin Within(h, b)
      BY <1>0, <1>1 DEF Tells, Within
    <3>2. CASE t.took <= b
      <4>1. Within(h, b)' = Within(h, b) \cup {r}
        BY <1>0, <3>2
      <4>2. Cardinality(Within(h, b) \cup {r}) = Cardinality(Within(h, b)) + 1
        BY <3>1, Finite, FS_AddElement
      <4> QED
        BY <2>1, <3>1, <3>2, <4>1, <4>2
    <3>3. CASE ~ t.took <= b
      <4>1. Within(h, b)' = Within(h, b)
        BY <1>0, <3>3
      <4> QED
        BY <2>1, <3>1, <3>3, <4>1
    <3> QED
      BY <3>2, <3>3
  <2>4. Tells(y)'
    BY <2>1, <2>2, <2>3 DEF Tells
  <2> QED
    BY <1>1, <2>4 DEF y, h
<1>2. CASE x.label # h
  <2>1. /\ Labelled(x.label)' = Labelled(x.label)
        /\ \A b \in Bucket : Within(x.label, b)' = Within(x.label, b)
    BY <1>0, <1>2
  <2>2. Tells(x)'
    BY <2>1 DEF Tells
  <2> QED
    BY <1>2, <2>2 DEF h
<1> QED
  BY <1>1, <1>2

\* The histogram after a request that ended.
LEMMA HistogramTells ==
  ASSUME PipelineInv, NEW r \in Request, NEW t \in RequestState,
         t.handled, t.pc = "done", request[r].pc = "handler",
         t.took \in Duration,
         t.route = request[r].route, request' = [request EXCEPT ![r] = t],
         histogram' = Observe(NormaliseRoute(t.route), t.took)
  PROVE  HistogramInv'
<1> DEFINE h == NormaliseRoute(t.route)
           d == t.took
           n == Len(histogram)
           After(x) == IF x.label = h THEN Observed(x, d) ELSE x
<1>0. /\ h \in Label
      /\ \A l : Labelled(l)' = Labelled(l) \cup (IF l = h THEN {r} ELSE {})
  BY EndingCountsOne DEF PipelineInv
<1>1. /\ histogram \in Seq(Series) /\ n \in Nat /\ DOMAIN histogram = 1..n
      /\ \A i \in 1..n : histogram[i] \in Series /\ Tells(histogram[i])
      /\ \A i, j \in 1..n : histogram[i].label = histogram[j].label => i = j
      /\ \A l \in Label : HasSeries(l) <=> Labelled(l) # {}
  BY LenProperties, ElementOfSeq DEF PipelineInv, HistogramInv
<1>2. \A x \in Series : After(x) \in Series /\ After(x).label = x.label
  BY ObservedOnce
<1>3. ASSUME NEW x \in Series, Tells(x)
      PROVE  Tells(After(x))'
  BY <1>3, TellingGoesOn DEF PipelineInv
<1>4. \A l \in Label : Labelled(l)' # {} <=> Labelled(l) # {} \/ l = h
  BY <1>0
<1>5. histogram' = Observe(h, d)
  OBVIOUS
<1>6. CASE HasSeries(h)
  <2>1. histogram' = [i \in 1..n |-> After(histogram[i])]
    BY <1>1, <1>5, <1>6 DEF Observe, HasSeries
  <2> HIDE DEF After, h, d, n
  <2>2. histogram' \in [1..n -> Series]
    BY <1>1, <1>2, <2>1
  <2>3. histogram' \in Seq(Series) /\ DOMAIN histogram' = 1..n
    BY <1>1, <2>2, SeqDef
  <2>4. \A i \in 1..n : /\ histogram'[i] = After(histogram[i])
                        /\ histogram'[i].label = histogram[i].label
    BY <1>1, <1>2, <2>1
  <2>5. ASSUME NEW i \in 1..n
        PROVE  Tells(histogram[i])'
    <3>1. PICK x \in Series : x = histogram[i] /\ Tells(x)
      BY <1>1
    <3>2. Tells(After(x))'
      BY <1>3, <3>1
    <3>3. histogram'[i] = After(x)
      BY <2>4, <3>1
    <3> QED
      BY <3>2, <3>3 DEF Tells
  <2>6. \A l \in Label : HasSeries(l)' <=> HasSeries(l)
    BY <1>1, <2>3, <2>4 DEF HasSeries
  <2>7. \A l \in Label : HasSeries(l)' <=> Labelled(l)' # {}
    BY <1>1, <1>4, <1>6, <2>6
  <2> QED
    BY <1>1, <2>3, <2>4, <2>5, <2>7 DEF HistogramInv
<1>7. CASE ~ HasSeries(h)
  <2> DEFINE x == NewSeries(h)
             y == After(x)
  <2>1. /\ x \in Series /\ x.label = h /\ x.count = 0
        /\ \A b \in Bucket : x.within[b] = 0
    BY <1>0 DEF NewSeries, Series
  <2>2. Labelled(h) = {} /\ \A b \in Bucket : Within(h, b) = {}
    BY <1>0, <1>1, <1>7 DEF Within
  <2>3. Tells(x)
    BY <2>1, <2>2, FS_EmptySet DEF Tells
  <2> HIDE DEF x
  <2>4. y \in Series /\ y.label = h /\ Tells(y)'
    BY <1>2, <1>3, <2>1, <2>3
  <2>5. histogram' = Append(histogram, y)
    BY <1>5, <1>7, <2>1 DEF Observe, HasSeries, x
  <2> HIDE DEF y, h, d, n
  <2>6. /\ histogram' \in Seq(Series) /\ DOMAIN histogram' = 1..n + 1
        /\ histogram'[n + 1] = y
        /\ \A i \in 1..n : histogram'[i] = histogram[i]
    BY <1>1, <2>4, <2>5, AppendProperties, LenProperties DEF n
  <2>7. \A i \in 1..n : histogram[i].label # h
    BY <1>1, <1>7 DEF HasSeries
  <2>8. ASSUME NEW i \in 1..n + 1
        PROVE  Tells(histogram[i])'
    <3>1. CASE i = n + 1
      BY <2>4, <2>6, <3>1 DEF Tells
    <3>2. CASE i \in 1..n
      <4>1. PICK z \in Series : z = histogram[i] /\ Tells(z) /\ z.label # h
        BY <1>1, <2>7, <3>2
      <4>2. Tells(After(z))' /\ After(z) = z
        BY <1>3, <4>1 DEF After
      <4>3. histogram'[i] = z
        BY <2>6, <3>2, <4>1
      <4> QED
        BY <4>2, <4>3 DEF Tells
    <3> QED
      BY <1>1, <3>1, <3>2
  <2>9. \A l \in Label : HasSeries(l)' <=> HasSeries(l) \/ l = h
    BY <1>1, <2>4, <2>6 DEF HasSeries
  <2>10. \A l \in Label : HasSeries(l)' <=> Labelled(l)' # {}
    BY <1>1, <1>4, <2>9
  <2>11. \A i, j \in 1..n + 1 :
           histogram'[i].label = histogram'[j].label => i = j
    BY <1>1, <2>4, <2>6, <2>7
  <2> QED
    BY <2>6, <2>8, <2>10, <2>11 DEF HistogramInv
<1> QED
  BY <1>6, <1>7

-----------------------------------------------------------------------------
(* The invariant *)

LEMMA PipelineStep ==
  ASSUME PipelineInv, PipelineNext
  PROVE  PipelineInv'
<1>1. PICK r \in Request : RequestStep(r)
  BY DEF PipelineNext
<1>2. Passes(r) \/ Ends(r)
  BY <1>1, OneRequest DEF PipelineInv
<1>3. RequestsInv'
  BY <1>2, RequestsStep DEF PipelineInv
<1>4. CASE Passes(r)
  <2>1. counter' = counter /\ histogram' = histogram
    BY <1>4 DEF Passes
  <2>2. \A l, x : /\ Labelled(l)' = Labelled(l)
                  /\ With(l, x)' = With(l, x) /\ Within(l, x)' = Within(l, x)
    BY <1>4, PassingCountsNothing DEF PipelineInv
  <2>3. CounterInv'
    BY <2>1, <2>2 DEF PipelineInv, CounterInv
  <2>4. \A x : Tells(x)' <=> Tells(x)
    BY <2>2 DEF Tells
  <2>5. HistogramInv'
    <3>1. \A l : HasSeries(l)' <=> HasSeries(l)
      BY <2>1 DEF HasSeries
    <3>2. \A i \in DOMAIN histogram : Tells(histogram[i])'
      BY <2>1, <2>2 DEF PipelineInv, HistogramInv, Tells
    <3> QED
      BY <2>1, <2>2, <3>1, <3>2 DEF PipelineInv, HistogramInv
  <2> QED
    BY <1>3, <2>3, <2>5 DEF PipelineInv
<1>5. CASE Ends(r)
  <2>1. PICK t \in RequestState, status \in Status, d \in Duration :
          /\ t.handled /\ t.pc = "done" /\ t.sent = status /\ t.took = d
          /\ t.route = request[r].route /\ request[r].pc = "handler"
          /\ request' = [request EXCEPT ![r] = t] /\ Measure(r, status, d)
    BY <1>5 DEF Ends
  <2>2. /\ counter' = [counter EXCEPT ![NormaliseRoute(t.route)][t.sent] = @ + 1]
        /\ histogram' = Observe(NormaliseRoute(t.route), t.took)
    BY <2>1 DEF Measure
  <2>3. CounterInv'
    BY <2>1, <2>2, CounterCounts
  <2>4. HistogramInv'
    BY <2>1, <2>2, HistogramTells
  <2> QED
    BY <1>3, <2>3, <2>4 DEF PipelineInv
<1> QED
  BY <1>2, <1>4, <1>5

LEMMA PipelineStarts ==
  ASSUME PipelineInit
  PROVE  PipelineInv
<1>1. /\ NewRequest \in RequestState /\ NewRequest.pc = "new"
      /\ NewRequest.id = "undefined" /\ NewRequest.sent = NoStatus
      /\ ~ NewRequest.handled
      /\ NewRequest.lines = <<>> /\ NewRequest.reports = <<>>
  BY EmptyLists DEF NewRequest, RequestState, Id
<1>2. RequestInv(NewRequest)
  BY <1>1 DEF RequestInv, Underway, PassedTheGuard, HasId, LoggedOnce,
     ReportedOnce, NoStatus
<1>3. RequestsInv
  BY <1>1, <1>2 DEF PipelineInit, RequestsInv
<1>4. Served = {}
  BY <1>1 DEF PipelineInit, Served
<1>5. \A l, x : Labelled(l) = {} /\ With(l, x) = {}
  BY <1>4 DEF Labelled, With
<1>6. CounterInv
  BY <1>5, FS_EmptySet DEF PipelineInit, CounterInv
<1>7. histogram \in Seq(Series) /\ DOMAIN histogram = {}
  BY EmptySeq, LenProperties DEF PipelineInit
<1>8. HistogramInv
  BY <1>5, <1>7 DEF HistogramInv, HasSeries
<1> QED
  BY <1>3, <1>6, <1>8 DEF PipelineInv

MonitorTypeOK ==
  /\ loop \in Loop /\ part \in [Part -> Progress]
  /\ conn \in {"up", "down", "ended"}
  /\ destroyed \in BOOLEAN

LEMMA MonitorStep ==
  ASSUME MonitorTypeOK, [Next]_vars
  PROVE  MonitorTypeOK'
<1> USE DEF MonitorTypeOK, Loop, Part, Progress, Idle
<1>1. ASSUME PipelineNext /\ UNCHANGED <<monitor, conn, destroyed>>
      PROVE  MonitorTypeOK'
  BY <1>1 DEF monitor
<1>2. ASSUME RunCheck
      PROVE  MonitorTypeOK'
  BY <1>2 DEF RunCheck, AlertIf
<1>3. ASSUME PingAnswered \/ PingFails \/ \E p \in Part : AlertEnds(p)
      PROVE  MonitorTypeOK'
  BY <1>3 DEF PingAnswered, PingFails, AlertEnds, Proceed, AlertIf
<1>4. ASSUME CheckMemory \/ Reschedule
      PROVE  MonitorTypeOK'
  BY <1>4 DEF CheckMemory, Reschedule, AlertIf
<1>5. ASSUME Disconnect \/ Reconnect \/ GiveUp \/ Destroy
      PROVE  MonitorTypeOK'
  BY <1>5 DEF Disconnect, Reconnect, GiveUp, Destroy, Connection, monitor
<1>6. ASSUME UNCHANGED vars
      PROVE  MonitorTypeOK'
  BY <1>6 DEF vars, monitor
<1> QED
  BY <1>1, <1>2, <1>3, <1>4, <1>5, <1>6 DEF Next, CheckStep

LEMMA OnlyRequestsTouchThePipeline ==
  ASSUME [Next]_vars, ~ PipelineNext
  PROVE  UNCHANGED pipeline
BY DEF Next, CheckStep, RunCheck, PingAnswered, PingFails, AlertEnds, Proceed,
   CheckMemory, Reschedule, Disconnect, Reconnect, GiveUp, Destroy, Connection,
   vars

\* The inductive invariant: each request on its own, and what the registry
\* holds against the requests that were served.
THEOREM PipelineInvariant == Spec => [](PipelineInv /\ MonitorTypeOK)
<1>1. Init => PipelineInv /\ MonitorTypeOK
  BY PipelineStarts DEF Init, MonitorTypeOK, Loop, Part, Progress, Idle
<1>2. PipelineInv /\ MonitorTypeOK /\ [Next]_vars => (PipelineInv /\ MonitorTypeOK)'
  <2> SUFFICES ASSUME PipelineInv, MonitorTypeOK, [Next]_vars
               PROVE  PipelineInv' /\ MonitorTypeOK'
    OBVIOUS
  <2>1. CASE PipelineNext
    BY <2>1, PipelineStep, MonitorStep
  <2>2. CASE ~ PipelineNext
    <3>1. request' = request /\ counter' = counter /\ histogram' = histogram
      BY <2>2, OnlyRequestsTouchThePipeline DEF pipeline
    <3>2. RequestsInv'
      BY <3>1 DEF PipelineInv, RequestsInv
    <3>3. \A l, x : /\ Labelled(l)' = Labelled(l)
                    /\ With(l, x)' = With(l, x) /\ Within(l, x)' = Within(l, x)
      BY <3>1 DEF Labelled, With, Within, Served
    <3>4. CounterInv'
      BY <3>1, <3>3 DEF PipelineInv, CounterInv
    <3>5. HistogramInv'
      BY <3>1, <3>3 DEF PipelineInv, HistogramInv, HasSeries, Tells
    <3> QED
      BY <3>2, <3>4, <3>5, MonitorStep DEF PipelineInv
  <2> QED
    BY <2>1, <2>2
<1> QED
  BY <1>1, <1>2, PTL DEF Spec

-----------------------------------------------------------------------------
(* The properties of the run *)

\* Every variable of the pipeline and of its monitor stays in its type.
THEOREM PipelineTypeCorrect == Spec => []TypeOK
<1>1. PipelineInv /\ MonitorTypeOK => TypeOK
  BY DEF PipelineInv, RequestsInv, CounterInv, HistogramInv, MonitorTypeOK,
     TypeOK, PipelineTypeOK
<1> QED
  BY <1>1, PipelineInvariant, PTL

\* A request past the guard is logged once and counted once, with the status
\* that its client was sent, under every interleaving of any requests.
THEOREM WhatIsServedIsCounted == Spec => []ServedAreCounted
<1>1. ASSUME PipelineInv
      PROVE  ServedAreCounted
  <2>1. ASSUME NEW r \in Request
        PROVE  request[r].lines = IF r \in Served THEN <<request[r].sent>> ELSE <<>>
    BY <1>1 DEF PipelineInv, RequestsInv, RequestInv, LoggedOnce, Served
  <2>2. ASSUME NEW l \in Label, NEW s \in Status
        PROVE  counter[l][s] = Cardinality({r \in Labelled(l) : request[r].sent = s})
    BY <1>1 DEF PipelineInv, CounterInv, With
  <2>3. ASSUME NEW l \in Label, NEW b \in Bucket
        PROVE  LET series == {i \in DOMAIN histogram : histogram[i].label = l} IN
               /\ Cardinality(series) = IF Labelled(l) = {} THEN 0 ELSE 1
               /\ \A i \in series :
                    /\ histogram[i].count = Cardinality(Labelled(l))
                    /\ histogram[i].within[b] =
                         Cardinality({r \in Labelled(l) : request[r].took <= b})
    <3> DEFINE series == {i \in DOMAIN histogram : histogram[i].label = l}
    <3>1. \A i \in series :
            /\ histogram[i].count = Cardinality(Labelled(l))
            /\ histogram[i].within[b] =
                 Cardinality({r \in Labelled(l) : request[r].took <= b})
      BY <1>1 DEF PipelineInv, HistogramInv, Tells, Within
    <3>2. CASE Labelled(l) = {}
      <4>1. series = {}
        BY <1>1, <3>2 DEF PipelineInv, HistogramInv, HasSeries
      <4> QED
        BY <3>1, <3>2, <4>1, FS_EmptySet
    <3>3. CASE Labelled(l) # {}
      <4>1. PICK i \in DOMAIN histogram : histogram[i].label = l
        BY <1>1, <3>3 DEF PipelineInv, HistogramInv, HasSeries
      <4>2. series = {i}
        BY <1>1, <4>1 DEF PipelineInv, HistogramInv
      <4>3. Cardinality(series) = 1
        BY <4>2, FS_Singleton
      <4> QED
        BY <3>1, <3>3, <4>3
    <3> QED
      BY <3>2, <3>3
  <2> QED
    BY <2>1, <2>2, <2>3 DEF ServedAreCounted
<1> QED
  BY <1>1, PipelineInvariant, PTL

\* A server error is reported once, with the id its client was given.
THEOREM ServerErrorsReachSentry == Spec => []ServerErrorsAreReported
<1>1. PipelineInv => ServerErrorsAreReported
  BY DEF PipelineInv, RequestsInv, RequestInv, ReportedOnce, ServerErrorsAreReported
<1> QED
  BY <1>1, PipelineInvariant, PTL

-----------------------------------------------------------------------------
(* The latency of one route *)

LEMMA LeastNatural ==
  ASSUME NEW S, S \subseteq Nat, S # {}
  PROVE  Min(S) \in S /\ \A y \in S : Min(S) <= y
<1>1. PICK x \in S : \A y \in S : ~ (<<y, x>> \in OpToRel(<, Nat))
  BY WFMin, NatLessThanWellFounded, Zenon
<1>2. \A y \in S : ~ (y < x)
  BY <1>1, Zenon DEF OpToRel
<1>3. \A y \in S : x <= y
  BY <1>2
<1> QED
  BY <1>3, Zenon DEF Min

\* A set of buckets keeps its minimum when the bucket of +Inf is added.
LEMMA LeastWithTop ==
  ASSUME NEW S, S \subseteq Bucket, S # {}
  PROVE  Min(S \cup {Buckets + 1}) = Min(S)
<1> DEFINE T == S \cup {Buckets + 1}
<1>0. Buckets \in Nat /\ S \subseteq Nat
  BY PipelineAssumption DEF Bucket
<1>1. Min(S) \in S /\ \A y \in S : Min(S) <= y
  BY <1>0, LeastNatural
<1>2. T \subseteq Nat /\ T # {}
  BY <1>0
<1>3. Min(T) \in T /\ \A y \in T : Min(T) <= y
  BY <1>2, LeastNatural
<1>4. Min(S) \in 1..Buckets
  BY <1>1 DEF Bucket
<1> HIDE DEF T
<1>5. Min(S) \in T /\ (Min(T) \in S \/ Min(T) = Buckets + 1)
  BY <1>1, <1>3 DEF T
<1>6. Min(T) <= Min(S)
  BY <1>3, <1>5
<1>7. Min(T) \in S
  BY <1>0, <1>4, <1>5, <1>6
<1>8. Min(S) <= Min(T)
  BY <1>1, <1>7
<1>9. Min(S) \in Nat /\ Min(T) \in Nat
  BY <1>0, <1>1, <1>7
<1> QED
  BY <1>6, <1>8, <1>9 DEF T

Took(d) == {r \in Served : request[r].took <= d}

\* Every request that was measured has a series, and with one series it is
\* that of all of them.
LEMMA OneSeries ==
  ASSUME PipelineInv, Len(histogram) <= 1
  PROVE  /\ histogram = <<>> => Served = {}
         /\ histogram # <<>> =>
              /\ Len(histogram) = 1 /\ Served # {}
              /\ histogram[1].count = Cardinality(Served)
              /\ \A b \in Bucket : histogram[1].within[b] = Cardinality(Took(b))
<1>1. /\ histogram \in Seq(Series) /\ Len(histogram) \in Nat
      /\ DOMAIN histogram = 1..Len(histogram)
  BY LenProperties DEF PipelineInv, HistogramInv
<1>2. ASSUME NEW r \in Served
      PROVE  /\ NormaliseRoute(request[r].route) \in Label
             /\ HasSeries(NormaliseRoute(request[r].route))
  <2>1. RequestInv(request[r]) /\ request[r].handled
    BY DEF PipelineInv, RequestsInv, Served
  <2>2. request[r].route \in Route
    BY <2>1 DEF RequestInv, PassedTheGuard
  <2>3. NormaliseRoute(request[r].route) \in Label
    BY <2>2 DEF Label
  <2>4. r \in Labelled(NormaliseRoute(request[r].route))
    BY DEF Labelled
  <2> QED
    BY <2>3, <2>4 DEF PipelineInv, HistogramInv
<1>3. CASE Len(histogram) = 0
  <2>1. histogram = <<>>
    BY <1>1, <1>3, EmptySeq, SeqEqual
  <2>2. \A l : ~ HasSeries(l)
    BY <1>1, <1>3 DEF HasSeries
  <2> QED
    BY <1>2, <2>1, <2>2
<1>4. CASE Len(histogram) = 1
  <2> DEFINE x == histogram[1]
  <2>1. x \in Series /\ DOMAIN histogram = {1} /\ histogram # <<>>
    BY <1>1, <1>4, ElementOfSeq
  <2>2. x.label \in Label /\ HasSeries(x.label)
    BY <2>1 DEF Series, HasSeries
  <2>3. Labelled(x.label) # {}
    BY <2>2 DEF PipelineInv, HistogramInv
  <2>4. \A r \in Served : NormaliseRoute(request[r].route) = x.label
    BY <1>2, <2>1 DEF HasSeries
  <2>5. Labelled(x.label) = Served
    BY <2>4 DEF Labelled
  <2>6. \A b \in Bucket : Within(x.label, b) = Took(b)
    BY <2>5 DEF Within, Took
  <2>7. Tells(x)
    BY <2>1 DEF PipelineInv, HistogramInv
  <2> QED
    BY <1>4, <2>1, <2>3, <2>5, <2>6, <2>7 DEF Tells
<1> QED
  BY <1>1, <1>3, <1>4

\* computeP95Ms() finds the percentile, unless it lies beyond the top bucket,
\* and then both exceed a threshold below that bucket.
LEMMA PercentileOfOneRoute ==
  ASSUME PipelineInv, Len(histogram) <= 1, LatencyThreshold < Buckets, Registered
  PROVE  LatencyExceeds <=> Slow
<1>0. /\ Buckets \in Nat \ {0} /\ LatencyThreshold \in Nat /\ Percentile \in 1..100
  BY PipelineAssumption, AppMonitorAssumption
<1>1. CASE histogram = <<>>
  <2>1. Served = {}
    BY <1>1, OneSeries
  <2> QED
    BY <1>1, <2>1 DEF LatencyExceeds, Slow
<1>2. CASE histogram # <<>>
  <2> DEFINE total == Cardinality(Served)
             reached == {b \in Bucket :
               \E i \in DOMAIN histogram : Reaches(histogram[i].within[b],
                 histogram[Len(histogram)].count)}
             enough == {d \in Duration : 100 * Cardinality(Took(d)) >= Percentile * total}
  <2>1. /\ Len(histogram) = 1 /\ Served # {} /\ histogram[1].count = total
        /\ \A b \in Bucket : histogram[1].within[b] = Cardinality(Took(b))
    BY <1>2, OneSeries
  <2>2. DOMAIN histogram = {1}
    BY <2>1, LenProperties DEF PipelineInv, HistogramInv
  <2>3. total \in Nat
    <3>1. Served \in SUBSET Request
      BY DEF Served
    <3> QED
      BY <3>1, PipelineAssumption, FS_Subset, FS_CardinalityType
  <2>4. Took(Buckets + 1) = Served
    <3>1. ASSUME NEW r \in Served PROVE request[r].took <= Buckets + 1
      <4>1. request[r].took \in {0} \cup Duration
        BY DEF PipelineInv, RequestsInv, RequestInv, RequestState, Served
      <4> QED
        BY <1>0, <4>1 DEF Duration
    <3> QED
      BY <3>1 DEF Took
  <2>5. Buckets + 1 \in enough
    <3>1. Buckets + 1 \in Duration
      BY <1>0 DEF Duration
    <3>2. 100 * total >= Percentile * total
      BY <1>0, <2>3
    <3> QED
      BY <2>4, <3>1, <3>2
  <2>6. \A b \in Bucket : b \in enough <=> b \in reached
    <3>1. ASSUME NEW b \in Bucket
          PROVE  b \in reached <=> 100 * Cardinality(Took(b)) >= Percentile * total
      BY <2>1, <2>2 DEF Reaches
    <3>2. Bucket \subseteq Duration
      BY <1>0 DEF Bucket, Duration
    <3> QED
      BY <3>1, <3>2
  <2>7. Duration = Bucket \cup {Buckets + 1} /\ reached \subseteq Bucket
    BY <1>0 DEF Bucket, Duration
  <2>8. enough = reached \cup {Buckets + 1}
    <3>1. enough \subseteq Duration
      OBVIOUS
    <3> HIDE DEF enough, reached
    <3> QED
      BY <2>5, <2>6, <2>7, <3>1
  <2>9. ComputeP95 = IF reached = {} THEN Buckets ELSE Min(reached)
    BY DEF ComputeP95
  <2>10. TruePercentile = Min(enough)
    BY DEF TruePercentile, Took
  <2>11. LatencyExceeds <=> ComputeP95 > LatencyThreshold
    BY <1>2 DEF LatencyExceeds
  <2>12. Slow <=> TruePercentile > LatencyThreshold
    BY <2>1 DEF Slow
  <2> HIDE DEF enough, reached
  <2>13. CASE reached = {}
    <3>1. enough = {Buckets + 1}
      BY <2>8, <2>13
    <3>2. Min(enough) = Buckets + 1
      BY <1>0, <3>1, LeastNatural
    <3> QED
      BY <1>0, <2>9, <2>10, <2>11, <2>12, <2>13, <3>2
  <2>14. CASE reached # {}
    <3>1. Min(enough) = Min(reached)
      BY <2>7, <2>8, <2>14, LeastWithTop
    <3> QED
      BY <2>9, <2>10, <2>11, <2>12, <2>14, <3>1
  <2> QED
    BY <2>13, <2>14
<1> QED
  BY <1>1, <1>2

LEMMA ChecksAreRuns ==
  ASSUME [Next]_vars, Checks
  PROVE  RunCheck
BY DEF Checks, Next, CheckStep, RunCheck, PingAnswered, PingFails, AlertEnds,
   Proceed, CheckMemory, Reschedule, Disconnect, Reconnect, GiveUp, Destroy,
   Connection, monitor, vars

\* LatencyOfOneRoute: with one route in use the latency alert is right.
THEOREM LatencyIsReal == Spec => LatencyOfOneRoute
<1>1. ASSUME PipelineInv, [Next]_vars, Checks, Len(histogram) <= 1,
             LatencyThreshold < Buckets
      PROVE  Alerts("latency") <=> Slow
  <2>1. RunCheck /\ Registered
    BY <1>1, ChecksAreRuns DEF Checks, Registered
  <2>2. part'["latency"] = AlertIf(LatencyExceeds)
    BY <2>1 DEF RunCheck, Idle, Part
  <2>3. Alerts("latency") <=> LatencyExceeds
    BY <2>2 DEF Alerts, AlertIf
  <2> QED
    BY <1>1, <2>1, <2>3, PercentileOfOneRoute
<1>2. PipelineInv /\ [Next]_vars =>
        [Checks /\ Len(histogram) <= 1 /\ LatencyThreshold < Buckets =>
           (Alerts("latency") <=> Slow)]_vars
  BY <1>1
<1> QED
  BY <1>2, PipelineInvariant, PTL DEF Spec, LatencyOfOneRoute

-----------------------------------------------------------------------------
(* The error rate: what the counters add up to *)

\* The term that Sum() adds for an element, and the element it takes next.
Term(x) == counter[x[1]][x[2]]
Pick(S) == CHOOSE x \in S : TRUE
Adds(f, S) == IF S = {} THEN 0 ELSE Term(Pick(S)) + f[S \ {Pick(S)}]

\* The function that Sum() is defined by, on the subsets of S.
AddsUp(f, S) == f = [T \in SUBSET S |-> Adds(f, T)]

LEMMA SumIsAFold ==
  ASSUME NEW S
  PROVE  Sum(S) = (CHOOSE f : AddsUp(f, S))[S]
BY Zenon DEF Sum, MapThenSumSet, MapThenFoldSet, AddsUp, Adds, Term, Pick

LEMMA Picked ==
  ASSUME NEW S, S # {}, IsFiniteSet(S)
  PROVE  /\ Pick(S) \in S /\ Cardinality(S) \in Nat
         /\ IsFiniteSet(S \ {Pick(S)})
         /\ Cardinality(S \ {Pick(S)}) = Cardinality(S) - 1
<1>1. Pick(S) \in S
  BY DEF Pick
<1> HIDE DEF Pick
<1> QED
  BY <1>1, FS_RemoveElement, FS_CardinalityType

\* A recursion over the subsets of a finite set defines a function: by the
\* least cardinality for which it would not.
LEMMA SumsExist ==
  ASSUME NEW S, IsFiniteSet(S)
  PROVE  \E f : AddsUp(f, S)
<1> DEFINE UpTo(n) == {T \in SUBSET S : Cardinality(T) <= n}
           Works(f, n) == f = [T \in UpTo(n) |-> Adds(f, T)]
           Bad == {n \in Nat : ~ \E f : Works(f, n)}
<1>1. \A T \in SUBSET S : IsFiniteSet(T) /\ Cardinality(T) \in Nat
                          /\ Cardinality(T) <= Cardinality(S)
  BY FS_Subset, FS_CardinalityType
<1>2. \E f : Works(f, 0)
  <2> DEFINE f == [T \in UpTo(0) |-> 0]
  <2>1. \A T \in UpTo(0) : T = {}
    BY <1>1, FS_EmptySet
  <2>2. \A T \in UpTo(0) : Adds(f, T) = 0
    BY <2>1 DEF Adds
  <2>3. f = [T \in UpTo(0) |-> Adds(f, T)]
    BY <2>2
  <2> HIDE DEF f
  <2> QED
    BY <2>3
<1>3. ASSUME NEW n \in Nat, NEW f, Works(f, n)
      PROVE  \E g : Works(g, n + 1)
  <2> DEFINE g == [T \in UpTo(n + 1) |-> Adds(f, T)]
  <2>1. \A T \in UpTo(n) : T \in UpTo(n + 1) /\ g[T] = f[T]
    <3>1. \A T \in UpTo(n) : T \in UpTo(n + 1)
      BY <1>1
    <3>2. \A T \in UpTo(n) : f[T] = Adds(f, T)
      BY <1>3
    <3> QED
      BY <3>1, <3>2
  <2>2. ASSUME NEW T \in UpTo(n + 1), T # {}
        PROVE  T \ {Pick(T)} \in UpTo(n)
    BY <1>1, <2>2, Picked
  <2>h. \A T \in UpTo(n + 1) : g[T] = Adds(f, T)
    OBVIOUS
  <2>4. g = [T \in UpTo(n + 1) |-> g[T]]
    OBVIOUS
  <2> HIDE DEF g
  <2>3. \A T \in UpTo(n + 1) : g[T] = Adds(g, T)
    BY <2>1, <2>2, <2>h DEF Adds
  <2>5. Works(g, n + 1)
    BY <2>3, <2>4
  <2> QED
    BY <2>5
<1> HIDE DEF Works
<1>4. Bad = {}
  <2> SUFFICES ASSUME Bad # {}
               PROVE  FALSE
    OBVIOUS
  <2> DEFINE n == Min(Bad)
  <2>1. n \in Bad /\ \A m \in Bad : n <= m
    BY LeastNatural
  <2> HIDE DEF n
  <2>2. n \in Nat \ {0} /\ ~ \E f : Works(f, n)
    BY <1>2, <2>1
  <2>3. n - 1 \in Nat /\ n - 1 \notin Bad /\ (n - 1) + 1 = n
    BY <2>1, <2>2
  <2> QED
    BY <1>3, <2>2, <2>3
<1>5. PICK f : Works(f, Cardinality(S))
  <2>1. Cardinality(S) \in Nat
    BY <1>1
  <2> QED
    BY <1>4, <2>1
<1>6. UpTo(Cardinality(S)) = SUBSET S
  BY <1>1
<1> QED
  BY <1>5, <1>6 DEF Works, AddsUp

\* The requests that the counters of the set S count.
Counted(S) == {r \in Served : \E x \in S :
                 /\ NormaliseRoute(request[r].route) = x[1]
                 /\ request[r].sent = x[2]}

LEMMA CountedOnce ==
  ASSUME PipelineInv, NEW S \in SUBSET (Label \X Status), IsFiniteSet(S), S # {}
  PROVE  Cardinality(Counted(S))
           = Term(Pick(S)) + Cardinality(Counted(S \ {Pick(S)}))
<1> DEFINE x == Pick(S)
           A == With(x[1], x[2])
           B == Counted(S \ {x})
<1>1. x \in S /\ x \in Label \X Status /\ x = <<x[1], x[2]>>
  BY Picked
<1> HIDE DEF x
<1>2. Term(x) = Cardinality(A) /\ A \subseteq Request /\ IsFiniteSet(A)
  <2>1. x[1] \in Label /\ x[2] \in Status
    BY <1>1
  <2>2. Term(x) = Cardinality(A)
    BY <2>1 DEF PipelineInv, CounterInv, Term
  <2>3. A \subseteq Request
    BY DEF With, Labelled, Served
  <2> QED
    BY <2>2, <2>3, Finite
<1>3. B \subseteq Request /\ IsFiniteSet(B)
  BY PipelineAssumption, FS_Subset DEF Counted, Served
<1>4. \A y \in S \ {x} : y \in Label \X Status /\ (y[1] # x[1] \/ y[2] # x[2])
  BY <1>1
<1>5. Counted(S) = A \cup B
  BY <1>1 DEF Counted, With, Labelled
<1>6. A \cap B = {}
  BY <1>4 DEF Counted, With, Labelled
<1>7. Cardinality(A \cup B) = Cardinality(A) + Cardinality(B)
  <2>1. Cardinality(A) \in Nat /\ Cardinality(B) \in Nat
    BY <1>2, <1>3, FS_CardinalityType
  <2>2. Cardinality(A \cup B)
          = Cardinality(A) + Cardinality(B) - Cardinality(A \cap B)
    BY <1>2, <1>3, FS_Union
  <2>3. Cardinality(A \cap B) = 0
    BY <1>6, FS_EmptySet
  <2> QED
    BY <2>1, <2>2, <2>3
<1> QED
  BY <1>2, <1>5, <1>7 DEF x

\* Sum() over labels and statuses is the number of requests they count: by
\* the smallest set of counters for which it would not be.
LEMMA SumCounts ==
  ASSUME PipelineInv, NEW S \in SUBSET (Label \X Status), IsFiniteSet(S)
  PROVE  Sum(S) = Cardinality(Counted(S))
<1> DEFINE f == CHOOSE f : AddsUp(f, S)
           Right(T) == f[T] = Cardinality(Counted(T))
           Bad == {n \in Nat : \E T \in SUBSET S : Cardinality(T) = n /\ ~ Right(T)}
<1>1. AddsUp(f, S)
  BY SumsExist
<1> HIDE DEF f
<1>2. \A T \in SUBSET S : f[T] = Adds(f, T)
  BY <1>1 DEF AddsUp
<1>3. \A T \in SUBSET S : /\ IsFiniteSet(T) /\ Cardinality(T) \in Nat
                          /\ T \in SUBSET (Label \X Status)
  BY FS_Subset, FS_CardinalityType
<1>4. Bad = {}
  <2> SUFFICES ASSUME Bad # {}
               PROVE  FALSE
    OBVIOUS
  <2> DEFINE n == Min(Bad)
  <2>1. n \in Bad /\ \A m \in Bad : n <= m
    BY LeastNatural
  <2> HIDE DEF n
  <2>2. PICK T \in SUBSET S : Cardinality(T) = n /\ ~ Right(T)
    BY <2>1
  <2>3. CASE T = {}
    <3>1. f[T] = 0
      BY <1>2, <2>3 DEF Adds
    <3>2. Cardinality(Counted(T)) = 0
      <4>1. Counted(T) = {}
        BY <2>3 DEF Counted
      <4> QED
        BY <4>1, FS_EmptySet
    <3> QED
      BY <2>2, <3>1, <3>2
  <2>4. CASE T # {}
    <3> DEFINE U == T \ {Pick(T)}
    <3>1. U \in SUBSET S /\ n \in Nat /\ Cardinality(U) = n - 1
      BY <1>3, <2>2, <2>4, Picked
    <3>2. Cardinality(U) \notin Bad
      <4> HIDE DEF Bad
      <4> QED
        BY <2>1, <3>1
    <3>3. Right(U)
      BY <1>3, <3>1, <3>2
    <3>4. f[T] = Term(Pick(T)) + f[U]
      BY <1>2, <2>4 DEF Adds
    <3>5. Cardinality(Counted(T)) = Term(Pick(T)) + Cardinality(Counted(U))
      BY <1>3, <2>4, CountedOnce
    <3> QED
      BY <2>2, <3>3, <3>4, <3>5
  <2> QED
    BY <2>3, <2>4
<1>5. Right(S)
  BY <1>3, <1>4
<1>6. Sum(S) = f[S]
  BY SumIsAFold DEF f
<1> QED
  BY <1>5, <1>6

LEMMA CountersAreFinite ==
  /\ IsFiniteSet(Label \X Status) /\ IsFiniteSet(Label \X ServerError)
  /\ ServerError \subseteq Status
<1>1. IsFiniteSet(RouteKind \cup {"other"})
  <2> DEFINE all == <<"preflight", "admin", "unknown", "root", "health", "flagged",
                      "register", "metrics", "other">>
  <2>1. /\ all \in Seq(RouteKind \cup {"other"})
        /\ \A h \in RouteKind \cup {"other"} : \E n \in 1..Len(all) : all[n] = h
    BY DEF RouteKind
  <2> QED
    BY <2>1 DEF IsFiniteSet
<1>2. IsFiniteSet(Label)
  <2>1. Label \subseteq RouteKind \cup {"other"}
    BY PipelineAssumption DEF Label, NormaliseRoute
  <2> QED
    BY <1>1, <2>1, FS_Subset
<1>3. IsFiniteSet(Status)
  <2>1. Status \in SUBSET Nat /\ \A s \in Status : s <= 503
    BY DEF Status
  <2> QED
    BY <2>1, FS_BoundedSetOfNaturals
<1>4. ServerError \subseteq Status
  BY DEF ServerError
<1> QED
  BY <1>2, <1>3, <1>4, FS_Product, FS_Subset

\* What check5xxRate() makes of the counters.
LEMMA RateOfTheServed ==
  ASSUME PipelineInv, Registered
  PROVE  RateExceeds <=>
           100 * Cardinality({r \in Served : request[r].sent \in 500..599})
             > ErrorPercent * Cardinality(Served)
<1> DEFINE E == {r \in Served : request[r].sent \in 500..599}
<1>1. \A r \in Served : /\ NormaliseRoute(request[r].route) \in Label
                        /\ request[r].sent \in Status
  <2> SUFFICES ASSUME NEW r \in Served
               PROVE  /\ NormaliseRoute(request[r].route) \in Label
                      /\ request[r].sent \in Status
    OBVIOUS
  <2>1. RequestInv(request[r]) /\ request[r].handled /\ request[r].pc = "done"
    BY DEF PipelineInv, RequestsInv, Served
  <2>2. request[r].route \in Route
    BY <2>1 DEF RequestInv, PassedTheGuard
  <2>3. request[r].lines = <<request[r].sent>> /\ request[r].lines \in Seq(Status)
    BY <2>1 DEF RequestInv, LoggedOnce, RequestState
  <2> QED
    BY <2>2, <2>3 DEF Label
<1>2. Counted(Label \X Status) = Served
  <2>1. ASSUME NEW r \in Served
        PROVE  r \in Counted(Label \X Status)
    <3>1. <<NormaliseRoute(request[r].route), request[r].sent>> \in Label \X Status
      BY <1>1
    <3> QED
      BY <3>1 DEF Counted
  <2> QED
    BY <2>1 DEF Counted
<1>3. \A s \in Status : s \in ServerError <=> s \in 500..599
  BY DEF ServerError, Status
<1>4. Counted(Label \X ServerError) = E
  <2>1. ASSUME NEW r \in E
        PROVE  r \in Counted(Label \X ServerError)
    <3>1. <<NormaliseRoute(request[r].route), request[r].sent>> \in Label \X ServerError
      BY <1>1, <1>3
    <3> QED
      BY <3>1 DEF Counted
  <2>2. ASSUME NEW r \in Counted(Label \X ServerError)
        PROVE  r \in E
    <3>1. r \in Served /\ request[r].sent \in ServerError
      BY DEF Counted
    <3> QED
      BY <1>1, <1>3, <3>1
  <2> QED
    BY <2>1, <2>2
<1>5. /\ Sum(Label \X Status) = Cardinality(Served)
      /\ Sum(Label \X ServerError) = Cardinality(E)
  <2>1. /\ Label \X Status \in SUBSET (Label \X Status)
        /\ Label \X ServerError \in SUBSET (Label \X Status)
    BY CountersAreFinite
  <2> QED
    BY <1>2, <1>4, <2>1, CountersAreFinite, SumCounts
<1>6. /\ IsFiniteSet(Served) /\ Cardinality(Served) \in Nat
      /\ Cardinality(E) \in Nat /\ Cardinality(E) <= Cardinality(Served)
  <2>1. IsFiniteSet(Served)
    BY PipelineAssumption, FS_Subset DEF Served
  <2> QED
    BY <2>1, FS_Subset, FS_CardinalityType
<1>7. RateExceeds <=> /\ Cardinality(Served) # 0
                      /\ 100 * Cardinality(E) > ErrorPercent * Cardinality(Served)
  BY <1>5 DEF RateExceeds
<1>8. Cardinality(Served) = 0 =>
        ~ (100 * Cardinality(E) > ErrorPercent * Cardinality(Served))
  BY <1>6, AppMonitorAssumption
<1> QED
  BY <1>7, <1>8

\* ErrorRateIsReal: with any routes and any number of requests, the 5xx alert
\* is sent when the responses warrant it and not otherwise.
THEOREM ErrorRateIsExact == Spec => ErrorRateIsReal
<1>1. ASSUME PipelineInv, [Next]_vars, Checks
      PROVE  Alerts("rate") <=>
               100 * Cardinality({r \in Served : request[r].sent \in 500..599})
                 > ErrorPercent * Cardinality(Served)
  <2>1. RunCheck /\ Registered
    BY <1>1, ChecksAreRuns DEF Checks, Registered
  <2>2. part'["rate"] = AlertIf(RateExceeds)
    BY <2>1 DEF RunCheck, Idle, Part
  <2>3. Alerts("rate") <=> RateExceeds
    BY <2>2 DEF Alerts, AlertIf
  <2> QED
    BY <1>1, <2>1, <2>3, RateOfTheServed
<1>2. PipelineInv /\ [Next]_vars =>
        [Checks => (Alerts("rate") <=>
           100 * Cardinality({r \in Served : request[r].sent \in 500..599})
             > ErrorPercent * Cardinality(Served))]_vars
  BY <1>1
<1> QED
  BY <1>2, PipelineInvariant, PTL DEF Spec, ErrorRateIsReal

=============================================================================
