--------------------------- MODULE RequestPipeline ---------------------------
(***************************************************************************)
(* One pass of each request through app.module.ts and main.ts: what        *)
(* Express answers before Nest sees it, the body parser, the request id,   *)
(* Basic Auth of the metrics, the guard, the interceptors that log and     *)
(* count, the handler, and the exception filter.  Three places work out a  *)
(* status on their own: the response, the interceptors and the filter.     *)
(*                                                                         *)
(* A name with an underscore is a wrong version of the definition after    *)
(* it, for the runs to catch; nothing uses it here.                        *)
(***************************************************************************)
EXTENDS Integers, Sequences, FiniteSets

CONSTANTS
  Request,  \* requests; each is made once
  Route,    \* the routes they ask for
  Buckets   \* the finite buckets of http_request_duration_seconds, 1..Buckets

\* "preflight": an OPTIONS request, answered by CORS; "admin": the BullBoard;
\* "unknown": no route; "flagged": feed and search; "register" stands for all
\* the routes of AuthController.
RouteKind ==
  {"preflight", "admin", "unknown", "root", "health", "flagged", "register",
   "metrics"}

ASSUME PipelineAssumption ==
  Route \subseteq RouteKind /\ Buckets \in Nat \ {0} /\ IsFiniteSet(Request)

\* The prefixes of KNOWN_ROUTE_PREFIXES all go on behind /api/v1, the path of
\* the root.
NormaliseRoute(h) == IF h \in {"root", "unknown"} THEN "other" ELSE h
Label == {NormaliseRoute(h) : h \in Route}

VARIABLES
  request,    \* request[r]: how far request r is, and what it left behind
  counter,    \* counter[l][s]: http_requests_total of label l and status s
  histogram   \* the series of the histogram, in the order of their first use

pipeline == <<request, counter, histogram>>

Status == {200, 201, 204, 400, 401, 403, 404, 409, 413, 415, 500, 503}
NoStatus == 0
Bucket == 1..Buckets

\* The bucket of a duration; the last is the one of +Inf.
Duration == 1..Buckets + 1

\* req.requestId; where an id comes from makes no difference here.
Id == {"undefined", "assigned"}

\* sent: the status of the response.  lines: the statuses of the log lines;
\* reports: the ids of the reports to Sentry; took: how long it was measured
\* to take, 0 if it was not; handled: has it got past the guard?
RequestState ==
  [pc : {"new", "guard", "handler", "done"}, route : Route \cup {"unknown"},
   id : Id, sent : Status \cup {NoStatus}, handled : BOOLEAN,
   lines : Seq(Status), reports : Seq(Id), took : {0} \cup Duration]
NewRequest ==
  [pc |-> "new", route |-> "unknown", id |-> "undefined", sent |-> NoStatus,
   handled |-> FALSE, lines |-> <<>>, reports |-> <<>>, took |-> 0]

\* within[b]: observations of at most bucket b, as prom-client accumulates them.
Series == [label : Label, within : [Bucket -> Nat], count : Nat]

PipelineTypeOK ==
  /\ request \in [Request -> RequestState]
  /\ counter \in [Label -> [Status -> Nat]]
  /\ histogram \in Seq(Series)

PipelineInit ==
  /\ request = [r \in Request |-> NewRequest]
  /\ counter = [l \in Label |-> [s \in Status |-> 0]]
  /\ histogram = <<>>

-----------------------------------------------------------------------------
(* Exceptions, and the two opinions on their status *)

\* status, statusCode: the properties of that name.
HttpException(s) == [http |-> TRUE, status |-> s, statusCode |-> NoStatus]
RawError(s) == [http |-> FALSE, status |-> s, statusCode |-> s]
PlainError == [http |-> FALSE, status |-> NoStatus, statusCode |-> NoStatus]

InterceptorStatus_Raw(e) == e.status
InterceptorStatus_Default(e) == 500

\* LoggingInterceptor and HttpMetricsInterceptor: err.status or 500.
InterceptorStatus(e) == IF e.status # NoStatus THEN e.status ELSE 500

FilterStatus(e) ==
  CASE e.http -> e.status
    [] ~ e.http /\ e.statusCode # NoStatus -> e.statusCode
    [] OTHER -> 500

Reported_Unexpected(e) == ~ e.http

Reported(e) == ~ e.http \/ FilterStatus(e) >= 500

Respond(s, status) == [s EXCEPT !.pc = "done", !.sent = status]

\* SentryExceptionFilter.catch()
Catch(s, e) ==
  [Respond(s, FilterStatus(e)) EXCEPT
     !.reports = IF Reported(e) THEN Append(@, s.id) ELSE @]

-----------------------------------------------------------------------------
(* The registry *)

Observed(series, d) ==
  [series EXCEPT !.count = @ + 1,
     !.within = [b \in Bucket |-> IF d <= b THEN @[b] + 1 ELSE @[b]]]
NewSeries(l) == [label |-> l, within |-> [b \in Bucket |-> 0], count |-> 0]

Observe(l, d) ==
  IF \E i \in DOMAIN histogram : histogram[i].label = l
  THEN [i \in DOMAIN histogram |->
          IF histogram[i].label = l THEN Observed(histogram[i], d)
          ELSE histogram[i]]
  ELSE Append(histogram, Observed(NewSeries(l), d))

\* The tap() of HttpMetricsInterceptor: the counter and the histogram.
Measure(r, status, d) ==
  LET l == NormaliseRoute(request[r].route) IN
  /\ counter' = [counter EXCEPT ![l][status] = @ + 1]
  /\ histogram' = Observe(l, d)

\* The tap() of LoggingInterceptor, around the other.
Logged(s, status, d) == [s EXCEPT !.lines = Append(@, status), !.took = d]

-----------------------------------------------------------------------------
(* Before the handler *)

\* What CORS and the check in front of the BullBoard, or the board, answer.
OutsideNest(h) ==
  CASE h = "preflight" -> {204}
    [] h = "admin" -> {200, 401, 403}
    [] OTHER -> {}

AnswerOutsideNest(r, h) ==
  /\ request[r].pc = "new"
  /\ \E status \in OutsideNest(h) :
       request' = [request EXCEPT ![r] = Respond([@ EXCEPT !.route = h], status)]
  /\ UNCHANGED <<counter, histogram>>

InNest(h) == OutsideNest(h) = {}

\* A body that breaks off or is not as long as it says, one that is too large,
\* and a charset or an encoding that is not supported.
ParserErrors == {RawError(400), RawError(413), RawError(415)}

\* The body parser comes before the request id: of its errors Nest turns the
\* malformed JSON into a BadRequestException, and no other.
BodyRejected(r, h) ==
  /\ request[r].pc = "new" /\ InNest(h)
  /\ \E e \in {HttpException(400)} \cup ParserErrors :
       request' = [request EXCEPT ![r] = Catch([@ EXCEPT !.route = h], e)]
  /\ UNCHANGED <<counter, histogram>>

\* RequestIdMiddleware: a header that is not blank, or a fresh UUID.
WithRequestId(s) == [s EXCEPT !.id = "assigned"]

Enter(r, h, state) ==
  /\ request[r].pc = "new"
  /\ request' = [request EXCEPT ![r] = [state EXCEPT !.route = h]]
  /\ UNCHANGED <<counter, histogram>>

Handle(s) == [s EXCEPT !.pc = "handler", !.handled = TRUE]

\* Nest throws a NotFoundException for what no route matches.  The middleware
\* is bound to the global prefix.
NotFound(r, h) ==
  /\ h = "unknown"
  /\ \E s \in {request[r], WithRequestId(request[r])} :
       Enter(r, h, Catch(s, HttpException(404)))

\* MetricsAuthMiddleware: no credentials configured, or not the right ones.
MetricsRefused(r, h) ==
  /\ h = "metrics"
  /\ \E status \in {401, 503} :
       Enter(r, h, Respond(WithRequestId(request[r]), status))

AwaitGuard(r, h) ==
  /\ h = "flagged"
  /\ Enter(r, h, [WithRequestId(request[r]) EXCEPT !.pc = "guard"])

Unguarded(r, h) ==
  /\ InNest(h) /\ h \notin {"unknown", "flagged"}
  /\ Enter(r, h, Handle(WithRequestId(request[r])))

GuardAllows(r) ==
  /\ request[r].pc = "guard"
  /\ request' = [request EXCEPT ![r] = Handle(@)]
  /\ UNCHANGED <<counter, histogram>>

\* A ForbiddenException; no interceptor has seen the request.
GuardDenies(r) ==
  /\ request[r].pc = "guard"
  /\ request' = [request EXCEPT ![r] = Catch(@, HttpException(403))]
  /\ UNCHANGED <<counter, histogram>>

-----------------------------------------------------------------------------
(* The handler, within the interceptors *)

\* MetricsController sends its 404 itself; to the interceptors it returned.
Returned(h) ==
  CASE h = "register" -> {201, 204}
    [] h = "metrics" -> {200, 404}
    [] OTHER -> {200}

\* ValidationPipe and AuthController, of which a logout may throw a TypeError;
\* serialising the registry may fail.
Thrown(h) ==
  CASE h = "register" -> {HttpException(s) : s \in {400, 409, 500}} \cup {PlainError}
    [] h = "metrics" -> {PlainError}
    [] OTHER -> {}

HandlerReturns(r) ==
  /\ request[r].pc = "handler"
  /\ \E status \in Returned(request[r].route), d \in Duration :
       /\ request' = [request EXCEPT ![r] = Respond(Logged(@, status, d), status)]
       /\ Measure(r, status, d)

HandlerThrows(r) ==
  /\ request[r].pc = "handler"
  /\ \E e \in Thrown(request[r].route), d \in Duration :
       LET status == InterceptorStatus(e) IN
       /\ request' = [request EXCEPT ![r] = Catch(Logged(@, status, d), e)]
       /\ Measure(r, status, d)

RequestStep(r) ==
  \/ \E h \in Route :
       \/ AnswerOutsideNest(r, h) \/ BodyRejected(r, h)
       \/ NotFound(r, h) \/ MetricsRefused(r, h)
       \/ AwaitGuard(r, h) \/ Unguarded(r, h)
  \/ GuardAllows(r) \/ GuardDenies(r)
  \/ HandlerReturns(r) \/ HandlerThrows(r)

PipelineNext == \E r \in Request : RequestStep(r)

-----------------------------------------------------------------------------

\* The requests the interceptors have seen through.
Served == {r \in Request : request[r].handled /\ request[r].pc = "done"}

Labelled(l) == {r \in Served : NormaliseRoute(request[r].route) = l}

\* Invariant: a request that got past the guard is logged once and counted
\* once, under its route, with the status that its client was sent, though
\* three places work that status out; and no other request is logged or
\* counted.  (docs/observability.md says "every request": what guards,
\* middleware, Express and the router answer themselves leaves no line.)
ServedAreCounted ==
  /\ \A r \in Request :
       request[r].lines = IF r \in Served THEN <<request[r].sent>> ELSE <<>>
  /\ \A l \in Label, s \in Status :
       counter[l][s] = Cardinality({r \in Labelled(l) : request[r].sent = s})
  /\ \A l \in Label, b \in Bucket :
       LET series == {i \in DOMAIN histogram : histogram[i].label = l} IN
       /\ Cardinality(series) = IF Labelled(l) = {} THEN 0 ELSE 1
       /\ \A i \in series :
            /\ histogram[i].count = Cardinality(Labelled(l))
            /\ histogram[i].within[b] =
                 Cardinality({r \in Labelled(l) : request[r].took <= b})

\* Invariant: every server error is reported to Sentry once, with the id that
\* its client was given; the 503 of metrics that are switched off is meant, and
\* the only other reports are of the body parser's own errors, which have no id:
\* all of them but malformed JSON, though they are the client's.
ServerErrorsAreReported ==
  \A r \in Request :
    LET s == request[r] IN
    CASE s.sent = 500 -> s.reports = <<s.id>> /\ s.id # "undefined"
      [] s.sent \in {413, 415} -> s.reports = <<"undefined">>
      [] s.sent = 400 /\ s.id = "undefined" -> s.reports \in {<<>>, <<"undefined">>}
      [] OTHER -> s.reports = <<>>
=============================================================================
