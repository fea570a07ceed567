----------------------------- MODULE HttpServer -----------------------------
(***************************************************************************)
(* One connection of an HttpServer (net/http/HttpServer.cpp) and its       *)
(* HttpContext: requests that TCP delivers cut anywhere, the callbacks of  *)
(* the parser that rebuild them, the router, and the answers, which an     *)
(* executor's threads may compute.                                         *)
(*                                                                         *)
(* A request is a sequence of tokens, the pieces between which a read may  *)
(* end.  llhttp is external: it calls back once for every span of tokens   *)
(* of one kind that a read holds, and fails for good on a token that does  *)
(* not continue the message.  The client need not wait for an answer before *)
(* it sends the next request.                                              *)
(***************************************************************************)
EXTENDS Integers, Sequences, SequencesExt

CONSTANTS
  Shapes,        \* the requests a client may send: sequences of token kinds
  MaxRequests,   \* bound: the requests of a client
  Executor       \* is an executor set (setExecutor)?

Kinds == {"path", "query", "field", "value", "end", "body", "bad"}

ASSUME ShapesAssumption == Shapes \subseteq Seq(Kinds) \ {<<>>}
ASSUME MaxRequestsAssumption == MaxRequests \in Nat
ASSUME ExecutorAssumption == Executor \in BOOLEAN

VARIABLES
  wire,          \* what the client has sent and the server has not read
  inputBuffer_,  \* what was read and not retrieved
  context,       \* the connection's HttpContext
  tasks,         \* per executor's task: the number of its request
  sending,       \* answers on their way to the loop through runInLoop
  conn,          \* the connection: "open", "closing" after shutdown() with
                 \* output waiting, "shut", and "gone" when the client left
  requests,      \* history: the requests sent, as shapes
  dispatched,    \* history: the requests given to the router
  answers,       \* history: the answers sent, as numbers of requests, and BadRequest
  merged         \* history: a read held the end of a request and more

netVars == <<wire, requests>>
answerVars == <<tasks, sending, answers>>
vars == <<netVars, inputBuffer_, context, answerVars, conn, dispatched, merged>>

\* The answer to a malformed request; the others have their requests' numbers.
BadRequest == MaxRequests + 1

\* A token: of which request, the how-manyth of it, of which kind, and is it
\* the last?
Tokens(r, shape) ==
  [i \in 1 .. Len(shape) |->
     [req |-> r, at |-> i, kind |-> shape[i], last |-> i = Len(shape)]]

IsUrl(t) == t.kind \in {"path", "query"}

\* b continues the span a is in; no span goes beyond its message.
SameSpan(a, b) == ~a.last /\ (a.kind = b.kind \/ (IsUrl(a) /\ IsUrl(b)))

-----------------------------------------------------------------------------
(* The parser's callbacks.                                                 *)

Failed == -1

EmptyRequest == [url |-> <<>>, query |-> <<>>, headers |-> {}, body |-> <<>>]

\* HttpContext::HttpContext and reset; position is how many tokens of a
\* message llhttp has seen, or Failed.
NewContext ==
  [position |-> 0, request |-> EmptyRequest, headerField |-> <<>>,
   isComplete |-> FALSE]

\* Mutant of Reset: the request is not cleared.
ResetsParserOnly(c) == [c EXCEPT !.position = 0, !.isComplete = FALSE]

Reset(c) == NewContext

url_complete(c, span) == [c EXCEPT !.request.url = span]

header_field_complete(c, span) == [c EXCEPT !.headerField = span]

\* unordered_map::insert keeps what is there.
header_value_complete(c, span) ==
  IF \E h \in c.request.headers : h.field = c.headerField
    THEN c
    ELSE [c EXCEPT !.request.headers = @ \union {[field |-> c.headerField, value |-> span]}]

\* Mutant of body_complete: the last span is the body.
AssignsBody(c, span) == [c EXCEPT !.request.body = span]

body_complete(c, span) == [c EXCEPT !.request.body = @ \o span]

\* find('?'): how many tokens of the URL are before its query.
Split(url) ==
  CHOOSE n \in 0 .. Len(url) :
    /\ n = Len(url) \/ url[n + 1].kind = "query"
    /\ \A i \in 1 .. n : url[i].kind # "query"

\* Mutant of message_complete_callback: a request without query is never complete.
CompletesQueriesOnly(c) ==
  IF Split(c.request.url) = Len(c.request.url) THEN c ELSE [c EXCEPT !.isComplete = TRUE]

\* message_complete_callback cuts the URL at its '?'.
message_complete_callback(c) ==
  LET url == c.request.url
      split == Split(url)
  IN  [c EXCEPT !.request.query = IF split = Len(url) THEN @
                                  ELSE SubSeq(url, split + 1, Len(url)),
                !.request.url = SubSeq(url, 1, split),
                !.isComplete = TRUE]

SpanCallback(c, span) ==
  CASE IsUrl(Head(span))            -> url_complete(c, span)
    [] Head(span).kind = "field"    -> header_field_complete(c, span)
    [] Head(span).kind = "value"    -> header_value_complete(c, span)
    [] Head(span).kind = "body"     -> body_complete(c, span)
    [] OTHER                        -> c

\* llhttp on one span: an error sticks until llhttp_reset.
Consume(c, span) ==
  IF c.position = Failed \/ Head(span).kind = "bad" \/ Head(span).at # c.position + 1
    THEN [c EXCEPT !.position = Failed]
    ELSE LET d == SpanCallback([c EXCEPT !.position = Last(span).at], span) IN
           IF Last(span).last
             THEN message_complete_callback([d EXCEPT !.position = 0])
             ELSE d

\* The span that the i-th token of data ends, if nothing follows it, begins
\* behind the token with this number.
SpanStart(data, i) == Max({0} \union {j \in 1 .. i - 1 : ~SameSpan(data[j], data[i])})

\* The context after the first i tokens of data.
Parsed(c, data) ==
  LET upTo[i \in 0 .. Len(data)] ==
        IF i = 0 THEN c
        ELSE LET start == SpanStart(data, i)
             IN  Consume(upTo[start], SubSeq(data, start + 1, i))
  IN  upTo

\* HttpContext::parse: llhttp_execute calls back span by span.  A span ends
\* where the kind changes and where the data ends.
parse(c, data) == Parsed(c, data)[Len(data)]

-----------------------------------------------------------------------------
(* The server.                                                             *)

Init ==
  /\ wire = <<>>
  /\ inputBuffer_ = <<>>
  /\ context = NewContext
  /\ tasks = {}
  /\ sending = <<>>
  /\ conn = "open"
  /\ requests = <<>>
  /\ dispatched = <<>>
  /\ answers = <<>>
  /\ merged = FALSE

\* TcpConnection::sendInLoop.
Sent(answer) == IF conn \in {"open", "closing"} THEN Append(answers, answer) ELSE answers

\* HttpRouter::execute finds a handler under the path, which SyncGet has
\* wrapped for the executor; the default handler answers at once.
IsRouted(request) == request.url # <<>>

\* execute for the request numbered n.
Execute(request, n) ==
  /\ dispatched' = Append(dispatched, request)
  /\ IF IsRouted(request) /\ Executor
       THEN tasks' = tasks \union {n} /\ UNCHANGED answers
       ELSE answers' = Sent(n) /\ UNCHANGED tasks

\* TcpConnection::shutdown, with output waiting or not.
ShutsDown ==
  IF conn = "open" THEN conn' \in {"closing", "shut"} ELSE UNCHANGED conn

\* Mutant of AnswerBadRequest: the data is retrieved and the parser reset.
StartsAfresh(c, data) ==
  /\ context' = NewContext
  /\ inputBuffer_' = <<>>
  /\ answers' = Sent(BadRequest)
  /\ ShutsDown
  /\ UNCHANGED <<tasks, dispatched>>

\* onMessage on a parse error: the data stays in the buffer.
AnswerBadRequest(c, data) ==
  /\ context' = c
  /\ inputBuffer_' = data
  /\ answers' = Sent(BadRequest)
  /\ ShutsDown
  /\ UNCHANGED <<tasks, dispatched>>

\* Mutant of Retrieved: what was parsed stays in the buffer.
RetrievesNothing(data) == data

\* buf->retrieve(len) of all that was readable.
Retrieved(data) == <<>>

\* onMessage on data that parsed.
TakeData(c, data) ==
  /\ inputBuffer_' = Retrieved(data)
  /\ IF c.isComplete
       THEN /\ Execute(c.request, Len(dispatched) + 1)
            /\ context' = Reset(c)
       ELSE /\ context' = c
            /\ UNCHANGED <<dispatched, tasks, answers>>
  /\ UNCHANGED conn

\* The connection reads n tokens and calls onMessage with the whole buffer.
OnMessage(n) ==
  /\ conn # "gone"
  /\ wire' = SubSeq(wire, n + 1, Len(wire))
  /\ LET data == inputBuffer_ \o SubSeq(wire, 1, n)
         c == parse(context, data)
     IN  /\ merged' = (merged \/ Head(data).req # Last(data).req)
         /\ IF c.position = Failed THEN AnswerBadRequest(c, data) ELSE TakeData(c, data)
  /\ UNCHANGED <<requests, sending>>

\* A task of the executor runs the handler and its sender, which finds the
\* connection alive and hands the answer to its loop, or drops it.
RunTask(n) ==
  /\ n \in tasks
  /\ tasks' = tasks \ {n}
  /\ sending' = IF conn = "gone" THEN sending ELSE Append(sending, n)
  /\ UNCHANGED <<netVars, inputBuffer_, context, conn, dispatched, answers, merged>>

\* sendInLoop, run by the loop.
SendQueued ==
  /\ sending # <<>>
  /\ sending' = Tail(sending)
  /\ answers' = Sent(Head(sending))
  /\ UNCHANGED <<netVars, inputBuffer_, context, conn, dispatched, tasks, merged>>

\* handleWrite has sent what waited.
OutputDrained ==
  /\ conn = "closing"
  /\ conn' = "shut"
  /\ UNCHANGED <<netVars, inputBuffer_, context, answerVars, dispatched, merged>>

-----------------------------------------------------------------------------
(* The client.                                                             *)

ClientSends(shape) ==
  /\ conn # "gone"
  /\ Len(requests) < MaxRequests
  /\ requests' = Append(requests, shape)
  /\ wire' = wire \o Tokens(Len(requests) + 1, shape)
  /\ UNCHANGED <<inputBuffer_, context, answerVars, conn, dispatched, merged>>

\* The client closes: the connection and its context are destroyed.
ClientLeaves ==
  /\ conn # "gone"
  /\ conn' = "gone"
  /\ wire' = <<>> /\ inputBuffer_' = <<>> /\ context' = NewContext
  /\ UNCHANGED <<requests, answerVars, dispatched, merged>>

ServerStep ==
  \/ \E n \in 1 .. Len(wire) : OnMessage(n)
  \/ SendQueued
  \/ OutputDrained

Next ==
  \/ ServerStep
  \/ \E n \in tasks : RunTask(n)
  \/ \E shape \in Shapes : ClientSends(shape)
  \/ ClientLeaves

SafeSpec == Init /\ [][Next]_vars

\* The loop runs, what waits is sent, and the executor runs its tasks.
Spec == /\ SafeSpec
        /\ WF_vars(ServerStep)
        /\ \A n \in 1 .. MaxRequests : WF_vars(RunTask(n))

-----------------------------------------------------------------------------
(* Properties.                                                             *)

\* The types of the variables; data stays in the buffer, and a request is
\* complete, only inside onMessage or after an error.
TypeOK ==
  /\ context.position \in {Failed} \union Nat
  /\ context.isComplete => context.position = Failed
  /\ inputBuffer_ # <<>> => context.position = Failed
  /\ tasks \subseteq 1 .. MaxRequests
  /\ conn \in {"open", "closing", "shut", "gone"}
  /\ Len(dispatched) <= Len(requests)
  /\ merged \in BOOLEAN

\* The tokens a dispatched request is made of.
PartsOf(request) ==
  ToSet(request.url) \union ToSet(request.query) \union ToSet(request.body)
  \union UNION {ToSet(h.field) \union ToSet(h.value) : h \in request.headers}

\* Nothing of one request gets into another on the same connection
\* (HttpContext::reset after every dispatch), however fast they come, as long
\* as no single read holds parts of two: then onMessage dispatches once.
RequestsStayApart ==
  ~merged =>
    \A i \in DOMAIN dispatched : \A t \in PartsOf(dispatched[i]) : t.req = i

\* A handler gets the whole body, once and in order, however it was cut
\* (body_complete), under the same condition.
BodiesAreWhole ==
  ~merged => \A i \in DOMAIN dispatched :
    LET body == dispatched[i].body IN
      /\ ToSet(body) = {t \in ToSet(Tokens(i, requests[i])) : t.kind = "body"}
      /\ \A j, k \in DOMAIN body : j < k => body[j].at < body[k].at

\* What the request handler should see of a request.
PartsSent(i) ==
  {t \in ToSet(Tokens(i, requests[i])) : t.kind # "end"}

\* A handler "gets the complete request" (assets/docs/HTTP.md).
HandlersGetCompleteRequests ==
  \A i \in DOMAIN dispatched : PartsOf(dispatched[i]) = PartsSent(i)

\* After the 400 nothing more reaches a handler, whatever the client goes on
\* to send (llhttp's error sticks, and onMessage leaves context and buffer
\* alone).
NothingFollows ==
  [][(BadRequest \in ToSet(answers)) => (dispatched' = dispatched)]_vars

\* A malformed request is the last one: nothing more reaches a handler, and
\* the output is shut, unless the client has left (TcpConnection::shutdown).
BadRequestIsLast ==
  /\ NothingFollows
  /\ (BadRequest \in ToSet(answers)) ~> conn \in {"shut", "gone"}

\* Every request is answered, with a 400 if it is malformed, wherever it was
\* cut and whoever computes the answer; unless the client leaves, has sent a
\* malformed request before, or a read held parts of two requests.
EveryRequestIsAnswered ==
  \A i \in 1 .. MaxRequests :
    (Len(requests) >= i) ~>
      Len(answers) >= i \/ BadRequest \in ToSet(answers) \/ conn = "gone" \/ merged

\* Answers come in the order of the requests.  It does not hold when a client
\* does not wait and an executor's threads finish in another order.
AnswersInOrder ==
  \A i, j \in DOMAIN answers : i < j => answers[i] < answers[j]
=============================================================================
