-------------------------- MODULE HttpServerProofs --------------------------
(***************************************************************************)
(* Theorems about HttpServer, for any set of requests, any number of them  *)
(* and every way the network may cut them.                                 *)
(*                                                                         *)
(* None of its invariants is inductive: they speak of what was dispatched, *)
(* and what is dispatched next depends on the parser's context and on what *)
(* is still on the wire.  The inductive invariant IInv says that the wire  *)
(* holds what the requests end with (Stream), that a request is dispatched *)
(* after its last token was read (Counted), that until a read holds parts  *)
(* of two requests the context is where the wire begins and holds tokens   *)
(* of that request only (Apart), and that the parser has failed once a 400 *)
(* was sent (Refused).                                                     *)
(*                                                                         *)
(* parse is a recursion over the tokens of a read.  Its function is shown  *)
(* to exist and to satisfy its equation, and what it computes is followed  *)
(* span by span, by looking at the first number at which a claim fails     *)
(* (ParseInduction).                                                       *)
(***************************************************************************)
EXTENDS HttpServer, SequenceTheorems, WellFoundedInduction, TLAPS

-----------------------------------------------------------------------------
(* The recursion of parse.                                                 *)

\* A set of natural numbers that is not empty has a least one.
LEMMA LeastNumber ==
  ASSUME NEW T \in SUBSET Nat, T # {}
  PROVE  \E x \in T : \A y \in T : x <= y
<1>1. PICK x \in T : \A y \in T : ~(<<y, x>> \in OpToRel(<, Nat))
  BY NatLessThanWellFounded, WFMin
<1>2. \A y \in T : ~(y < x)
  BY <1>1 DEF OpToRel
<1> QED
  BY <1>2

\* A bounded one has a largest.
LEMMA LargestNumber ==
  ASSUME NEW n \in Nat, NEW T \in SUBSET (0 .. n), T # {}
  PROVE  Max(T) \in T /\ \A y \in T : y <= Max(T)
<1>1. PICK U : U = {n - y : y \in T}
  OBVIOUS
<1>2. U \in SUBSET Nat /\ U # {}
  <2>1. \A y \in T : n - y \in Nat /\ n - y \in U
    BY <1>1
  <2>2. \A u \in U : u \in Nat
    BY <1>1, <2>1
  <2> QED
    BY <2>1, <2>2
<1>3. PICK u \in U : \A v \in U : u <= v
  BY <1>2, LeastNumber
<1>4. PICK x \in T : u = n - x
  BY <1>1, <1>3
<1>5. \A y \in T : x >= y
  <2> SUFFICES ASSUME NEW y \in T
               PROVE  x >= y
    OBVIOUS
  <2>1. n - x <= n - y
    BY <1>1, <1>3, <1>4
  <2> QED
    BY <2>1
<1>6. Max(T) \in T /\ \A y \in T : Max(T) >= y
  BY <1>5 DEF Max
<1> QED
  BY <1>6

\* The span that ends at a token reaches back as far as tokens continue it.
LEMMA SpanStarts ==
  ASSUME NEW data, NEW i \in Nat \ {0}
  PROVE  /\ SpanStart(data, i) \in 0 .. i - 1
         /\ \A j \in SpanStart(data, i) + 1 .. i - 1 : SameSpan(data[j], data[i])
<1>1. PICK T : T = {0} \union {j \in 1 .. i - 1 : ~SameSpan(data[j], data[i])}
  OBVIOUS
<1>2. T \in SUBSET (0 .. i - 1) /\ T # {} /\ i - 1 \in Nat /\ SpanStart(data, i) = Max(T)
  BY <1>1 DEF SpanStart
<1>3. Max(T) \in T /\ \A y \in T : y <= Max(T)
  BY <1>2, LargestNumber
<1>4. PICK s \in 0 .. i - 1 : s = Max(T) /\ s = SpanStart(data, i)
  BY <1>2, <1>3
<1>5. ASSUME NEW j \in s + 1 .. i - 1
      PROVE  SameSpan(data[j], data[i])
  <2>1. j \in 1 .. i - 1 /\ ~(j <= s)
    OBVIOUS
  <2>2. j \notin T
    BY <1>3, <1>4, <2>1
  <2> QED
    BY <1>1, <2>1, <2>2
<1> QED
  BY <1>4, <1>5

\* f is the function of parse on the first n tokens.
Chain(f, c, data, n) ==
  f = [i \in 0 .. n |-> IF i = 0 THEN c
        ELSE Consume(f[SpanStart(data, i)], SubSeq(data, SpanStart(data, i) + 1, i))]

\* It exists, for every length.
LEMMA ChainExists ==
  ASSUME NEW c, NEW data, NEW n \in Nat
  PROVE  \E f : Chain(f, c, data, n)
<1>1. PICK Gaps : Gaps = {k \in Nat : ~\E f : Chain(f, c, data, k)}
  OBVIOUS
<1> SUFFICES ASSUME Gaps # {}
             PROVE  FALSE
  BY <1>1
<1>2. PICK k \in Gaps : \A j \in Gaps : k <= j
  BY <1>1, LeastNumber
<1>3. k \in Nat /\ ~\E f : Chain(f, c, data, k)
  BY <1>1
<1>4. CASE k = 0
  <2>1. PICK f : f = [i \in 0 .. 0 |-> c]
    OBVIOUS
  <2>2. Chain(f, c, data, 0)
    BY <2>1 DEF Chain
  <2> QED
    BY <1>3, <1>4, <2>2
<1>5. CASE k # 0
  <2>1. k - 1 \in Nat /\ k - 1 \notin Gaps
    BY <1>2, <1>3, <1>5
  <2>2. PICK f : Chain(f, c, data, k - 1)
    BY <1>1, <2>1
  <2>3. \A i \in 0 .. k - 1 :
          f[i] = IF i = 0 THEN c
                 ELSE Consume(f[SpanStart(data, i)], SubSeq(data, SpanStart(data, i) + 1, i))
    BY <2>2 DEF Chain
  <2>4. PICK g : g = [i \in 0 .. k |->
                        IF i < k THEN f[i]
                        ELSE Consume(f[SpanStart(data, k)],
                                     SubSeq(data, SpanStart(data, k) + 1, k))]
    OBVIOUS
  <2>5. ASSUME NEW i \in 0 .. k
        PROVE  g[i] = IF i = 0 THEN c
                      ELSE Consume(g[SpanStart(data, i)],
                                   SubSeq(data, SpanStart(data, i) + 1, i))
    <3>1. i # 0 => SpanStart(data, i) \in 0 .. i - 1
      BY <1>3, SpanStarts
    <3>2. i # 0 => g[SpanStart(data, i)] = f[SpanStart(data, i)]
      BY <1>3, <2>4, <3>1
    <3>3. g[i] = IF i < k THEN f[i]
                 ELSE Consume(f[SpanStart(data, k)], SubSeq(data, SpanStart(data, k) + 1, k))
      BY <2>4
    <3>4. CASE i < k
      BY <1>3, <2>3, <3>2, <3>3, <3>4
    <3>5. CASE i = k
      BY <1>3, <1>5, <3>2, <3>3, <3>5
    <3> QED
      BY <1>3, <3>4, <3>5
  <2>6. g = [i \in 0 .. k |-> IF i = 0 THEN c
               ELSE Consume(g[SpanStart(data, i)], SubSeq(data, SpanStart(data, i) + 1, i))]
    BY <2>4, <2>5
  <2>7. Chain(g, c, data, k)
    BY <2>6 DEF Chain
  <2> QED
    BY <1>3, <2>7
<1> QED
  BY <1>4, <1>5

\* The context after i tokens is what the last span makes of the context
\* before that span.
LEMMA ParsedUnfolds ==
  ASSUME NEW c, NEW data, Len(data) \in Nat, NEW i \in 0 .. Len(data)
  PROVE  Parsed(c, data)[i] =
           IF i = 0 THEN c
           ELSE Consume(Parsed(c, data)[SpanStart(data, i)],
                        SubSeq(data, SpanStart(data, i) + 1, i))
<1>1. Parsed(c, data) = CHOOSE f : Chain(f, c, data, Len(data))
  BY DEF Parsed, Chain
<1>2. Chain(Parsed(c, data), c, data, Len(data))
  BY <1>1, ChainExists
<1>3. PICK f : f = Parsed(c, data) /\ Chain(f, c, data, Len(data))
  BY <1>2
<1>4. f[i] = IF i = 0 THEN c
             ELSE Consume(f[SpanStart(data, i)], SubSeq(data, SpanStart(data, i) + 1, i))
  BY <1>3 DEF Chain
<1> QED
  BY <1>3, <1>4

\* What holds of a context before the data and is carried on by every span
\* holds of the context that has parsed the data.
LEMMA ParseInduction ==
  ASSUME NEW c, NEW data, Len(data) \in Nat, NEW S,
         c \in S[0],
         \A i \in 1 .. Len(data) : \A s \in 0 .. i - 1 : \A d \in S[s] :
           (\A j \in s + 1 .. i - 1 : SameSpan(data[j], data[i]))
             => Consume(d, SubSeq(data, s + 1, i)) \in S[i]
  PROVE  parse(c, data) \in S[Len(data)]
<1>1. PICK Gaps : Gaps = {k \in 0 .. Len(data) : Parsed(c, data)[k] \notin S[k]}
  OBVIOUS
<1>2. CASE Gaps = {}
  BY <1>1, <1>2 DEF parse
<1>3. CASE Gaps # {}
  <2>1. PICK k \in Gaps : \A j \in Gaps : k <= j
    <3>1. Gaps \in SUBSET Nat
      BY <1>1
    <3> QED
      BY <1>3, <3>1, LeastNumber
  <2>2. k \in 0 .. Len(data) /\ Parsed(c, data)[k] \notin S[k]
    BY <1>1
  <2>3. CASE k = 0
    BY <2>2, <2>3, ParsedUnfolds
  <2>4. CASE k # 0
    <3>1. PICK s : s = SpanStart(data, k)
      OBVIOUS
    <3>2. /\ s \in 0 .. k - 1
          /\ \A j \in s + 1 .. k - 1 : SameSpan(data[j], data[k])
      BY <2>2, <2>4, <3>1, SpanStarts
    <3>3. PICK d : d = Parsed(c, data)[s]
      OBVIOUS
    <3>4. d \in S[s]
      <4>1. s \notin Gaps /\ s \in 0 .. Len(data)
        BY <2>1, <2>2, <3>2
      <4> QED
        BY <1>1, <3>3, <4>1
    <3>5. Parsed(c, data)[k] = Consume(d, SubSeq(data, s + 1, k))
      BY <2>2, <2>4, <3>1, <3>3, ParsedUnfolds
    <3> QED
      BY <2>2, <2>4, <3>2, <3>4, <3>5
  <2> QED
    BY <2>3, <2>4
<1> QED
  BY <1>2, <1>3

-----------------------------------------------------------------------------
(* The callbacks: what one span makes of a context.                        *)

\* Tokens, requests and contexts as types.
Token == [req : Nat, at : Nat, kind : Kinds, last : BOOLEAN]
Header == [field : Seq(Token), value : Seq(Token)]
Request == [url : Seq(Token), query : Seq(Token), headers : SUBSET Header, body : Seq(Token)]
Contexts ==
  [position : Nat \union {Failed}, request : Request, headerField : Seq(Token),
   isComplete : BOOLEAN]

\* The cut is inside the URL.
LEMMA SplitInside ==
  ASSUME NEW url \in Seq(Token)
  PROVE  Split(url) \in 0 .. Len(url)
<1>1. PICK T : T = {n \in 0 .. Len(url) : n = Len(url) \/ url[n + 1].kind = "query"}
  OBVIOUS
<1>2. Len(url) \in Nat /\ Len(url) \in T /\ T \in SUBSET Nat
  BY <1>1
<1>3. PICK n \in T : \A m \in T : n <= m
  BY <1>2, LeastNumber
<1>4. n \in 0 .. Len(url) /\ (n = Len(url) \/ url[n + 1].kind = "query")
  BY <1>1
<1>5. ASSUME NEW i \in 1 .. n
      PROVE  url[i].kind # "query"
  <2>1. i - 1 \in 0 .. Len(url) /\ ~(n <= i - 1) /\ i - 1 + 1 = i
    BY <1>2, <1>4
  <2>2. i - 1 \notin T
    BY <1>3, <2>1
  <2> QED
    BY <1>1, <2>1, <2>2
<1> QED
  BY <1>4, <1>5 DEF Split

\* A piece of a sequence of tokens holds tokens of it.
LEMMA SubSeqTokens ==
  ASSUME NEW q \in Seq(Token), NEW m \in 1 .. Len(q) + 1, NEW n \in 0 .. Len(q)
  PROVE  SubSeq(q, m, n) \in Seq(Token) /\ ToSet(SubSeq(q, m, n)) \subseteq ToSet(q)
<1>1. /\ SubSeq(q, m, n) \in Seq(Token)
      /\ Len(SubSeq(q, m, n)) = IF m <= n THEN n - m + 1 ELSE 0
      /\ \A i \in 1 .. n - m + 1 : SubSeq(q, m, n)[i] = q[m + i - 1]
  BY SubSeqProperties
<1>2. ASSUME NEW i \in DOMAIN SubSeq(q, m, n)
      PROVE  SubSeq(q, m, n)[i] \in ToSet(q)
  <2>1. i \in 1 .. n - m + 1 /\ m + i - 1 \in DOMAIN q
    BY <1>1
  <2> QED
    BY <1>1, <2>1 DEF ToSet
<1> QED
  BY <1>1, <1>2 DEF ToSet

\* A concatenation holds the tokens of both.
LEMMA ConcatSets ==
  ASSUME NEW p \in Seq(Token), NEW q \in Seq(Token)
  PROVE  ToSet(p \o q) = ToSet(p) \union ToSet(q)
<1>1. /\ Len(p \o q) = Len(p) + Len(q) /\ Len(p) \in Nat /\ Len(q) \in Nat
      /\ \A i \in 1 .. Len(p) + Len(q) :
           (p \o q)[i] = IF i <= Len(p) THEN p[i] ELSE q[i - Len(p)]
      /\ DOMAIN (p \o q) = 1 .. Len(p) + Len(q)
  OBVIOUS
<1>2. \A i \in DOMAIN p : i \in DOMAIN (p \o q) /\ (p \o q)[i] = p[i]
  BY <1>1
<1>3. \A i \in DOMAIN q : Len(p) + i \in DOMAIN (p \o q) /\ (p \o q)[Len(p) + i] = q[i]
  BY <1>1
<1>4. \A i \in DOMAIN (p \o q) : \/ i \in DOMAIN p /\ (p \o q)[i] = p[i]
                                 \/ i - Len(p) \in DOMAIN q /\ (p \o q)[i] = q[i - Len(p)]
  BY <1>1
<1>5. ToSet(p \o q) \subseteq ToSet(p) \union ToSet(q)
  BY <1>4 DEF ToSet
<1>6. ToSet(p) \subseteq ToSet(p \o q) /\ ToSet(q) \subseteq ToSet(p \o q)
  BY <1>2, <1>3 DEF ToSet
<1> QED
  BY <1>5, <1>6

\* e holds nothing that is neither in d nor in the span.
Inside(e, d, span) ==
  /\ PartsOf(e.request) \subseteq PartsOf(d.request) \union ToSet(d.headerField) \union ToSet(span)
  /\ ToSet(e.headerField) \subseteq ToSet(d.headerField) \union ToSet(span)

\* A span's callback adds tokens of the span only, and only a body span changes
\* the body.
LEMMA Callback ==
  ASSUME NEW d \in Contexts, NEW span \in Seq(Token), span # <<>>
  PROVE  LET e == SpanCallback(d, span) IN
           /\ e \in Contexts
           /\ e.position = d.position /\ e.isComplete = d.isComplete
           /\ Inside(e, d, span)
           /\ e.request.body = IF Head(span).kind = "body" THEN d.request.body \o span
                               ELSE d.request.body
<1> DEFINE h == Head(span)
<1>1. /\ h \in Token /\ h.kind \in Kinds
      /\ d.request \in Request /\ d.headerField \in Seq(Token)
  <2>1. h \in Token
    OBVIOUS
  <2> QED
    BY <2>1 DEF Token, Contexts
<1> HIDE DEF h
<1>2. PICK e : e = SpanCallback(d, span)
  OBVIOUS
<1>3. CASE IsUrl(h)
  <2>1. e = [d EXCEPT !.request.url = span] /\ h.kind # "body"
    BY <1>2, <1>3 DEF SpanCallback, url_complete, h, IsUrl
  <2>2. e \in Contexts /\ e.position = d.position /\ e.isComplete = d.isComplete
        /\ e.request.body = d.request.body
    BY <1>1, <2>1 DEF Contexts, Request
  <2>3. Inside(e, d, span)
    BY <1>1, <2>1 DEF Contexts, Request, Inside, PartsOf
  <2> QED
    BY <1>2, <2>1, <2>2, <2>3 DEF h
<1>4. CASE h.kind = "field"
  <2>1. e = [d EXCEPT !.headerField = span]
    BY <1>2, <1>4 DEF SpanCallback, header_field_complete, h, IsUrl
  <2>2. e \in Contexts /\ e.position = d.position /\ e.isComplete = d.isComplete
        /\ e.request.body = d.request.body
    BY <1>1, <2>1 DEF Contexts, Request
  <2>3. Inside(e, d, span)
    BY <1>1, <2>1 DEF Contexts, Request, Inside, PartsOf
  <2> QED
    BY <1>2, <1>4, <2>1, <2>2, <2>3 DEF h
<1>5. CASE h.kind = "value"
  <2>1. PICK new : new = [field |-> d.headerField, value |-> span]
    OBVIOUS
  <2>2. e = d \/ e = [d EXCEPT !.request.headers = @ \union {new}]
    BY <1>2, <1>5, <2>1 DEF SpanCallback, header_value_complete, h, IsUrl
  <2>3. CASE e = d
    BY <1>2, <1>5, <2>3 DEF h, Inside
  <2>4. CASE e = [d EXCEPT !.request.headers = @ \union {new}]
    <3>1. new \in Header
      BY <1>1, <2>1 DEF Header
    <3>2. e \in Contexts /\ e.position = d.position /\ e.isComplete = d.isComplete
          /\ e.request.body = d.request.body
      BY <1>1, <2>4, <3>1 DEF Contexts, Request
    <3>3. /\ e.request.url = d.request.url /\ e.request.query = d.request.query
          /\ e.request.headers = d.request.headers \union {new} /\ e.headerField = d.headerField
      BY <1>1, <2>4 DEF Contexts, Request
    <3>4. \A g \in e.request.headers : g \in d.request.headers \/ g = new
      BY <3>3
    <3>5. ASSUME NEW t \in PartsOf(e.request)
          PROVE  t \in PartsOf(d.request) \union ToSet(d.headerField) \union ToSet(span)
      <4>1. CASE \E g \in e.request.headers : t \in ToSet(g.field) \union ToSet(g.value)
        <5>1. PICK g \in e.request.headers : t \in ToSet(g.field) \union ToSet(g.value)
          BY <4>1
        <5>2. CASE g = new
          BY <2>1, <5>1, <5>2
        <5>3. CASE g \in d.request.headers
          BY <5>1, <5>3 DEF PartsOf
        <5> QED
          BY <3>4, <5>2, <5>3
      <4>2. CASE t \in ToSet(e.request.url) \union ToSet(e.request.query) \union ToSet(e.request.body)
        BY <3>2, <3>3, <4>2 DEF PartsOf
      <4> QED
        BY <4>1, <4>2 DEF PartsOf
    <3>6. Inside(e, d, span)
      BY <3>3, <3>5 DEF Inside
    <3> QED
      BY <1>2, <1>5, <3>2, <3>6 DEF h
  <2> QED
    BY <2>2, <2>3, <2>4
<1>6. CASE h.kind = "body"
  <2>1. e = [d EXCEPT !.request.body = @ \o span]
    BY <1>2, <1>6 DEF SpanCallback, body_complete, h, IsUrl
  <2>2. d.request.body \in Seq(Token) /\ d.request.body \o span \in Seq(Token)
    BY <1>1 DEF Request
  <2>3. e \in Contexts /\ e.position = d.position /\ e.isComplete = d.isComplete
        /\ e.request.body = d.request.body \o span
    BY <1>1, <2>1, <2>2 DEF Contexts, Request
  <2>4. /\ e.request.url = d.request.url /\ e.request.query = d.request.query
        /\ e.request.headers = d.request.headers /\ e.headerField = d.headerField
    BY <1>1, <2>1 DEF Contexts, Request
  <2>5. ToSet(e.request.body) = ToSet(d.request.body) \union ToSet(span)
    BY <2>2, <2>3, ConcatSets
  <2>6. Inside(e, d, span)
    BY <2>4, <2>5 DEF Inside, PartsOf
  <2> QED
    BY <1>2, <1>6, <2>3, <2>6 DEF h
<1>7. CASE ~IsUrl(h) /\ h.kind \notin {"field", "value", "body"}
  <2>1. e = d
    BY <1>2, <1>7 DEF SpanCallback, h
  <2> QED
    BY <1>2, <1>7, <2>1 DEF h, Inside
<1> QED
  BY <1>3, <1>4, <1>5, <1>6, <1>7

\* message_complete_callback cuts the URL and adds nothing.
LEMMA Completion ==
  ASSUME NEW d \in Contexts
  PROVE  LET e == message_complete_callback(d) IN
           /\ e \in Contexts
           /\ e.position = d.position /\ e.isComplete
           /\ PartsOf(e.request) \subseteq PartsOf(d.request)
           /\ e.headerField = d.headerField
           /\ e.request.body = d.request.body
<1>1. PICK e, url, n : /\ e = message_complete_callback(d)
                       /\ url = d.request.url /\ n = Split(url)
  OBVIOUS
<1>2. d.request \in Request /\ url \in Seq(Token)
  BY <1>1 DEF Contexts, Request
<1>3. n \in 0 .. Len(url) /\ Len(url) \in Nat
  BY <1>1, <1>2, SplitInside
<1>4. PICK before, after : before = SubSeq(url, 1, n) /\ after = SubSeq(url, n + 1, Len(url))
  OBVIOUS
<1>5. /\ before \in Seq(Token) /\ ToSet(before) \subseteq ToSet(url)
      /\ after \in Seq(Token) /\ ToSet(after) \subseteq ToSet(url)
  BY <1>2, <1>3, <1>4, SubSeqTokens
<1>6. \E query \in {d.request.query, after} :
        e = [d EXCEPT !.request.query = query, !.request.url = before, !.isComplete = TRUE]
  BY <1>1, <1>4 DEF message_complete_callback
<1>7. PICK query \in {d.request.query, after} :
        e = [d EXCEPT !.request.query = query, !.request.url = before, !.isComplete = TRUE]
  BY <1>6
<1>8. query \in Seq(Token)
  BY <1>2, <1>5 DEF Request
<1>9. /\ e \in Contexts /\ e.position = d.position /\ e.isComplete
      /\ e.headerField = d.headerField /\ e.request.body = d.request.body
  BY <1>2, <1>5, <1>7, <1>8 DEF Contexts, Request
<1>10. e.request.url = before /\ e.request.query = query /\ e.request.headers = d.request.headers
  BY <1>2, <1>7 DEF Contexts, Request
<1>11. PartsOf(e.request) \subseteq PartsOf(d.request)
  BY <1>1, <1>5, <1>9, <1>10 DEF PartsOf
<1> QED
  BY <1>1, <1>9, <1>11

\* A span that llhttp accepts continues the message, moves the position to its
\* end, or to 0 behind the last token, and completes the request there.
LEMMA Consumption ==
  ASSUME NEW d \in Contexts, NEW span \in Seq(Token), span # <<>>
  PROVE  LET e == Consume(d, span) IN
           /\ e \in Contexts
           /\ d.position = Failed => e.position = Failed
           /\ e.position # Failed =>
                /\ Head(span).at = d.position + 1
                /\ e.position = IF Last(span).last THEN 0 ELSE Last(span).at
                /\ e.isComplete = (d.isComplete \/ Last(span).last)
                /\ Inside(e, d, span)
                /\ e.request.body = IF Head(span).kind = "body" THEN d.request.body \o span
                                    ELSE d.request.body
<1>1. PICK e, t : e = Consume(d, span) /\ t = Last(span)
  OBVIOUS
<1>2. t \in Token /\ t.at \in Nat /\ t.last \in BOOLEAN
  <2>1. t \in Token
    BY <1>1 DEF Last
  <2> QED
    BY <2>1 DEF Token
<1>3. CASE d.position = Failed \/ Head(span).kind = "bad" \/ Head(span).at # d.position + 1
  <2>1. e = [d EXCEPT !.position = Failed]
    BY <1>1, <1>3 DEF Consume
  <2>2. e \in Contexts /\ e.position = Failed
    BY <2>1 DEF Contexts
  <2> QED
    BY <1>1, <2>2
<1>4. CASE ~(d.position = Failed \/ Head(span).kind = "bad" \/ Head(span).at # d.position + 1)
  <2>1. PICK a, b : a = [d EXCEPT !.position = t.at] /\ b = SpanCallback(a, span)
    OBVIOUS
  <2>2. /\ a \in Contexts /\ a.position = t.at /\ a.isComplete = d.isComplete
        /\ a.request = d.request /\ a.headerField = d.headerField
    BY <1>2, <2>1 DEF Contexts
  <2>3. /\ b \in Contexts /\ b.position = t.at /\ b.isComplete = d.isComplete
        /\ Inside(b, a, span)
        /\ b.request.body = IF Head(span).kind = "body" THEN a.request.body \o span
                            ELSE a.request.body
    BY <2>1, <2>2, Callback
  <2>4. Inside(b, d, span)
    BY <2>2, <2>3 DEF Inside
  <2>5. CASE ~t.last
    <3>1. e = b
      BY <1>1, <1>4, <2>1, <2>5 DEF Consume
    <3> QED
      BY <1>1, <1>2, <1>4, <2>2, <2>3, <2>4, <2>5, <3>1 DEF Contexts
  <2>6. CASE t.last
    <3>1. PICK f : f = [b EXCEPT !.position = 0]
      OBVIOUS
    <3>2. /\ f \in Contexts /\ f.position = 0 /\ f.request = b.request
          /\ f.headerField = b.headerField
      BY <2>3, <3>1 DEF Contexts
    <3>3. e = message_complete_callback(f)
      BY <1>1, <1>4, <2>1, <2>6, <3>1 DEF Consume
    <3>4. /\ e \in Contexts /\ e.position = 0 /\ e.isComplete
          /\ PartsOf(e.request) \subseteq PartsOf(b.request)
          /\ e.headerField = b.headerField /\ e.request.body = b.request.body
      BY <3>2, <3>3, Completion
    <3>5. Inside(e, d, span)
      BY <2>4, <3>4 DEF Inside
    <3> QED
      BY <1>1, <1>2, <1>4, <2>2, <2>3, <2>6, <3>4, <3>5 DEF Contexts
  <2> QED
    BY <1>2, <2>5, <2>6
<1> QED
  BY <1>3, <1>4

-----------------------------------------------------------------------------
(* What a read makes of a context.                                         *)

\* The tokens of a span.
LEMMA SpanOf ==
  ASSUME NEW data \in Seq(Token), NEW i \in 1 .. Len(data), NEW s \in 0 .. i - 1
  PROVE  LET span == SubSeq(data, s + 1, i) IN
           /\ span \in Seq(Token) /\ span # <<>> /\ Len(span) = i - s
           /\ \A m \in 1 .. i - s : span[m] = data[s + m]
           /\ Head(span) = data[s + 1] /\ Last(span) = data[i]
<1>1. PICK span : span = SubSeq(data, s + 1, i)
  OBVIOUS
<1>2. /\ s + 1 \in 1 .. Len(data) + 1 /\ i \in 0 .. Len(data) /\ s + 1 <= i
      /\ i - (s + 1) + 1 = i - s /\ i - s \in Nat /\ i - s >= 1
  OBVIOUS
<1>3. /\ span \in Seq(Token) /\ Len(span) = i - s
      /\ \A m \in 1 .. i - s : span[m] = data[(s + 1) + m - 1]
  BY <1>1, <1>2, SubSeqProperties
<1>4. \A m \in 1 .. i - s : span[m] = data[s + m]
  <2> SUFFICES ASSUME NEW m \in 1 .. i - s
               PROVE  span[m] = data[s + m]
    OBVIOUS
  <2>1. (s + 1) + m - 1 = s + m
    OBVIOUS
  <2> QED
    BY <1>3, <2>1
<1>5. span # <<>> /\ Head(span) = span[1] /\ Last(span) = span[i - s]
  BY <1>2, <1>3 DEF Last
<1>6. 1 \in 1 .. i - s /\ i - s \in 1 .. i - s /\ s + (i - s) = i
  BY <1>2
<1> QED
  BY <1>1, <1>3, <1>4, <1>5, <1>6

\* What holds of every parse: an error sticks, and only the last token of a
\* message completes a request.
LEMMA ParseTypes ==
  ASSUME NEW c \in Contexts, NEW data \in Seq(Token)
  PROVE  /\ parse(c, data) \in Contexts
         /\ c.position = Failed => parse(c, data).position = Failed
         /\ parse(c, data).position # Failed /\ parse(c, data).isComplete =>
              c.isComplete \/ \E k \in 1 .. Len(data) : data[k].last
<1>1. PICK S : S = [i \in 0 .. Len(data) |->
         {d \in Contexts :
            /\ c.position = Failed => d.position = Failed
            /\ d.position # Failed /\ d.isComplete =>
                 c.isComplete \/ \E k \in 1 .. i : data[k].last}]
  OBVIOUS
<1>2. Len(data) \in Nat
  OBVIOUS
<1>3. c \in S[0]
  BY <1>1, <1>2
<1>4. ASSUME NEW i \in 1 .. Len(data), NEW s \in 0 .. i - 1, NEW d \in S[s]
      PROVE  Consume(d, SubSeq(data, s + 1, i)) \in S[i]
  <2>1. PICK span, e : span = SubSeq(data, s + 1, i) /\ e = Consume(d, span)
    OBVIOUS
  <2>2. span \in Seq(Token) /\ span # <<>> /\ Last(span) = data[i]
    BY <2>1, SpanOf
  <2>3. /\ s \in 0 .. Len(data) /\ d \in Contexts
        /\ c.position = Failed => d.position = Failed
        /\ d.position # Failed /\ d.isComplete =>
             c.isComplete \/ \E k \in 1 .. s : data[k].last
    BY <1>1, <1>2
  <2>4. /\ e \in Contexts /\ d.position = Failed => e.position = Failed
        /\ e.position # Failed => e.isComplete = (d.isComplete \/ Last(span).last)
    BY <2>1, <2>2, <2>3, Consumption
  <2>5. (\E k \in 1 .. s : data[k].last) => \E k \in 1 .. i : data[k].last
    BY <1>2
  <2>6. data[i].last => \E k \in 1 .. i : data[k].last
    BY <1>2
  <2>7. e \in Contexts /\ (d.position = Failed => e.position = Failed)
    BY <2>1, <2>2, <2>3, Consumption
  <2>8. e.position # Failed /\ e.isComplete => c.isComplete \/ \E k \in 1 .. i : data[k].last
    BY <2>2, <2>3, <2>4, <2>5, <2>6, <2>7
  <2> QED
    BY <1>1, <2>1, <2>3, <2>7, <2>8
<1>5. parse(c, data) \in S[Len(data)]
  BY <1>2, <1>3, <1>4, ParseInduction
<1> QED
  BY <1>1, <1>2, <1>5

\* tokens are a whole request, the one with number r.
Message(tokens, r) ==
  /\ tokens \in Seq(Token)
  /\ \A k \in 1 .. Len(tokens) :
       /\ tokens[k].req = r /\ tokens[k].at = k
       /\ tokens[k].last <=> k = Len(tokens)

\* The tokens of a body come in the order of the message.
Increasing(body) == \A j, k \in DOMAIN body : j < k => body[j].at < body[k].at

\* body is what the first p tokens hold of the body.
BodyUpTo(body, tokens, p) ==
  /\ \A t : t \in ToSet(body) <=> \E k \in 1 .. p : t = tokens[k] /\ t.kind = "body"
  /\ Increasing(body)

\* The context has seen p tokens of the r-th request and nothing else.
Holds(d, tokens, r, p) ==
  /\ \A t \in PartsOf(d.request) \union ToSet(d.headerField) : t.req = r
  /\ BodyUpTo(d.request.body, tokens, p)

\* A body span is appended to the body.
LEMMA BodyGrows ==
  ASSUME NEW r, NEW tokens, Message(tokens, r), NEW p \in Nat, NEW q \in 1 .. Len(tokens), p < q,
         NEW body \in Seq(Token), BodyUpTo(body, tokens, p),
         NEW span \in Seq(Token), Len(span) = q - p,
         \A m \in 1 .. q - p : span[m] = tokens[p + m] /\ span[m].kind = "body"
  PROVE  BodyUpTo(body \o span, tokens, q)
<1>1. /\ Len(tokens) \in Nat /\ Len(body) \in Nat /\ Len(body \o span) = Len(body) + (q - p)
      /\ DOMAIN (body \o span) = 1 .. Len(body) + (q - p)
      /\ \A i \in 1 .. Len(body) : (body \o span)[i] = body[i]
      /\ \A i \in 1 .. q - p : (body \o span)[Len(body) + i] = span[i]
      /\ DOMAIN body = 1 .. Len(body) /\ DOMAIN span = 1 .. q - p
  <2>1. Len(tokens) \in Nat /\ q - p \in Nat
    BY DEF Message
  <2>2. Len(body) \in Nat /\ DOMAIN body = 1 .. Len(body) /\ DOMAIN span = 1 .. q - p
    OBVIOUS
  <2>3. /\ body \o span \in Seq(Token) /\ Len(body \o span) = Len(body) + (q - p)
        /\ \A i \in 1 .. Len(body) + Len(span) :
             (body \o span)[i] = IF i <= Len(body) THEN body[i] ELSE span[i - Len(body)]
    BY ConcatProperties
  <2>4. ASSUME NEW i \in 1 .. q - p
        PROVE  (body \o span)[Len(body) + i] = span[i]
    <3>1. Len(body) + i \in 1 .. Len(body) + Len(span) /\ ~(Len(body) + i <= Len(body))
          /\ Len(body) + i - Len(body) = i
      BY <2>1, <2>2
    <3> QED
      BY <2>3, <3>1
  <2>5. \A i \in 1 .. Len(body) : (body \o span)[i] = body[i]
    BY <2>1, <2>2, <2>3
  <2> QED
    BY <2>1, <2>2, <2>3, <2>4, <2>5
<1>2. ToSet(body \o span) = ToSet(body) \union ToSet(span)
  BY ConcatSets
<1>3. \A t : t \in ToSet(span) <=> \E k \in p + 1 .. q : t = tokens[k] /\ t.kind = "body"
  <2>1. ASSUME NEW t \in ToSet(span)
        PROVE  \E k \in p + 1 .. q : t = tokens[k] /\ t.kind = "body"
    <3>1. PICK m \in 1 .. q - p : t = span[m]
      BY <1>1, <2>1 DEF ToSet
    <3>2. p + m \in p + 1 .. q
      BY <1>1
    <3> QED
      BY <3>1, <3>2
  <2>2. ASSUME NEW k \in p + 1 .. q
        PROVE  tokens[k] \in ToSet(span)
    <3>1. k - p \in 1 .. q - p /\ p + (k - p) = k
      BY <1>1
    <3>2. span[k - p] = tokens[k]
      BY <3>1
    <3> QED
      BY <1>1, <3>1, <3>2 DEF ToSet
  <2> QED
    BY <2>1, <2>2
<1>4. \A t : t \in ToSet(body \o span) <=> \E k \in 1 .. q : t = tokens[k] /\ t.kind = "body"
  <2>1. \A k : k \in 1 .. q <=> k \in 1 .. p \/ k \in p + 1 .. q
    BY <1>1
  <2> QED
    BY <1>2, <1>3, <2>1 DEF BodyUpTo
<1>5. Increasing(body \o span)
  <2> SUFFICES ASSUME NEW j \in DOMAIN (body \o span), NEW k \in DOMAIN (body \o span), j < k
               PROVE  (body \o span)[j].at < (body \o span)[k].at
    BY DEF Increasing
  <2>1. \A i \in 1 .. Len(body) : body[i].at \in 1 .. p
    <3> SUFFICES ASSUME NEW i \in 1 .. Len(body)
                 PROVE  body[i].at \in 1 .. p
      OBVIOUS
    <3>1. body[i] \in ToSet(body)
      BY <1>1 DEF ToSet
    <3>2. PICK m \in 1 .. p : body[i] = tokens[m]
      BY <3>1 DEF BodyUpTo
    <3>3. m \in 1 .. Len(tokens)
      BY <1>1
    <3> QED
      BY <3>2, <3>3 DEF Message
  <2>2. \A m \in 1 .. q - p : span[m].at = p + m
    <3> SUFFICES ASSUME NEW m \in 1 .. q - p
                 PROVE  span[m].at = p + m
      OBVIOUS
    <3>1. p + m \in 1 .. Len(tokens)
      BY <1>1
    <3> QED
      BY <3>1 DEF Message
  <2>3. CASE k <= Len(body)
    <3>1. j \in 1 .. Len(body) /\ k \in 1 .. Len(body)
      BY <1>1, <2>3
    <3> QED
      BY <1>1, <3>1 DEF BodyUpTo, Increasing
  <2>4. CASE ~(k <= Len(body)) /\ j <= Len(body)
    <3>1. PICK m \in 1 .. q - p : k = Len(body) + m
      <4>1. k - Len(body) \in 1 .. q - p /\ k = Len(body) + (k - Len(body))
        BY <1>1, <2>4
      <4> QED
        BY <4>1
    <3>2. j \in 1 .. Len(body)
      BY <1>1, <2>4
    <3>3. (body \o span)[j].at \in 1 .. p /\ (body \o span)[k].at = p + m
      BY <1>1, <2>1, <2>2, <3>1, <3>2
    <3> QED
      BY <3>3
  <2>5. CASE ~(k <= Len(body)) /\ ~(j <= Len(body))
    <3>1. PICK m \in 1 .. q - p : k = Len(body) + m
      <4>1. k - Len(body) \in 1 .. q - p /\ k = Len(body) + (k - Len(body))
        BY <1>1, <2>5
      <4> QED
        BY <4>1
    <3>2. PICK n \in 1 .. q - p : j = Len(body) + n
      <4>1. j - Len(body) \in 1 .. q - p /\ j = Len(body) + (j - Len(body))
        BY <1>1, <2>5
      <4> QED
        BY <4>1
    <3>3. (body \o span)[j].at = p + n /\ (body \o span)[k].at = p + m /\ n < m
      BY <1>1, <2>2, <3>1, <3>2
    <3> QED
      BY <3>3
  <2> QED
    BY <2>3, <2>4, <2>5
<1> QED
  BY <1>4, <1>5 DEF BodyUpTo

\* Other tokens leave it as it was.
LEMMA BodyStays ==
  ASSUME NEW tokens, NEW p \in Nat, NEW q \in Nat, p < q,
         NEW body, BodyUpTo(body, tokens, p),
         \A k \in p + 1 .. q : tokens[k].kind # "body"
  PROVE  BodyUpTo(body, tokens, q)
<1>1. \A k : k \in 1 .. q <=> k \in 1 .. p \/ k \in p + 1 .. q
  OBVIOUS
<1> QED
  BY <1>1 DEF BodyUpTo

\* Reading on in the r-th request, and in no other.
LEMMA RequestParsed ==
  ASSUME NEW r, NEW tokens, Message(tokens, r), NEW p \in Nat,
         NEW c \in Contexts, c.position = p, ~c.isComplete, Holds(c, tokens, r, p),
         NEW data \in Seq(Token), p + Len(data) <= Len(tokens), data # <<>>,
         \A k \in 1 .. Len(data) : data[k] = tokens[p + k]
  PROVE  LET e == parse(c, data)
             q == p + Len(data)
         IN  e.position # Failed =>
               /\ e.position = IF q = Len(tokens) THEN 0 ELSE q
               /\ e.isComplete <=> q = Len(tokens)
               /\ Holds(e, tokens, r, q)
<1> DEFINE Good(d, q) ==
             /\ d.position = IF q = Len(tokens) THEN 0 ELSE q
             /\ d.isComplete = (q = Len(tokens))
             /\ Holds(d, tokens, r, q)
<1>0. Len(data) \in Nat /\ Len(data) > 0 /\ Len(tokens) \in Nat
  BY DEF Message
<1>1. PICK S : S = [i \in 0 .. Len(data) |->
                      {d \in Contexts : d.position # Failed => Good(d, p + i)}]
  OBVIOUS
<1>2. c \in S[0]
  <2>1. p + 0 = p /\ p # Len(tokens) /\ 0 \in 0 .. Len(data)
    BY <1>0
  <2>2. Good(c, p)
    BY <2>1 DEF Contexts
  <2> QED
    BY <1>1, <2>1, <2>2
<1>3. ASSUME NEW i \in 1 .. Len(data), NEW s \in 0 .. i - 1, NEW d \in S[s],
             \A j \in s + 1 .. i - 1 : SameSpan(data[j], data[i])
      PROVE  Consume(d, SubSeq(data, s + 1, i)) \in S[i]
  <2>1. PICK span, e : span = SubSeq(data, s + 1, i) /\ e = Consume(d, span)
    OBVIOUS
  <2>2. /\ span \in Seq(Token) /\ span # <<>> /\ Len(span) = i - s
        /\ \A m \in 1 .. i - s : span[m] = data[s + m]
        /\ Head(span) = data[s + 1] /\ Last(span) = data[i]
    BY <2>1, SpanOf
  <2>3. d \in Contexts /\ (d.position # Failed => Good(d, p + s))
    <3>1. s \in 0 .. Len(data)
      BY <1>0
    <3> QED
      BY <1>1, <3>1
  <2>4. /\ e \in Contexts
        /\ d.position = Failed => e.position = Failed
        /\ e.position # Failed =>
             /\ e.position = IF Last(span).last THEN 0 ELSE Last(span).at
             /\ e.isComplete = (d.isComplete \/ Last(span).last)
             /\ Inside(e, d, span)
             /\ e.request.body = IF Head(span).kind = "body" THEN d.request.body \o span
                                 ELSE d.request.body
    BY <2>1, <2>2, <2>3, Consumption
  <2> SUFFICES ASSUME e.position # Failed
               PROVE  Good(e, p + i)
    BY <1>0, <1>1, <2>1, <2>4
  <2>5. /\ p + i \in 1 .. Len(tokens) /\ p + s \in Nat /\ p + s < p + i
        /\ p + s # Len(tokens) /\ i \in 1 .. Len(data)
        /\ (p + i) - (p + s) = i - s
    BY <1>0
  <2>6. d.isComplete = FALSE /\ Holds(d, tokens, r, p + s)
    BY <2>3, <2>4, <2>5
  <2>7. /\ Last(span) = tokens[p + i] /\ Last(span).at = p + i
        /\ Last(span).last = (p + i = Len(tokens))
    <3>1. Last(span) = tokens[p + i]
      BY <2>2, <2>5
    <3>2. tokens[p + i].at = p + i /\ (tokens[p + i].last <=> p + i = Len(tokens))
      BY <2>5 DEF Message
    <3>3. tokens[p + i] \in Token
      BY <2>5 DEF Message
    <3>4. tokens[p + i].last \in BOOLEAN
      BY <3>3 DEF Token
    <3> QED
      BY <3>1, <3>2, <3>4
  <2>9. e.position = IF p + i = Len(tokens) THEN 0 ELSE p + i
    BY <2>4, <2>7
  <2>10. e.isComplete = (p + i = Len(tokens))
    BY <2>4, <2>6, <2>7
  <2>11. \A m \in 1 .. i - s : span[m] = tokens[p + s + m]
    <3> SUFFICES ASSUME NEW m \in 1 .. i - s
                 PROVE  span[m] = tokens[p + s + m]
      OBVIOUS
    <3>1. s + m \in 1 .. Len(data) /\ p + (s + m) = p + s + m
      BY <1>0
    <3> QED
      BY <2>2, <3>1
  <2>12. \A t \in ToSet(span) : t.req = r
    <3> SUFFICES ASSUME NEW m \in 1 .. i - s
                 PROVE  span[m].req = r
      BY <2>2 DEF ToSet
    <3>1. p + s + m \in 1 .. Len(tokens)
      BY <2>5
    <3> QED
      BY <2>11, <3>1 DEF Message
  <2>13. \A t \in PartsOf(e.request) \union ToSet(e.headerField) : t.req = r
    BY <2>4, <2>6, <2>12 DEF Inside, Holds
  <2>14. \A j \in s + 1 .. i : data[j].kind = "body" <=> data[i].kind = "body"
    <3> SUFFICES ASSUME NEW j \in s + 1 .. i
                 PROVE  data[j].kind = "body" <=> data[i].kind = "body"
      OBVIOUS
    <3>1. j = i \/ j \in s + 1 .. i - 1
      OBVIOUS
    <3> QED
      BY <1>3, <3>1 DEF SameSpan, IsUrl
  <2>15. BodyUpTo(e.request.body, tokens, p + i)
    <3>0. d.request.body \in Seq(Token)
      BY <2>3 DEF Contexts, Request
    <3>1. CASE data[i].kind = "body"
      <4>1. \A m \in 1 .. i - s : span[m].kind = "body"
        <5> SUFFICES ASSUME NEW m \in 1 .. i - s
                     PROVE  span[m].kind = "body"
          OBVIOUS
        <5>1. s + m \in s + 1 .. i
          BY <1>0
        <5> QED
          BY <2>2, <2>14, <3>1, <5>1
      <4>2. s + 1 \in s + 1 .. i
        BY <1>0
      <4>3. Head(span).kind = "body"
        BY <2>2, <2>14, <3>1, <4>2
      <4>4. BodyUpTo(d.request.body \o span, tokens, p + i)
        <5>1. PICK u, v : u = p + s /\ v = p + i
          OBVIOUS
        <5>2. u \in Nat /\ v \in 1 .. Len(tokens) /\ u < v /\ Len(span) = v - u /\ v - u = i - s
          BY <2>2, <2>5, <5>1
        <5>3. \A m \in 1 .. v - u : span[m] = tokens[u + m] /\ span[m].kind = "body"
          BY <2>11, <4>1, <5>1, <5>2
        <5>4. BodyUpTo(d.request.body, tokens, u)
          BY <2>6, <5>1 DEF Holds
        <5> QED
          BY <2>2, <3>0, <5>1, <5>2, <5>3, <5>4, BodyGrows
      <4> QED
        BY <2>4, <4>3, <4>4
    <3>2. CASE data[i].kind # "body"
      <4>1. s + 1 \in s + 1 .. i
        BY <1>0
      <4>2. Head(span).kind # "body"
        BY <2>2, <2>14, <3>2, <4>1
      <4>3. ASSUME NEW k \in p + s + 1 .. p + i
            PROVE  tokens[k].kind # "body"
        <5>1. k - p \in s + 1 .. i /\ k - p \in 1 .. Len(data) /\ p + (k - p) = k
          BY <1>0
        <5>2. data[k - p] = tokens[k]
          BY <5>1
        <5> QED
          BY <2>14, <3>2, <5>1, <5>2
      <4>4. BodyUpTo(d.request.body, tokens, p + i)
        <5>1. PICK u, v : u = p + s /\ v = p + i
          OBVIOUS
        <5>2. u \in Nat /\ v \in Nat /\ u < v /\ \A k \in u + 1 .. v : tokens[k].kind # "body"
          BY <2>5, <4>3, <5>1
        <5>3. BodyUpTo(d.request.body, tokens, u)
          BY <2>6, <5>1 DEF Holds
        <5> QED
          BY <5>1, <5>2, <5>3, BodyStays
      <4> QED
        BY <2>4, <4>2, <4>4
    <3> QED
      BY <3>1, <3>2
  <2> QED
    BY <2>9, <2>10, <2>13, <2>15 DEF Holds
<1>4. parse(c, data) \in S[Len(data)]
  <2> HIDE DEF Good
  <2> QED
    BY <1>0, <1>2, <1>3, ParseInduction
<1>5. Len(data) \in 0 .. Len(data)
  BY <1>0
<1>6. S[Len(data)] = {d \in Contexts : d.position # Failed => Good(d, p + Len(data))}
  BY <1>1, <1>5
<1> QED
  BY <1>4, <1>6

-----------------------------------------------------------------------------
(* The inductive invariant, and what is on the wire.                       *)

\* The types of the variables.
Types ==
  /\ requests \in Seq(Shapes) /\ Len(requests) <= MaxRequests
  /\ wire \in Seq(Token) /\ inputBuffer_ \in Seq(Token)
  /\ context \in Contexts
  /\ context.isComplete \/ inputBuffer_ # <<>> => context.position = Failed
  /\ tasks \subseteq 1 .. MaxRequests
  /\ sending \in Seq(1 .. MaxRequests)
  /\ conn \in {"open", "closing", "shut", "gone"}
  /\ dispatched \in Seq(Request) /\ answers \in Seq(Nat)
  /\ merged \in BOOLEAN

\* The stream w is what the requests rs end with, without a gap.
Flow(w, rs) ==
  /\ \A i \in DOMAIN w :
       /\ w[i].req \in DOMAIN rs /\ w[i].at \in 1 .. Len(rs[w[i].req])
       /\ w[i] = Tokens(w[i].req, rs[w[i].req])[w[i].at]
  /\ \A i, j \in DOMAIN w : i < j =>
       /\ w[i].req <= w[j].req
       /\ w[i].req = w[j].req => w[j].at = w[i].at + (j - i)
  /\ \A i \in DOMAIN w : i + 1 \in DOMAIN w =>
       IF w[i].last
         THEN w[i + 1].req = w[i].req + 1 /\ w[i + 1].at = 1
         ELSE w[i + 1].req = w[i].req
  /\ w # <<>> => w[Len(w)].last /\ w[Len(w)].req = Len(rs)

\* What is on the wire.
Stream == Flow(wire, requests)

\* The request whose end is still to come.
CurrentOf(w, rs) == IF w = <<>> THEN Len(rs) + 1 ELSE w[1].req

\* The request the wire begins in, at this moment.
Current == CurrentOf(wire, requests)

\* A request is dispatched after its end has been read.
Counted ==
  /\ Len(dispatched) <= Len(requests)
  /\ conn # "gone" => Len(dispatched) < Current

\* Every request in ds is made of the tokens of its own, with its whole body.
Kept(ds, rs) ==
  \A i \in DOMAIN ds :
    /\ \A t \in PartsOf(ds[i]) : t.req = i
    /\ BodyUpTo(ds[i].body, Tokens(i, rs[i]), Len(rs[i]))

\* The context d is in the request behind those in ds, as far as w has been
\* read, and holds nothing of another.
InStep(w, rs, ds, d) ==
  LET r == CurrentOf(w, rs) IN
    /\ r = Len(ds) + 1
    /\ d.position = IF w = <<>> THEN 0 ELSE w[1].at - 1
    /\ Holds(d, Tokens(r, rs[r]), r, d.position)

\* As long as no read held parts of two requests.
Apart ==
  ~merged =>
    /\ Kept(dispatched, requests)
    /\ conn # "gone" /\ context.position # Failed =>
         InStep(wire, requests, dispatched, context)

\* After a 400 the parser has failed.
Refused == BadRequest \in ToSet(answers) => context.position = Failed \/ conn = "gone"

\* The inductive invariant.
IInv == Types /\ Stream /\ Counted /\ Apart /\ Refused

\* The tokens of a request of any shape make a message.
LEMMA ShapeTokens ==
  ASSUME NEW r \in Nat, NEW shape \in Shapes
  PROVE  /\ Message(Tokens(r, shape), r)
         /\ Len(Tokens(r, shape)) = Len(shape) /\ Len(shape) \in Nat /\ Len(shape) > 0
<1>1. shape \in Seq(Kinds) /\ shape # <<>> /\ Len(shape) \in Nat /\ Len(shape) > 0
  BY ShapesAssumption
<1>2. PICK T : T = Tokens(r, shape)
  OBVIOUS
<1>3. /\ T = [i \in 1 .. Len(shape) |->
                [req |-> r, at |-> i, kind |-> shape[i], last |-> i = Len(shape)]]
  BY <1>2 DEF Tokens
<1>4. \A i \in 1 .. Len(shape) :
        T[i] = [req |-> r, at |-> i, kind |-> shape[i], last |-> i = Len(shape)]
  BY <1>3
<1>5. ASSUME NEW i \in 1 .. Len(shape)
      PROVE  T[i] \in Token
  <2>1. shape[i] \in Kinds /\ i \in Nat /\ (i = Len(shape)) \in BOOLEAN
    BY <1>1
  <2>2. PICK k, l : k = shape[i] /\ l = (i = Len(shape))
    OBVIOUS
  <2>3. [req |-> r, at |-> i, kind |-> k, last |-> l] \in Token
    BY <2>1, <2>2 DEF Token
  <2> QED
    BY <1>4, <2>2, <2>3
<1>6. T \in Seq(Token) /\ Len(T) = Len(shape)
  BY <1>1, <1>3, <1>5
<1>7. \A k \in 1 .. Len(T) : T[k].req = r /\ T[k].at = k /\ (T[k].last <=> k = Len(T))
  <2> SUFFICES ASSUME NEW k \in 1 .. Len(shape)
               PROVE  T[k].req = r /\ T[k].at = k /\ (T[k].last <=> k = Len(shape))
    BY <1>6
  <2>1. PICK l \in BOOLEAN : l <=> k = Len(shape)
    OBVIOUS
  <2>2. T[k] = [req |-> r, at |-> k, kind |-> shape[k], last |-> l]
    BY <1>4, <2>1
  <2> QED
    BY <2>1, <2>2
<1> QED
  BY <1>1, <1>2, <1>6, <1>7 DEF Message

\* The tokens on the wire, as tokens of their requests.
LEMMA OnTheWire ==
  ASSUME NEW rs \in Seq(Shapes), NEW w \in Seq(Token), Flow(w, rs), NEW i \in DOMAIN w
  PROVE  LET t == w[i]
             T == Tokens(t.req, rs[t.req])
         IN  /\ t.req \in 1 .. Len(rs) /\ rs[t.req] \in Shapes
             /\ Message(T, t.req)
             /\ t.at \in 1 .. Len(T) /\ t = T[t.at]
             /\ Len(T) = Len(rs[t.req])
<1>1. PICK r : r = w[i].req
  OBVIOUS
<1>2. r \in 1 .. Len(rs) /\ rs[r] \in Shapes /\ r \in Nat
  BY <1>1 DEF Flow
<1>3. Message(Tokens(r, rs[r]), r) /\ Len(Tokens(r, rs[r])) = Len(rs[r])
  BY <1>2, ShapeTokens
<1> QED
  BY <1>1, <1>2, <1>3 DEF Flow

\* What is left of a stream after n tokens.
LEMMA Unread ==
  ASSUME NEW w \in Seq(Token), NEW n \in 1 .. Len(w)
  PROVE  LET v == SubSeq(w, n + 1, Len(w)) IN
           /\ v \in Seq(Token) /\ Len(v) = Len(w) - n
           /\ \A i \in 1 .. Len(w) - n : v[i] = w[n + i]
<1>1. PICK v, L : v = SubSeq(w, n + 1, Len(w)) /\ L = Len(w)
  OBVIOUS
<1>2. L \in Nat /\ n \in 1 .. L
  BY <1>1
<1>3. CASE n = L
  <2>1. v = <<>>
    BY <1>1, <1>2, <1>3, SubSeqEmpty
  <2> QED
    BY <1>1, <1>2, <1>3, <2>1
<1>4. CASE n < L
  <2>1. /\ n + 1 \in 1 .. L + 1 /\ L \in 0 .. L /\ n + 1 <= L
        /\ L - (n + 1) + 1 = L - n
    BY <1>2, <1>4
  <2>2. /\ v \in Seq(Token) /\ Len(v) = L - n
        /\ \A i \in 1 .. L - n : v[i] = w[(n + 1) + i - 1]
    BY <1>1, <2>1, SubSeqProperties
  <2>3. \A i \in 1 .. L - n : (n + 1) + i - 1 = n + i
    BY <1>2
  <2> QED
    BY <1>1, <2>2, <2>3
<1> QED
  BY <1>2, <1>3, <1>4

\* What is left after a read is still what the requests end with.
LEMMA ReadFlow ==
  ASSUME NEW rs \in Seq(Shapes), NEW w \in Seq(Token), Flow(w, rs), NEW n \in 1 .. Len(w)
  PROVE  Flow(SubSeq(w, n + 1, Len(w)), rs)
<1>1. PICK v, L : v = SubSeq(w, n + 1, Len(w)) /\ L = Len(w)
  OBVIOUS
<1>2. L \in Nat /\ n \in 1 .. L /\ DOMAIN w = 1 .. L
  BY <1>1
<1>3. v \in Seq(Token) /\ Len(v) = L - n /\ \A i \in 1 .. L - n : v[i] = w[n + i]
  BY <1>1, Unread
<1>4. DOMAIN v = 1 .. L - n /\ L - n \in Nat
  BY <1>2, <1>3
<1>5. \A i \in DOMAIN v : n + i \in DOMAIN w /\ v[i] = w[n + i]
  BY <1>2, <1>3, <1>4
<1>6. \A i \in DOMAIN v :
       /\ v[i].req \in DOMAIN rs /\ v[i].at \in 1 .. Len(rs[v[i].req])
       /\ v[i] = Tokens(v[i].req, rs[v[i].req])[v[i].at]
  BY <1>5 DEF Flow
<1>7. ASSUME NEW i \in DOMAIN v, NEW j \in DOMAIN v, i < j
      PROVE  /\ v[i].req <= v[j].req
             /\ v[i].req = v[j].req => v[j].at = v[i].at + (j - i)
  <2>1. n + i < n + j /\ (n + j) - (n + i) = j - i
    BY <1>2, <1>4, <1>7
  <2> QED
    BY <1>5, <2>1 DEF Flow
<1>8. ASSUME NEW i \in DOMAIN v, i + 1 \in DOMAIN v
      PROVE  IF v[i].last
               THEN v[i + 1].req = v[i].req + 1 /\ v[i + 1].at = 1
               ELSE v[i + 1].req = v[i].req
  <2>1. n + (i + 1) = (n + i) + 1
    BY <1>2, <1>4
  <2> QED
    BY <1>5, <1>8, <2>1 DEF Flow
<1>9. v # <<>> => v[Len(v)].last /\ v[Len(v)].req = Len(rs)
  <2> SUFFICES ASSUME v # <<>>
               PROVE  v[Len(v)].last /\ v[Len(v)].req = Len(rs)
    OBVIOUS
  <2>1. Len(v) \in DOMAIN v /\ n + Len(v) = L /\ w # <<>>
    BY <1>2, <1>3, <1>4
  <2>2. v[Len(v)] = w[L]
    BY <1>5, <2>1
  <2> QED
    BY <1>1, <2>1, <2>2 DEF Flow
<1>10. Flow(v, rs)
  BY <1>6, <1>7, <1>8, <1>9 DEF Flow
<1> QED
  BY <1>1, <1>10

\* A read that ends a request goes on to the next.
LEMMA CurrentRises ==
  ASSUME NEW rs \in Seq(Shapes), NEW w \in Seq(Token), Flow(w, rs), NEW n \in 1 .. Len(w)
  PROVE  LET now == CurrentOf(w, rs)
             next == CurrentOf(SubSeq(w, n + 1, Len(w)), rs)
         IN  /\ now \in 1 .. Len(rs) /\ next \in Nat /\ next >= now
             /\ (\E k \in 1 .. n : w[k].last) => next > now
<1>1. PICK v, L : v = SubSeq(w, n + 1, Len(w)) /\ L = Len(w)
  OBVIOUS
<1>2. L \in Nat /\ n \in 1 .. L /\ DOMAIN w = 1 .. L /\ w # <<>> /\ Len(rs) \in Nat
  BY <1>1
<1>3. v \in Seq(Token) /\ Len(v) = L - n /\ \A i \in 1 .. L - n : v[i] = w[n + i]
  BY <1>1, Unread
<1>4. PICK now, next : now = CurrentOf(w, rs) /\ next = CurrentOf(v, rs)
  OBVIOUS
<1>5. \A i \in 1 .. L : w[i].req \in 1 .. Len(rs)
  BY <1>2, OnTheWire
<1>6. now = w[1].req /\ now \in 1 .. Len(rs)
  BY <1>2, <1>4, <1>5 DEF CurrentOf
<1>7. CASE n = L
  <2>1. v = <<>>
    BY <1>2, <1>3, <1>7
  <2>2. next = Len(rs) + 1
    BY <1>4, <2>1 DEF CurrentOf
  <2> QED
    BY <1>1, <1>2, <1>4, <1>6, <2>2
<1>8. CASE n < L
  <2>1. v # <<>> /\ v[1] = w[n + 1]
    BY <1>2, <1>3, <1>8
  <2>2. next = w[n + 1].req
    BY <1>4, <2>1 DEF CurrentOf
  <2>3. /\ n + 1 \in DOMAIN w /\ 1 \in DOMAIN w /\ 1 < n + 1
        /\ w[n + 1].req \in 1 .. Len(rs) /\ w[1].req \in 1 .. Len(rs)
    BY <1>2, <1>5, <1>8
  <2>4. w[1].req <= w[n + 1].req
    BY <2>3 DEF Flow
  <2>5. ASSUME NEW k \in 1 .. n, w[k].last
        PROVE  w[n + 1].req > w[1].req
    <3>1. k \in DOMAIN w /\ k + 1 \in DOMAIN w /\ (k = 1 \/ 1 < k) /\ (k = n \/ k + 1 < n + 1)
      BY <1>2, <1>8
    <3>2. w[k + 1].req = w[k].req + 1
      BY <2>5, <3>1 DEF Flow
    <3>3. w[k].req \in 1 .. Len(rs) /\ w[k + 1].req \in 1 .. Len(rs)
      BY <1>2, <1>5, <3>1
    <3>4. w[1].req <= w[k].req
      BY <2>3, <3>1, <3>3 DEF Flow
    <3>5. w[k + 1].req <= w[n + 1].req
      BY <2>3, <3>1, <3>3 DEF Flow
    <3> QED
      BY <2>3, <3>2, <3>3, <3>4, <3>5
  <2> QED
    BY <1>1, <1>4, <1>6, <2>2, <2>3, <2>4, <2>5
<1> QED
  BY <1>2, <1>7, <1>8

\* A read of n tokens within one request.
LEMMA ReadWithin ==
  ASSUME NEW rs \in Seq(Shapes), NEW w \in Seq(Token), Flow(w, rs), NEW n \in 1 .. Len(w),
         w[1].req = w[n].req
  PROVE  LET r == w[1].req
             p == w[1].at - 1
             T == Tokens(r, rs[r])
             v == SubSeq(w, n + 1, Len(w))
         IN  /\ Message(T, r) /\ p \in Nat /\ p + n <= Len(T)
             /\ \A k \in 1 .. n : w[k] = T[p + k]
             /\ IF p + n = Len(T)
                  THEN CurrentOf(v, rs) = r + 1 /\ (v # <<>> => v[1].at = 1)
                  ELSE v # <<>> /\ CurrentOf(v, rs) = r /\ v[1].at = p + n + 1
<1>1. PICK v, L, r, p, T : /\ v = SubSeq(w, n + 1, Len(w)) /\ L = Len(w) /\ r = w[1].req
                           /\ p = w[1].at - 1 /\ T = Tokens(r, rs[r])
  OBVIOUS
<1>2. L \in Nat /\ n \in 1 .. L /\ DOMAIN w = 1 .. L /\ w # <<>> /\ Len(rs) \in Nat
  BY <1>1
<1>3. v \in Seq(Token) /\ Len(v) = L - n /\ \A i \in 1 .. L - n : v[i] = w[n + i]
  BY <1>1, Unread
<1>4. \A i \in 1 .. L : /\ w[i].req \in 1 .. Len(rs)
                        /\ w[i].req = r => w[i].at \in 1 .. Len(T) /\ w[i] = T[w[i].at]
  <2> SUFFICES ASSUME NEW i \in 1 .. L
               PROVE  /\ w[i].req \in 1 .. Len(rs)
                      /\ w[i].req = r => w[i].at \in 1 .. Len(T) /\ w[i] = T[w[i].at]
    OBVIOUS
  <2>1. /\ w[i].req \in 1 .. Len(rs)
        /\ w[i].at \in 1 .. Len(Tokens(w[i].req, rs[w[i].req]))
        /\ w[i] = Tokens(w[i].req, rs[w[i].req])[w[i].at]
    BY <1>2, OnTheWire
  <2> QED
    BY <1>1, <2>1
<1>5. 1 \in 1 .. L /\ Message(T, r) /\ Len(T) \in Nat
  <2>1. 1 \in 1 .. L
    BY <1>2
  <2>2. Message(T, r)
    BY <1>1, <1>2, <2>1, OnTheWire
  <2> QED
    BY <2>1, <2>2 DEF Message
<1>6. p \in Nat /\ w[1].at = p + 1
  BY <1>1, <1>4, <1>5
<1>12. \A i, j \in 1 .. L : i < j =>
        /\ w[i].req <= w[j].req
        /\ w[i].req = w[j].req => w[j].at = w[i].at + (j - i)
  BY <1>2 DEF Flow
<1>7. ASSUME NEW k \in 1 .. n
      PROVE  w[k].req = r /\ w[k].at = p + k /\ p + k \in 1 .. Len(T) /\ w[k] = T[p + k]
  <2>1. k \in 1 .. L /\ (k = 1 \/ 1 < k) /\ (k = n \/ k < n)
    BY <1>2
  <2>2. PICK a \in Nat : w[k].req = a
    BY <1>4, <2>1
  <2>5. PICK b \in Nat : b = w[1].req /\ b = w[n].req /\ b = r
    BY <1>1, <1>2, <1>4, <1>5
  <2>6. b <= a
    BY <1>5, <2>1, <2>2, <2>5, <1>12
  <2>7. a <= b
    <3>1. CASE k = n
      <4>1. a = b
        BY <2>2, <2>5, <3>1, Zenon
      <4> QED
        BY <4>1
    <3>2. CASE k < n
      <4>1. w[k].req <= w[n].req
        BY <1>2, <1>12, <2>1, <3>2
      <4> QED
        BY <2>2, <2>5, <4>1
    <3> QED
      BY <2>1, <3>1, <3>2
  <2>3. w[k].req = r
    BY <2>2, <2>5, <2>6, <2>7
  <2>4. w[k].at = p + k
    <3>1. CASE k = 1
      BY <1>6, <3>1
    <3>2. CASE 1 < k
      <4>1. w[k].at = w[1].at + (k - 1)
        BY <1>1, <1>5, <1>12, <2>1, <2>3, <3>2
      <4> QED
        BY <1>6, <4>1
    <3> QED
      BY <2>1, <3>1, <3>2
  <2> QED
    BY <1>4, <2>1, <2>3, <2>4
<1>8. w[n].last <=> p + n = Len(T)
  <2>1. n \in 1 .. n
    BY <1>2
  <2> QED
    BY <1>5, <1>7, <2>1 DEF Message
<1>9. p + n <= Len(T)
  <2>1. n \in 1 .. n
    BY <1>2
  <2> QED
    BY <1>5, <1>6, <1>7, <2>1
<1>10. CASE n = L
  <2>1. v = <<>>
    BY <1>2, <1>3, <1>10
  <2>2. w[n].last /\ w[n].req = Len(rs)
    BY <1>1, <1>2, <1>10 DEF Flow
  <2>3. CurrentOf(v, rs) = r + 1
    BY <1>1, <2>1, <2>2 DEF CurrentOf
  <2> QED
    BY <1>1, <1>5, <1>6, <1>7, <1>8, <1>9, <2>1, <2>2, <2>3
<1>11. CASE n < L
  <2>1. v # <<>> /\ v[1] = w[n + 1] /\ n \in DOMAIN w /\ n + 1 \in DOMAIN w
    BY <1>2, <1>3, <1>11
  <2>2. CurrentOf(v, rs) = w[n + 1].req
    BY <2>1 DEF CurrentOf
  <2>3. CASE p + n = Len(T)
    <3>1. w[n + 1].req = r + 1 /\ w[n + 1].at = 1
      BY <1>1, <1>8, <2>1, <2>3 DEF Flow
    <3> QED
      BY <1>1, <1>5, <1>6, <1>7, <1>9, <2>1, <2>2, <2>3, <3>1
  <2>4. CASE p + n # Len(T)
    <3>1. w[n + 1].req = r
      BY <1>1, <1>8, <2>1, <2>4 DEF Flow
    <3>2. 1 \in DOMAIN w /\ 1 < n + 1 /\ (n + 1) - 1 = n
      BY <1>2, <1>5
    <3>3. w[n + 1].at = w[1].at + ((n + 1) - 1)
      BY <1>1, <1>2, <1>12, <2>1, <3>1, <3>2
    <3>4. w[n + 1].at = p + n + 1
      BY <1>2, <1>6, <3>2, <3>3
    <3> QED
      BY <1>1, <1>5, <1>6, <1>7, <1>9, <2>1, <2>2, <2>4, <3>1, <3>4
  <2> QED
    BY <2>3, <2>4
<1> QED
  BY <1>2, <1>10, <1>11

\* The client sends another request.
LEMMA SendFlow ==
  ASSUME NEW rs \in Seq(Shapes), NEW w \in Seq(Token), Flow(w, rs), NEW shape \in Shapes
  PROVE  LET v == w \o Tokens(Len(rs) + 1, shape) IN
           /\ v \in Seq(Token) /\ v # <<>> /\ Flow(v, Append(rs, shape))
           /\ v[1] = IF w = <<>> THEN Tokens(Len(rs) + 1, shape)[1] ELSE w[1]
           /\ CurrentOf(v, Append(rs, shape)) = CurrentOf(w, rs)
           /\ w = <<>> => v[1].at = 1
<1>1. PICK r, T, L, M, v, ss : /\ r = Len(rs) + 1 /\ T = Tokens(r, shape) /\ v = w \o T
                               /\ L = Len(w) /\ M = Len(T) /\ ss = Append(rs, shape)
  OBVIOUS
<1>2. /\ Message(T, r) /\ M = Len(shape) /\ M \in Nat /\ M > 0 /\ r \in Nat /\ L \in Nat
      /\ T \in Seq(Token) /\ Len(rs) \in Nat
  BY <1>1, ShapeTokens DEF Message
<1>3. /\ v \in Seq(Token) /\ Len(v) = L + M
      /\ \A i \in 1 .. L + M : v[i] = IF i <= L THEN w[i] ELSE T[i - L]
  BY <1>1, <1>2, ConcatProperties
<1>4. /\ DOMAIN ss = 1 .. r /\ Len(ss) = r /\ ss[r] = shape
      /\ \A q \in 1 .. Len(rs) : ss[q] = rs[q]
  BY <1>1
<1>5. /\ DOMAIN v = 1 .. L + M /\ DOMAIN w = 1 .. L
      /\ \A i \in 1 .. L : v[i] = w[i] /\ w[i].req \in 1 .. Len(rs)
  <2>1. DOMAIN v = 1 .. L + M /\ DOMAIN w = 1 .. L
    BY <1>1, <1>3
  <2>2. \A i \in 1 .. L : w[i].req \in 1 .. Len(rs)
    BY <2>1, OnTheWire
  <2>3. \A i \in 1 .. L : v[i] = w[i]
    BY <1>2, <1>3
  <2> QED
    BY <2>1, <2>2, <2>3
<1>6. ASSUME NEW k \in 1 .. M
      PROVE  /\ L + k \in DOMAIN v /\ v[L + k] = T[k]
             /\ T[k].req = r /\ T[k].at = k /\ (T[k].last <=> k = M)
  <2>1. L + k \in 1 .. L + M /\ ~(L + k <= L) /\ L + k - L = k
    BY <1>2
  <2> QED
    BY <1>1, <1>2, <1>3, <1>5, <2>1 DEF Message
<1>7. ASSUME NEW i \in DOMAIN v
      PROVE  i \in 1 .. L \/ \E k \in 1 .. M : i = L + k
  <2>1. i \in 1 .. L \/ (i - L \in 1 .. M /\ i = L + (i - L))
    BY <1>2, <1>5
  <2> QED
    BY <2>1
<1>8. ASSUME NEW i \in DOMAIN v
      PROVE  /\ v[i].req \in DOMAIN ss /\ v[i].at \in 1 .. Len(ss[v[i].req])
             /\ v[i] = Tokens(v[i].req, ss[v[i].req])[v[i].at]
  <2>1. CASE i \in 1 .. L
    <3>1. /\ w[i].req \in 1 .. Len(rs) /\ w[i].at \in 1 .. Len(rs[w[i].req])
          /\ w[i] = Tokens(w[i].req, rs[w[i].req])[w[i].at]
      BY <1>5, <2>1 DEF Flow
    <3>2. ss[w[i].req] = rs[w[i].req] /\ w[i].req \in 1 .. r
      BY <1>1, <1>2, <1>4, <3>1
    <3> QED
      BY <1>4, <1>5, <2>1, <3>1, <3>2
  <2>2. ASSUME NEW k \in 1 .. M, i = L + k
        PROVE  /\ v[i].req \in DOMAIN ss /\ v[i].at \in 1 .. Len(ss[v[i].req])
               /\ v[i] = Tokens(v[i].req, ss[v[i].req])[v[i].at]
    <3>1. r \in 1 .. r
      BY <1>1, <1>2
    <3> QED
      BY <1>1, <1>2, <1>4, <1>6, <2>2, <3>1
  <2> QED
    BY <1>7, <2>1, <2>2
<1>9. ASSUME NEW i \in DOMAIN v, NEW j \in DOMAIN v, i < j
      PROVE  /\ v[i].req <= v[j].req
             /\ v[i].req = v[j].req => v[j].at = v[i].at + (j - i)
  <2>1. CASE j \in 1 .. L
    <3>1. i \in 1 .. L
      BY <1>2, <1>5, <1>9, <2>1
    <3> QED
      BY <1>5, <1>9, <2>1, <3>1 DEF Flow
  <2>2. ASSUME NEW k \in 1 .. M, j = L + k, i \in 1 .. L
        PROVE  v[i].req < r /\ v[j].req = r
    BY <1>1, <1>2, <1>5, <1>6, <2>2
  <2>3. ASSUME NEW k \in 1 .. M, j = L + k, NEW h \in 1 .. M, i = L + h
        PROVE  v[i].req = r /\ v[j].req = r /\ v[j].at = v[i].at + (j - i)
    <3>1. v[i].req = r /\ v[j].req = r /\ v[j].at = k /\ v[i].at = h
      BY <1>6, <2>3
    <3>2. k = h + (j - i)
      BY <1>2, <2>3
    <3> QED
      BY <3>1, <3>2
  <2>4. ASSUME NEW k \in 1 .. M, j = L + k, i \in 1 .. L
        PROVE  v[i].req <= v[j].req /\ v[i].req # v[j].req
    <3>1. PICK a \in Nat : v[i].req = a
      BY <1>5, <2>4
    <3>2. PICK b \in Nat : v[j].req = b /\ a < b
      BY <1>2, <2>2, <2>4, <3>1
    <3> QED
      BY <3>1, <3>2
  <2>5. ASSUME NEW k \in 1 .. M, j = L + k, NEW h \in 1 .. M, i = L + h
        PROVE  v[i].req <= v[j].req
    BY <1>2, <2>3, <2>5
  <2> QED
    BY <1>7, <2>1, <2>3, <2>4, <2>5
<1>10. ASSUME NEW i \in DOMAIN v, i + 1 \in DOMAIN v
       PROVE  IF v[i].last
                THEN v[i + 1].req = v[i].req + 1 /\ v[i + 1].at = 1
                ELSE v[i + 1].req = v[i].req
  <2>1. CASE i + 1 \in 1 .. L
    <3>1. i \in 1 .. L
      BY <1>2, <1>5, <2>1
    <3> QED
      BY <1>5, <2>1, <3>1 DEF Flow
  <2>2. CASE i = L /\ L > 0
    <3>1. L \in 1 .. L /\ w # <<>> /\ 1 \in 1 .. M
      BY <1>1, <1>2, <2>2
    <3>2. w[L].last /\ w[L].req = Len(rs)
      BY <1>1, <3>1 DEF Flow
    <3>3. v[i].last /\ v[i].req = Len(rs) /\ v[i + 1].req = r /\ v[i + 1].at = 1
      BY <1>5, <1>6, <2>2, <3>1, <3>2
    <3> QED
      BY <1>1, <3>3
  <2>3. ASSUME NEW k \in 1 .. M, i = L + k
        PROVE  ~v[i].last /\ v[i + 1].req = v[i].req
    <3>1. k + 1 \in 1 .. M /\ i + 1 = L + (k + 1) /\ k # M
      BY <1>2, <1>5, <1>10, <2>3
    <3> QED
      BY <1>6, <2>3, <3>1
  <2>4. i \in 1 .. L => i + 1 \in 1 .. L \/ (i = L /\ L > 0)
    BY <1>2
  <2> QED
    BY <1>7, <2>1, <2>2, <2>3, <2>4
<1>11. v # <<>> /\ v[Len(v)].last /\ v[Len(v)].req = Len(ss)
  <2>1. M \in 1 .. M /\ Len(v) = L + M
    BY <1>2, <1>3
  <2>2. v[Len(v)] = T[M] /\ T[M].last /\ T[M].req = r
    BY <1>6, <2>1
  <2> QED
    BY <1>2, <1>3, <1>4, <2>1, <2>2
<1>12. Flow(v, ss)
  BY <1>8, <1>9, <1>10, <1>11 DEF Flow
<1>13. 1 \in 1 .. M /\ (L = 0 <=> w = <<>>) /\ (w # <<>> => 1 \in 1 .. L)
  BY <1>1, <1>2
<1>14. /\ v[1] = IF w = <<>> THEN T[1] ELSE w[1]
       /\ w = <<>> => v[1].req = r /\ v[1].at = 1
  <2>1. CASE w = <<>>
    <3>1. L + 1 = 1
      BY <1>13, <2>1
    <3> QED
      BY <1>6, <1>13, <2>1, <3>1
  <2>2. CASE w # <<>>
    BY <1>5, <1>13, <2>2
  <2> QED
    BY <2>1, <2>2
<1>15. CurrentOf(v, ss) = CurrentOf(w, rs)
  BY <1>1, <1>11, <1>14 DEF CurrentOf
<1> QED
  BY <1>1, <1>3, <1>11, <1>12, <1>14, <1>15

-----------------------------------------------------------------------------
(* The parser and the wire keep step.                                      *)

\* A new context has seen nothing of any request.
LEMMA NothingSeen ==
  ASSUME NEW r, NEW tokens
  PROVE  NewContext \in Contexts /\ Holds(NewContext, tokens, r, 0)
<1>1. NewContext \in Contexts
  BY DEF NewContext, EmptyRequest, Contexts, Request, Failed
<1>2. PartsOf(EmptyRequest) = {} /\ ToSet(<<>>) = {}
  BY DEF PartsOf, EmptyRequest, ToSet
<1>3. BodyUpTo(<<>>, tokens, 0)
  BY <1>2 DEF BodyUpTo, Increasing
<1> QED
  BY <1>1, <1>2, <1>3 DEF Holds, NewContext, EmptyRequest

\* Before its first token it does not matter what the request will be.
LEMMA NotBegun ==
  ASSUME NEW r, NEW tokens, NEW others, NEW d, Holds(d, tokens, r, 0)
  PROVE  Holds(d, others, r, 0)
BY DEF Holds, BodyUpTo

\* Reading on within a request keeps the parser in step, and when the request
\* ends it is dispatched whole and the next context is in step.
LEMMA ReadOn ==
  ASSUME NEW rs \in Seq(Shapes), NEW w \in Seq(Token), Flow(w, rs),
         NEW n \in 1 .. Len(w), w[1].req = w[n].req,
         NEW ds \in Seq(Request), Kept(ds, rs),
         NEW d \in Contexts, ~d.isComplete, InStep(w, rs, ds, d),
         NEW c, c = parse(d, SubSeq(w, 1, n)), c.position # Failed
  PROVE  LET v == SubSeq(w, n + 1, Len(w)) IN
           IF c.isComplete
             THEN /\ Kept(Append(ds, c.request), rs)
                  /\ InStep(v, rs, Append(ds, c.request), NewContext)
             ELSE InStep(v, rs, ds, c)
<1>1. PICK v, r, p, T, data : /\ v = SubSeq(w, n + 1, Len(w)) /\ r = w[1].req
                              /\ p = w[1].at - 1 /\ T = Tokens(r, rs[r])
                              /\ data = SubSeq(w, 1, n)
  OBVIOUS
<1>2. /\ Message(T, r) /\ p \in Nat /\ p + n <= Len(T) /\ Len(T) \in Nat
      /\ \A k \in 1 .. n : w[k] = T[p + k]
      /\ IF p + n = Len(T)
           THEN CurrentOf(v, rs) = r + 1 /\ (v # <<>> => v[1].at = 1)
           ELSE v # <<>> /\ CurrentOf(v, rs) = r /\ v[1].at = p + n + 1
  <2>1. Message(T, r)
    BY <1>1, ReadWithin
  <2> QED
    <3>1. Len(T) \in Nat
      BY <2>1 DEF Message
    <3> QED
      BY <1>1, <2>1, <3>1, ReadWithin
<1>3. n \in Nat /\ n >= 1 /\ n <= Len(w) /\ w # <<>>
  OBVIOUS
<1>4. data \in Seq(Token) /\ Len(data) = n /\ data # <<>> /\ \A k \in 1 .. n : data[k] = w[k]
  <2>1. n - 0 = n /\ n \in 1 .. Len(w) /\ 0 \in 0 .. n - 1 /\ 0 + 1 = 1
    BY <1>3
  <2>2. /\ SubSeq(w, 0 + 1, n) \in Seq(Token) /\ SubSeq(w, 0 + 1, n) # <<>>
        /\ Len(SubSeq(w, 0 + 1, n)) = n - 0
        /\ \A m \in 1 .. n - 0 : SubSeq(w, 0 + 1, n)[m] = w[0 + m]
    BY <2>1, SpanOf
  <2> QED
    BY <1>1, <2>1, <2>2
<1>5. /\ r = Len(ds) + 1 /\ d.position = p /\ Holds(d, T, r, p)
  <2>1. CurrentOf(w, rs) = r
    BY <1>1, <1>3 DEF CurrentOf
  <2> QED
    BY <1>1, <1>3, <2>1 DEF InStep
<1>6. \A k \in 1 .. Len(data) : data[k] = T[p + k]
  BY <1>2, <1>4
<1>7. /\ c.position = IF p + n = Len(T) THEN 0 ELSE p + n
      /\ c.isComplete <=> p + n = Len(T)
      /\ Holds(c, T, r, p + n)
  <2>1. /\ Message(T, r) /\ p \in Nat /\ d.position = p /\ ~d.isComplete /\ Holds(d, T, r, p)
        /\ data \in Seq(Token) /\ p + Len(data) <= Len(T) /\ data # <<>>
        /\ c = parse(d, data) /\ c.position # Failed
    BY <1>1, <1>2, <1>4, <1>5
  <2>2. /\ c.position = IF p + Len(data) = Len(T) THEN 0 ELSE p + Len(data)
        /\ c.isComplete <=> p + Len(data) = Len(T)
        /\ Holds(c, T, r, p + Len(data))
    BY <1>6, <2>1, RequestParsed
  <2> QED
    BY <1>4, <2>2
<1>8. 1 \in DOMAIN w /\ Len(T) = Len(rs[r])
  <2>1. 1 \in DOMAIN w
    BY <1>3
  <2> QED
    BY <1>1, <2>1, OnTheWire
<1>9. CASE c.isComplete
  <2>1. p + n = Len(rs[r]) /\ Len(ds) \in Nat /\ r \in Nat
    BY <1>5, <1>7, <1>8, <1>9
  <2>2. PICK es : es = Append(ds, c.request)
    OBVIOUS
  <2>3. /\ DOMAIN es = 1 .. r /\ Len(es) = r /\ es[r] = c.request
        /\ DOMAIN ds = 1 .. r - 1 /\ \A i \in 1 .. r - 1 : es[i] = ds[i]
    BY <1>5, <2>1, <2>2
  <2>4. /\ \A t \in PartsOf(c.request) : t.req = r
        /\ BodyUpTo(c.request.body, Tokens(r, rs[r]), Len(rs[r]))
    BY <1>1, <1>7, <2>1 DEF Holds
  <2>5. ASSUME NEW i \in DOMAIN es
        PROVE  /\ \A t \in PartsOf(es[i]) : t.req = i
               /\ BodyUpTo(es[i].body, Tokens(i, rs[i]), Len(rs[i]))
    <3>1. i = r \/ i \in 1 .. r - 1
      BY <2>1, <2>3
    <3> QED
      BY <2>3, <2>4, <3>1 DEF Kept
  <2>6. Kept(es, rs)
    BY <2>5 DEF Kept
  <2>7. CurrentOf(v, rs) = r + 1 /\ (v # <<>> => v[1].at = 1)
    BY <1>2, <1>7, <1>9
  <2>8. NewContext.position = 0
    BY DEF NewContext
  <2>9. InStep(v, rs, es, NewContext)
    BY <2>1, <2>3, <2>7, <2>8, NothingSeen DEF InStep
  <2> QED
    BY <1>1, <1>9, <2>2, <2>6, <2>9
<1>10. CASE ~c.isComplete
  <2>1. v # <<>> /\ CurrentOf(v, rs) = r /\ v[1].at = p + n + 1
    BY <1>2, <1>7, <1>10
  <2>2. c.position = p + n /\ p + n = v[1].at - 1
    BY <1>2, <1>3, <1>7, <1>10, <2>1
  <2>3. InStep(v, rs, ds, c)
    BY <1>1, <1>5, <1>7, <2>1, <2>2 DEF InStep
  <2> QED
    BY <1>1, <1>10, <2>3
<1> QED
  BY <1>9, <1>10

\* Another request behind the others changes nothing for the parser.
LEMMA SendOn ==
  ASSUME NEW rs \in Seq(Shapes), NEW w \in Seq(Token), Flow(w, rs), NEW shape \in Shapes,
         NEW ds \in Seq(Request), Len(ds) <= Len(rs), NEW d
  PROVE  LET v == w \o Tokens(Len(rs) + 1, shape) IN
           /\ Kept(ds, rs) => Kept(ds, Append(rs, shape))
           /\ InStep(w, rs, ds, d) => InStep(v, Append(rs, shape), ds, d)
<1>1. PICK v, ss, L : v = w \o Tokens(Len(rs) + 1, shape) /\ ss = Append(rs, shape) /\ L = Len(rs)
  OBVIOUS
<1>2. L \in Nat /\ DOMAIN ds = 1 .. Len(ds) /\ \A i \in 1 .. L : ss[i] = rs[i]
  BY <1>1
<1>3. \A i \in DOMAIN ds : ss[i] = rs[i]
  BY <1>1, <1>2
<1>4. Kept(ds, rs) => Kept(ds, ss)
  BY <1>3 DEF Kept
<1>5. /\ v # <<>> /\ CurrentOf(v, ss) = CurrentOf(w, rs)
      /\ w # <<>> => v[1] = w[1]
      /\ w = <<>> => v[1].at = 1
  BY <1>1, SendFlow
<1>6. ASSUME InStep(w, rs, ds, d)
      PROVE  InStep(v, ss, ds, d)
  <2>1. PICK r : r = CurrentOf(w, rs)
    OBVIOUS
  <2>2. /\ r = Len(ds) + 1 /\ d.position = IF w = <<>> THEN 0 ELSE w[1].at - 1
        /\ Holds(d, Tokens(r, rs[r]), r, d.position)
    BY <1>6, <2>1 DEF InStep
  <2>3. CASE w = <<>>
    <3>1. d.position = 0 /\ d.position = v[1].at - 1
      BY <1>5, <2>2, <2>3
    <3>2. Holds(d, Tokens(r, ss[r]), r, 0)
      BY <2>2, <3>1, NotBegun
    <3> QED
      BY <1>5, <2>1, <2>2, <3>1, <3>2 DEF InStep
  <2>4. CASE w # <<>>
    <3>1. 1 \in DOMAIN w
      BY <2>4
    <3>2. r = w[1].req /\ r \in 1 .. L
      BY <1>1, <2>1, <2>4, <3>1, OnTheWire DEF CurrentOf
    <3>3. ss[r] = rs[r]
      BY <1>2, <3>2
    <3> QED
      BY <1>5, <2>1, <2>2, <2>4, <3>3 DEF InStep
  <2> QED
    BY <2>3, <2>4
<1> QED
  BY <1>1, <1>4, <1>6

-----------------------------------------------------------------------------
(* Every step keeps the invariant.                                         *)

\* A new connection satisfies the invariant.
LEMMA InitIInv == Init => IInv
<1> SUFFICES ASSUME Init
             PROVE  IInv
  OBVIOUS
<1>1. /\ wire = <<>> /\ inputBuffer_ = <<>> /\ context = NewContext /\ tasks = {}
      /\ sending = <<>> /\ conn = "open" /\ requests = <<>> /\ dispatched = <<>>
      /\ answers = <<>> /\ merged = FALSE
  BY DEF Init
<1>2. NewContext \in Contexts /\ NewContext.position = 0 /\ NewContext.isComplete = FALSE
  BY NothingSeen DEF NewContext
<1>3. Types
  <2>1. /\ requests \in Seq(Shapes) /\ Len(requests) <= MaxRequests
        /\ wire \in Seq(Token) /\ inputBuffer_ \in Seq(Token)
    BY <1>1, MaxRequestsAssumption
  <2>2. sending \in Seq(1 .. MaxRequests) /\ dispatched \in Seq(Request) /\ answers \in Seq(Nat)
    BY <1>1
  <2>3. context \in Contexts /\ (context.isComplete \/ inputBuffer_ # <<>> => context.position = Failed)
    BY <1>1, <1>2
  <2> QED
    BY <1>1, <2>1, <2>2, <2>3 DEF Types
<1>4. Flow(<<>>, <<>>)
  BY DEF Flow
<1>5. Stream
  BY <1>1, <1>4 DEF Stream
<1>6. Counted
  BY <1>1 DEF Counted, Current, CurrentOf
<1>7. Kept(<<>>, <<>>)
  BY DEF Kept
<1>8. InStep(<<>>, <<>>, <<>>, NewContext)
  BY <1>2, NothingSeen DEF InStep, CurrentOf
<1>9. Apart
  BY <1>1, <1>7, <1>8 DEF Apart
<1>10. Refused
  BY <1>1 DEF Refused, ToSet
<1> QED
  BY <1>3, <1>5, <1>6, <1>9, <1>10 DEF IInv

\* An answer sent is the last of the answers, or there is none.
LEMMA Sending ==
  ASSUME answers \in Seq(Nat), NEW n \in Nat, answers' = Sent(n)
  PROVE  /\ answers' \in Seq(Nat)
         /\ n # BadRequest /\ BadRequest \in ToSet(answers') => BadRequest \in ToSet(answers)
<1>1. answers' = answers \/ answers' = Append(answers, n)
  BY DEF Sent
<1>2. PICK a, b : a = answers /\ b = Append(answers, n)
  OBVIOUS
<1>3. a \in Seq(Nat) /\ b = Append(a, n)
  BY <1>2
<1>4. b \in Seq(Nat) /\ Len(b) = Len(a) + 1 /\ b[Len(a) + 1] = n
      /\ \A i \in 1 .. Len(a) : b[i] = a[i]
  BY <1>3
<1>5. \A i \in DOMAIN b : b[i] = n \/ \E j \in DOMAIN a : b[i] = a[j]
  BY <1>3, <1>4
<1>6. \A x \in ToSet(b) : x = n \/ x \in ToSet(a)
  BY <1>5 DEF ToSet
<1> QED
  BY <1>1, <1>2, <1>4, <1>6

\* A step that touches neither the stream nor the context keeps the invariant.
LEMMA QuietIInv ==
  ASSUME IInv, UNCHANGED <<wire, requests, inputBuffer_, context, dispatched, merged>>,
         tasks' \subseteq 1 .. MaxRequests, sending' \in Seq(1 .. MaxRequests),
         conn' \in {"open", "closing", "shut", "gone"}, conn' = "gone" <=> conn = "gone",
         answers' \in Seq(Nat),
         BadRequest \in ToSet(answers') => BadRequest \in ToSet(answers)
  PROVE  IInv'
<1>1. Types'
  BY DEF IInv, Types
<1>2. Stream'
  BY DEF IInv, Stream
<1>3. Counted'
  BY DEF IInv, Counted, Current
<1>4. Apart'
  BY DEF IInv, Apart
<1>5. Refused'
  BY DEF IInv, Refused
<1> QED
  BY <1>1, <1>2, <1>3, <1>4, <1>5 DEF IInv

\* A task of the executor keeps it.
LEMMA RunTaskIInv ==
  ASSUME IInv, NEW n \in tasks, RunTask(n)
  PROVE  IInv'
<1>1. Types
  BY DEF IInv
<1>2. n \in 1 .. MaxRequests /\ sending \in Seq(1 .. MaxRequests)
  BY <1>1 DEF Types
<1>3. sending' \in Seq(1 .. MaxRequests)
  <2>1. Append(sending, n) \in Seq(1 .. MaxRequests)
    BY <1>2
  <2> QED
    BY <1>2, <2>1 DEF RunTask
<1> QED
  BY <1>1, <1>3, QuietIInv DEF RunTask, netVars, Types

\* Sending a queued answer keeps it: that is never a 400.
LEMMA SendQueuedIInv ==
  ASSUME IInv, SendQueued
  PROVE  IInv'
<1>1. Types
  BY DEF IInv
<1>2. PICK q : q = sending /\ q # <<>> /\ q \in Seq(1 .. MaxRequests)
  BY <1>1 DEF Types, SendQueued
<1>3. Head(q) \in 1 .. MaxRequests /\ Tail(q) \in Seq(1 .. MaxRequests)
  BY <1>2, HeadTailProperties
<1>4. PICK n \in Nat : n = Head(q) /\ n # BadRequest
  BY <1>3, MaxRequestsAssumption DEF BadRequest
<1>5. answers \in Seq(Nat) /\ answers' = Sent(n)
  BY <1>1, <1>2, <1>4 DEF Types, SendQueued
<1>6. answers' \in Seq(Nat) /\ (BadRequest \in ToSet(answers') => BadRequest \in ToSet(answers))
  BY <1>4, <1>5, Sending
<1>7. sending' \in Seq(1 .. MaxRequests)
  BY <1>2, <1>3 DEF SendQueued
<1> QED
  BY <1>1, <1>6, <1>7, QuietIInv DEF SendQueued, netVars, Types

\* The end of the output keeps it.
LEMMA OutputDrainedIInv ==
  ASSUME IInv, OutputDrained
  PROVE  IInv'
BY QuietIInv DEF IInv, OutputDrained, netVars, answerVars, Types

\* So does a step that changes nothing.
LEMMA StutterIInv ==
  ASSUME IInv, UNCHANGED vars
  PROVE  IInv'
BY QuietIInv DEF IInv, vars, netVars, answerVars, Types

\* A request more on the wire keeps it.
LEMMA ClientSendsIInv ==
  ASSUME IInv, NEW shape \in Shapes, ClientSends(shape)
  PROVE  IInv'
<1>1. Types /\ Flow(wire, requests) /\ Counted /\ Apart /\ Refused
  BY DEF IInv, Stream
<1>2. PICK w, rs, ds, d : w = wire /\ rs = requests /\ ds = dispatched /\ d = context
  OBVIOUS
<1>3. /\ w \in Seq(Token) /\ rs \in Seq(Shapes) /\ ds \in Seq(Request) /\ Flow(w, rs)
      /\ Len(ds) <= Len(rs) /\ Len(rs) < MaxRequests
  BY <1>1, <1>2 DEF Types, Counted, ClientSends
<1>4. PICK v, ss : v = w \o Tokens(Len(rs) + 1, shape) /\ ss = Append(rs, shape)
  OBVIOUS
<1>5. /\ v \in Seq(Token) /\ Flow(v, ss) /\ CurrentOf(v, ss) = CurrentOf(w, rs)
  BY <1>3, <1>4, SendFlow
<1>6. /\ Kept(ds, rs) => Kept(ds, ss)
      /\ InStep(w, rs, ds, d) => InStep(v, ss, ds, d)
  BY <1>3, <1>4, SendOn
<1>7. ss \in Seq(Shapes) /\ Len(ss) = Len(rs) + 1 /\ Len(ss) <= MaxRequests /\ Len(ds) <= Len(ss)
  BY <1>3, <1>4, MaxRequestsAssumption
<1>8. /\ wire' = v /\ requests' = ss /\ dispatched' = ds /\ context' = d
      /\ UNCHANGED <<inputBuffer_, tasks, sending, answers, conn, merged>>
  BY <1>2, <1>4 DEF ClientSends, answerVars
<1>9. Types'
  BY <1>1, <1>2, <1>5, <1>7, <1>8 DEF Types
<1>10. Stream'
  BY <1>5, <1>8 DEF Stream
<1>11. Counted'
  BY <1>1, <1>2, <1>5, <1>7, <1>8 DEF Counted, Current
<1>12. Apart'
  BY <1>1, <1>2, <1>6, <1>8 DEF Apart
<1>13. Refused'
  BY <1>1, <1>2, <1>8 DEF Refused
<1> QED
  BY <1>9, <1>10, <1>11, <1>12, <1>13 DEF IInv

\* When the client leaves nothing is left on the wire or in the context.
LEMMA ClientLeavesIInv ==
  ASSUME IInv, ClientLeaves
  PROVE  IInv'
<1>1. Types /\ Counted /\ Apart
  BY DEF IInv
<1>2. /\ conn' = "gone" /\ wire' = <<>> /\ inputBuffer_' = <<>> /\ context' = NewContext
      /\ UNCHANGED <<requests, tasks, sending, answers, dispatched, merged>>
  BY DEF ClientLeaves, answerVars
<1>3. NewContext \in Contexts /\ NewContext.isComplete = FALSE
  BY NothingSeen DEF NewContext
<1>4. Types'
  BY <1>1, <1>2, <1>3 DEF Types
<1>5. Stream'
  BY <1>2 DEF Stream, Flow
<1>6. Counted'
  BY <1>1, <1>2 DEF Counted
<1>7. Apart'
  BY <1>1, <1>2 DEF Apart
<1>8. Refused'
  BY <1>2 DEF Refused
<1> QED
  BY <1>4, <1>5, <1>6, <1>7, <1>8 DEF IInv

\* What the parser makes of what a read leaves in the buffer.
LEMMA Reading ==
  ASSUME IInv, NEW n \in 1 .. Len(wire), OnMessage(n),
         NEW data, data = inputBuffer_ \o SubSeq(wire, 1, n),
         NEW c, c = parse(context, data)
  PROVE  /\ data \in Seq(Token) /\ data # <<>> /\ c \in Contexts
         /\ context.position = Failed => c.position = Failed
         /\ c.position # Failed =>
              /\ data = SubSeq(wire, 1, n) /\ ~context.isComplete
              /\ Head(data) = wire[1] /\ Last(data) = wire[n]
         /\ c.position # Failed /\ c.isComplete => \E k \in 1 .. n : wire[k].last
<1>1. PICK w, b : w = wire /\ b = inputBuffer_
  OBVIOUS
<1>2. w \in Seq(Token) /\ b \in Seq(Token) /\ context \in Contexts /\ n \in 1 .. Len(w)
  BY <1>1 DEF IInv, Types
<1>3. PICK u : u = SubSeq(w, 1, n)
  OBVIOUS
<1>4. /\ u \in Seq(Token) /\ u # <<>> /\ Len(u) = n /\ \A m \in 1 .. n : u[m] = w[m]
      /\ Head(u) = w[1] /\ Last(u) = w[n]
  <2>1. n - 0 = n /\ 0 \in 0 .. n - 1 /\ 0 + 1 = 1
    BY <1>2
  <2>2. /\ SubSeq(w, 0 + 1, n) \in Seq(Token) /\ SubSeq(w, 0 + 1, n) # <<>>
        /\ Len(SubSeq(w, 0 + 1, n)) = n - 0
        /\ \A m \in 1 .. n - 0 : SubSeq(w, 0 + 1, n)[m] = w[0 + m]
        /\ Head(SubSeq(w, 0 + 1, n)) = w[0 + 1] /\ Last(SubSeq(w, 0 + 1, n)) = w[n]
    BY <1>2, <2>1, SpanOf
  <2>3. SubSeq(w, 0 + 1, n) = u /\ w[0 + 1] = w[1] /\ n - 0 = n
    BY <1>3, <2>1
  <2>4. \A m \in 1 .. n : 0 + m = m
    BY <1>2
  <2>5. \A m \in 1 .. n : u[m] = w[m]
    BY <2>2, <2>3, <2>4
  <2> QED
    BY <2>2, <2>3, <2>5
<1>5. data = b \o u /\ data \in Seq(Token) /\ data # <<>>
  <2>1. data = b \o u
    BY <1>1, <1>3
  <2>2. b \o u \in Seq(Token) /\ Len(b \o u) = Len(b) + Len(u)
    BY <1>2, <1>4, ConcatProperties
  <2>3. Len(b) \in Nat /\ Len(b) + Len(u) # 0
    BY <1>2, <1>4
  <2>4. b \o u # <<>>
    BY <2>2, <2>3
  <2> QED
    BY <2>1, <2>2, <2>4
<1>6. /\ c \in Contexts /\ (context.position = Failed => c.position = Failed)
      /\ c.position # Failed /\ c.isComplete =>
           context.isComplete \/ \E k \in 1 .. Len(data) : data[k].last
  BY <1>2, <1>5, ParseTypes
<1>7. ASSUME c.position # Failed
      PROVE  /\ data = SubSeq(wire, 1, n) /\ ~context.isComplete
             /\ Head(data) = wire[1] /\ Last(data) = wire[n]
             /\ c.isComplete => \E k \in 1 .. n : wire[k].last
  <2>1. context.position # Failed
    BY <1>6, <1>7
  <2>2. ~context.isComplete /\ b = <<>>
    BY <1>1, <2>1 DEF IInv, Types
  <2>3. data = u
    BY <1>4, <1>5, <2>2
  <2> QED
    BY <1>1, <1>3, <1>4, <1>6, <1>7, <2>2, <2>3
<1> QED
  BY <1>5, <1>6, <1>7

\* A read that is answered with a 400 keeps it.
LEMMA RefusalIInv ==
  ASSUME IInv, NEW n \in 1 .. Len(wire), OnMessage(n), NEW data, NEW c,
         data \in Seq(Token), c \in Contexts, c.position = Failed, AnswerBadRequest(c, data)
  PROVE  IInv'
<1>1. Types /\ Flow(wire, requests) /\ Counted /\ Apart
  BY DEF IInv, Stream
<1>2. PICK w, v, rs : w = wire /\ rs = requests /\ v = SubSeq(w, n + 1, Len(w))
  OBVIOUS
<1>3. w \in Seq(Token) /\ rs \in Seq(Shapes) /\ Flow(w, rs) /\ n \in 1 .. Len(w)
  BY <1>1, <1>2 DEF Types
<1>4. v \in Seq(Token) /\ Flow(v, rs)
  BY <1>2, <1>3, Unread, ReadFlow
<1>5. PICK a, b \in Nat : a = CurrentOf(w, rs) /\ b = CurrentOf(v, rs) /\ a <= b
  <2>1. CurrentOf(w, rs) \in Nat /\ CurrentOf(v, rs) \in Nat /\ CurrentOf(w, rs) <= CurrentOf(v, rs)
    BY <1>2, <1>3, CurrentRises
  <2> QED
    BY <2>1
<1>6. /\ wire' = v /\ requests' = rs /\ dispatched' = dispatched /\ context' = c
      /\ inputBuffer_' = data /\ answers' = Sent(BadRequest) /\ merged' \in BOOLEAN
      /\ (merged => merged') /\ conn # "gone"
      /\ UNCHANGED <<tasks, sending>>
  BY <1>1, <1>2 DEF OnMessage, AnswerBadRequest, Types
<1>7. conn' \in {"open", "closing", "shut", "gone"}
  BY <1>1 DEF AnswerBadRequest, ShutsDown, Types
<1>8. answers' \in Seq(Nat)
  <2>1. BadRequest \in Nat /\ answers \in Seq(Nat)
    BY <1>1, MaxRequestsAssumption DEF BadRequest, Types
  <2> QED
    BY <1>6, <2>1, Sending
<1>9. Types'
  BY <1>1, <1>2, <1>3, <1>4, <1>6, <1>7, <1>8 DEF Types
<1>10. Stream'
  BY <1>4, <1>6 DEF Stream
<1>11. Counted'
  <2>1. PICK k \in Nat : k = Len(dispatched)
    BY <1>1 DEF Types
  <2>2. k <= Len(rs) /\ k < a
    BY <1>1, <1>2, <1>5, <1>6, <2>1 DEF Counted, Current
  <2>3. k < b
    BY <1>5, <2>2
  <2> QED
    BY <1>5, <1>6, <2>1, <2>2, <2>3 DEF Counted, Current
<1>12. Apart'
  BY <1>1, <1>2, <1>6 DEF Apart
<1>13. Refused'
  BY <1>6 DEF Refused
<1> QED
  BY <1>9, <1>10, <1>11, <1>12, <1>13 DEF IInv

\* onMessage on n tokens, refused or not, keeps it.
LEMMA OnMessageIInv ==
  ASSUME IInv, NEW n \in 1 .. Len(wire), OnMessage(n)
  PROVE  IInv'
<1>1. Types /\ Flow(wire, requests) /\ Counted /\ Apart /\ Refused
  BY DEF IInv, Stream
<1>2. PICK data, c : data = inputBuffer_ \o SubSeq(wire, 1, n) /\ c = parse(context, data)
  OBVIOUS
<1>3. /\ data \in Seq(Token) /\ data # <<>> /\ c \in Contexts
      /\ context.position = Failed => c.position = Failed
      /\ c.position # Failed =>
           /\ data = SubSeq(wire, 1, n) /\ ~context.isComplete
           /\ Head(data) = wire[1] /\ Last(data) = wire[n]
      /\ c.position # Failed /\ c.isComplete => \E k \in 1 .. n : wire[k].last
  <2>1. data \in Seq(Token) /\ data # <<>> /\ c \in Contexts
        /\ (context.position = Failed => c.position = Failed)
    BY <1>2, Reading
  <2>2. ASSUME c.position # Failed
        PROVE  data = SubSeq(wire, 1, n) /\ ~context.isComplete
               /\ Head(data) = wire[1] /\ Last(data) = wire[n]
    BY <1>2, <2>2, Reading
  <2>3. ASSUME c.position # Failed, c.isComplete
        PROVE  \E k \in 1 .. n : wire[k].last
    BY <1>2, <2>3, Reading
  <2> QED
    BY <2>1, <2>2, <2>3, Zenon
<1>4. /\ conn # "gone" /\ wire' = SubSeq(wire, n + 1, Len(wire))
      /\ merged' = (merged \/ Head(data).req # Last(data).req)
      /\ IF c.position = Failed THEN AnswerBadRequest(c, data) ELSE TakeData(c, data)
      /\ UNCHANGED <<requests, sending>>
  BY <1>2 DEF OnMessage
<1>5. CASE c.position = Failed
  BY <1>3, <1>4, <1>5, RefusalIInv
<1>6. CASE c.position # Failed
  <2>1. PICK w, v, rs, ds, d : /\ w = wire /\ rs = requests /\ ds = dispatched /\ d = context
                               /\ v = SubSeq(w, n + 1, Len(w))
    OBVIOUS
  <2>2. /\ w \in Seq(Token) /\ rs \in Seq(Shapes) /\ Flow(w, rs) /\ n \in 1 .. Len(w)
        /\ ds \in Seq(Request) /\ d \in Contexts /\ ~d.isComplete
        /\ c = parse(d, SubSeq(w, 1, n)) /\ d.position # Failed
    BY <1>1, <1>2, <1>3, <1>6, <2>1 DEF Types
  <2>3. v \in Seq(Token) /\ Flow(v, rs)
    BY <2>1, <2>2, Unread, ReadFlow
  <2>4. /\ CurrentOf(w, rs) \in 1 .. Len(rs) /\ CurrentOf(v, rs) \in Nat
        /\ CurrentOf(w, rs) <= CurrentOf(v, rs)
        /\ c.isComplete => CurrentOf(w, rs) < CurrentOf(v, rs)
    BY <1>3, <1>6, <2>1, <2>2, CurrentRises
  <2>5. PICK a, b, k, m \in Nat : /\ a = CurrentOf(w, rs) /\ b = CurrentOf(v, rs)
                                  /\ k = Len(ds) /\ m = Len(rs)
    BY <2>2, <2>4
  <2>6. /\ k < a /\ a <= m /\ a <= b /\ k <= m /\ m <= MaxRequests
        /\ c.isComplete => a < b
    BY <1>1, <1>4, <2>1, <2>4, <2>5 DEF Counted, Current, Types
  <2>7. /\ wire' = v /\ requests' = rs /\ inputBuffer_' = <<>> /\ conn' = conn
        /\ sending' = sending /\ merged' \in BOOLEAN /\ (merged => merged')
        /\ ~merged' => w[1].req = w[n].req
    BY <1>1, <1>3, <1>4, <1>6, <2>1 DEF TakeData, Retrieved, Types
  <2>8. Stream'
    BY <2>3, <2>7 DEF Stream
  <2>9. BadRequest \notin ToSet(answers)
    BY <1>1, <1>4, <2>1, <2>2 DEF Refused
  <2>10. ~merged' => Kept(ds, rs) /\ InStep(w, rs, ds, d)
    BY <1>1, <1>4, <2>1, <2>2, <2>7 DEF Apart
  <2>11. CASE c.isComplete
    <3>1. PICK es : es = Append(ds, c.request)
      OBVIOUS
    <3>2. c.request \in Request
      BY <1>3 DEF Contexts
    <3>3. es \in Seq(Request) /\ Len(es) = k + 1
      BY <2>2, <2>5, <3>1, <3>2
    <3>4. PICK h \in Nat : h = k + 1
      OBVIOUS
    <3>5. h \in 1 .. MaxRequests /\ h # BadRequest /\ h <= m /\ h < b
      BY <2>6, <2>11, <3>4, MaxRequestsAssumption DEF BadRequest
    <3>6. dispatched' = es /\ context' = NewContext
      BY <1>4, <1>6, <2>1, <2>11, <3>1 DEF TakeData, Execute, Reset
    <3>7. Len(dispatched) + 1 = h
      BY <2>1, <2>5, <3>4
    <3>8. \/ tasks' = tasks \union {h} /\ answers' = answers
          \/ tasks' = tasks /\ answers' = Sent(h)
      BY <1>4, <1>6, <2>11, <3>7 DEF TakeData, Execute
    <3>9. tasks' \subseteq 1 .. MaxRequests
      BY <1>1, <3>5, <3>8 DEF Types
    <3>10. answers' \in Seq(Nat) /\ BadRequest \notin ToSet(answers')
      <4>1. answers \in Seq(Nat)
        BY <1>1 DEF Types
      <4> QED
        BY <2>9, <3>5, <3>8, <4>1, Sending
    <3>11. NewContext \in Contexts /\ NewContext.isComplete = FALSE
      BY NothingSeen DEF NewContext
    <3>12. Types'
      BY <1>1, <2>1, <2>2, <2>3, <2>7, <3>3, <3>6, <3>9, <3>10, <3>11 DEF Types
    <3>13. Counted'
      BY <2>5, <2>7, <3>3, <3>4, <3>5, <3>6 DEF Counted, Current
    <3>14. ~merged' => Kept(es, rs) /\ InStep(v, rs, es, NewContext)
      BY <1>3, <1>6, <2>1, <2>2, <2>7, <2>10, <2>11, <3>1, ReadOn
    <3>15. Apart'
      BY <2>7, <3>6, <3>14 DEF Apart
    <3>16. Refused'
      BY <3>10 DEF Refused
    <3> QED
      BY <2>8, <3>12, <3>13, <3>15, <3>16 DEF IInv
  <2>12. CASE ~c.isComplete
    <3>1. context' = c /\ UNCHANGED <<dispatched, tasks, answers>>
      BY <1>4, <1>6, <2>12 DEF TakeData
    <3>2. Types'
      BY <1>1, <1>3, <2>1, <2>2, <2>3, <2>7, <2>12, <3>1 DEF Types
    <3>3. k < b
      BY <2>6
    <3>4. Counted'
      BY <2>1, <2>5, <2>6, <2>7, <3>1, <3>3 DEF Counted, Current
    <3>5. ~merged' => InStep(v, rs, ds, c)
      BY <1>3, <1>6, <2>1, <2>2, <2>7, <2>10, <2>12, ReadOn
    <3>6. Apart'
      BY <2>1, <2>7, <2>10, <3>1, <3>5 DEF Apart
    <3>7. Refused'
      BY <2>9, <3>1 DEF Refused
    <3> QED
      BY <2>8, <3>2, <3>4, <3>6, <3>7 DEF IInv
  <2> QED
    BY <2>11, <2>12
<1> QED
  BY <1>5, <1>6

-----------------------------------------------------------------------------
(* The theorems.                                                           *)

\* The invariant holds of every behaviour, whatever the requests, however
\* they are cut.
THEOREM Invariance == SafeSpec => []IInv
<1>1. Init => IInv
  BY InitIInv
<1>2. IInv /\ [Next]_vars => IInv'
  <2> SUFFICES ASSUME IInv, [Next]_vars
               PROVE  IInv'
    OBVIOUS
  <2>1. CASE UNCHANGED vars
    BY <2>1, StutterIInv
  <2>2. CASE ServerStep
    BY <2>2, OnMessageIInv, SendQueuedIInv, OutputDrainedIInv DEF ServerStep
  <2>3. CASE \E n \in tasks : RunTask(n)
    BY <2>3, RunTaskIInv
  <2>4. CASE \E shape \in Shapes : ClientSends(shape)
    BY <2>4, ClientSendsIInv
  <2>5. CASE ClientLeaves
    BY <2>5, ClientLeavesIInv
  <2> QED
    BY <2>1, <2>2, <2>3, <2>4, <2>5 DEF Next
<1> QED
  BY <1>1, <1>2, PTL DEF SafeSpec

\* The variables keep their types; a request is complete, and data is left in
\* the buffer, only after an error.
THEOREM TypeCorrect == SafeSpec => []TypeOK
<1>1. IInv => TypeOK
  BY DEF IInv, Types, Counted, TypeOK, Contexts
<1> QED
  BY <1>1, Invariance, PTL

\* Nothing of one request gets into another, as long as no read holds parts
\* of two (HttpContext::reset, onMessage).
THEOREM RequestsApart == SafeSpec => []RequestsStayApart
<1>1. IInv => RequestsStayApart
  BY DEF IInv, Apart, Kept, RequestsStayApart
<1> QED
  BY <1>1, Invariance, PTL

\* A handler gets the whole body, once and in order, however it was cut, under
\* the same condition (body_complete).
THEOREM BodiesWhole == SafeSpec => []BodiesAreWhole
<1>1. IInv => BodiesAreWhole
  <2> SUFFICES ASSUME IInv, ~merged, NEW i \in DOMAIN dispatched
               PROVE  LET body == dispatched[i].body IN
                        /\ ToSet(body) = {t \in ToSet(Tokens(i, requests[i])) : t.kind = "body"}
                        /\ \A j, k \in DOMAIN body : j < k => body[j].at < body[k].at
    BY DEF BodiesAreWhole
  <2>1. PICK body, T, shape : /\ body = dispatched[i].body /\ shape = requests[i]
                              /\ T = Tokens(i, requests[i])
    OBVIOUS
  <2>2. BodyUpTo(body, T, Len(shape))
    BY <2>1 DEF IInv, Apart, Kept
  <2>3. i \in Nat /\ i \in DOMAIN requests /\ shape \in Shapes
    BY <2>1 DEF IInv, Types, Counted
  <2>4. T \in Seq(Token) /\ Len(T) = Len(shape)
    BY <2>1, <2>3, ShapeTokens DEF Message
  <2>5. DOMAIN T = 1 .. Len(shape)
    BY <2>4
  <2>6. ToSet(body) = {t \in ToSet(T) : t.kind = "body"}
    BY <2>2, <2>5 DEF BodyUpTo, ToSet
  <2>7. \A j, k \in DOMAIN body : j < k => body[j].at < body[k].at
    BY <2>2 DEF BodyUpTo, Increasing
  <2> QED
    BY <2>1, <2>6, <2>7
<1> QED
  BY <1>1, Invariance, PTL

\* After a 400 nothing more reaches a handler, whatever the client goes on to
\* send: the parser's error sticks (onMessage does not reset it).
THEOREM NothingAfterBadRequest == SafeSpec => NothingFollows
<1>1. ASSUME IInv, [Next]_vars, BadRequest \in ToSet(answers)
      PROVE  dispatched' = dispatched
  <2>1. CASE UNCHANGED vars
    BY <2>1 DEF vars
  <2>2. ASSUME NEW n \in 1 .. Len(wire), OnMessage(n)
        PROVE  dispatched' = dispatched
    <3>1. PICK data, c : data = inputBuffer_ \o SubSeq(wire, 1, n) /\ c = parse(context, data)
      OBVIOUS
    <3>2. context.position = Failed
      BY <1>1, <2>2 DEF IInv, Refused, OnMessage
    <3>3. c.position = Failed
      BY <1>1, <2>2, <3>1, <3>2, Reading
    <3> QED
      BY <2>2, <3>1, <3>3 DEF OnMessage, AnswerBadRequest
  <2>3. CASE SendQueued \/ OutputDrained
    BY <2>3 DEF SendQueued, OutputDrained
  <2>4. CASE \E n \in tasks : RunTask(n)
    BY <2>4 DEF RunTask
  <2>5. CASE \E shape \in Shapes : ClientSends(shape)
    BY <2>5 DEF ClientSends
  <2>6. CASE ClientLeaves
    BY <2>6 DEF ClientLeaves
  <2> QED
    BY <1>1, <2>1, <2>2, <2>3, <2>4, <2>5, <2>6 DEF Next, ServerStep
<1>2. IInv /\ [Next]_vars => [(BadRequest \in ToSet(answers)) => (dispatched' = dispatched)]_vars
  BY <1>1
<1> QED
  BY <1>2, Invariance, PTL DEF SafeSpec, NothingFollows
=============================================================================
