---------------------------- MODULE MCHttpServer ----------------------------
(* HttpServer on three shapes of requests: one with a query and a header     *)
(* that may be cut, one with a body, and one that breaks off in the middle.  *)
EXTENDS HttpServer

Get  == <<"path", "query", "field", "field", "value", "value", "end">>
Post == <<"path", "field", "value", "end", "body", "body">>
Broken == <<"path", "field", "bad">>

ThreeShapes == {Get, Post, Broken}
=============================================================================
