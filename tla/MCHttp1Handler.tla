---------------------------- MODULE MCHttp1Handler ----------------------------
(* A GET, two POSTs, and a request for each reason to refuse one.          *)
EXTENDS Http1Handler

Shape(l, h, b) == [line |-> l, headers |-> h, body |-> b]

MCShapes ==
  {Shape("line", <<"other">>, 0),
   Shape("line", <<"length", "other">>, 2),
   Shape("line", <<"other", "length">>, 1),
   Shape("line", <<"other", "length", "other">>, 1),
   Shape("line", <<"chunked">>, 0),
   Shape("line", <<"bad length">>, 0),
   Shape("line", <<"junk">>, 0),
   Shape("bad line", <<>>, 0)}

===============================================================================
