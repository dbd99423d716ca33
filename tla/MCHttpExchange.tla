--------------------------- MODULE MCHttpExchange ---------------------------
(* Instances of HttpExchange for TLC.                                      *)
EXTENDS HttpExchange

CONSTANTS r1, r2

OneRequest  == {r1}
TwoRequests == {r1, r2}
=============================================================================
