-------------------------- MODULE MCWebSocketRelay ---------------------------
(* Values of WebSocketRelay's Messages: what each application sends.       *)
EXTENDS WebSocketRelay

Messages30 == [edge |-> <<"text", "binary", "text">>, connector |-> <<>>]
Messages11 == [edge |-> <<"text">>, connector |-> <<"binary">>]
=============================================================================
