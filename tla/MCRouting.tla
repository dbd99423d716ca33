------------------------------ MODULE MCRouting ------------------------------
(* Small configurations, requests and answers for Routing.                  *)
EXTENDS Routing

Root == <<"/">>
A    == <<"/", "a">>
AB   == <<"/", "a", "b">>
A_   == <<"/", "a", "/">>
A_B  == <<"/", "a", "/", "b">>
Ping == <<"/", "h">>

Bytes(n, unit) == [n |-> n, unit |-> unit]
Unset == Bytes(0, 1)

\* name and target.addr are given by the place in the configuration.
RouteOf(mode, host, prefix, exact, base, limit) ==
  [name |-> "", mode |-> mode, host |-> host, prefix |-> prefix, exact |-> exact,
   target |-> [kind |-> IF mode = "http" THEN "http" ELSE "ws", addr |-> "", base |-> base],
   listen |-> FALSE, tls |-> FALSE, options |-> TRUE,
   maxInlineRequest |-> limit, maxRequestBody |-> Bytes(3, 1),
   maxInlineResponse |-> Unset, maxResponseBody |-> limit]

\* Limits of MaxInt = 7: 7 is the largest, 2 * 4 wraps to -8, 4 * 4 to 0, 5 * 4 to 4.
Pool == {
  RouteOf("http", "", A, <<>>, <<>>, Unset),
  RouteOf("http", "", AB, <<>>, Root, Bytes(7, 1)),
  RouteOf("http", "", A_, <<>>, A_, Bytes(2, 1)),
  RouteOf("http", "", A_B, <<>>, AB, Bytes(5, 4)),
  RouteOf("http", "u", Root, <<>>, A, Bytes(4, 4)),
  RouteOf("http", "", <<>>, A_B, A_, Bytes(1, 4)),
  RouteOf("http", "", A, A_B, <<>>, Bytes(2, 4)),
  RouteOf("http", "", A, AB, <<>>, Unset),
  RouteOf("websocket", "", A, <<>>, A_, Unset),
  RouteOf("websocket", "u", <<>>, A, A, Unset),
  RouteOf("websocket", "", <<"a">>, <<>>, <<>>, Unset),
  [RouteOf("http", "", A, <<>>, <<>>, Unset) EXCEPT !.options = FALSE],
  [RouteOf("tcp", "", <<>>, <<>>, <<>>, Unset) EXCEPT !.target.kind = "hostport", !.listen = TRUE, !.tls = TRUE]}

At(r, name, addr) == [r EXCEPT !.name = name, !.target.addr = addr]
Pair(p, q, name) ==
  [settings |-> TRUE, edgeTLS |-> p.mode # "websocket", routes |-> <<At(p, "n1", "b1"), At(q, name, "b2")>>]

Configs == {Pair(p, q, name) : p \in Pool, q \in Pool, name \in {"n1", "n2"}}
Single(p) == [settings |-> TRUE, edgeTLS |-> TRUE, routes |-> <<At(p, "n2", "b3")>>]

SmallDeployments ==
       {[edge |-> c, connector |-> c] : c \in Configs}
  \cup {[edge |-> c, connector |-> Single(p)] :
          c \in {Pair(p, q, "n2") : p \in Pool, q \in {r \in Pool : r.mode = "websocket"}},
          p \in {r \in Pool : r.mode = "tcp"}}

SmallPaths == {Root, A, AB, A_, A_B, Ping, A_ \o Root, A_B \o A} \cup
  {A \o <<"/">> \o tail : tail \in {<<"#">>, <<"?", "b">>, <<"^">>, <<"%", "2", "f">>, <<"%", "2", "b">>, <<"b", "%", "2">>}}

SmallRequests ==
       {[host |-> host, path |-> path, query |-> query, body |-> 1, upgrade |-> up] :
          host \in {<<"u", "port">>, <<"v", "upper">>}, path \in SmallPaths,
          query \in {<<>>, <<"a">>}, up \in BOOLEAN}
  \cup {[host |-> host, path |-> path, query |-> <<>>, body |-> body, upgrade |-> FALSE] :
          host \in {<<"", "plain">>, <<"u", "plain">>}, path \in {A, A_B}, body \in {0, 2, 3, 4, 5, 7}}
  \cup {[host |-> <<"u", "plain">>, path |-> A, query |-> <<"#">>, body |-> 1, upgrade |-> TRUE]}

\* 2f is the slash.
SmallHex == [digits \in {"2", "f"} \X {"2", "f"} |-> IF digits = <<"2", "f">> THEN "/" ELSE "x"]

\* The virtual hosts of the guide to exposing an HTTP service.
VirtualHosts ==
  LET c == Pair(RouteOf("http", "users", Root, <<>>, <<>>, Unset),
                RouteOf("http", "billing", Root, <<>>, <<>>, Unset), "n2")
  IN  {[edge |-> c, connector |-> c]}
GuideRequests ==
  {[host |-> host, path |-> path, query |-> <<>>, body |-> 1, upgrade |-> FALSE] :
     host \in {<<"users", "plain">>, <<"billing", "port">>}, path \in {Root, A}}

SmallAnswers == [body : {0, 2, 3, 4, 5, 7}, stream : BOOLEAN]
=============================================================================
