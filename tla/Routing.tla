------------------------------- MODULE Routing -------------------------------
(***************************************************************************)
(* Which backend serves a public request, under which path, and how much   *)
(* of its bodies is passed on: the configurations that Load accepts, the   *)
(* edge's choice of a route (matchRoute), the two envelopes that carry the *)
(* request to a connector, the connector's own choice by route name, and   *)
(* targetURL.  Edge and connector load a configuration each.               *)
(*                                                                         *)
(* A path is a sequence of characters, since matchRoute compares strings   *)
(* and not segments.  "?" in a request's path is an escaped %3F that       *)
(* net/http has decoded, and "%" an escaped %25, which targetURL's          *)
(* ParseRequestURI decodes once more.  "#" stands for the characters the   *)
(* envelopes refuse, "^" for the other control characters.                 *)
(***************************************************************************)
EXTENDS Integers, SequencesExt

CONSTANTS
  Deployments,   \* the configurations [edge, connector] under study
  Requests,      \* public requests [host, path, query, body, upgrade]
  Health,        \* the path of the health check
  Hex,           \* what two hex digits after "%" decode to
  Answers,       \* backend answers [body, stream]
  DefaultRequest, DefaultResponse,   \* the default limits
  MaxInt,        \* bound: the largest int64
  None           \* nil

ASSUME MaxIntAssumption  == MaxInt \in Nat \ {0}
ASSUME DefaultAssumption == DefaultRequest \in 1..MaxInt /\ DefaultResponse \in 1..MaxInt

\* What YAML decoding and net/http deliver: a size is digits and one of byteUnits.
\* The path of a target that has a host is empty or starts with a slash.
Path    == Seq(STRING)
Size    == [n : Nat, unit : Nat \ {0}]
Target  == [kind : STRING, addr : STRING, base : {p \in Path : p = <<>> \/ Head(p) = "/"}]
Route   == [name : STRING, mode : STRING, host : STRING, prefix : Path, exact : Path,
            target : Target, listen : BOOLEAN, tls : BOOLEAN, options : BOOLEAN,
            maxInlineRequest : Size, maxRequestBody : Size,
            maxInlineResponse : Size, maxResponseBody : Size]
Config  == [settings : BOOLEAN, edgeTLS : BOOLEAN, routes : Seq(Route)]
Request == [host : STRING \X STRING, path : Path, query : Path, body : Nat, upgrade : BOOLEAN]

\* What a client may get.
Statuses == {"healthy", "404", "400", "413", "refused", "503", "rejected",
             "open", "closed", "stream", "200", "502"}

ASSUME HexAssumption         == \A digits \in DOMAIN Hex :
                                  /\ digits \in (STRING \ {"%"}) \X (STRING \ {"%"})
                                  /\ Hex[digits] \in STRING
ASSUME NoneAssumption        == None \notin Statuses
ASSUME DeploymentsAssumption == Deployments \subseteq [edge : Config, connector : Config]
ASSUME RequestsAssumption    == Requests \subseteq Request
ASSUME AnswersAssumption     == Answers \subseteq [body : Nat, stream : BOOLEAN]

VARIABLES
  config,      \* the deployment
  edge,        \* "start", "up", "exited"
  connector,   \* "start", "up", "exited"
  req,         \* the request in the edge's handler
  match,       \* the edge's route for it
  msg,         \* the envelope on its way to the connector
  backend,     \* the call the connector made
  answer,      \* the backend's answer
  status       \* what the client got, None: the handler has not returned

reqVars == <<req, match, msg, backend, answer, status>>
vars == <<config, edge, connector, reqVars>>

-----------------------------------------------------------------------------
(* Load: parseBytes and Validate.                                          *)

\* int64 arithmetic wraps around.
Wrap(n) == ((n + MaxInt + 1) % (2 * (MaxInt + 1))) - (MaxInt + 1)

\* "<n><unit>"; ParseInt has checked that n itself fits.
ParseBytes(size) == Wrap(size.n * size.unit)

ValidPath(path) ==
  path # <<>> => /\ Head(path) = "/"
                 /\ ~Contains(path, "?") /\ ~Contains(path, "#")

ValidTarget(r) ==
  r.target.kind = CASE r.mode = "http" -> "http"
                    [] r.mode = "websocket" -> "ws"
                    [] OTHER -> "hostport"

ValidPublicFields(r) ==
  IF r.mode \in {"http", "websocket"}
  THEN /\ r.host # "/"
       /\ r.prefix # <<>> \/ r.exact # <<>>
       /\ ValidPath(r.prefix) /\ ValidPath(r.exact)
  ELSE r.listen

Sizes(r) == {r.maxInlineRequest, r.maxRequestBody, r.maxInlineResponse, r.maxResponseBody}

\* The name "" and the host "/" stand for every name and host that is refused;
\* r.options: the timeouts and the names of forwarded_headers are good.
ValidRoute(r) ==
  /\ r.name # "" /\ r.options
  /\ r.mode \in {"http", "grpc", "websocket", "tcp"}
  /\ ValidTarget(r) /\ ValidPublicFields(r)
  /\ \A size \in Sizes(r) : size.n <= MaxInt /\ ParseBytes(size) >= 0

\* The URLs, addresses and certificates outside the routes, as one flag.
ValidSettings(c) == c.settings

\* Mutant: the names are not compared.
ValidateNoSeen(c) ==
  /\ ValidSettings(c) /\ c.routes # <<>>
  /\ \A i \in DOMAIN c.routes :
       /\ ValidRoute(c.routes[i])
       /\ c.routes[i].tls => c.routes[i].mode \in {"tcp", "grpc"} /\ c.edgeTLS

Validate(c) ==
  /\ ValidSettings(c) /\ c.routes # <<>>
  /\ \A i \in DOMAIN c.routes :
       /\ ValidRoute(c.routes[i])
       /\ c.routes[i].tls => c.routes[i].mode \in {"tcp", "grpc"} /\ c.edgeTLS
       /\ \A j \in 1..(i - 1) : c.routes[j].name # c.routes[i].name

\* MaxInlineRequest and MaxInlineResponse, and the default for neither.
Limit(inline, whole, default) ==
  IF ParseBytes(inline) > 0 THEN ParseBytes(inline)
  ELSE IF ParseBytes(whole) > 0 THEN ParseBytes(whole) ELSE default

RequestLimit(r)  == Limit(r.maxInlineRequest, r.maxRequestBody, DefaultRequest)
ResponseLimit(r) == Limit(r.maxInlineResponse, r.maxResponseBody, DefaultResponse)

Init ==
  /\ config \in Deployments
  /\ edge = "start" /\ connector = "start"
  /\ req = None /\ match = None /\ msg = None
  /\ backend = None /\ answer = None /\ status = None

LoadEdge ==
  /\ edge = "start"
  /\ edge' = IF Validate(config.edge) THEN "up" ELSE "exited"
  /\ UNCHANGED <<config, connector, reqVars>>

LoadConnector ==
  /\ connector = "start"
  /\ connector' = IF Validate(config.connector) THEN "up" ELSE "exited"
  /\ UNCHANGED <<config, edge, reqVars>>

-----------------------------------------------------------------------------
(* The edge: ServeHTTP and matchRoute.                                     *)

\* A host is <<name, spelling>>: upper case letters and a port do not count.
NormalizeHost(host) == host[1]

HostMatches(r, host) == r.host = "" \/ r.host = NormalizeHost(host)

PathHasPrefix(path, prefix) ==
  \/ path = prefix
  \/ /\ IsPrefix(prefix, path)
     /\ Last(prefix) = "/" \/ path[Len(prefix) + 1] = "/"

Matches(r, q) ==
  /\ HostMatches(r, q.host)
  /\ \/ r.exact # <<>> /\ q.path = r.exact
     \/ r.prefix # <<>> /\ PathHasPrefix(q.path, r.prefix)

\* Mutant: the routes stay in the order of the file.
SortsBeforeFile(routes, i, j) == i < j

\* sortRoutes: stable, the longer patterns first.
SortsBefore(routes, i, j) ==
  LET length(k) == Len(routes[k].prefix) + Len(routes[k].exact)
  IN  length(i) > length(j) \/ (length(i) = length(j) /\ i < j)

MatchRoute(routes, mode, q) ==
  LET found == {i \in DOMAIN routes : routes[i].mode = mode /\ Matches(routes[i], q)}
  IN  IF found = {} THEN None
      ELSE routes[CHOOSE i \in found : \A j \in found \ {i} : SortsBefore(routes, i, j)]

WithQuery(path, query) == IF query = <<>> THEN path ELSE path \o <<"?">> \o query

Suffix(r, q) ==
  LET rest == SubSeq(q.path, Len(r.prefix) + 1, Len(q.path))
  IN  IF r.exact # <<>> /\ q.path = r.exact THEN WithQuery(<<"/">>, q.query)
      ELSE WithQuery(IF rest = <<>> THEN <<"/">> ELSE rest, q.query)

\* validatePath of the envelopes; they also refuse a request without a host.
ValidEnvelope(m) == Head(m.path) = "/" /\ ~Contains(m.path, "#") /\ m.host # ""
ValidOpen(m)     == Head(m.path) = "/" /\ ~Contains(m.path, "#")

\* Mutant: the wrapped bound is taken for a length.
ReadBoundedWraps(size, limit) ==
  IF size < Wrap(limit + 1) THEN size ELSE Wrap(limit + 1)

\* Mutant: io.LimitReader stops at the limit.
ReadBoundedAtLimit(size, limit) == IF size < limit THEN size ELSE limit

\* io.ReadAll(io.LimitReader(body, limit+1)) where no read fails.
ReadBounded(size, limit) ==
  LET n == Wrap(limit + 1)
  IN  IF n <= 0 THEN 0 ELSE IF size < n THEN size ELSE n

\* Mutant: one byte too many passes.
TooLargeByOne(data, limit) == data > limit + 1

TooLarge(data, limit) == data > limit

Receive(q) ==
  /\ edge = "up" /\ req = None
  /\ req' = q
  /\ UNCHANGED <<config, edge, connector, match, msg, backend, answer, status>>

Healthz ==
  /\ req # None /\ req.path = Health /\ status = None
  /\ status' = "healthy"
  /\ UNCHANGED <<config, edge, connector, req, match, msg, backend, answer>>

Arrived == req # None /\ req.path # Health /\ match = None /\ status = None
WS(q)   == MatchRoute(config.edge.routes, "websocket", q)
HTTP(q) == MatchRoute(config.edge.routes, "http", q)

NotFound ==
  /\ Arrived /\ WS(req) = None /\ HTTP(req) = None
  /\ status' = "404"
  /\ UNCHANGED <<config, edge, connector, req, match, msg, backend, answer>>

\* handleWebSocketRoute up to the open request.
HandleWebSocketRoute ==
  /\ Arrived /\ WS(req) # None
  /\ match' = WS(req)
  /\ LET m == [kind |-> "websocket", route |-> WS(req).name, host |-> req.host[1],
               path |-> Suffix(WS(req), req), body |-> 0]
     IN  IF ~req.upgrade THEN status' = "400" /\ UNCHANGED msg
         ELSE IF ~ValidOpen(m) THEN status' = "refused" /\ UNCHANGED msg
         ELSE msg' = m /\ UNCHANGED status
  /\ UNCHANGED <<config, edge, connector, req, backend, answer>>

\* serveUnary up to nats.Request.
ServeUnary ==
  /\ Arrived /\ WS(req) = None /\ HTTP(req) # None
  /\ match' = HTTP(req)
  /\ LET limit == RequestLimit(HTTP(req))
         data  == ReadBounded(req.body, limit)
         m     == [kind |-> "http", route |-> HTTP(req).name, host |-> req.host[1],
                   path |-> Suffix(HTTP(req), req), body |-> data]
     IN  IF TooLarge(data, limit) THEN status' = "413" /\ UNCHANGED msg
         ELSE IF ~ValidEnvelope(m) THEN status' = "refused" /\ UNCHANGED msg
         ELSE msg' = m /\ UNCHANGED status
  /\ UNCHANGED <<config, edge, connector, req, backend, answer>>

\* readBounded fails: the client's body breaks off.
RequestUnread ==
  /\ Arrived /\ WS(req) = None /\ HTTP(req) # None
  /\ match' = HTTP(req)
  /\ status' = "400"
  /\ UNCHANGED <<config, edge, connector, req, msg, backend, answer>>

-----------------------------------------------------------------------------
(* The connector: the subscriptions of Start, handle and handleOpen,       *)
(* forward, targetURL and the answer.                                      *)

\* newHTTPProxy and streamRoutes: a later route of the same name replaces an earlier one.
RouteByName(m) ==
  LET routes == config.connector.routes
      found  == {i \in DOMAIN routes : /\ routes[i].name = m.route
                                       /\ routes[i].mode = "http" <=> m.kind = "http"}
  IN  IF found = {} THEN None ELSE routes[Max(found)]

\* Mutant: the base path keeps its slash.
TrimRightKeeps(path) == path

TrimRight(path) == SubSeq(path, 1, Max({0} \cup {i \in DOMAIN path : path[i] # "/"}))

\* url.ParseRequestURI: the path ends at the first "?".
Cut(uri) ==
  LET mark == SelectInSeq(uri, LAMBDA c : c = "?")
  IN  IF mark = 0 THEN Len(uri) + 1 ELSE mark
PathPart(uri) == SubSeq(uri, 1, Cut(uri) - 1)

\* A "%" that two hex digits do not follow.
Malformed(path) ==
  \E i \in DOMAIN path :
    path[i] = "%" /\ (i + 2 > Len(path) \/ <<path[i + 1], path[i + 2]>> \notin DOMAIN Hex)

\* Every "%" and the two digits behind it become one character.
Unescape(path) ==
  LET digit(i) == \E j \in DOMAIN path : j \in {i - 1, i - 2} /\ path[j] = "%"
      kept     == SelectSeq([i \in DOMAIN path |-> i], LAMBDA i : ~digit(i))
  IN  IF ~Contains(path, "%") THEN path
      ELSE [k \in DOMAIN kept |-> IF path[kept[k]] # "%" THEN path[kept[k]]
                                  ELSE Hex[<<path[kept[k] + 1], path[kept[k] + 2]>>]]

ValidURI(uri) == ~Contains(uri, "^") /\ ~Malformed(PathPart(uri))

\* For a suffix that is a ValidURI.
TargetURL(base, suffix) ==
  [path  |-> TrimRight(base) \o Unescape(PathPart(suffix)),
   query |-> SubSeq(suffix, Cut(suffix) + 1, Len(suffix))]

Subscribed == connector = "up" /\ RouteByName(msg) # None
Sent == msg # None /\ backend = None /\ status = None

\* For a WebSocket the client gets a close frame, "connector unavailable".
NoResponders ==
  /\ Sent /\ ~Subscribed
  /\ status' = "503"
  /\ UNCHANGED <<config, edge, connector, req, match, msg, backend, answer>>

\* handleOpenMessage: the connector knows the name with another mode.
RejectOpen ==
  /\ Sent /\ Subscribed /\ msg.kind # "http" /\ RouteByName(msg).mode # msg.kind
  /\ status' = "rejected"
  /\ UNCHANGED <<config, edge, connector, req, match, msg, backend, answer>>

BackendCall ==
  LET r   == RouteByName(msg)
      url == TargetURL(r.target.base, msg.path)
  IN  [addr |-> r.target.addr, path |-> url.path, query |-> url.query, body |-> msg.body]

\* forward, up to the backend's answer.
Forward ==
  /\ Sent /\ Subscribed /\ msg.kind = "http" /\ ValidURI(msg.path)
  /\ backend' = BackendCall
  /\ UNCHANGED <<config, edge, connector, req, match, msg, answer, status>>

\* relayWebSocketBackend dials; the client has its session.
DialBackend ==
  /\ Sent /\ Subscribed /\ msg.kind = "websocket" /\ RouteByName(msg).mode = "websocket"
  /\ ValidURI(msg.path)
  /\ backend' = BackendCall
  /\ status' = "open"
  /\ UNCHANGED <<config, edge, connector, req, match, msg, answer>>

\* targetURL fails: "invalid request path", or the WebSocket session that the client
\* already has is closed.
RefusePath ==
  /\ Sent /\ Subscribed /\ RouteByName(msg).mode = msg.kind /\ ~ValidURI(msg.path)
  /\ status' = IF msg.kind = "http" THEN "502" ELSE "closed"
  /\ UNCHANGED <<config, edge, connector, req, match, msg, backend, answer>>

ShouldStream(a, limit) == a.stream \/ a.body > limit

Answering == backend # None /\ status = None

\* streamResponse takes the body over.
AnswerStreamed(a) ==
  /\ Answering /\ ShouldStream(a, ResponseLimit(RouteByName(msg)))
  /\ answer' = [body |-> a.body, inline |-> None]
  /\ status' = "stream"
  /\ UNCHANGED <<config, edge, connector, req, match, msg, backend>>

\* The body goes into the reply: it is short, or there is no tunnel.
AnswerInline(a) ==
  /\ Answering
  /\ LET limit == ResponseLimit(RouteByName(msg))
         data  == ReadBounded(a.body, limit)
     IN  IF TooLarge(data, limit)
         THEN status' = "502" /\ answer' = [body |-> a.body, inline |-> None]
         ELSE status' = "200" /\ answer' = [body |-> a.body, inline |-> data]
  /\ UNCHANGED <<config, edge, connector, req, match, msg, backend>>

\* The backend call fails, or the read of a body that goes inline.
BackendError ==
  /\ Answering
  /\ status' = "502"
  /\ UNCHANGED <<config, edge, connector, req, match, msg, backend, answer>>

\* The handler has returned; the edge waits for the next request.
Return ==
  /\ status # None
  /\ req' = None /\ match' = None /\ msg' = None
  /\ backend' = None /\ answer' = None /\ status' = None
  /\ UNCHANGED <<config, edge, connector>>

Next ==
  \/ LoadEdge \/ LoadConnector
  \/ \E q \in Requests : Receive(q)
  \/ Healthz \/ NotFound \/ HandleWebSocketRoute \/ ServeUnary \/ RequestUnread
  \/ NoResponders \/ RejectOpen \/ Forward \/ DialBackend \/ RefusePath
  \/ (\E a \in Answers : AnswerStreamed(a) \/ AnswerInline(a)) \/ BackendError
  \/ Return

Spec == Init /\ [][Next]_vars

-----------------------------------------------------------------------------
(* Properties.                                                             *)

\* The shape of the state: a handler's variables are set in the order of its
\* calls, and a body's length is an int64 that is not negative.
TypeOK ==
  /\ config \in Deployments
  /\ edge \in {"start", "up", "exited"} /\ connector \in {"start", "up", "exited"}
  /\ req \in Requests \cup {None} /\ (req # None => edge = "up")
  /\ msg # None => match # None /\ msg.body \in 0..MaxInt
  /\ backend # None => msg # None
  /\ answer # None => answer.inline \in (0..MaxInt) \cup {None}
  /\ status \in Statuses \cup {None}

\* With one configuration at both ends, the backend that is called is the target
\* of the route the edge matched: the names that link matchRoute at the edge to
\* the connector's maps are unique, and the two never take another route's target.
RightBackend ==
  backend # None /\ config.edge = config.connector => backend.addr = match.target.addr

\* The segments between the slashes of a path, "" after a last slash.  Position i
\* is in the segment with as many slashes up to i.
SegmentNo(path, i) == Cardinality({j \in 1..i : path[j] = "/"})
Segments(path) ==
  LET at(k) == {i \in DOMAIN path : SegmentNo(path, i) = k}
  IN  [k \in 1..SegmentNo(path, Len(path)) |-> SubSeq(path, Min(at(k)) + 1, Max(at(k)))]

\* A request that a public_prefix matches reaches the backend under the target's path
\* and the segments of the public path that follow the prefix (none: "/"), with the
\* client's query.  matchRoute, withQuery, the envelopes and targetURL work on strings;
\* this states what they amount to.  It excludes an escaped "?" in the path, which
\* becomes the start of a query, an escaped "%", which is decoded twice, and a match by
\* public_path: there the backend gets the target's path and "/", where the guides
\* speak of the target's path alone.
PathKept ==
  /\ backend # None /\ config.edge = config.connector
  /\ ~Contains(req.path, "?") /\ ~Contains(req.path, "%") /\ req.path # match.exact
  => LET target == Segments(match.target.base)
         base   == SubSeq(target, 1, Max({0} \cup {i \in DOMAIN target : target[i] # <<>>}))
         public == Segments(req.path)
         prefix == Segments(match.prefix)
         rest   == IF public = prefix THEN << <<>> >>
                   ELSE SubSeq(public, Len(prefix) + 1, Len(public))
     IN  /\ IsPrefix(prefix, public)
         /\ Segments(backend.path) = base \o rest
         /\ backend.query = req.query

\* "Longest prefix wins across routes": among the routes of the mode that match, the
\* chosen one has the longest pattern.  It needs routes with one pattern each,
\* since sortRoutes adds the lengths of public_prefix and public_path.
LongestPrefix ==
  LET routes == config.edge.routes
  IN  match # None /\ (\A i \in DOMAIN routes : routes[i].prefix = <<>> \/ routes[i].exact = <<>>) =>
        \A i \in DOMAIN routes :
          routes[i].mode = match.mode /\ Matches(routes[i], req) =>
            Len(routes[i].prefix \o routes[i].exact) <= Len(match.prefix \o match.exact)

\* The edge refuses a request it has matched only for a character or a missing host
\* that the envelope cannot carry: in particular every path of a virtual host with
\* `public_prefix: /`, as in the guide's example, is passed on.
RefusedOnly ==
  status = "refused" =>
    Contains(req.path, "#") \/ Contains(req.query, "#") \/ req.host[1] = ""

\* A body that is passed on inline, in either direction, is the whole body: the
\* bounded read never cuts one short.  It needs a limit below the largest int64,
\* for which limit+1 wraps around.
BodiesWhole ==
  /\ msg # None /\ msg.kind = "http" /\ RequestLimit(match) < MaxInt =>
       msg.body = req.body
  /\ answer # None /\ answer.inline # None /\ ResponseLimit(RouteByName(msg)) < MaxInt =>
       answer.inline = answer.body

\* No body beyond the configured limit reaches NATS, even where "<n><unit>"
\* overflows.
LimitHolds ==
  msg # None /\ msg.kind = "http" /\ match.maxInlineRequest.n > 0 =>
    msg.body <= match.maxInlineRequest.n * match.maxInlineRequest.unit
=============================================================================
