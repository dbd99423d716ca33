---------------------------- MODULE HttpExchange ----------------------------
(***************************************************************************)
(* HTTP requests of one route, through one edge and one connector: the     *)
(* edge's serveUnary and serveStreamedResponse, the connector's serial     *)
(* NATS callback (httpProxy.forward), its table of in-flight calls, the    *)
(* cancel subscription, and response bodies streamed over the data tunnel  *)
(* (streamResponse, acceptStreamOpen, claimStreamSession).                 *)
(*                                                                         *)
(* A request is a model value; a body is a number of chunks.  NATS is      *)
(* external: a request-reply with at-most-once delivery, whose             *)
(* subscriptions call their handler one message at a time.                 *)
(***************************************************************************)
EXTENDS Integers, Sequences, FiniteSets

CONSTANTS
  Requests,     \* request IDs
  Streamed,     \* those whose backend may answer with a body that streams
  SendWindow,   \* sendWindow of the data tunnel
  Body,         \* bound: the chunks of a streamed body
  Faults        \* what may go wrong in this instance

AllFaults == {"client", "nats", "link", "backend"}

ASSUME RequestsAssumption == IsFiniteSet(Requests)
ASSUME StreamedAssumption == Streamed \subseteq Requests
ASSUME WindowAssumption   == SendWindow \in Nat /\ SendWindow >= 2
ASSUME BodyAssumption     == Body \in Nat
ASSUME FaultsAssumption   == Faults \subseteq AllFaults

AckThreshold == SendWindow \div 2

VARIABLES
  \* the edge
  handler,      \* serveUnary: "idle", "waiting", "claiming", "streaming" (in the select),
                \* "writing" (in w.Write), "done"
  outcome,      \* what the client saw
  clientGone,   \* req.Context() is done
  got,          \* body chunks given to w.Write
  esess,        \* its session at the edge: "none", "open", "closed", "lost" (with the link)
  erecv,        \* that session's receive queue
  consumed,     \* that session's consumed counter
  claimed,      \* Session.claimed
  claimTimer,   \* streamClaimTimeout timer: "off", "armed", "firing"
  eUp,          \* the edge's link is registered and open
  \* NATS
  queue,        \* requests pending on the connector's subscription
  reply,        \* the reply travelling to the edge
  cancelMsg,    \* the cancel message: "none", "sent", "handled"
  \* the connector
  call,         \* forward: "none", "do", "headers", "body", "returning" (from
                \* streamResponse), "over"
  inflight,     \* httpProxy.inflight
  cancelled,    \* backendCtx is cancelled
  deadline,     \* deadlineTimer: "off", "armed", "fired" (cancelBackend is about to run)
  csess,        \* its session at the connector, likewise
  credit,       \* that session's credit
  pump,         \* the pump: "none", "read", "credit", "write", "closing",
                \* "ended" (at the end of the body), "gone" (before it)
  nread,        \* chunks the pump has read from the backend's body
  cUp,          \* the connector's current link is open
  \* the data tunnel
  toEdge, toConnector

edgeVars == <<handler, outcome, clientGone, got>>
edgeSess == <<esess, erecv, consumed, claimed, claimTimer>>
natsVars == <<queue, reply, cancelMsg>>
callVars == <<call, inflight, cancelled, deadline>>
pumpVars == <<csess, credit, pump, nread>>
linkVars == <<eUp, cUp, toEdge, toConnector>>
vars == <<edgeVars, edgeSess, natsVars, callVars, pumpVars, linkVars>>

Frame(r, t, k) == [req |-> r, type |-> t, n |-> k]

Init ==
  /\ handler    = [r \in Requests |-> "idle"]
  /\ outcome    = [r \in Requests |-> "none"]
  /\ clientGone = [r \in Requests |-> FALSE]
  /\ got        = [r \in Requests |-> 0]
  /\ esess      = [r \in Requests |-> "none"]
  /\ erecv      = [r \in Requests |-> <<>>]
  /\ consumed   = [r \in Requests |-> 0]
  /\ claimed    = [r \in Requests |-> FALSE]
  /\ claimTimer = [r \in Requests |-> "off"]
  /\ queue      = <<>>
  /\ reply      = [r \in Requests |-> "none"]
  /\ cancelMsg  = [r \in Requests |-> "none"]
  /\ call       = [r \in Requests |-> "none"]
  /\ inflight   = {}
  /\ cancelled  = [r \in Requests |-> FALSE]
  /\ deadline   = [r \in Requests |-> "off"]
  /\ csess      = [r \in Requests |-> "none"]
  /\ credit     = [r \in Requests |-> 0]
  /\ pump       = [r \in Requests |-> "none"]
  /\ nread      = [r \in Requests |-> 0]
  /\ eUp = TRUE /\ cUp = TRUE
  /\ toEdge = <<>> /\ toConnector = <<>>

\* WriteFrame on the link of r's session: an error once that link is closed,
\* a lost frame when only the other end has gone.
ToEdge(r, t) ==
  IF csess[r] # "lost" /\ cUp /\ eUp THEN Append(toEdge, Frame(r, t, 0)) ELSE toEdge
ToConnector(r, t, k) ==
  IF esess[r] # "lost" /\ cUp /\ eUp THEN Append(toConnector, Frame(r, t, k)) ELSE toConnector

\* markDone, unless the link's end has marked the session already.
Closed(sess, r) == [sess EXCEPT ![r] = IF @ = "open" THEN "closed" ELSE @]

-----------------------------------------------------------------------------
(* The edge: serveUnary.                                                   *)

\* The handler ends and the client sees o.
Answer(r, o) ==
  /\ handler' = [handler EXCEPT ![r] = "done"]
  /\ outcome' = [outcome EXCEPT ![r] = o]

\* nats.Request publishes the envelope.  A lost one leaves the handler waiting.
SendRequest(r) ==
  /\ handler[r] = "idle"
  /\ handler' = [handler EXCEPT ![r] = "waiting"]
  /\ \/ queue' = Append(queue, r)
     \/ "nats" \in Faults /\ UNCHANGED queue
  /\ UNCHANGED <<outcome, clientGone, got, edgeSess, reply, cancelMsg, callVars, pumpVars, linkVars>>

\* No connector subscribes to the route: 503 at once.
NoResponders(r) ==
  /\ handler[r] = "idle" /\ "nats" \in Faults
  /\ Answer(r, "error")
  /\ UNCHANGED <<clientGone, got, edgeSess, natsVars, callVars, pumpVars, linkVars>>

ClientDisconnects(r) ==
  /\ handler[r] \in {"waiting", "claiming", "streaming", "writing"} /\ "client" \in Faults
  /\ ~clientGone[r]
  /\ clientGone' = [clientGone EXCEPT ![r] = TRUE]
  /\ UNCHANGED <<handler, outcome, got, edgeSess, natsVars, callVars, pumpVars, linkVars>>

\* Request returns the context's error, because the client is gone or because
\* the route timeout passed, as it may at any moment: publish the cancel, 504.
GiveUp(r) ==
  /\ handler[r] = "waiting"
  /\ Answer(r, "gaveup")
  /\ cancelMsg' = [cancelMsg EXCEPT ![r] = "sent"]
  /\ UNCHANGED <<clientGone, got, edgeSess, queue, reply, callVars, pumpVars, linkVars>>

TakeReply(r) ==
  /\ handler[r] = "waiting" /\ reply[r] # "none"
  /\ \/ reply[r] = "inline" /\ Answer(r, "ok")
     \/ reply[r] = "error" /\ Answer(r, "error")
     \/ reply[r] = "stream" /\ ~eUp /\ Answer(r, "error")
     \/ /\ reply[r] = "stream" /\ eUp
        /\ handler' = [handler EXCEPT ![r] = "claiming"]
        /\ UNCHANGED outcome
  /\ reply' = [reply EXCEPT ![r] = "none"]
  /\ UNCHANGED <<clientGone, got, edgeSess, queue, cancelMsg, callVars, pumpVars, linkVars>>

\* claimStreamSession polls the link's table, for at most two seconds.  TryClaim
\* succeeds: the request ID, and so the session, belongs to this handler alone.
Claim(r) ==
  /\ handler[r] = "claiming" /\ esess[r] = "open"
  /\ claimed' = [claimed EXCEPT ![r] = TRUE]
  /\ handler' = [handler EXCEPT ![r] = "streaming"]
  /\ UNCHANGED <<outcome, clientGone, got, esess, erecv, consumed, claimTimer, natsVars, callVars, pumpVars, linkVars>>

\* Mutant: the wait for the session has no deadline while the link is up.
ClaimTimeoutUnbounded(r) ==
  /\ handler[r] = "claiming" /\ ~eUp
  /\ Answer(r, "error")
  /\ UNCHANGED <<clientGone, got, edgeSess, natsVars, callVars, pumpVars, linkVars>>

ClaimTimeout(r) ==
  /\ handler[r] = "claiming" /\ esess[r] # "open"
  /\ Answer(r, "error")
  /\ UNCHANGED <<clientGone, got, edgeSess, natsVars, callVars, pumpVars, linkVars>>

-----------------------------------------------------------------------------
(* The edge: serveStreamedResponse.  Every return runs session.Close.      *)

EndStream(r, o) ==
  /\ Answer(r, o)
  /\ toConnector' = ToConnector(r, "close", 0)
  /\ esess' = Closed(esess, r)

StreamClientGone(r) ==
  /\ handler[r] = "streaming" /\ clientGone[r]
  /\ EndStream(r, "gone")
  /\ UNCHANGED <<clientGone, got, erecv, consumed, claimed, claimTimer, natsVars, callVars, pumpVars, eUp, cUp, toEdge>>

StreamSessionDone(r) ==
  /\ handler[r] = "streaming" /\ esess[r] \in {"closed", "lost"}
  /\ EndStream(r, "aborted")
  /\ UNCHANGED <<clientGone, got, erecv, consumed, claimed, claimTimer, natsVars, callVars, pumpVars, eUp, cUp, toEdge>>

\* w.Write begins.
StreamData(r) ==
  /\ handler[r] = "streaming" /\ erecv[r] # <<>> /\ Head(erecv[r]).type = "data"
  /\ erecv' = [erecv EXCEPT ![r] = Tail(@)]
  /\ got' = [got EXCEPT ![r] = @ + 1]
  /\ handler' = [handler EXCEPT ![r] = "writing"]
  /\ UNCHANGED <<outcome, clientGone, esess, consumed, claimed, claimTimer, natsVars, callVars, pumpVars, linkVars>>

\* The client has taken the chunk, as it need not ever: Flush, AckData.
StreamWritten(r) ==
  /\ handler[r] = "writing"
  /\ handler' = [handler EXCEPT ![r] = "streaming"]
  /\ IF consumed[r] + 1 >= AckThreshold
     THEN /\ toConnector' = ToConnector(r, "window", consumed[r] + 1)
          /\ consumed' = [consumed EXCEPT ![r] = 0]
     ELSE /\ consumed' = [consumed EXCEPT ![r] = @ + 1]
          /\ UNCHANGED toConnector
  /\ UNCHANGED <<outcome, clientGone, got, esess, erecv, claimed, claimTimer, natsVars, callVars, pumpVars, eUp, cUp, toEdge>>

\* w.Write fails because the client is gone.
StreamWriteFails(r) ==
  /\ handler[r] = "writing" /\ clientGone[r]
  /\ EndStream(r, "gone")
  /\ UNCHANGED <<clientGone, got, erecv, consumed, claimed, claimTimer, natsVars, callVars, pumpVars, eUp, cUp, toEdge>>

\* Mutant: any last frame ends the response cleanly.
StreamEndAnyFrame(r) ==
  /\ handler[r] = "streaming" /\ erecv[r] # <<>> /\ Head(erecv[r]).type # "data"
  /\ erecv' = [erecv EXCEPT ![r] = Tail(@)]
  /\ EndStream(r, "clean")
  /\ UNCHANGED <<clientGone, got, consumed, claimed, claimTimer, natsVars, callVars, pumpVars, eUp, cUp, toEdge>>

StreamEnd(r) ==
  /\ handler[r] = "streaming" /\ erecv[r] # <<>> /\ Head(erecv[r]).type # "data"
  /\ erecv' = [erecv EXCEPT ![r] = Tail(@)]
  /\ EndStream(r, IF Head(erecv[r]).type = "eof" THEN "clean" ELSE "aborted")
  /\ UNCHANGED <<clientGone, got, consumed, claimed, claimTimer, natsVars, callVars, pumpVars, eUp, cUp, toEdge>>

-----------------------------------------------------------------------------
(* The edge: the link's read loop, and the claim timer.                    *)

\* acceptStreamOpen registers the session and arms the timer.
EdgeOpen ==
  /\ eUp /\ toEdge # <<>> /\ Head(toEdge).type = "open"
  /\ toEdge' = Tail(toEdge)
  /\ LET r == Head(toEdge).req
     IN  /\ esess' = [esess EXCEPT ![r] = "open"]
         /\ claimTimer' = [claimTimer EXCEPT ![r] = "armed"]
  /\ UNCHANGED <<edgeVars, erecv, consumed, claimed, natsVars, callVars, pumpVars, eUp, cUp, toConnector>>

EdgeDispatch ==
  /\ eUp /\ toEdge # <<>> /\ Head(toEdge).type # "open"
  /\ toEdge' = Tail(toEdge)
  /\ LET f == Head(toEdge)
     IN  IF esess[f.req] = "open"
         THEN erecv' = [erecv EXCEPT ![f.req] = Append(@, f)]
         ELSE UNCHANGED erecv
  /\ UNCHANGED <<edgeVars, esess, consumed, claimed, claimTimer, natsVars, callVars, pumpVars, eUp, cUp, toConnector>>

\* The timer goroutine looks at Claimed first and closes the session after.
ClaimTimerFires(r) ==
  /\ claimTimer[r] = "armed"
  /\ claimTimer' = [claimTimer EXCEPT ![r] = IF claimed[r] THEN "off" ELSE "firing"]
  /\ UNCHANGED <<edgeVars, esess, erecv, consumed, claimed, natsVars, callVars, pumpVars, linkVars>>

ClaimTimerCloses(r) ==
  /\ claimTimer[r] = "firing"
  /\ claimTimer' = [claimTimer EXCEPT ![r] = "off"]
  /\ toConnector' = ToConnector(r, "error", 0)
  /\ esess' = Closed(esess, r)
  /\ UNCHANGED <<edgeVars, erecv, consumed, claimed, natsVars, callVars, pumpVars, eUp, cUp, toEdge>>

-----------------------------------------------------------------------------
(* The connector: the subscription's callback runs forward to its end.     *)

AtBackend(r)  == call[r] \in {"do", "headers", "body"}
InCallback(r) == AtBackend(r) \/ call[r] = "returning"

\* Mutant: forward arms no deadline timer.
StartCallNoDeadline ==
  /\ queue # <<>> /\ \A q \in Requests : ~InCallback(q)
  /\ queue' = Tail(queue)
  /\ LET r == Head(queue)
     IN  /\ call' = [call EXCEPT ![r] = "do"]
         /\ inflight' = inflight \cup {r}
  /\ UNCHANGED <<edgeVars, edgeSess, reply, cancelMsg, cancelled, deadline, pumpVars, linkVars>>

StartCall ==
  /\ queue # <<>> /\ \A q \in Requests : ~InCallback(q)
  /\ queue' = Tail(queue)
  /\ LET r == Head(queue)
     IN  /\ call' = [call EXCEPT ![r] = "do"]
         /\ inflight' = inflight \cup {r}
         /\ deadline' = [deadline EXCEPT ![r] = "armed"]
  /\ UNCHANGED <<edgeVars, edgeSess, reply, cancelMsg, cancelled, pumpVars, linkVars>>

\* msg.Respond; the reply may get lost.
Respond(r, kind) ==
  \/ reply' = [reply EXCEPT ![r] = kind]
  \/ "nats" \in Faults /\ UNCHANGED reply

\* forward returns without streaming: its deferred calls and the reply.  A timer
\* that has fired has nothing left to cancel.
Return(r, kind) ==
  /\ call' = [call EXCEPT ![r] = "over"]
  /\ deadline' = [deadline EXCEPT ![r] = "off"]
  /\ cancelled' = [cancelled EXCEPT ![r] = TRUE]
  /\ inflight' = inflight \ {r}
  /\ Respond(r, kind)

BackendHeaders(r) ==
  /\ call[r] = "do"
  /\ \E next \in {"body"} \cup IF r \in Streamed THEN {"headers"} ELSE {} :  \* shouldStream
       call' = [call EXCEPT ![r] = next]
  /\ UNCHANGED <<edgeVars, edgeSess, natsVars, inflight, cancelled, deadline, pumpVars, linkVars>>

BackendFails(r) ==
  /\ call[r] = "do" /\ (cancelled[r] \/ "backend" \in Faults)
  /\ Return(r, "error")
  /\ UNCHANGED <<edgeVars, edgeSess, queue, cancelMsg, pumpVars, linkVars>>

\* streamResponse with a usable link: open the session, start the watcher and
\* the pump, which run before forward has returned.
StreamOpens(r) ==
  /\ call[r] = "headers" /\ cUp
  /\ call' = [call EXCEPT ![r] = "returning"]
  /\ csess' = [csess EXCEPT ![r] = "open"]
  /\ credit' = [credit EXCEPT ![r] = SendWindow]
  /\ pump' = [pump EXCEPT ![r] = "read"]
  /\ toEdge' = ToEdge(r, "open")
  /\ UNCHANGED <<edgeVars, edgeSess, natsVars, inflight, cancelled, deadline, nread, eUp, cUp, toConnector>>

\* deadlineTimer.Stop does not recall a timer that has fired.
StopDeadline(r) == deadline' = [deadline EXCEPT ![r] = IF @ = "armed" THEN "off" ELSE @]

\* Mutants: forward's deferred cleanup untracks a streaming request too; it
\* does not stop the timer of one.
StreamReturnsUntracked(r) ==
  /\ call[r] = "returning"
  /\ call' = [call EXCEPT ![r] = "over"]
  /\ StopDeadline(r) /\ Respond(r, "stream")
  /\ inflight' = inflight \ {r}
  /\ UNCHANGED <<edgeVars, edgeSess, queue, cancelMsg, cancelled, pumpVars, linkVars>>
StreamReturnsArmed(r) ==
  /\ call[r] = "returning"
  /\ call' = [call EXCEPT ![r] = "over"]
  /\ Respond(r, "stream")
  /\ UNCHANGED <<edgeVars, edgeSess, queue, cancelMsg, inflight, cancelled, deadline, pumpVars, linkVars>>

\* forward returns the stream's reference: its deferred Stop and the reply.
StreamReturns(r) ==
  /\ call[r] = "returning"
  /\ call' = [call EXCEPT ![r] = "over"]
  /\ StopDeadline(r) /\ Respond(r, "stream")
  /\ UNCHANGED <<edgeVars, edgeSess, queue, cancelMsg, inflight, cancelled, pumpVars, linkVars>>

\* No link, or the open frame could not be written: fall back to the inline path.
StreamFallsBack(r) ==
  /\ call[r] = "headers" /\ (~cUp \/ ~eUp)
  /\ call' = [call EXCEPT ![r] = "body"]
  /\ UNCHANGED <<edgeVars, edgeSess, natsVars, inflight, cancelled, deadline, pumpVars, linkVars>>

\* readBounded: the whole body, or more than max_inline_response.
InlineBody(r) ==
  /\ call[r] = "body"
  /\ \/ Return(r, "inline")
     \/ Return(r, "error")
  /\ UNCHANGED <<edgeVars, edgeSess, queue, cancelMsg, pumpVars, linkVars>>

\* The timer expires and starts a goroutine, which calls cancelBackend.
DeadlineFires(r) ==
  /\ deadline[r] = "armed"
  /\ deadline' = [deadline EXCEPT ![r] = "fired"]
  /\ UNCHANGED <<edgeVars, edgeSess, natsVars, call, inflight, cancelled, pumpVars, linkVars>>

DeadlineCancels(r) ==
  /\ deadline[r] = "fired"
  /\ deadline' = [deadline EXCEPT ![r] = "off"]
  /\ cancelled' = [cancelled EXCEPT ![r] = TRUE]
  /\ UNCHANGED <<edgeVars, edgeSess, natsVars, call, inflight, pumpVars, linkVars>>

\* The cancel subscription has its own goroutine.
Cancel(r) ==
  /\ cancelMsg[r] = "sent"
  /\ cancelMsg' = [cancelMsg EXCEPT ![r] = "handled"]
  /\ cancelled' = [cancelled EXCEPT ![r] = @ \/ r \in inflight]
  /\ UNCHANGED <<edgeVars, edgeSess, queue, reply, call, inflight, deadline, pumpVars, linkVars>>

CancelLost(r) ==
  /\ cancelMsg[r] = "sent" /\ "nats" \in Faults
  /\ cancelMsg' = [cancelMsg EXCEPT ![r] = "none"]
  /\ UNCHANGED <<edgeVars, edgeSess, queue, reply, callVars, pumpVars, linkVars>>

-----------------------------------------------------------------------------
(* The connector: the pump goroutine of streamResponse, and its watcher.   *)

Pumping(r) == pump[r] \in {"read", "credit", "write", "closing"}

\* The pump returns: Body.Close, cancelBackend, untrack.
PumpReturns(r) ==
  /\ pump' = [pump EXCEPT ![r] = IF @ = "closing" THEN "ended" ELSE "gone"]
  /\ cancelled' = [cancelled EXCEPT ![r] = TRUE]
  /\ inflight' = inflight \ {r}

PumpRead(r) ==
  /\ pump[r] = "read" /\ nread[r] < Body
  /\ nread' = [nread EXCEPT ![r] = @ + 1]
  /\ pump' = [pump EXCEPT ![r] = "credit"]
  /\ UNCHANGED <<edgeVars, edgeSess, natsVars, callVars, csess, credit, linkVars>>

\* Mutants: SendData does not wait for a token; it waits and takes none.
PumpCreditUnguarded(r) ==
  /\ pump[r] = "credit"
  /\ credit' = [credit EXCEPT ![r] = @ - 1]
  /\ pump' = [pump EXCEPT ![r] = "write"]
  /\ UNCHANGED <<edgeVars, edgeSess, natsVars, callVars, csess, nread, linkVars>>
PumpCreditFree(r) ==
  /\ pump[r] = "credit" /\ credit[r] > 0
  /\ pump' = [pump EXCEPT ![r] = "write"]
  /\ UNCHANGED <<edgeVars, edgeSess, natsVars, callVars, csess, credit, nread, linkVars>>

PumpCredit(r) ==
  /\ pump[r] = "credit" /\ credit[r] > 0
  /\ credit' = [credit EXCEPT ![r] = @ - 1]
  /\ pump' = [pump EXCEPT ![r] = "write"]
  /\ UNCHANGED <<edgeVars, edgeSess, natsVars, callVars, csess, nread, linkVars>>

PumpClosed(r) ==
  /\ pump[r] = "credit" /\ csess[r] = "lost"
  /\ PumpReturns(r)
  /\ UNCHANGED <<edgeVars, edgeSess, natsVars, call, deadline, csess, credit, nread, linkVars>>

PumpWrite(r) ==
  /\ pump[r] = "write"
  /\ \/ /\ csess[r] = "open"
        /\ toEdge' = ToEdge(r, "data")
        /\ pump' = [pump EXCEPT ![r] = "read"]
        /\ UNCHANGED <<cancelled, inflight>>
     \/ /\ csess[r] = "lost" \/ ~eUp
        /\ PumpReturns(r)
        /\ UNCHANGED toEdge
  /\ UNCHANGED <<edgeVars, edgeSess, natsVars, call, deadline, csess, credit, nread, eUp, cUp, toConnector>>

PumpEOF(r) ==
  /\ pump[r] = "read"
  /\ toEdge' = ToEdge(r, "eof")
  /\ pump' = [pump EXCEPT ![r] = "closing"]
  /\ UNCHANGED <<edgeVars, edgeSess, natsVars, callVars, csess, credit, nread, eUp, cUp, toConnector>>

PumpClose(r) ==
  /\ pump[r] = "closing"
  /\ toEdge' = ToEdge(r, "close")
  /\ csess' = Closed(csess, r)
  /\ PumpReturns(r)
  /\ UNCHANGED <<edgeVars, edgeSess, natsVars, call, deadline, credit, nread, eUp, cUp, toConnector>>

\* Mutant: a failed body read returns without closing the session.
PumpFailsSilently(r) ==
  /\ pump[r] = "read"
  /\ PumpReturns(r)
  /\ UNCHANGED <<edgeVars, edgeSess, natsVars, call, deadline, csess, credit, nread, linkVars>>

\* The body read fails: the context was cancelled, or the backend broke off.
PumpFails(r) ==
  /\ pump[r] = "read"
  /\ toEdge' = ToEdge(r, "error")
  /\ csess' = Closed(csess, r)
  /\ PumpReturns(r)
  /\ UNCHANGED <<edgeVars, edgeSess, natsVars, call, deadline, credit, nread, eUp, cUp, toConnector>>
PumpAborted(r) == cancelled[r] /\ PumpFails(r)
BodyBreaks(r)  == ~cancelled[r] /\ "backend" \in Faults /\ PumpFails(r)

\* Mutant: no goroutine watches session.Done, only SendData notices it.
NoWatcher(r) == FALSE /\ UNCHANGED vars

\* The goroutine that waits for session.Done.
WatchDone(r) ==
  /\ Pumping(r) /\ csess[r] = "lost" /\ ~cancelled[r]
  /\ cancelled' = [cancelled EXCEPT ![r] = TRUE]
  /\ UNCHANGED <<edgeVars, edgeSess, natsVars, call, inflight, deadline, pumpVars, linkVars>>

\* The read loop: window frames return credit; a close or error frame is put
\* in the session's receive queue, which streamResponse never reads.
ConnectorDispatch ==
  /\ cUp /\ toConnector # <<>>
  /\ toConnector' = Tail(toConnector)
  /\ LET f == Head(toConnector)
     IN  IF f.type = "window" /\ csess[f.req] = "open"
         THEN credit' = [credit EXCEPT ![f.req] =
                           IF @ + f.n > SendWindow THEN SendWindow ELSE @ + f.n]
         ELSE UNCHANGED credit
  /\ UNCHANGED <<edgeVars, edgeSess, natsVars, callVars, csess, pump, nread, eUp, cUp, toEdge>>

-----------------------------------------------------------------------------
(* The data tunnel: either end's Link.Close, and the connector's redial.   *)

\* Link.Close marks every session of the link done; no frame leaves on it.
Lost(sess) == [r \in Requests |-> IF sess[r] = "none" THEN "none" ELSE "lost"]

EdgeCloses ==
  /\ eUp' = FALSE /\ esess' = Lost(esess) /\ toEdge' = <<>>
  /\ UNCHANGED <<edgeVars, erecv, consumed, claimed, claimTimer, natsVars, callVars, pumpVars, cUp, toConnector>>

ConnectorCloses ==
  /\ cUp' = FALSE /\ csess' = Lost(csess) /\ toConnector' = <<>>
  /\ UNCHANGED <<edgeVars, edgeSess, natsVars, callVars, credit, pump, nread, eUp, toEdge>>

LinkBreaks      == "link" \in Faults /\ ((eUp /\ EdgeCloses) \/ (cUp /\ ConnectorCloses))
EdgeNotices      == eUp /\ ~cUp /\ EdgeCloses
ConnectorNotices == cUp /\ ~eUp /\ ConnectorCloses

\* The connector redials; register replaces and closes the edge's old link.
Redial ==
  /\ ~cUp
  /\ eUp' = TRUE /\ cUp' = TRUE
  /\ esess' = Lost(esess) /\ toEdge' = <<>> /\ toConnector' = <<>>
  /\ UNCHANGED <<edgeVars, erecv, consumed, claimed, claimTimer, natsVars, callVars, pumpVars>>

-----------------------------------------------------------------------------
Edge(r)   == \/ GiveUp(r) \/ TakeReply(r) \/ Claim(r) \/ ClaimTimeout(r)
             \/ StreamClientGone(r) \/ StreamSessionDone(r) \/ StreamData(r)
             \/ StreamWriteFails(r) \/ StreamEnd(r)
Timers(r) == ClaimTimerFires(r) \/ ClaimTimerCloses(r) \/ DeadlineFires(r) \/ DeadlineCancels(r)
Callback(r) == \/ BackendFails(r) \/ StreamOpens(r) \/ StreamReturns(r)
               \/ StreamFallsBack(r) \/ InlineBody(r)
Pump(r)   == \/ PumpCredit(r) \/ PumpClosed(r) \/ PumpWrite(r) \/ PumpClose(r)
             \/ PumpAborted(r)
Network(r) == Cancel(r) \/ CancelLost(r)
Outside(r) == \/ SendRequest(r) \/ NoResponders(r) \/ ClientDisconnects(r) \/ StreamWritten(r)
              \/ BackendHeaders(r) \/ PumpRead(r) \/ PumpEOF(r) \/ BodyBreaks(r)

\* The edge may stop: every handler has answered.
Finished ==
  /\ \A r \in Requests : handler[r] = "done"
  /\ UNCHANGED vars

Next ==
  \/ \E r \in Requests : \/ Edge(r) \/ Timers(r) \/ Callback(r) \/ Pump(r)
                         \/ WatchDone(r) \/ Network(r) \/ Outside(r)
  \/ StartCall \/ EdgeOpen \/ EdgeDispatch \/ ConnectorDispatch
  \/ LinkBreaks \/ EdgeNotices \/ ConnectorNotices \/ Redial
  \/ Finished

Spec == Init /\ [][Next]_vars

\* Goroutines and timers run, links notice a dead peer, and the connector
\* redials; clients, the backend and what NATS loses are left to themselves.  A
\* client that stays connected and does not read keeps its handler in w.Write.
FairSpec ==
  /\ Spec
  /\ \A r \in Requests : /\ WF_vars(Edge(r)) /\ WF_vars(Callback(r))
                         /\ WF_vars(Pump(r)) /\ WF_vars(WatchDone(r))
                         /\ WF_vars(DeadlineFires(r)) /\ WF_vars(DeadlineCancels(r))
                         /\ WF_vars(ClaimTimerFires(r)) /\ WF_vars(ClaimTimerCloses(r))
                         /\ WF_vars(Network(r))
  /\ WF_vars(StartCall) /\ WF_vars(EdgeOpen) /\ WF_vars(EdgeDispatch)
  /\ WF_vars(ConnectorDispatch) /\ WF_vars(EdgeNotices) /\ WF_vars(ConnectorNotices)
  /\ WF_vars(Redial)

-----------------------------------------------------------------------------
(* Properties.                                                             *)

FrameOf(types) == [req : Requests, type : types, n : 0..SendWindow]

\* Every variable stays in the range the code gives it.
TypeOK ==
  /\ handler \in [Requests -> {"idle", "waiting", "claiming", "streaming", "writing", "done"}]
  /\ outcome \in [Requests -> {"none", "ok", "error", "gaveup", "gone", "aborted", "clean"}]
  /\ clientGone \in [Requests -> BOOLEAN]
  /\ got \in [Requests -> 0..Body] /\ nread \in [Requests -> 0..Body]
  /\ esess \in [Requests -> {"none", "open", "closed", "lost"}]
  /\ csess \in [Requests -> {"none", "open", "closed", "lost"}]
  /\ erecv \in [Requests -> Seq(FrameOf({"data", "eof", "close", "error"}))]
  /\ consumed \in [Requests -> 0..(AckThreshold - 1)]
  /\ credit \in [Requests -> 0..SendWindow]
  /\ claimed \in [Requests -> BOOLEAN]
  /\ claimTimer \in [Requests -> {"off", "armed", "firing"}]
  /\ queue \in Seq(Requests) /\ inflight \subseteq Requests
  /\ reply \in [Requests -> {"none", "inline", "error", "stream"}]
  /\ cancelMsg \in [Requests -> {"none", "sent", "handled"}]
  /\ call \in [Requests -> {"none", "do", "headers", "body", "returning", "over"}]
  /\ cancelled \in [Requests -> BOOLEAN]
  /\ deadline \in [Requests -> {"off", "armed", "fired"}]
  /\ pump \in [Requests -> {"none", "read", "credit", "write", "closing", "ended", "gone"}]
  /\ eUp \in BOOLEAN /\ cUp \in BOOLEAN
  /\ toEdge \in Seq(FrameOf({"open", "data", "eof", "close", "error"}))
  /\ toConnector \in Seq(FrameOf({"window", "close", "error"}))

\* A response that ends cleanly for the client is the whole body: the backend
\* reached its end and every chunk the connector read was written.  A body cut
\* by a dead link, a cancel, a broken backend or the claim timer never looks
\* complete (serveStreamedResponse panics with ErrAbortHandler).
CleanEndComplete ==
  \A r \in Requests :
    outcome[r] = "clean" => pump[r] \in {"closing", "ended"} /\ got[r] = nread[r]

\* The in-flight table holds exactly the calls whose backend work is running,
\* across the hand-over from the callback to the pump of a streamed response:
\* a cancel finds each of them, and none stays behind in the table.
CallTracked ==
  \A r \in Requests : r \in inflight <=> AtBackend(r) \/ Pumping(r)

\* The window keeps a streamed body inside the edge session's receive queue:
\* at most sendWindow data frames, an eof and a close or error frame wait.
ReceiveFits == \A r \in Requests : Len(erecv[r]) <= SendWindow + 2

\* The request deadline applies to a streamed body only while forward has not
\* returned: after that the timer does not expire, and what cancels a running
\* pump is its own end, a cancel message, a lost link or an expiry that came
\* before the return and whose goroutine is late, since Stop does not recall it.
StreamOutlivesDeadline ==
  [][\A r \in Requests :
       /\ Pumping(r) /\ ~cancelled[r] /\ cancelled'[r] =>
            ~Pumping(r)' \/ csess[r] = "lost" \/ cancelMsg[r] = "sent" \/ deadline[r] = "fired"
       /\ call[r] = "over" /\ deadline'[r] = "fired" => deadline[r] = "fired"]_vars

\* Every request is answered, or reaches its body: a lost message, a lost link
\* or a stream that never opens cannot leave the handler of serveUnary waiting.
HandlerSettles ==
  \A r \in Requests :
    handler[r] \in {"waiting", "claiming"} ~> handler[r] \in {"streaming", "done"}

\* The route's serial callback is never blocked for good: a queued request is
\* taken up whatever the backend does with the calls before it.
QueueDrains ==
  \A r \in Requests : (\E i \in DOMAIN queue : queue[i] = r) ~> call[r] # "none"

\* When the connector's pump has gone, for whatever reason, the client's
\* handler does not stay in its select: it sees the end, the error or the link,
\* unless the client stays connected and never takes a chunk that came before.
ReaderSeesEnd ==
  \A r \in Requests :
    handler[r] \in {"streaming", "writing"} /\ pump[r] \in {"ended", "gone"} ~>
      handler[r] = "done" \/ [](handler[r] = "writing" /\ ~clientGone[r])

\* A lost data tunnel stops the backend read of every response it carried, a
\* read the backend never answers included (the watcher of streamResponse).
LinkLossStopsPump ==
  \A r \in Requests : csess[r] = "lost" /\ Pumping(r) ~> ~Pumping(r)

\* "Mid-stream, a client disconnect closes the session, which cancels the
\* backend body read" (docs/architecture.md).
DisconnectStopsBackend ==
  \A r \in Requests : outcome[r] = "gone" ~> ~Pumping(r)
=============================================================================
