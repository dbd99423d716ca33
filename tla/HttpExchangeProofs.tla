------------------------- MODULE HttpExchangeProofs -------------------------
(***************************************************************************)
(* The connector's in-flight table and its deadlines, for any number of    *)
(* requests, any window, body and set of faults.                           *)
(***************************************************************************)
EXTENDS HttpExchange, TLAPS

Calls == {"none", "do", "headers", "body", "returning", "over"}
Pumps == {"none", "read", "credit", "write", "closing", "ended", "gone"}

\* The types of the variables the calls are tracked with.
CallTypes ==
  /\ handler \in [Requests -> {"idle", "waiting", "claiming", "streaming", "writing", "done"}]
  /\ call \in [Requests -> Calls] /\ pump \in [Requests -> Pumps]
  /\ deadline \in [Requests -> {"off", "armed", "fired"}]
  /\ cancelled \in [Requests -> BOOLEAN]
  /\ queue \in Seq(Requests) /\ inflight \subseteq Requests

(***************************************************************************)
(* A request waits at most once and is not yet called while it waits; the  *)
(* pump starts when forward is about to return; a deadline is armed only   *)
(* within the callback.  CallTracked alone is not inductive: a request that   *)
(* was delivered twice would return from its callback while it still       *)
(* pumps.                                                                  *)
(***************************************************************************)
QueueInv ==
  /\ \A i, j \in 1..Len(queue) : queue[i] = queue[j] => i = j
  /\ \A i \in 1..Len(queue) : call[queue[i]] = "none" /\ handler[queue[i]] # "idle"
OrderInv == \A r \in Requests :
  /\ handler[r] = "idle" => call[r] = "none"
  /\ pump[r] # "none" => call[r] \in {"returning", "over"}
  /\ deadline[r] = "armed" => InCallback(r)
CallInv == CallTypes /\ QueueInv /\ OrderInv /\ CallTracked

LEMMA InitInv == Init => CallInv
<1>. SUFFICES ASSUME Init PROVE CallInv
  OBVIOUS
<1>1. cancelled \in [Requests -> BOOLEAN]
  BY Zenon DEF Init
<1>2. CallTypes
  BY <1>1 DEF Init, CallTypes, Calls, Pumps
<1>3. QueueInv /\ OrderInv /\ CallTracked
  BY DEF Init, QueueInv, OrderInv, CallTracked, InCallback, AtBackend, Pumping
<1>. QED
  BY <1>2, <1>3 DEF CallInv

\* The queue holds requests; taking its head leaves the others in place.
LEMMA QueueHead ==
  ASSUME CallTypes, queue # <<>>
  PROVE  /\ Len(queue) \in Nat /\ 1 \in 1..Len(queue) /\ Head(queue) = queue[1]
         /\ Tail(queue) \in Seq(Requests) /\ Len(Tail(queue)) = Len(queue) - 1
         /\ \A i \in 1..(Len(queue) - 1) : Tail(queue)[i] = queue[i + 1]
         /\ \A i \in 1..Len(queue) : queue[i] \in Requests
<1>1. queue \in Seq(Requests)
  BY DEF CallTypes
<1>2. Len(queue) \in Nat /\ Len(queue) # 0
  BY <1>1
<1>. QED
  BY <1>1, <1>2

\* Steps of the handler and of the timers: no call starts, moves or ends.
LEMMA HandlerStep ==
  ASSUME CallInv, UNCHANGED <<queue, inflight, call, pump>>,
         NEW r \in Requests,
         \/ handler' = handler
         \/ \E x \in {"waiting", "claiming", "streaming", "writing", "done"} : handler' = [handler EXCEPT ![r] = x],
         deadline' = deadline \/ \E x \in {"off", "fired"} : deadline' = [deadline EXCEPT ![r] = x],
         cancelled' \in [Requests -> BOOLEAN]
  PROVE  CallInv'
<1>1. CallTypes'
  BY DEF CallInv, CallTypes
<1>2. \A q \in Requests : /\ handler[q] # "idle" => handler'[q] # "idle"
                          /\ handler'[q] = "idle" => handler[q] = "idle"
                          /\ deadline'[q] = "armed" => deadline[q] = "armed"
  BY DEF CallInv, CallTypes
<1>3. \A i \in 1..Len(queue) : queue[i] \in Requests
  BY DEF CallInv, CallTypes
<1>4. QueueInv'
  BY <1>2, <1>3 DEF CallInv, QueueInv
<1>5. OrderInv'
  BY <1>2 DEF CallInv, OrderInv, InCallback, AtBackend
<1>6. CallTracked'
  BY DEF CallInv, CallTracked, InCallback, AtBackend, Pumping
<1>. QED
  BY <1>1, <1>4, <1>5, <1>6 DEF CallInv

\* nats.Request appends a request that has not been sent before.
LEMMA SendStep ==
  ASSUME CallInv, NEW r \in Requests, SendRequest(r)
  PROVE  CallInv'
<1>0. /\ handler[r] = "idle" /\ handler' = [handler EXCEPT ![r] = "waiting"]
      /\ UNCHANGED <<inflight, call, pump, deadline, cancelled>>
  BY DEF SendRequest, callVars, pumpVars
<1>1. CASE UNCHANGED queue
  BY <1>0, <1>1, HandlerStep DEF CallInv, CallTypes
<1>2. CASE queue' = Append(queue, r)
  <2>1. queue \in Seq(Requests) /\ Len(queue) \in Nat
    BY DEF CallInv, CallTypes
  <2>2. /\ Len(queue') = Len(queue) + 1 /\ queue'[Len(queue) + 1] = r
        /\ \A i \in 1..Len(queue) : queue'[i] = queue[i] /\ queue[i] \in Requests
        /\ queue' \in Seq(Requests)
    BY <1>2, <2>1
  <2>3. \A i \in 1..Len(queue) : queue[i] # r
    BY <1>0 DEF CallInv, QueueInv
  <2>4. \A i \in 1..(Len(queue) + 1) : i \in 1..Len(queue) \/ i = Len(queue) + 1
    BY <2>1
  <2>5. \A q \in Requests : handler'[q] = IF q = r THEN "waiting" ELSE handler[q]
    BY <1>0 DEF CallInv, CallTypes
  <2>6. CallTypes'
    BY <1>0, <2>2 DEF CallInv, CallTypes
  <2>7. call[r] = "none"
    BY <1>0 DEF CallInv, OrderInv
  <2>8. \A i, j \in 1..Len(queue') : queue'[i] = queue'[j] => i = j
    BY <2>2, <2>3, <2>4 DEF CallInv, QueueInv
  <2>9. \A i \in 1..Len(queue') : call'[queue'[i]] = "none" /\ handler'[queue'[i]] # "idle"
    BY <1>0, <2>2, <2>4, <2>5, <2>7 DEF CallInv, QueueInv
  <2>10. OrderInv' /\ CallTracked'
    BY <1>0, <2>5 DEF CallInv, OrderInv, CallTracked, InCallback, AtBackend, Pumping
  <2>. QED
    BY <2>6, <2>8, <2>9, <2>10 DEF CallInv, QueueInv
<1>. QED
  BY <1>1, <1>2 DEF SendRequest

\* handle takes the next request and forward tracks it.
LEMMA StartStep ==
  ASSUME CallInv, StartCall
  PROVE  CallInv'
<1>. DEFINE r == Head(queue)
<1>0. /\ queue # <<>> /\ queue' = Tail(queue) /\ inflight' = inflight \cup {r}
      /\ call' = [call EXCEPT ![r] = "do"] /\ deadline' = [deadline EXCEPT ![r] = "armed"]
      /\ UNCHANGED <<handler, pump, cancelled>>
  BY DEF StartCall, edgeVars, pumpVars
<1>1. /\ Len(queue) \in Nat /\ 1 \in 1..Len(queue) /\ r = queue[1] /\ r \in Requests
      /\ queue' \in Seq(Requests) /\ Len(queue') = Len(queue) - 1
      /\ \A i \in 1..(Len(queue) - 1) : queue'[i] = queue[i + 1] /\ queue[i + 1] \in Requests
  BY <1>0, QueueHead DEF CallInv
<1>2. \A i \in 1..Len(queue') : i \in 1..(Len(queue) - 1) /\ i + 1 \in 1..Len(queue) /\ i + 1 # 1
  BY <1>1
<1>3. call[r] = "none" /\ pump[r] = "none" /\ handler[r] # "idle"
  BY <1>1 DEF CallInv, QueueInv, OrderInv
<1>4. \A i \in 1..Len(queue') : queue'[i] # r
  BY <1>1, <1>2 DEF CallInv, QueueInv
<1>5. \A q \in Requests : /\ call'[q] = IF q = r THEN "do" ELSE call[q]
                          /\ deadline'[q] = IF q = r THEN "armed" ELSE deadline[q]
  BY <1>0 DEF CallInv, CallTypes
<1>6. CallTypes'
  BY <1>0, <1>1 DEF CallInv, CallTypes, Calls
<1>7. \A i, j \in 1..Len(queue') : queue'[i] = queue'[j] => i = j
  <2>. TAKE i, j \in 1..Len(queue')
  <2>1. queue'[i] = queue[i + 1] /\ queue'[j] = queue[j + 1]
    BY <1>1, <1>2
  <2>2. i + 1 \in 1..Len(queue) /\ j + 1 \in 1..Len(queue)
    BY <1>2
  <2>3. queue[i + 1] = queue[j + 1] => i + 1 = j + 1
    BY <2>2 DEF CallInv, QueueInv
  <2>4. i \in Int /\ j \in Int
    OBVIOUS
  <2>. QED
    BY <2>1, <2>3, <2>4
<1>8. \A i \in 1..Len(queue') : call'[queue'[i]] = "none" /\ handler'[queue'[i]] # "idle"
  BY <1>0, <1>1, <1>2, <1>4, <1>5 DEF CallInv, QueueInv
<1>9. OrderInv' /\ CallTracked'
  BY <1>0, <1>3, <1>5 DEF CallInv, OrderInv, CallTracked, InCallback, AtBackend, Pumping
<1>. QED
  BY <1>6, <1>7, <1>8, <1>9 DEF CallInv, QueueInv

\* A step of one call: only r's entries change, and r is not waiting.
LEMMA CallStep ==
  ASSUME CallInv, CallTypes', UNCHANGED <<handler, queue>>, NEW r \in Requests,
         call[r] # "none", call'[r] # "none",
         pump'[r] # "none" => call'[r] \in {"returning", "over"},
         deadline'[r] = "armed" => InCallback(r)',
         r \in inflight' <=> AtBackend(r)' \/ Pumping(r)',
         \A q \in Requests \ {r} : /\ call'[q] = call[q] /\ pump'[q] = pump[q]
                                   /\ deadline'[q] = deadline[q]
                                   /\ q \in inflight' <=> q \in inflight
  PROVE  CallInv'
<1>1. \A i \in 1..Len(queue) : queue[i] \in Requests /\ queue[i] # r
  BY DEF CallInv, CallTypes, QueueInv
<1>2. QueueInv'
  BY <1>1 DEF CallInv, QueueInv
<1>3. OrderInv' /\ CallTracked'
  BY DEF CallInv, OrderInv, CallTracked, InCallback, AtBackend, Pumping
<1>. QED
  BY <1>2, <1>3 DEF CallInv

\* A Boolean table with one entry set.
LEMMA SetCancelled ==
  ASSUME CallTypes, NEW r, cancelled' = [cancelled EXCEPT ![r] = TRUE]
  PROVE  cancelled' \in [Requests -> BOOLEAN]
<1>1. cancelled \in [Requests -> BOOLEAN]
  BY DEF CallTypes
<1>. QED
  BY <1>1, Zenon

\* forward returns: its call was running and its pump was never started.
LEMMA ReturnStep ==
  ASSUME CallInv, NEW r \in Requests, call[r] \in {"do", "headers", "body"},
         call' = [call EXCEPT ![r] = "over"], deadline' = [deadline EXCEPT ![r] = "off"],
         inflight' = inflight \ {r}, cancelled' = [cancelled EXCEPT ![r] = TRUE],
         UNCHANGED <<handler, queue, pump>>
  PROVE  CallInv'
<1>1. CallTypes'
  BY SetCancelled DEF CallInv, CallTypes, Calls
<1>2. pump[r] = "none"
  BY DEF CallInv, OrderInv
<1>3. call'[r] = "over" /\ deadline'[r] = "off" /\ pump'[r] = "none"
  BY <1>2 DEF CallInv, CallTypes
<1>4. \A q \in Requests \ {r} : call'[q] = call[q] /\ deadline'[q] = deadline[q]
  BY DEF CallInv, CallTypes
<1>5. r \in inflight' <=> AtBackend(r)' \/ Pumping(r)'
  BY <1>3 DEF InCallback, AtBackend, Pumping
<1>. QED
  BY <1>1, <1>3, <1>4, <1>5, CallStep

\* The pump moves on, or returns.
LEMMA PumpStep ==
  ASSUME CallInv, NEW r \in Requests, Pumping(r), UNCHANGED <<handler, queue, call, deadline>>,
         \/ PumpReturns(r)
         \/ /\ \E x \in {"read", "credit", "write", "closing"} : pump' = [pump EXCEPT ![r] = x]
            /\ UNCHANGED <<cancelled, inflight>>
  PROVE  CallInv'
<1>1. /\ call[r] \in {"returning", "over"} /\ r \in inflight
      /\ deadline[r] = "armed" => InCallback(r)
  BY DEF CallInv, OrderInv, CallTracked, Pumping, InCallback, AtBackend
<1>2. CASE PumpReturns(r)
  <2>1. /\ inflight' = inflight \ {r} /\ cancelled' = [cancelled EXCEPT ![r] = TRUE]
        /\ \E x \in {"ended", "gone"} : pump' = [pump EXCEPT ![r] = x]
    BY <1>2 DEF PumpReturns
  <2>2. CallTypes'
    BY <2>1, SetCancelled DEF CallInv, CallTypes, Pumps
  <2>3. pump'[r] \in {"ended", "gone"} /\ \A q \in Requests \ {r} : pump'[q] = pump[q]
    BY <2>1 DEF CallInv, CallTypes
  <2>4. r \in inflight' <=> AtBackend(r)' \/ Pumping(r)'
    BY <1>1, <2>1, <2>3 DEF InCallback, AtBackend, Pumping
  <2>. QED
    BY <1>1, <2>1, <2>2, <2>3, <2>4, CallStep DEF InCallback, AtBackend
<1>3. CASE /\ \E x \in {"read", "credit", "write", "closing"} : pump' = [pump EXCEPT ![r] = x]
           /\ UNCHANGED <<cancelled, inflight>>
  <2>1. CallTypes'
    BY <1>3 DEF CallInv, CallTypes, Pumps
  <2>2. /\ pump'[r] \in {"read", "credit", "write", "closing"}
        /\ \A q \in Requests \ {r} : pump'[q] = pump[q]
    BY <1>3 DEF CallInv, CallTypes
  <2>3. r \in inflight' <=> AtBackend(r)' \/ Pumping(r)'
    BY <1>1, <1>3, <2>2 DEF InCallback, AtBackend, Pumping
  <2>. QED
    BY <1>1, <1>3, <2>1, <2>2, <2>3, CallStep DEF InCallback, AtBackend
<1>. QED
  BY <1>2, <1>3

\* The callback moves on: the backend answers, the response streams, or forward
\* returns and leaves the call to the pump, which may have ended by then.
LEMMA CallbackStep ==
  ASSUME CallInv, NEW r \in Requests,
         BackendHeaders(r) \/ StreamOpens(r) \/ StreamReturns(r) \/ StreamFallsBack(r)
  PROVE  CallInv'
<1>. USE DEF edgeVars, natsVars, callVars, pumpVars
<1>1. CASE BackendHeaders(r) \/ StreamFallsBack(r)
  <2>0. AtBackend(r) /\ r \in inflight /\ pump[r] = "none"
    BY <1>1 DEF BackendHeaders, StreamFallsBack, AtBackend, CallInv, CallTracked, OrderInv
  <2>1. /\ \E x \in {"headers", "body"} : call' = [call EXCEPT ![r] = x]
        /\ UNCHANGED <<handler, queue, inflight, pump, deadline, cancelled>>
    BY <1>1 DEF BackendHeaders, StreamFallsBack
  <2>2. CallTypes'
    BY <2>1 DEF CallInv, CallTypes, Calls
  <2>3. /\ call'[r] \in {"headers", "body"} /\ call[r] # "none"
        /\ \A q \in Requests \ {r} : call'[q] = call[q]
    BY <2>0, <2>1 DEF CallInv, CallTypes, AtBackend
  <2>4. AtBackend(r)' /\ InCallback(r)'
    BY <2>3 DEF AtBackend, InCallback
  <2>. QED
    BY <2>0, <2>1, <2>2, <2>3, <2>4, CallStep
<1>2. CASE StreamOpens(r)
  <2>0. AtBackend(r) /\ r \in inflight
    BY <1>2 DEF StreamOpens, AtBackend, CallInv, CallTracked
  <2>1. /\ call' = [call EXCEPT ![r] = "returning"] /\ pump' = [pump EXCEPT ![r] = "read"]
        /\ UNCHANGED <<handler, queue, inflight, cancelled, deadline>>
    BY <1>2 DEF StreamOpens
  <2>2. CallTypes'
    BY <2>1 DEF CallInv, CallTypes, Calls, Pumps
  <2>3. /\ call'[r] = "returning" /\ pump'[r] = "read" /\ call[r] # "none"
        /\ \A q \in Requests \ {r} : call'[q] = call[q] /\ pump'[q] = pump[q]
    BY <2>0, <2>1 DEF CallInv, CallTypes, AtBackend
  <2>4. Pumping(r)' /\ InCallback(r)'
    BY <2>3 DEF Pumping, InCallback
  <2>. QED
    BY <2>0, <2>1, <2>2, <2>3, <2>4, CallStep
<1>3. CASE StreamReturns(r)
  <2>1. /\ call[r] = "returning" /\ call' = [call EXCEPT ![r] = "over"]
        /\ deadline' = [deadline EXCEPT ![r] = IF @ = "armed" THEN "off" ELSE @]
        /\ UNCHANGED <<handler, queue, inflight, cancelled, pump>>
    BY <1>3 DEF StreamReturns, StopDeadline
  <2>2. CallTypes'
    BY <2>1 DEF CallInv, CallTypes, Calls
  <2>3. /\ call'[r] = "over" /\ deadline'[r] # "armed"
        /\ \A q \in Requests \ {r} : call'[q] = call[q] /\ deadline'[q] = deadline[q]
    BY <2>1 DEF CallInv, CallTypes
  <2>4. r \in inflight' <=> AtBackend(r)' \/ Pumping(r)'
    BY <2>1, <2>3 DEF CallInv, CallTracked, AtBackend, Pumping
  <2>. QED
    BY <2>1, <2>2, <2>3, <2>4, CallStep
<1>. QED
  BY <1>1, <1>2, <1>3

LEMMA KeptStep ==
  ASSUME CallInv, UNCHANGED <<handler, queue, inflight, call, pump, deadline, cancelled>>
  PROVE  CallInv'
BY DEF CallInv, CallTypes, QueueInv, OrderInv, CallTracked, InCallback, AtBackend, Pumping

-----------------------------------------------------------------------------
LEMMA EdgeSteps ==
  ASSUME CallInv, NEW r \in Requests, Edge(r) \/ NoResponders(r) \/ StreamWritten(r)
  PROVE  CallInv'
<1>1. UNCHANGED <<queue, inflight, call, pump, deadline, cancelled>>
  BY DEF Edge, NoResponders, GiveUp, TakeReply, Claim, ClaimTimeout, StreamClientGone,
     StreamSessionDone, StreamData, StreamWritten, StreamWriteFails, StreamEnd, natsVars, callVars, pumpVars
<1>2. \/ handler' = handler
      \/ \E x \in {"waiting", "claiming", "streaming", "writing", "done"} : handler' = [handler EXCEPT ![r] = x]
  BY DEF Edge, NoResponders, GiveUp, TakeReply, Claim, ClaimTimeout, StreamClientGone,
     StreamSessionDone, StreamData, StreamWritten, StreamWriteFails, StreamEnd, EndStream, Answer
<1>3. cancelled' \in [Requests -> BOOLEAN]
  BY <1>1 DEF CallInv, CallTypes
<1>. QED
  BY <1>1, <1>2, <1>3, HandlerStep

LEMMA TimerSteps ==
  ASSUME CallInv, NEW r \in Requests, Timers(r) \/ WatchDone(r) \/ Network(r)
  PROVE  CallInv'
<1>1. UNCHANGED <<handler, queue, inflight, call, pump>>
  BY DEF Timers, WatchDone, Network, ClaimTimerFires, ClaimTimerCloses, DeadlineFires, DeadlineCancels, Cancel,
     CancelLost, edgeVars, natsVars, callVars, pumpVars
<1>2. deadline' = deadline \/ \E x \in {"off", "fired"} : deadline' = [deadline EXCEPT ![r] = x]
  BY DEF Timers, WatchDone, Network, ClaimTimerFires, ClaimTimerCloses, DeadlineFires, DeadlineCancels, Cancel,
     CancelLost, callVars
<1>3. cancelled' \in [Requests -> BOOLEAN]
  <2>1. \/ cancelled' = cancelled \/ cancelled' = [cancelled EXCEPT ![r] = TRUE]
        \/ cancelled' = [cancelled EXCEPT ![r] = @ \/ r \in inflight]
    BY DEF Timers, WatchDone, Network, ClaimTimerFires, ClaimTimerCloses, DeadlineFires, DeadlineCancels, Cancel,
       CancelLost, callVars
  <2>2. cancelled \in [Requests -> BOOLEAN]
    BY DEF CallInv, CallTypes
  <2>. QED
    BY <2>1, <2>2, Zenon
<1>. QED
  BY <1>1, <1>2, <1>3, HandlerStep

LEMMA CallbackSteps ==
  ASSUME CallInv, NEW r \in Requests, Callback(r)
  PROVE  CallInv'
<1>1. CASE BackendFails(r) \/ InlineBody(r)
  <2>1. call[r] \in {"do", "headers", "body"} /\ UNCHANGED <<handler, queue, pump>>
    BY <1>1 DEF BackendFails, InlineBody, edgeVars, pumpVars
  <2>2. /\ call' = [call EXCEPT ![r] = "over"] /\ deadline' = [deadline EXCEPT ![r] = "off"]
        /\ inflight' = inflight \ {r} /\ cancelled' = [cancelled EXCEPT ![r] = TRUE]
    BY <1>1 DEF BackendFails, InlineBody, Return
  <2>. QED
    BY <2>1, <2>2, ReturnStep
<1>. QED
  BY <1>1, CallbackStep DEF Callback

LEMMA PumpSteps ==
  ASSUME CallInv, NEW r \in Requests, Pump(r) \/ PumpRead(r) \/ PumpEOF(r) \/ BodyBreaks(r)
  PROVE  CallInv'
<1>1. Pumping(r) /\ UNCHANGED <<handler, queue, call, deadline>>
  BY DEF Pump, PumpRead, PumpEOF, BodyBreaks, PumpAborted, PumpFails, PumpCredit, PumpClosed,
     PumpWrite, PumpClose, Pumping, edgeVars, natsVars, callVars
<1>2. \/ PumpReturns(r)
      \/ /\ \E x \in {"read", "credit", "write", "closing"} : pump' = [pump EXCEPT ![r] = x]
         /\ UNCHANGED <<cancelled, inflight>>
  <2>1. CASE PumpRead(r) \/ PumpCredit(r) \/ PumpEOF(r)
    BY <2>1 DEF PumpRead, PumpCredit, PumpEOF, callVars
  <2>2. CASE PumpWrite(r)
    BY <2>2 DEF PumpWrite
  <2>3. CASE PumpClosed(r) \/ PumpClose(r) \/ PumpAborted(r) \/ BodyBreaks(r)
    BY <2>3 DEF PumpClosed, PumpClose, PumpAborted, BodyBreaks, PumpFails
  <2>. QED
    BY <2>1, <2>2, <2>3 DEF Pump
<1>. QED
  BY <1>1, <1>2, PumpStep

LEMMA OtherSteps ==
  ASSUME \/ EdgeOpen \/ EdgeDispatch \/ ConnectorDispatch \/ LinkBreaks \/ EdgeNotices
         \/ ConnectorNotices \/ Redial \/ Finished \/ UNCHANGED vars
         \/ \E r \in Requests : ClientDisconnects(r)
  PROVE  UNCHANGED <<handler, queue, inflight, call, pump, deadline, cancelled>>
BY DEF EdgeOpen, EdgeDispatch, ConnectorDispatch, LinkBreaks, EdgeNotices, ConnectorNotices,
   EdgeCloses, ConnectorCloses, Redial, Finished, ClientDisconnects, vars, edgeVars, natsVars,
   callVars, pumpVars

LEMMA InvStep == CallInv /\ [Next]_vars => CallInv'
<1>. SUFFICES ASSUME CallInv, [Next]_vars PROVE CallInv'
  OBVIOUS
<1>1. ASSUME NEW r \in Requests, Edge(r) \/ Timers(r) \/ Callback(r) \/ Pump(r) \/ WatchDone(r)
                                 \/ Network(r) \/ Outside(r)
      PROVE  CallInv'
  BY <1>1, EdgeSteps, TimerSteps, CallbackSteps, CallbackStep, PumpSteps, SendStep, OtherSteps,
     KeptStep DEF Outside
<1>2. CASE StartCall
  BY <1>2, StartStep
<1>3. CASE ~StartCall /\ ~\E r \in Requests : \/ Edge(r) \/ Timers(r) \/ Callback(r) \/ Pump(r)
                                              \/ WatchDone(r) \/ Network(r) \/ Outside(r)
  BY <1>3, OtherSteps, KeptStep DEF Next
<1>. QED
  BY <1>1, <1>2, <1>3

LEMMA Invariance == Spec => []CallInv
BY InitInv, InvStep, PTL DEF Spec

(***************************************************************************)
(* forward, track, cancel and the pump of streamResponse: the in-flight    *)
(* table holds exactly the calls whose backend work is running, for any    *)
(* number of requests and across the hand-over from callback to pump.      *)
(***************************************************************************)
THEOREM CallsTracked == Spec => []CallTracked
<1>1. CallInv => CallTracked
  BY DEF CallInv
<1>. QED
  BY <1>1, Invariance, PTL

\* What cancels the backend of a response that streams.
LEMMA CancelStep ==
  ASSUME CallInv, [Next]_vars, NEW r \in Requests, Pumping(r), cancelled'[r] # cancelled[r]
  PROVE  ~Pumping(r)' \/ csess[r] = "lost" \/ cancelMsg[r] = "sent" \/ deadline[r] = "fired"
<1>1. ~AtBackend(r)
  BY DEF CallInv, OrderInv, Pumping, AtBackend
<1>2. cancelled \in [Requests -> BOOLEAN] /\ pump \in [Requests -> Pumps]
  BY DEF CallInv, CallTypes
<1>3. ASSUME NEW q \in Requests, Timers(q) \/ WatchDone(q) \/ Network(q)
      PROVE  csess[r] = "lost" \/ cancelMsg[r] = "sent" \/ deadline[r] = "fired"
  <2>1. CASE UNCHANGED cancelled
    BY <2>1
  <2>2. CASE DeadlineCancels(q)
    BY <1>2, <2>2 DEF DeadlineCancels
  <2>3. CASE WatchDone(q)
    BY <1>2, <2>3 DEF WatchDone
  <2>4. CASE Cancel(q)
    BY <1>2, <2>4 DEF Cancel
  <2>. QED
    BY <1>3, <2>1, <2>2, <2>3, <2>4 DEF Timers, Network, ClaimTimerFires, ClaimTimerCloses,
       DeadlineFires, CancelLost, callVars
<1>4. ASSUME NEW q \in Requests, Callback(q)
      PROVE  FALSE
  <2>1. CASE BackendFails(q) \/ InlineBody(q)
    <3>1. AtBackend(q) /\ cancelled' = [cancelled EXCEPT ![q] = TRUE]
      BY <2>1 DEF BackendFails, InlineBody, Return, AtBackend
    <3>. QED
      BY <1>1, <1>2, <3>1
  <2>2. CASE StreamOpens(q) \/ StreamReturns(q) \/ StreamFallsBack(q)
    BY <2>2 DEF StreamOpens, StreamReturns, StreamFallsBack
  <2>. QED
    BY <1>4, <2>1, <2>2 DEF Callback
<1>5. ASSUME NEW q \in Requests, Pump(q) \/ PumpRead(q) \/ PumpEOF(q) \/ BodyBreaks(q)
      PROVE  ~Pumping(r)'
  <2>1. CASE UNCHANGED cancelled
    BY <2>1
  <2>2. CASE PumpReturns(q)
    <3>1. q = r
      BY <1>2, <2>2 DEF PumpReturns
    <3>2. pump'[r] \in {"ended", "gone"}
      BY <1>2, <2>2, <3>1 DEF PumpReturns
    <3>. QED
      BY <3>2 DEF Pumping
  <2>. QED
    BY <1>5, <2>1, <2>2 DEF Pump, PumpRead, PumpEOF, BodyBreaks, PumpAborted, PumpFails, PumpCredit,
       PumpClosed, PumpWrite, PumpClose, callVars
<1>6. ASSUME NEW q \in Requests, \/ Edge(q) \/ NoResponders(q) \/ SendRequest(q) \/ BackendHeaders(q)
                                 \/ StreamWritten(q)
      PROVE  FALSE
  BY <1>6 DEF Edge, NoResponders, SendRequest, BackendHeaders, GiveUp, TakeReply, Claim,
     ClaimTimeout, StreamClientGone, StreamSessionDone, StreamData, StreamWritten,
     StreamWriteFails, StreamEnd, callVars
<1>7. ~StartCall
  BY DEF StartCall
<1>8. ~\/ EdgeOpen \/ EdgeDispatch \/ ConnectorDispatch \/ LinkBreaks \/ EdgeNotices
       \/ ConnectorNotices \/ Redial \/ Finished \/ UNCHANGED vars
       \/ \E q \in Requests : ClientDisconnects(q)
  BY OtherSteps
<1>. QED
  BY <1>3, <1>4, <1>5, <1>6, <1>7, <1>8 DEF Next, Outside

\* The timer expires only while it is armed, that is within the callback.
LEMMA ExpiryStep ==
  ASSUME CallInv, [Next]_vars, NEW r \in Requests, call[r] = "over", deadline'[r] = "fired"
  PROVE  deadline[r] = "fired"
<1>1. deadline[r] # "armed" /\ deadline \in [Requests -> {"off", "armed", "fired"}]
  BY DEF CallInv, CallTypes, OrderInv, InCallback, AtBackend
<1>2. CASE UNCHANGED deadline
  BY <1>2
<1>3. ASSUME NEW q \in Requests, \/ DeadlineFires(q) \/ DeadlineCancels(q) \/ StreamReturns(q)
                                 \/ BackendFails(q) \/ InlineBody(q)
      PROVE  deadline[r] = "fired"
  <2>1. CASE DeadlineFires(q)
    BY <1>1, <2>1 DEF DeadlineFires
  <2>2. CASE DeadlineCancels(q) \/ BackendFails(q) \/ InlineBody(q)
    <3>1. deadline' = [deadline EXCEPT ![q] = "off"]
      BY <2>2 DEF DeadlineCancels, BackendFails, InlineBody, Return
    <3>. QED
      BY <1>1, <3>1
  <2>3. CASE StreamReturns(q)
    BY <1>1, <2>3 DEF StreamReturns, StopDeadline
  <2>. QED
    BY <1>3, <2>1, <2>2, <2>3
<1>4. CASE StartCall
  <2>1. deadline' = [deadline EXCEPT ![Head(queue)] = "armed"]
    BY <1>4 DEF StartCall
  <2>. QED
    BY <1>1, <2>1
<1>5. ASSUME NEW q \in Requests,
             \/ Edge(q) \/ NoResponders(q) \/ SendRequest(q) \/ BackendHeaders(q) \/ StreamWritten(q)
             \/ StreamOpens(q) \/ StreamFallsBack(q) \/ ClaimTimerFires(q) \/ ClaimTimerCloses(q)
             \/ WatchDone(q) \/ Network(q)
      PROVE  UNCHANGED deadline
  BY <1>5 DEF Edge, NoResponders, SendRequest, BackendHeaders, GiveUp, TakeReply, Claim,
     ClaimTimeout, StreamClientGone, StreamSessionDone, StreamData, StreamWritten, StreamWriteFails,
     StreamEnd, StreamOpens, StreamFallsBack, ClaimTimerFires, ClaimTimerCloses, WatchDone, Network,
     Cancel, CancelLost, callVars
<1>6. ASSUME NEW q \in Requests, Pump(q) \/ PumpRead(q) \/ PumpEOF(q) \/ BodyBreaks(q)
      PROVE  UNCHANGED deadline
  BY <1>6 DEF Pump, PumpRead, PumpEOF, BodyBreaks, PumpAborted, PumpFails, PumpCredit, PumpClosed,
     PumpWrite, PumpClose, callVars
<1>. QED
  BY <1>2, <1>3, <1>4, <1>5, <1>6, OtherSteps DEF Next, Outside, Timers, Callback

(***************************************************************************)
(* forward, its deferred deadlineTimer.Stop and the goroutines of          *)
(* streamResponse, which start before it: after forward has returned the   *)
(* timer does not expire, and a running pump is cancelled only by its own  *)
(* end, a cancel message, a lost link or an expiry from before the return. *)
(***************************************************************************)
THEOREM DeadlineDetached == Spec => StreamOutlivesDeadline
<1>. DEFINE A == \A r \in Requests :
               /\ Pumping(r) /\ ~cancelled[r] /\ cancelled'[r] =>
                    ~Pumping(r)' \/ csess[r] = "lost" \/ cancelMsg[r] = "sent" \/ deadline[r] = "fired"
               /\ call[r] = "over" /\ deadline'[r] = "fired" => deadline[r] = "fired"
<1>1. CallInv /\ [Next]_vars => A
  BY CancelStep, ExpiryStep
<1>2. CallInv /\ [Next]_vars => [A]_vars
  BY <1>1
<1>3. Spec => [][A]_vars
  BY <1>2, Invariance, PTL DEF Spec
<1>. QED
  BY <1>3 DEF StreamOutlivesDeadline
=============================================================================
