-------------------------- MODULE HttpBodyProofs ----------------------------
(***************************************************************************)
(* Streamed response bodies of HttpExchange, for any number of requests,   *)
(* any window, body and set of faults: a response that ends cleanly is the *)
(* whole body, the edge's receive queue stays within the window, and every *)
(* variable keeps its type.                                                *)
(*                                                                         *)
(* The argument counts the frames of a request in each queue they pass.    *)
(* Tokens are never made, so the data frames under way are bounded by the  *)
(* window.  Chunks are conserved while a session is reachable: a chunk     *)
(* read is in the pump's hands, under way, or given to the client.  The    *)
(* eof is written once, after the last chunk, and the queues keep the      *)
(* order, so that the handler that takes the eof finds nothing behind it   *)
(* and nothing missing before it.                                          *)
(***************************************************************************)
EXTENDS HttpExchangeProofs, FiniteSetTheorems, SequenceTheorems

-----------------------------------------------------------------------------
(* The frames of one request.                                              *)

Places(s, r, T) == {i \in 1..Len(s) : s[i].req = r /\ s[i].type \in T}
Count(s, r, T) == Cardinality(Places(s, r, T))
B(p) == IF p THEN 1 ELSE 0

Down == {"data", "eof", "close", "error"}
ToEdgeTypes == {"open", "data", "eof", "close", "error"}
ToConnectorTypes == {"window", "close", "error"}

\* Frames of type T on their way to r's handler.
Behind(r, T) == Count(toEdge, r, T) + Count(erecv[r], r, T)

-----------------------------------------------------------------------------
(* The invariant.                                                          *)

\* The types of the session's variables.
BodyTypes ==
  /\ got \in [Requests -> Nat] /\ nread \in [Requests -> 0..Body]
  /\ esess \in [Requests -> {"none", "open", "closed", "lost"}]
  /\ csess \in [Requests -> {"none", "open", "closed", "lost"}]
  /\ erecv \in [Requests -> Seq(FrameOf(Down))]
  /\ consumed \in [Requests -> 0..(AckThreshold - 1)]
  /\ credit \in [Requests -> 0..SendWindow]
  /\ eUp \in BOOLEAN /\ cUp \in BOOLEAN
  /\ toEdge \in Seq(FrameOf(ToEdgeTypes))
  /\ toConnector \in Seq(FrameOf(ToConnectorTypes))

\* The tokens the edge holds: consumed, and the one of the chunk in w.Write.
Unacked(r) == consumed[r] + B(handler[r] = "writing")

\* A session exists from StreamOpens on, which starts the pump; frames, data
\* and credit belong to a session.
SessionOf(r) ==
  /\ csess[r] = "none" <=> pump[r] = "none"
  /\ csess[r] = "none" => /\ nread[r] = 0 /\ got[r] = 0 /\ Unacked(r) = 0
                          /\ erecv[r] = <<>>
  /\ csess[r] \in {"open", "closed"} => cUp
  /\ esess[r] = "none" => erecv[r] = <<>>
  /\ \A i \in 1..Len(erecv[r]) : erecv[r][i].req = r
DownFrames ==
  /\ ~eUp => toEdge = <<>>
  /\ \A i \in 1..Len(toEdge) : csess[toEdge[i].req] # "none"
UpFrames ==
  \A i \in 1..Len(toConnector) : toConnector[i].type = "window" =>
     csess[toConnector[i].req] # "none" /\ toConnector[i].n = AckThreshold
LinkFrames == DownFrames /\ UpFrames

\* Tokens are never made; the pump writes one open, one eof, one last frame;
\* the client is not given more than was read.
Returning(r) == AckThreshold * Count(toConnector, r, {"window"})
Tokens(r) == credit[r] + B(pump[r] = "write") + Behind(r, {"data"}) + Unacked(r) + Returning(r)
Eofs(r)  == Behind(r, {"eof"}) + B(pump[r] \notin {"closing", "ended"})
Lasts(r) == Behind(r, {"close", "error"}) + B(pump[r] \notin {"ended", "gone"})
Opens(r) == Count(toEdge, r, {"open"}) + B(csess[r] = "none") + B(esess[r] # "none")
Chunks(r) == got[r] + Behind(r, {"data"}) + B(pump[r] \in {"credit", "write"})
Counted(r) == /\ Tokens(r) <= SendWindow /\ Eofs(r) <= 1 /\ Lasts(r) <= 1
              /\ Opens(r) <= 1 /\ Chunks(r) <= nread[r]

\* The open frame comes first, data before the eof.
OpenAmong(s, n, r) == \E j \in 1..n : s[j].type = "open" /\ s[j].req = r
OpenFirst ==
  /\ \A i \in 1..Len(toEdge) :
       \/ toEdge[i].type = "open" \/ esess[toEdge[i].req] # "none"
       \/ OpenAmong(toEdge, i - 1, toEdge[i].req)
  /\ \A r \in Requests : csess[r] \in {"open", "closed"} /\ eUp =>
       esess[r] # "none" \/ OpenAmong(toEdge, Len(toEdge), r)
DataFirst(s) == \A i \in 1..Len(s) : \A j \in (i + 1)..Len(s) :
  s[i].type = "eof" /\ s[j].type = "data" => s[i].req # s[j].req
EofLast == DataFirst(toEdge) /\ \A r \in Requests : DataFirst(erecv[r])

\* Nothing is lost before the end: while the session is up, and once the eof
\* is on its way, every chunk read is given to the client or is before it.
Reachable(r) == esess[r] \in {"none", "open"}
Whole(r) ==
  /\ csess[r] # "lost" /\ eUp /\ Reachable(r) => Chunks(r) = nread[r]
  /\ Count(toEdge, r, {"eof"}) > 0 /\ Reachable(r) =>
       got[r] + Behind(r, {"data"}) = nread[r]
  /\ Count(erecv[r], r, {"eof"}) > 0 /\ (Reachable(r) \/ handler[r] # "done") =>
       got[r] + Count(erecv[r], r, {"data"}) = nread[r]

\* The client has been told that the response is complete.
CleanEnd(r) == outcome[r] = "clean" =>
  handler[r] = "done" /\ pump[r] \in {"closing", "ended"} /\ got[r] = nread[r]

BodyInv ==
  /\ BodyTypes /\ LinkFrames /\ OpenFirst /\ EofLast
  /\ \A r \in Requests : SessionOf(r) /\ Counted(r) /\ Whole(r) /\ CleanEnd(r)

-----------------------------------------------------------------------------
(* Counting the frames of a request in a queue.                            *)

\* A queue holds a natural number of frames of a request.
LEMMA CountNat ==
  ASSUME NEW F, NEW s \in Seq(F), NEW r, NEW T
  PROVE  IsFiniteSet(Places(s, r, T)) /\ Count(s, r, T) \in Nat
<1>1. Len(s) \in Nat
  BY LenProperties
<1>2. IsFiniteSet(1..Len(s))
  BY <1>1, FS_Interval
<1>3. Places(s, r, T) \in SUBSET (1..Len(s))
  BY DEF Places
<1>4. IsFiniteSet(Places(s, r, T))
  BY <1>2, <1>3, FS_Subset
<1>. QED
  BY <1>4, FS_CardinalityType DEF Count

\* No frame is counted where none is the request's.
LEMMA CountNone ==
  ASSUME NEW s, NEW r, NEW T, \A i \in 1..Len(s) : s[i].req # r \/ s[i].type \notin T
  PROVE  Count(s, r, T) = 0
<1>1. Places(s, r, T) = {}
  BY DEF Places
<1>. QED
  BY <1>1, FS_EmptySet DEF Count

\* Nor in an empty queue.
LEMMA CountEmpty ==
  ASSUME NEW r, NEW T
  PROVE  Count(<<>>, r, T) = 0
BY CountNone

\* A frame that is in the queue is counted.
LEMMA CountSome ==
  ASSUME NEW F, NEW s \in Seq(F), NEW r, NEW T, NEW i \in 1..Len(s), s[i].req = r, s[i].type \in T
  PROVE  Count(s, r, T) > 0
<1>1. IsFiniteSet(Places(s, r, T)) /\ Count(s, r, T) \in Nat
  BY CountNat
<1>2. Places(s, r, T) # {}
  BY DEF Places
<1>3. Cardinality(Places(s, r, T)) # 0
  BY <1>1, <1>2, FS_EmptySet
<1>. QED
  BY <1>1, <1>3 DEF Count

\* WriteFrame, and dispatch into a receive queue, count a frame once.
LEMMA CountAppend ==
  ASSUME NEW F, NEW s \in Seq(F), NEW f \in F, NEW r, NEW T
  PROVE  Count(Append(s, f), r, T) = Count(s, r, T) + B(f.req = r /\ f.type \in T)
<1>1. /\ Len(s) \in Nat
      /\ Len(Append(s, f)) = Len(s) + 1
      /\ Append(s, f)[Len(s) + 1] = f
      /\ \A i \in 1..Len(s) : Append(s, f)[i] = s[i]
  BY LenProperties, AppendProperties
<1>2. IsFiniteSet(Places(s, r, T)) /\ Count(s, r, T) \in Nat
  BY CountNat
<1>3. Len(s) + 1 \notin Places(s, r, T)
  BY <1>1 DEF Places
<1>4. /\ Count(s, r, T) = Cardinality(Places(s, r, T))
      /\ Count(Append(s, f), r, T) = Cardinality(Places(Append(s, f), r, T))
  BY DEF Count
<1>5. CASE f.req = r /\ f.type \in T
  <2>1. Places(Append(s, f), r, T) = Places(s, r, T) \cup {Len(s) + 1}
    BY <1>1, <1>5 DEF Places
  <2>2. Cardinality(Places(Append(s, f), r, T)) = Cardinality(Places(s, r, T)) + 1
    BY <1>2, <1>3, <2>1, FS_AddElement
  <2>. QED
    BY <1>4, <1>5, <2>2 DEF B
<1>6. CASE ~(f.req = r /\ f.type \in T)
  <2>1. Places(Append(s, f), r, T) = Places(s, r, T)
    BY <1>1, <1>6 DEF Places
  <2>. QED
    BY <1>2, <1>4, <1>6, <2>1 DEF B
<1>. QED
  BY <1>5, <1>6

\* Taking the first frame uncounts it.
LEMMA CountTail ==
  ASSUME NEW F, NEW s \in Seq(F), s # <<>>, NEW r, NEW T
  PROVE  Count(s, r, T) = Count(Tail(s), r, T) + B(Head(s).req = r /\ Head(s).type \in T)
<1> DEFINE S == Places(s, r, T)
           R == Places(Tail(s), r, T)
           U == S \ {1}
           shift == [i \in R |-> i + 1]
<1>1. /\ Len(s) \in Nat \ {0}
      /\ Tail(s) \in Seq(F)
      /\ Len(Tail(s)) = Len(s) - 1
      /\ \A i \in 1..Len(Tail(s)) : Tail(s)[i] = s[i + 1]
      /\ Head(s) = s[1]
  BY EmptySeq, HeadTailProperties, LenProperties
<1>2. IsFiniteSet(S) /\ IsFiniteSet(R) /\ Count(Tail(s), r, T) \in Nat
  BY <1>1, CountNat
<1>3. shift \in [R -> U]
  BY <1>1 DEF Places
<1>4. \A i, j \in R : shift[i] = shift[j] => i = j
  BY <1>1 DEF Places
<1>5. \A j \in U : \E i \in R : shift[i] = j
  <2>1. SUFFICES ASSUME NEW j \in U PROVE j - 1 \in R /\ shift[j - 1] = j
    OBVIOUS
  <2>. QED
    BY <1>1 DEF Places
<1>6. ExistsBijection(R, U)
  BY <1>3, <1>4, <1>5 DEF ExistsBijection, Bijection, Injection, Surjection, IsInjective
<1>7. Cardinality(U) = Cardinality(R)
  BY <1>2, <1>6, FS_Bijection
<1>8. Cardinality(U) = IF 1 \in S THEN Cardinality(S) - 1 ELSE Cardinality(S)
  BY <1>2, FS_RemoveElement
<1>9. 1 \in S <=> Head(s).req = r /\ Head(s).type \in T
  BY <1>1 DEF Places
<1>10. Count(s, r, T) = Cardinality(S) /\ Count(Tail(s), r, T) = Cardinality(R)
  BY DEF Count
<1>11. Count(s, r, T) \in Nat
  BY CountNat
<1>. QED
  BY <1>2, <1>7, <1>8, <1>9, <1>10, <1>11 DEF B

\* A queue of r's frames of three kinds is as long as the three counts.
LEMMA CountThree ==
  ASSUME NEW F, NEW s \in Seq(F), NEW r, NEW T, NEW U, NEW V,
         T \cap U = {}, (T \cup U) \cap V = {},
         \A i \in 1..Len(s) : s[i].req = r /\ s[i].type \in (T \cup U) \cup V
  PROVE  Len(s) = Count(s, r, T) + Count(s, r, U) + Count(s, r, V)
<1> DEFINE PT == Places(s, r, T)
           PU == Places(s, r, U)
           PV == Places(s, r, V)
<1>1. Len(s) \in Nat
  BY LenProperties
<1>2. IsFiniteSet(PT) /\ IsFiniteSet(PU) /\ IsFiniteSet(PV)
  BY CountNat
<1>3. /\ Count(s, r, T) = Cardinality(PT) /\ Count(s, r, T) \in Nat
      /\ Count(s, r, U) = Cardinality(PU) /\ Count(s, r, U) \in Nat
      /\ Count(s, r, V) = Cardinality(PV) /\ Count(s, r, V) \in Nat
  BY CountNat DEF Count
<1>4. (PT \cup PU) \cup PV = 1..Len(s)
  BY Zenon DEF Places
<1>5. PT \cap PU = {} /\ (PT \cup PU) \cap PV = {}
  BY DEF Places
<1>. HIDE DEF PT, PU, PV
<1>6. IsFiniteSet(PT \cup PU) /\ Cardinality(PT \cup PU) = Cardinality(PT) + Cardinality(PU)
  <2>1. Cardinality(PT \cap PU) = 0
    BY <1>5, FS_EmptySet
  <2>2. /\ IsFiniteSet(PT \cup PU)
        /\ Cardinality(PT \cup PU) = Cardinality(PT) + Cardinality(PU) - Cardinality(PT \cap PU)
    BY <1>2, FS_Union
  <2>. QED
    BY <1>3, <2>1, <2>2
<1>7. Cardinality((PT \cup PU) \cup PV) = Cardinality(PT \cup PU) + Cardinality(PV)
  <2>1. Cardinality((PT \cup PU) \cap PV) = 0
    BY <1>5, FS_EmptySet
  <2>2. Cardinality((PT \cup PU) \cup PV)
          = Cardinality(PT \cup PU) + Cardinality(PV) - Cardinality((PT \cup PU) \cap PV)
    BY <1>2, <1>6, FS_Union
  <2>. QED
    BY <1>3, <1>6, <2>1, <2>2
<1>8. Cardinality(1..Len(s)) = Len(s)
  <2>1. 1 \in Int /\ Len(s) \in Int
    BY <1>1
  <2>2. Cardinality(1..Len(s)) = IF 1 > Len(s) THEN 0 ELSE Len(s) - 1 + 1
    BY <2>1, FS_Interval
  <2>. QED
    BY <1>1, <2>2
<1>. QED
  BY <1>3, <1>4, <1>6, <1>7, <1>8

-----------------------------------------------------------------------------
(* The measures of a request.                                              *)

\* The threshold of AckData is a positive number, at most the window.
LEMMA ThresholdType == AckThreshold \in Nat /\ 1 <= AckThreshold /\ AckThreshold <= SendWindow
BY WindowAssumption DEF AckThreshold

\* The number of a condition is one or zero.
LEMMA BNat ==
  ASSUME NEW p
  PROVE  B(p) \in Nat /\ B(p) <= 1 /\ (p => B(p) = 1) /\ (~p => B(p) = 0)
BY DEF B

\* The measures are natural numbers.
LEMMA CountsNat ==
  ASSUME BodyTypes, NEW r \in Requests
  PROVE  /\ \A T : /\ Count(toEdge, r, T) \in Nat /\ Count(erecv[r], r, T) \in Nat
                   /\ Behind(r, T) \in Nat /\ Count(toConnector, r, T) \in Nat
         /\ Returning(r) \in Nat
         /\ got[r] \in Nat /\ nread[r] \in Nat /\ consumed[r] \in Nat /\ credit[r] \in Nat
         /\ Unacked(r) \in Nat
<1>1. /\ toEdge \in Seq(FrameOf(ToEdgeTypes)) /\ erecv[r] \in Seq(FrameOf(Down))
      /\ toConnector \in Seq(FrameOf(ToConnectorTypes))
  BY DEF BodyTypes
<1>2. \A T : /\ Count(toEdge, r, T) \in Nat /\ Count(erecv[r], r, T) \in Nat
             /\ Count(toConnector, r, T) \in Nat
  BY <1>1, CountNat
<1>3. \A T : Behind(r, T) \in Nat
  BY <1>2 DEF Behind
<1>4. Returning(r) \in Nat
  <2>1. Count(toConnector, r, {"window"}) \in Nat
    BY <1>2
  <2>. QED
    BY <2>1, ThresholdType DEF Returning
<1>5. got[r] \in Nat /\ nread[r] \in Nat /\ consumed[r] \in Nat /\ credit[r] \in Nat
  BY ThresholdType, WindowAssumption, BodyAssumption DEF BodyTypes
<1>6. Unacked(r) \in Nat
  BY <1>5, BNat DEF Unacked
<1>. QED
  BY <1>2, <1>3, <1>4, <1>5, <1>6

\* The same after a step.
LEMMA CountsNatNext ==
  ASSUME BodyTypes', NEW r \in Requests
  PROVE  /\ \A T : /\ Count(toEdge', r, T) \in Nat /\ Count(erecv'[r], r, T) \in Nat
                   /\ Behind(r, T)' \in Nat /\ Count(toConnector', r, T) \in Nat
         /\ Returning(r)' \in Nat
         /\ got'[r] \in Nat /\ nread'[r] \in Nat /\ consumed'[r] \in Nat /\ credit'[r] \in Nat
         /\ Unacked(r)' \in Nat
<1>1. /\ toEdge' \in Seq(FrameOf(ToEdgeTypes)) /\ erecv'[r] \in Seq(FrameOf(Down))
      /\ toConnector' \in Seq(FrameOf(ToConnectorTypes))
  BY DEF BodyTypes
<1>2. \A T : /\ Count(toEdge', r, T) \in Nat /\ Count(erecv'[r], r, T) \in Nat
             /\ Count(toConnector', r, T) \in Nat
  BY <1>1, CountNat
<1>3. \A T : Behind(r, T)' \in Nat
  BY <1>2 DEF Behind
<1>4. Returning(r)' \in Nat
  <2>1. Count(toConnector', r, {"window"}) \in Nat
    BY <1>2
  <2>. QED
    BY <2>1, ThresholdType DEF Returning
<1>5. got'[r] \in Nat /\ nread'[r] \in Nat /\ consumed'[r] \in Nat /\ credit'[r] \in Nat
  BY ThresholdType, WindowAssumption, BodyAssumption DEF BodyTypes
<1>6. Unacked(r)' \in Nat
  BY <1>5, BNat DEF Unacked
<1>. QED
  BY <1>2, <1>3, <1>4, <1>5, <1>6

\* A handler that does not begin a write keeps the tokens it holds, or fewer.
LEMMA UnackedKept ==
  ASSUME BodyTypes, NEW r \in Requests, consumed'[r] = consumed[r],
         handler'[r] = "writing" => handler[r] = "writing"
  PROVE  Unacked(r)' <= Unacked(r)
<1>1. consumed[r] \in Nat
  BY CountsNat
<1>. QED
  BY <1>1 DEF Unacked, B

\* What the invariant bounds is a natural number,
LEMMA MeasuresNat ==
  ASSUME BodyTypes, NEW r \in Requests
  PROVE  Tokens(r) \in Nat /\ Eofs(r) \in Nat /\ Lasts(r) \in Nat /\ Chunks(r) \in Nat
<1>1. /\ Behind(r, {"data"}) \in Nat /\ Behind(r, {"eof"}) \in Nat
      /\ Behind(r, {"close", "error"}) \in Nat /\ Returning(r) \in Nat
      /\ got[r] \in Nat /\ Unacked(r) \in Nat /\ credit[r] \in Nat
  BY CountsNat
<1>2. /\ B(pump[r] = "write") \in Nat /\ B(pump[r] \notin {"closing", "ended"}) \in Nat
      /\ B(pump[r] \notin {"ended", "gone"}) \in Nat /\ B(pump[r] \in {"credit", "write"}) \in Nat
  BY BNat
<1>. QED
  BY <1>1, <1>2 DEF Tokens, Eofs, Lasts, Chunks

\* also after a step.
LEMMA MeasuresNatNext ==
  ASSUME BodyTypes', NEW r \in Requests
  PROVE  Tokens(r)' \in Nat /\ Eofs(r)' \in Nat /\ Lasts(r)' \in Nat /\ Chunks(r)' \in Nat
<1>1. /\ Behind(r, {"data"})' \in Nat /\ Behind(r, {"eof"})' \in Nat
      /\ Behind(r, {"close", "error"})' \in Nat /\ Returning(r)' \in Nat
      /\ got'[r] \in Nat /\ Unacked(r)' \in Nat /\ credit'[r] \in Nat
  BY CountsNatNext
<1>2. /\ B(pump'[r] = "write") \in Nat /\ B(pump'[r] \notin {"closing", "ended"}) \in Nat
      /\ B(pump'[r] \notin {"ended", "gone"}) \in Nat /\ B(pump'[r] \in {"credit", "write"}) \in Nat
  BY BNat
<1>. QED
  BY <1>1, <1>2 DEF Tokens, Eofs, Lasts, Chunks

\* A window frame carries AckThreshold tokens.
LEMMA ReturningStep ==
  ASSUME NEW r, NEW m \in Nat, NEW n \in Nat,
         Count(toConnector, r, {"window"}) = m, Count(toConnector', r, {"window"}) = n
  PROVE  /\ n = m => Returning(r)' = Returning(r)
         /\ n <= m => Returning(r)' <= Returning(r)
         /\ n = m + 1 => Returning(r)' = Returning(r) + AckThreshold
         /\ m = n + 1 => Returning(r) = Returning(r)' + AckThreshold
<1> DEFINE A == AckThreshold
<1>1. Returning(r) = A * m /\ Returning(r)' = A * n
  BY DEF Returning
<1>2. A \in Nat
  BY ThresholdType
<1>. HIDE DEF A
<1>3. A * (m + 1) = A * m + A /\ A * (n + 1) = A * n + A
  BY <1>2
<1>4. n <= m => A * n <= A * m
  BY <1>2
<1>. QED
  BY <1>1, <1>3, <1>4 DEF A

\* Before its session exists a request has no frames anywhere.
LEMMA FreshCounts ==
  ASSUME LinkFrames, NEW r \in Requests, SessionOf(r), csess[r] = "none"
  PROVE  /\ \A T : Count(toEdge, r, T) = 0 /\ Count(erecv[r], r, T) = 0 /\ Behind(r, T) = 0
         /\ Count(toConnector, r, {"window"}) = 0
<1>1. \A i \in 1..Len(toEdge) : toEdge[i].req # r
  BY DEF LinkFrames, DownFrames
<1>2. \A i \in 1..Len(toConnector) : toConnector[i].req # r \/ toConnector[i].type \notin {"window"}
  BY DEF LinkFrames, UpFrames
<1>3. erecv[r] = <<>>
  BY DEF SessionOf
<1>4. (\A T : Count(toEdge, r, T) = 0) /\ Count(toConnector, r, {"window"}) = 0
  BY <1>1, <1>2, CountNone
<1>5. \A T : Count(erecv[r], r, T) = 0
  BY <1>3, CountEmpty
<1>. QED
  BY <1>4, <1>5 DEF Behind

\* A step that does not move r's body, except that its frames may be lost
\* with the link.
Kinds == {{"data"}, {"eof"}, {"close", "error"}}
QuietFor(r) ==
  /\ got'[r] = got[r] /\ nread'[r] = nread[r] /\ Unacked(r)' <= Unacked(r)
  /\ credit'[r] = credit[r] /\ erecv'[r] = erecv[r] /\ pump'[r] = pump[r]
  /\ csess'[r] = "none" <=> csess[r] = "none"
  /\ csess[r] = "lost" => csess'[r] = "lost"
  /\ csess'[r] \in {"open", "closed"} => cUp'
  /\ \/ \A T \in Kinds : Count(toEdge', r, T) = Count(toEdge, r, T)
     \/ toEdge' = <<>> /\ (eUp' => csess'[r] \in {"none", "lost"})
  /\ eUp' => eUp \/ csess'[r] \in {"none", "lost"}
  /\ Count(toConnector', r, {"window"}) <= Count(toConnector, r, {"window"})
  /\ Reachable(r)' => Reachable(r)
  /\ esess'[r] = "none" => esess[r] = "none"
  /\ Opens(r)' <= 1
  /\ handler[r] = "done" => handler'[r] = "done"
  /\ outcome'[r] = "clean" => outcome[r] = "clean"

\* What holds of one request.
Good(r) == SessionOf(r) /\ Counted(r) /\ Whole(r) /\ CleanEnd(r)

\* Frames that are taken away, or lost, break no bound.
LEMMA CountedShrinks ==
  ASSUME BodyTypes, BodyTypes', NEW r \in Requests, Counted(r),
         got'[r] = got[r] /\ nread'[r] = nread[r] /\ Unacked(r)' <= Unacked(r),
         credit'[r] = credit[r] /\ pump'[r] = pump[r],
         Behind(r, {"data"})' <= Behind(r, {"data"}), Behind(r, {"eof"})' <= Behind(r, {"eof"}),
         Behind(r, {"close", "error"})' <= Behind(r, {"close", "error"}),
         Returning(r)' <= Returning(r), Opens(r)' <= 1
  PROVE  Counted(r)'
<1>1. /\ Behind(r, {"data"}) \in Nat /\ Behind(r, {"eof"}) \in Nat
      /\ Behind(r, {"close", "error"}) \in Nat /\ Returning(r) \in Nat
      /\ got[r] \in Nat /\ Unacked(r) \in Nat /\ credit[r] \in Nat /\ nread[r] \in Nat
  BY CountsNat
<1>2. /\ Behind(r, {"data"})' \in Nat /\ Behind(r, {"eof"})' \in Nat
      /\ Behind(r, {"close", "error"})' \in Nat /\ Returning(r)' \in Nat
      /\ Unacked(r)' \in Nat
  BY CountsNatNext
<1>3. Tokens(r)' <= Tokens(r)
  BY <1>1, <1>2, BNat DEF Tokens
<1>4. Eofs(r)' <= Eofs(r) /\ Lasts(r)' <= Lasts(r)
  BY <1>1, <1>2, BNat DEF Eofs, Lasts
<1>5. Chunks(r)' <= Chunks(r)
  BY <1>1, <1>2, BNat DEF Chunks
<1>6. /\ Tokens(r) \in Nat /\ Eofs(r) \in Nat /\ Lasts(r) \in Nat /\ Chunks(r) \in Nat
      /\ Tokens(r)' \in Nat /\ Eofs(r)' \in Nat /\ Lasts(r)' \in Nat /\ Chunks(r)' \in Nat
  BY MeasuresNat, MeasuresNatNext
<1>7. SendWindow \in Nat
  BY WindowAssumption
<1>. QED
  BY <1>1, <1>3, <1>4, <1>5, <1>6, <1>7 DEF Counted

\* Such a step keeps r's part of the invariant.
LEMMA QuietKeeps ==
  ASSUME BodyTypes, BodyTypes', LinkFrames, NEW r \in Requests, Good(r), QuietFor(r)
  PROVE  Good(r)'
<1>1. /\ \A T : /\ Count(toEdge, r, T) \in Nat /\ Count(erecv[r], r, T) \in Nat
                /\ Behind(r, T) \in Nat /\ Count(toConnector, r, T) \in Nat
      /\ Returning(r) \in Nat
      /\ got[r] \in Nat /\ nread[r] \in Nat /\ Unacked(r) \in Nat /\ credit[r] \in Nat
  BY CountsNat
<1>2. /\ \A T : /\ Count(toEdge', r, T) \in Nat /\ Count(erecv'[r], r, T) \in Nat
                /\ Behind(r, T)' \in Nat /\ Count(toConnector', r, T) \in Nat
      /\ Returning(r)' \in Nat /\ Unacked(r)' \in Nat
  BY CountsNatNext
<1>3. SessionOf(r) /\ Counted(r) /\ Whole(r) /\ CleanEnd(r)
  BY DEF Good
<1>4. SessionOf(r)'
  <2>1. Unacked(r) = 0 => Unacked(r)' = 0
    BY <1>1, <1>2 DEF QuietFor
  <2>. QED
    BY <1>3, <2>1 DEF SessionOf, QuietFor
<1>5. \A T \in Kinds : Count(toEdge', r, T) <= Count(toEdge, r, T)
  <2>1. CASE toEdge' = <<>>
    <3>1. \A T : Count(toEdge', r, T) = 0
      BY <2>1, CountEmpty
    <3>. QED
      BY <1>1, <3>1
  <2>2. CASE \A T \in Kinds : Count(toEdge', r, T) = Count(toEdge, r, T)
    BY <1>1, <2>2
  <2>. QED
    BY <2>1, <2>2 DEF QuietFor
<1>6. \A T : Count(erecv'[r], r, T) = Count(erecv[r], r, T)
  BY DEF QuietFor
<1>7. \A T \in Kinds : Behind(r, T)' <= Behind(r, T)
  BY <1>1, <1>2, <1>5, <1>6 DEF Behind
<1>8. Returning(r)' <= Returning(r)
  BY <1>1, <1>2, ReturningStep DEF QuietFor
<1>9. {"data"} \in Kinds /\ {"eof"} \in Kinds /\ {"close", "error"} \in Kinds
  BY DEF Kinds
<1>10. /\ got'[r] = got[r] /\ nread'[r] = nread[r] /\ Unacked(r)' <= Unacked(r)
       /\ credit'[r] = credit[r] /\ pump'[r] = pump[r] /\ Opens(r)' <= 1
  BY DEF QuietFor
<1>11. Counted(r)'
  BY <1>3, <1>7, <1>8, <1>9, <1>10, CountedShrinks
<1>12. Whole(r)'
  <2>1. ASSUME \A T \in Kinds : Count(toEdge', r, T) = Count(toEdge, r, T)
        PROVE  Behind(r, {"data"})' = Behind(r, {"data"}) /\ Chunks(r)' = Chunks(r)
    BY <1>6, <1>9, <1>10, <2>1 DEF Behind, Chunks
  <2>2. csess'[r] # "lost" /\ eUp' /\ Reachable(r)' => Chunks(r)' = nread'[r]
    <3>1. CASE csess'[r] = "none"
      <4>1. csess[r] = "none"
        BY <3>1 DEF QuietFor
      <4>2. Count(toEdge, r, {"data"}) = 0 /\ Count(erecv[r], r, {"data"}) = 0
        BY <1>3, <4>1, FreshCounts
      <4>3. Count(toEdge', r, {"data"}) = 0
        BY <1>1, <1>2, <1>5, <1>9, <4>2
      <4>4. got[r] = 0 /\ nread[r] = 0 /\ pump[r] = "none"
        BY <1>3, <4>1 DEF SessionOf
      <4>5. Behind(r, {"data"})' = 0
        BY <1>6, <4>2, <4>3 DEF Behind
      <4>. QED
        BY <1>10, <4>4, <4>5 DEF Chunks, B
    <3>2. ASSUME csess'[r] \notin {"none", "lost"}, eUp', Reachable(r)'
          PROVE  Chunks(r)' = nread'[r]
      <4>1. /\ \A T \in Kinds : Count(toEdge', r, T) = Count(toEdge, r, T)
            /\ csess[r] # "lost" /\ eUp /\ Reachable(r)
        BY <3>2 DEF QuietFor
      <4>. QED
        BY <1>3, <1>10, <2>1, <4>1 DEF Whole
    <3>. QED
      BY <3>1, <3>2
  <2>3. Count(toEdge', r, {"eof"}) > 0 /\ Reachable(r)' => got'[r] + Behind(r, {"data"})' = nread'[r]
    <3>1. CASE toEdge' = <<>>
      BY <3>1, CountEmpty
    <3>2. CASE \A T \in Kinds : Count(toEdge', r, T) = Count(toEdge, r, T)
      BY <1>3, <1>9, <1>10, <2>1, <3>2 DEF Whole, QuietFor
    <3>. QED
      BY <3>1, <3>2 DEF QuietFor
  <2>4. Count(erecv'[r], r, {"eof"}) > 0 /\ (Reachable(r)' \/ handler'[r] # "done") =>
          got'[r] + Count(erecv'[r], r, {"data"}) = nread'[r]
    BY <1>3, <1>6, <1>10 DEF Whole, QuietFor
  <2>. QED
    BY <2>2, <2>3, <2>4 DEF Whole
<1>13. CleanEnd(r)'
  BY <1>3, <1>10 DEF CleanEnd, QuietFor
<1>. QED
  BY <1>4, <1>11, <1>12, <1>13 DEF Good

-----------------------------------------------------------------------------
(* Queues: what a write, a dispatch and a lost link do to them.            *)

\* A frame added to a queue comes last.
LEMMA AddLast ==
  ASSUME NEW F, NEW s \in Seq(F), NEW f \in F
  PROVE  /\ Len(s) \in Nat /\ Append(s, f) \in Seq(F)
         /\ Len(Append(s, f)) = Len(s) + 1
         /\ Append(s, f)[Len(s) + 1] = f
         /\ \A i \in 1..Len(s) : Append(s, f)[i] = s[i]
BY LenProperties, AppendProperties

\* The rest of a queue is the queue from its second frame on.
LEMMA TakeFirst ==
  ASSUME NEW F, NEW s \in Seq(F), s # <<>>
  PROVE  /\ Len(s) \in Nat \ {0} /\ Tail(s) \in Seq(F)
         /\ Len(Tail(s)) = Len(s) - 1
         /\ Head(s) = s[1] /\ Head(s) \in F
         /\ \A i \in 1..(Len(s) - 1) : Tail(s)[i] = s[i + 1]
<1>1. Len(s) \in Nat \ {0}
  BY EmptySeq, LenProperties
<1>2. s[1] \in F
  BY <1>1, ElementOfSeq
<1>. QED
  BY <1>1, <1>2, HeadTailProperties

\* Data is never written behind the eof of its request.
LEMMA DataFirstAppend ==
  ASSUME NEW F, NEW s \in Seq(F), NEW f \in F, DataFirst(s),
         f.type = "data" => Count(s, f.req, {"eof"}) = 0
  PROVE  DataFirst(Append(s, f))
<1>1. /\ Len(s) \in Nat /\ Append(s, f) \in Seq(F)
      /\ Len(Append(s, f)) = Len(s) + 1
      /\ Append(s, f)[Len(s) + 1] = f
      /\ \A i \in 1..Len(s) : Append(s, f)[i] = s[i]
  BY AddLast
<1>2. ASSUME NEW i \in 1..Len(s), s[i].type = "eof", f.type = "data"
      PROVE  s[i].req # f.req
  <2>1. s[i].req = f.req => Count(s, f.req, {"eof"}) > 0
    BY <1>2, CountSome
  <2>. QED
    BY <1>2, <2>1
<1>3. SUFFICES ASSUME NEW i \in 1..(Len(s) + 1), NEW j \in (i + 1)..(Len(s) + 1),
                      Append(s, f)[i].type = "eof", Append(s, f)[j].type = "data"
               PROVE  Append(s, f)[i].req # Append(s, f)[j].req
  BY <1>1 DEF DataFirst
<1>4. i \in 1..Len(s) /\ Append(s, f)[i] = s[i]
  BY <1>1
<1>5. CASE j = Len(s) + 1
  BY <1>1, <1>2, <1>3, <1>4, <1>5
<1>6. CASE j # Len(s) + 1
  <2>1. j \in (i + 1)..Len(s) /\ j \in 1..Len(s)
    BY <1>1, <1>6
  <2>2. Append(s, f)[j] = s[j]
    BY <1>1, <2>1
  <2>. QED
    BY <1>3, <1>4, <2>1, <2>2 DEF DataFirst
<1>. QED
  BY <1>5, <1>6

\* Nor does taking the first frame change the order.
LEMMA DataFirstTail ==
  ASSUME NEW F, NEW s \in Seq(F), s # <<>>, DataFirst(s)
  PROVE  DataFirst(Tail(s))
<1>1. /\ Len(s) \in Nat \ {0} /\ Len(Tail(s)) = Len(s) - 1
      /\ \A i \in 1..(Len(s) - 1) : Tail(s)[i] = s[i + 1]
  BY TakeFirst
<1>2. SUFFICES ASSUME NEW i \in 1..(Len(s) - 1), NEW j \in (i + 1)..(Len(s) - 1),
                      Tail(s)[i].type = "eof", Tail(s)[j].type = "data"
               PROVE  Tail(s)[i].req # Tail(s)[j].req
  BY <1>1 DEF DataFirst
<1>3. /\ i + 1 \in 1..Len(s) /\ j + 1 \in ((i + 1) + 1)..Len(s)
      /\ j \in 1..(Len(s) - 1)
  BY <1>1
<1>4. Tail(s)[i] = s[i + 1] /\ Tail(s)[j] = s[j + 1]
  BY <1>1, <1>3
<1>. QED
  BY <1>2, <1>3, <1>4 DEF DataFirst

\* When r's eof is the first frame of a queue, no data of r is left in it.
LEMMA EofHead ==
  ASSUME NEW F, NEW s \in Seq(F), s # <<>>, DataFirst(s), Head(s).type = "eof",
         NEW r, Head(s).req = r
  PROVE  Count(s, r, {"data"}) = 0
<1>1. Len(s) \in Nat \ {0} /\ Head(s) = s[1]
  BY TakeFirst
<1>2. \A i \in 1..Len(s) : s[i].req # r \/ s[i].type \notin {"data"}
  <2>1. SUFFICES ASSUME NEW i \in 1..Len(s), s[i].type = "data", s[i].req = r PROVE FALSE
    OBVIOUS
  <2>2. i # 1 /\ 1 \in 1..Len(s) /\ i \in (1 + 1)..Len(s)
    BY <1>1, <2>1
  <2>3. s[1].req # s[i].req
    BY <1>1, <2>1, <2>2 DEF DataFirst
  <2>. QED
    BY <1>1, <2>1, <2>3
<1>. QED
  BY <1>2, CountNone

\* A frame of r that one of the ends writes.
LEMMA FrameType ==
  ASSUME NEW r \in Requests, NEW T, NEW t \in T, NEW k \in 0..SendWindow
  PROVE  /\ Frame(r, t, k) \in FrameOf(T) /\ Frame(r, t, k).req = r
         /\ Frame(r, t, k).type = t /\ Frame(r, t, k).n = k
BY DEF Frame, FrameOf

\* The connector's write reaches the link, or is lost with it.
Sends(r) == csess[r] # "lost" /\ cUp /\ eUp
LEMMA WriteDown ==
  ASSUME BodyTypes, NEW r \in Requests, NEW t \in ToEdgeTypes
  PROVE  /\ ToEdge(r, t) \in Seq(FrameOf(ToEdgeTypes))
         /\ \A q, T : Count(ToEdge(r, t), q, T) = Count(toEdge, q, T) + B(Sends(r) /\ q = r /\ t \in T)
<1> DEFINE f == Frame(r, t, 0)
           F == FrameOf(ToEdgeTypes)
<1>1. f \in F /\ f.req = r /\ f.type = t
  BY FrameType, WindowAssumption
<1>2. toEdge \in Seq(F)
  BY DEF BodyTypes
<1>3. ToEdge(r, t) = IF Sends(r) THEN Append(toEdge, f) ELSE toEdge
  BY DEF ToEdge, Sends
<1>. HIDE DEF f, F
<1>4. \A q, T : Count(toEdge, q, T) \in Nat
  BY <1>2, CountNat
<1>5. \A q, T : Count(Append(toEdge, f), q, T) = Count(toEdge, q, T) + B(f.req = q /\ f.type \in T)
  BY <1>1, <1>2, CountAppend
<1>6. Append(toEdge, f) \in Seq(F)
  BY <1>1, <1>2, AddLast
<1>7. CASE Sends(r)
  <2>1. ToEdge(r, t) = Append(toEdge, f)
    BY <1>3, <1>7
  <2>2. \A q, T : B(f.req = q /\ f.type \in T) = B(Sends(r) /\ q = r /\ t \in T)
    BY <1>1, <1>7 DEF B
  <2>. QED
    BY <1>5, <1>6, <2>1, <2>2 DEF F
<1>8. CASE ~Sends(r)
  <2>1. ToEdge(r, t) = toEdge
    BY <1>3, <1>8
  <2>2. \A q, T : B(Sends(r) /\ q = r /\ t \in T) = 0
    BY <1>8 DEF B
  <2>3. \A q, T : Count(toEdge, q, T) = Count(toEdge, q, T) + 0
    BY <1>4
  <2>. QED
    BY <1>2, <2>1, <2>2, <2>3, Zenon DEF F
<1>. QED
  BY <1>7, <1>8

\* So does the edge's write.
LEMMA WriteUp ==
  ASSUME BodyTypes, NEW r \in Requests, NEW t \in ToConnectorTypes, NEW k \in 0..SendWindow
  PROVE  /\ ToConnector(r, t, k) \in Seq(FrameOf(ToConnectorTypes))
         /\ \A q, T : Count(ToConnector(r, t, k), q, T) =
                        Count(toConnector, q, T) + B(esess[r] # "lost" /\ cUp /\ eUp /\ q = r /\ t \in T)
<1> DEFINE f == Frame(r, t, k)
           F == FrameOf(ToConnectorTypes)
           P == esess[r] # "lost" /\ cUp /\ eUp
<1>1. f \in F /\ f.req = r /\ f.type = t
  BY FrameType
<1>2. toConnector \in Seq(F)
  BY DEF BodyTypes
<1>3. ToConnector(r, t, k) = IF P THEN Append(toConnector, f) ELSE toConnector
  BY DEF ToConnector
<1>. HIDE DEF f, F
<1>4. \A q, T : Count(toConnector, q, T) \in Nat
  BY <1>2, CountNat
<1>5. \A q, T : Count(Append(toConnector, f), q, T) = Count(toConnector, q, T) + B(f.req = q /\ f.type \in T)
  BY <1>1, <1>2, CountAppend
<1>6. Append(toConnector, f) \in Seq(F)
  BY <1>1, <1>2, AddLast
<1>7. CASE P
  <2>1. ToConnector(r, t, k) = Append(toConnector, f)
    BY <1>3, <1>7
  <2>2. \A q, T : B(f.req = q /\ f.type \in T) = B(esess[r] # "lost" /\ cUp /\ eUp /\ q = r /\ t \in T)
    BY <1>1, <1>7 DEF B
  <2>. QED
    BY <1>5, <1>6, <2>1, <2>2 DEF F
<1>8. CASE ~P
  <2>1. ToConnector(r, t, k) = toConnector
    BY <1>3, <1>8
  <2>2. \A q, T : B(esess[r] # "lost" /\ cUp /\ eUp /\ q = r /\ t \in T) = 0
    BY <1>8 DEF B
  <2>3. \A q, T : Count(toConnector, q, T) = Count(toConnector, q, T) + 0
    BY <1>4
  <2>. QED
    BY <1>2, <2>1, <2>2, <2>3, Zenon DEF F
<1>. QED
  BY <1>7, <1>8

-----------------------------------------------------------------------------
(* Steps that do not move a body.                                          *)

\* A step that does not concern r.
Still(r) ==
  /\ got'[r] = got[r] /\ nread'[r] = nread[r] /\ consumed'[r] = consumed[r]
  /\ credit'[r] = credit[r] /\ erecv'[r] = erecv[r] /\ pump'[r] = pump[r]
  /\ csess'[r] = csess[r] /\ esess'[r] = esess[r] /\ handler'[r] = handler[r]
  /\ outcome'[r] = outcome[r] /\ (eUp' <=> eUp) /\ (cUp' <=> cUp)
  /\ \A T : Count(toEdge', r, T) = Count(toEdge, r, T)
  /\ Count(toConnector', r, {"window"}) = Count(toConnector, r, {"window"})

\* It keeps r's part of the invariant.
LEMMA StillKeeps ==
  ASSUME BodyTypes, BodyTypes', LinkFrames, NEW r \in Requests, Good(r), Still(r)
  PROVE  Good(r)'
<1>1. Opens(r)' = Opens(r)
  BY DEF Still, Opens
<1>2. Opens(r) <= 1
  BY DEF Good, Counted
<1>3. Count(toConnector, r, {"window"}) \in Nat
  BY CountsNat
<1>4. csess[r] \in {"open", "closed"} => cUp
  BY DEF Good, SessionOf
<1>5. Opens(r)' <= 1
  BY <1>1, <1>2
<1>6. Reachable(r)' <=> Reachable(r)
  BY DEF Reachable, Still
<1>7. Count(toConnector', r, {"window"}) <= Count(toConnector, r, {"window"})
  BY <1>3 DEF Still
<1>8. Unacked(r)' <= Unacked(r)
  BY UnackedKept DEF Still
<1>9. QuietFor(r)
  BY <1>4, <1>5, <1>6, <1>7, <1>8 DEF QuietFor, Still
<1>. QED
  BY <1>9, QuietKeeps

\* The invariant, request by request.
LEMMA Assemble ==
  ASSUME BodyTypes', LinkFrames', OpenFirst', EofLast', \A r \in Requests : Good(r)'
  PROVE  BodyInv'
BY DEF BodyInv, Good

\* Its parts.
LEMMA Parts ==
  ASSUME BodyInv
  PROVE  /\ BodyTypes /\ LinkFrames /\ DownFrames /\ UpFrames /\ OpenFirst /\ EofLast
         /\ \A r \in Requests : Good(r)
BY DEF BodyInv, Good, LinkFrames

\* The frames towards the edge stay in order where no frame moves.
LEMMA DownKept ==
  ASSUME BodyTypes, DownFrames, OpenFirst, EofLast,
         toEdge' = toEdge, erecv' = erecv, eUp' <=> eUp,
         \A q \in Requests : /\ csess[q] # "none" => csess'[q] # "none"
                             /\ csess'[q] \in {"open", "closed"} => csess[q] \in {"open", "closed"}
                             /\ esess[q] # "none" => esess'[q] # "none"
  PROVE  DownFrames' /\ OpenFirst' /\ EofLast'
<1>1. \A i \in 1..Len(toEdge) : toEdge[i].req \in Requests
  <2>1. toEdge \in Seq(FrameOf(ToEdgeTypes))
    BY DEF BodyTypes
  <2>2. \A i \in 1..Len(toEdge) : toEdge[i] \in FrameOf(ToEdgeTypes)
    BY <2>1, ElementOfSeq
  <2>. QED
    BY <2>2 DEF FrameOf
<1>2. DownFrames'
  BY <1>1 DEF DownFrames
<1>3. OpenFirst'
  BY <1>1 DEF OpenFirst
<1>4. EofLast'
  BY DEF EofLast, DataFirst
<1>. QED
  BY <1>2, <1>3, <1>4

\* The frames towards the connector after a write of the edge.
LEMMA UpWrite ==
  ASSUME BodyTypes, UpFrames, NEW r \in Requests, NEW t \in ToConnectorTypes, NEW k \in 0..SendWindow,
         toConnector' = ToConnector(r, t, k) \/ toConnector' = toConnector,
         t = "window" => csess[r] # "none" /\ k = AckThreshold,
         \A q \in Requests : csess[q] # "none" => csess'[q] # "none"
  PROVE  UpFrames'
<1> DEFINE f == Frame(r, t, k)
           F == FrameOf(ToConnectorTypes)
<1>1. f \in F /\ f.req = r /\ f.type = t /\ f.n = k
  BY FrameType
<1>2. toConnector \in Seq(F)
  BY DEF BodyTypes
<1>3. toConnector' = toConnector \/ toConnector' = Append(toConnector, f)
  BY DEF ToConnector
<1>4. \A i \in 1..Len(toConnector) : toConnector[i].req \in Requests
  <2>1. \A i \in 1..Len(toConnector) : toConnector[i] \in F
    BY <1>2, ElementOfSeq
  <2>. QED
    BY <2>1 DEF FrameOf
<1>. HIDE DEF f, F
<1>5. /\ Len(toConnector) \in Nat
      /\ Len(Append(toConnector, f)) = Len(toConnector) + 1
      /\ Append(toConnector, f)[Len(toConnector) + 1] = f
      /\ \A i \in 1..Len(toConnector) : Append(toConnector, f)[i] = toConnector[i]
  BY <1>1, <1>2, AddLast
<1>6. \A i \in 1..Len(toConnector) : toConnector[i].type = "window" =>
        csess'[toConnector[i].req] # "none" /\ toConnector[i].n = AckThreshold
  BY <1>4 DEF UpFrames
<1>7. CASE toConnector' = toConnector
  BY <1>6, <1>7 DEF UpFrames
<1>8. CASE toConnector' = Append(toConnector, f)
  <2>1. SUFFICES ASSUME NEW i \in 1..(Len(toConnector) + 1),
                        Append(toConnector, f)[i].type = "window"
                 PROVE  /\ csess'[Append(toConnector, f)[i].req] # "none"
                        /\ Append(toConnector, f)[i].n = AckThreshold
    BY <1>5, <1>8 DEF UpFrames
  <2>2. CASE i = Len(toConnector) + 1
    BY <1>1, <1>5, <2>1, <2>2
  <2>3. CASE i # Len(toConnector) + 1
    <3>1. i \in 1..Len(toConnector)
      BY <1>5, <2>3
    <3>2. Append(toConnector, f)[i] = toConnector[i]
      BY <1>5, <3>1
    <3>. QED
      BY <1>6, <2>1, <3>1, <3>2
  <2>. QED
    BY <2>2, <2>3
<1>. QED
  BY <1>3, <1>7, <1>8

\* The handler, the calls and the timers move no frame: a step that leaves the
\* sessions alone keeps the invariant, unless it ends a response cleanly.
LEMMA KeptBody ==
  ASSUME BodyInv,
         UNCHANGED <<got, nread, esess, csess, erecv, consumed, credit, pump>>,
         UNCHANGED <<eUp, cUp, toEdge, toConnector>>,
         \A q \in Requests : /\ handler[q] = "done" => handler'[q] = "done"
                             /\ handler'[q] = "writing" => handler[q] = "writing"
                             /\ outcome'[q] = "clean" => outcome[q] = "clean"
  PROVE  BodyInv'
<1>1. /\ BodyTypes /\ LinkFrames /\ DownFrames /\ UpFrames /\ OpenFirst /\ EofLast
      /\ \A r \in Requests : Good(r)
  BY Parts
<1>2. BodyTypes'
  BY <1>1, Zenon DEF BodyTypes
<1>3. DownFrames' /\ OpenFirst' /\ EofLast'
  BY <1>1, DownKept
<1>4. UpFrames'
  BY <1>1, Zenon DEF UpFrames
<1>5. ASSUME NEW r \in Requests
      PROVE  Good(r)'
  <2>1. Good(r) /\ Opens(r) <= 1 /\ (csess[r] \in {"open", "closed"} => cUp)
    BY <1>1 DEF Good, Counted, SessionOf
  <2>2. Opens(r)' <= 1 /\ (Reachable(r)' <=> Reachable(r))
    BY <2>1, Zenon DEF Opens, Reachable
  <2>3. Count(toConnector', r, {"window"}) <= Count(toConnector, r, {"window"})
    BY <1>1, CountsNat
  <2>4. Unacked(r)' <= Unacked(r)
    BY <1>1, UnackedKept
  <2>5. QuietFor(r)
    BY <2>1, <2>2, <2>3, <2>4 DEF QuietFor
  <2>. QED
    BY <1>1, <1>2, <2>1, <2>5, QuietKeeps
<1>. QED
  BY <1>2, <1>3, <1>4, <1>5, Assemble DEF LinkFrames

\* The edge closes r's session: EndStream, and the claim timer.
LEMMA EdgeSessionCloses ==
  ASSUME BodyInv, NEW r \in Requests, NEW t \in {"close", "error"},
         UNCHANGED <<got, nread, csess, erecv, consumed, credit, pump>>,
         UNCHANGED <<eUp, cUp, toEdge>>,
         esess' = Closed(esess, r), toConnector' = ToConnector(r, t, 0),
         \A q \in Requests : /\ handler[q] = "done" => handler'[q] = "done"
                             /\ handler'[q] = "writing" => handler[q] = "writing"
                             /\ outcome'[q] = "clean" => outcome[q] = "clean"
  PROVE  BodyInv'
<1>1. /\ BodyTypes /\ LinkFrames /\ DownFrames /\ UpFrames /\ OpenFirst /\ EofLast
      /\ \A q \in Requests : Good(q)
  BY Parts
<1>2. /\ esess' \in [Requests -> {"none", "open", "closed", "lost"}]
      /\ \A q \in Requests : esess'[q] = IF q = r /\ esess[q] = "open" THEN "closed" ELSE esess[q]
  BY <1>1 DEF BodyTypes, Closed
<1>3. t \in ToConnectorTypes /\ 0 \in 0..SendWindow /\ t # "window"
  BY WindowAssumption DEF ToConnectorTypes
<1>4. /\ toConnector' \in Seq(FrameOf(ToConnectorTypes))
      /\ \A q, T : Count(toConnector', q, T) =
                     Count(toConnector, q, T) + B(esess[r] # "lost" /\ cUp /\ eUp /\ q = r /\ t \in T)
  BY <1>1, <1>3, WriteUp
<1>5. BodyTypes'
  BY <1>1, <1>2, <1>4 DEF BodyTypes
<1>6. DownFrames' /\ OpenFirst' /\ EofLast'
  BY <1>1, <1>2, DownKept
<1>7. UpFrames'
  BY <1>1, <1>3, UpWrite
<1>8. ASSUME NEW q \in Requests
      PROVE  Good(q)'
  <2>1. Good(q) /\ Opens(q) <= 1 /\ (csess[q] \in {"open", "closed"} => cUp)
    BY <1>1 DEF Good, Counted, SessionOf
  <2>2. (esess'[q] = "none" <=> esess[q] = "none") /\ (Reachable(q)' => Reachable(q))
    BY <1>2 DEF Reachable
  <2>3. Opens(q)' <= 1
    BY <2>1, <2>2 DEF Opens
  <2>4. Count(toConnector, q, {"window"}) \in Nat
    BY <1>1, CountsNat
  <2>5. Count(toConnector', q, {"window"}) <= Count(toConnector, q, {"window"})
    <3>1. B(esess[r] # "lost" /\ cUp /\ eUp /\ q = r /\ t \in {"window"}) = 0
      BY <1>3 DEF B
    <3>. QED
      BY <1>4, <2>4, <3>1
  <2>6. Unacked(q)' <= Unacked(q)
    BY <1>1, UnackedKept
  <2>7. QuietFor(q)
    BY <2>1, <2>2, <2>3, <2>5, <2>6 DEF QuietFor
  <2>. QED
    BY <1>1, <1>5, <2>1, <2>7, QuietKeeps
<1>. QED
  BY <1>5, <1>6, <1>7, <1>8, Assemble DEF LinkFrames

\* The edge's end of the link closes, or a new link replaces it when the
\* connector's end had gone.
LEMMA EdgeLinkEnds ==
  ASSUME BodyInv,
         UNCHANGED <<handler, outcome, got, erecv, consumed, csess, credit, pump, nread>>,
         esess' = Lost(esess), toEdge' = <<>>,
         \/ eUp' = FALSE /\ cUp' = cUp /\ toConnector' = toConnector
         \/ ~cUp /\ eUp' = TRUE /\ cUp' = TRUE /\ toConnector' = <<>>
  PROVE  BodyInv'
<1>1. /\ BodyTypes /\ LinkFrames /\ DownFrames /\ UpFrames /\ OpenFirst /\ EofLast
      /\ \A q \in Requests : Good(q)
  BY Parts
<1>2. /\ esess' \in [Requests -> {"none", "open", "closed", "lost"}]
      /\ \A q \in Requests : esess'[q] = IF esess[q] = "none" THEN "none" ELSE "lost"
  BY <1>1 DEF BodyTypes, Lost
<1>3. BodyTypes'
  <2>1. eUp' \in BOOLEAN /\ cUp' \in BOOLEAN
    BY <1>1, Zenon DEF BodyTypes
  <2>2. toEdge' \in Seq(FrameOf(ToEdgeTypes)) /\ toConnector' \in Seq(FrameOf(ToConnectorTypes))
    BY <1>1, EmptySeq DEF BodyTypes
  <2>3. /\ got' \in [Requests -> Nat] /\ nread' \in [Requests -> 0..Body]
        /\ csess' \in [Requests -> {"none", "open", "closed", "lost"}]
        /\ erecv' \in [Requests -> Seq(FrameOf(Down))]
        /\ consumed' \in [Requests -> 0..(AckThreshold - 1)]
        /\ credit' \in [Requests -> 0..SendWindow]
    BY <1>1, Zenon DEF BodyTypes
  <2>. QED
    BY <1>2, <2>1, <2>2, <2>3, Zenon DEF BodyTypes
<1>4. \A q \in Requests : csess[q] \in {"open", "closed"} => cUp
  BY <1>1 DEF Good, SessionOf
<1>5. DownFrames'
  BY DEF DownFrames
<1>6. OpenFirst'
  BY <1>4 DEF OpenFirst, OpenAmong
<1>7. EofLast'
  BY <1>1 DEF EofLast, DataFirst
<1>8. UpFrames'
  BY <1>1 DEF UpFrames
<1>9. ASSUME NEW q \in Requests
      PROVE  Good(q)'
  <2>1. Good(q) /\ Opens(q) <= 1
    BY <1>1 DEF Good, Counted
  <2>2. \A T : Count(toEdge', q, T) = 0
    BY CountEmpty
  <2>3. /\ Count(toEdge, q, {"open"}) \in Nat
        /\ Count(toConnector, q, {"window"}) \in Nat
    BY <1>1, CountsNat
  <2>4. (esess'[q] = "none" <=> esess[q] = "none") /\ (Reachable(q)' => Reachable(q))
    BY <1>2 DEF Reachable
  <2>5. Opens(q)' <= 1
    BY <2>1, <2>2, <2>3, <2>4 DEF Opens, B
  <2>6. Count(toConnector', q, {"window"}) <= Count(toConnector, q, {"window"})
    BY <2>3, CountEmpty
  <2>7. csess[q] \in {"none", "open", "closed", "lost"}
    BY <1>1 DEF BodyTypes
  <2>8. Unacked(q)' <= Unacked(q)
    BY <1>1, UnackedKept
  <2>9. QuietFor(q)
    BY <1>4, <2>4, <2>5, <2>6, <2>7, <2>8 DEF QuietFor
  <2>. QED
    BY <1>1, <1>3, <2>1, <2>9, QuietKeeps
<1>. QED
  BY <1>3, <1>5, <1>6, <1>7, <1>8, <1>9, Assemble DEF LinkFrames

\* The connector's end of the link closes.
LEMMA ConnectorLinkEnds ==
  ASSUME BodyInv, ConnectorCloses
  PROVE  BodyInv'
<1>1. /\ BodyTypes /\ LinkFrames /\ DownFrames /\ UpFrames /\ OpenFirst /\ EofLast
      /\ \A q \in Requests : Good(q)
  BY Parts
<1>2. /\ csess' \in [Requests -> {"none", "open", "closed", "lost"}]
      /\ \A q \in Requests : csess'[q] = IF csess[q] = "none" THEN "none" ELSE "lost"
  BY <1>1 DEF BodyTypes, Lost, ConnectorCloses
<1>3. /\ UNCHANGED <<handler, outcome, got, erecv, consumed, esess, credit, pump, nread, eUp, toEdge>>
      /\ cUp' = FALSE /\ toConnector' = <<>>
  BY DEF ConnectorCloses, edgeVars, edgeSess
<1>4. BodyTypes'
  <2>1. cUp' \in BOOLEAN /\ toConnector' \in Seq(FrameOf(ToConnectorTypes))
    BY <1>3, EmptySeq
  <2>. QED
    BY <1>1, <1>2, <1>3, <2>1, Zenon DEF BodyTypes
<1>5. DownFrames' /\ OpenFirst' /\ EofLast'
  BY <1>1, <1>2, <1>3, DownKept
<1>6. UpFrames'
  BY <1>3 DEF UpFrames
<1>7. ASSUME NEW q \in Requests
      PROVE  Good(q)'
  <2>1. Good(q) /\ Opens(q) <= 1
    BY <1>1 DEF Good, Counted
  <2>2. (csess'[q] = "none" <=> csess[q] = "none") /\ (Reachable(q)' <=> Reachable(q))
    BY <1>2, <1>3 DEF Reachable
  <2>3. Opens(q)' <= 1
    BY <1>3, <2>1, <2>2 DEF Opens
  <2>4. Count(toConnector, q, {"window"}) \in Nat
    BY <1>1, CountsNat
  <2>5. Count(toConnector', q, {"window"}) <= Count(toConnector, q, {"window"})
    BY <1>3, <2>4, CountEmpty
  <2>6. Unacked(q)' <= Unacked(q)
    BY <1>1, <1>3, UnackedKept
  <2>7. QuietFor(q)
    BY <1>2, <1>3, <2>2, <2>3, <2>5, <2>6 DEF QuietFor
  <2>. QED
    BY <1>1, <1>4, <2>1, <2>7, QuietKeeps
<1>. QED
  BY <1>4, <1>5, <1>6, <1>7, Assemble DEF LinkFrames

-----------------------------------------------------------------------------
(* The pump.                                                               *)

\* An open frame among the first n of a queue, when a frame is added.
LEMMA OpenAppend ==
  ASSUME NEW F, NEW s \in Seq(F), NEW f \in F, NEW q
  PROVE  /\ \A n \in 0..Len(s) : OpenAmong(Append(s, f), n, q) <=> OpenAmong(s, n, q)
         /\ OpenAmong(Append(s, f), Len(Append(s, f)), q) <=>
              OpenAmong(s, Len(s), q) \/ (f.type = "open" /\ f.req = q)
<1>1. /\ Len(s) \in Nat /\ Len(Append(s, f)) = Len(s) + 1
      /\ Append(s, f)[Len(s) + 1] = f
      /\ \A i \in 1..Len(s) : Append(s, f)[i] = s[i]
  BY AddLast
<1>. QED
  BY <1>1 DEF OpenAmong

\* And when the first is taken.
LEMMA OpenTail ==
  ASSUME NEW F, NEW s \in Seq(F), s # <<>>, NEW q, NEW n \in 0..(Len(s) - 1)
  PROVE  OpenAmong(s, n + 1, q) <=>
           (Head(s).type = "open" /\ Head(s).req = q) \/ OpenAmong(Tail(s), n, q)
<1>1. /\ Len(s) \in Nat \ {0} /\ Len(Tail(s)) = Len(s) - 1 /\ Head(s) = s[1]
      /\ \A i \in 1..(Len(s) - 1) : Tail(s)[i] = s[i + 1]
  BY TakeFirst
<1>2. ASSUME NEW j \in 1..(n + 1), s[j].type = "open", s[j].req = q
      PROVE  (Head(s).type = "open" /\ Head(s).req = q) \/ OpenAmong(Tail(s), n, q)
  <2>1. j # 1 => j - 1 \in 1..n /\ Tail(s)[j - 1] = s[j]
    BY <1>1
  <2>. QED
    BY <1>1, <1>2, <2>1 DEF OpenAmong
<1>3. ASSUME NEW j \in 1..n, Tail(s)[j].type = "open", Tail(s)[j].req = q
      PROVE  OpenAmong(s, n + 1, q)
  <2>1. j + 1 \in 1..(n + 1) /\ Tail(s)[j] = s[j + 1]
    BY <1>1
  <2>. QED
    BY <1>3, <2>1 DEF OpenAmong
<1>4. 1 \in 1..(n + 1)
  OBVIOUS
<1>. QED
  BY <1>1, <1>2, <1>3, <1>4 DEF OpenAmong

\* The frames towards the edge after a write of the connector for r.
LEMMA DownWrite ==
  ASSUME BodyTypes, DownFrames, OpenFirst, EofLast, NEW r \in Requests, NEW t \in ToEdgeTypes,
         toEdge' = ToEdge(r, t), UNCHANGED <<esess, erecv, eUp, cUp>>,
         csess'[r] # "none", \A q \in Requests \ {r} : csess'[q] = csess[q],
         \/ t = "open" /\ csess[r] # "lost" /\ cUp
         \/ csess[r] # "none" /\ (csess'[r] \in {"open", "closed"} => csess[r] \in {"open", "closed"}),
         t = "data" => Count(toEdge, r, {"eof"}) = 0
  PROVE  DownFrames' /\ OpenFirst' /\ EofLast'
<1> DEFINE f == Frame(r, t, 0)
           F == FrameOf(ToEdgeTypes)
           s == Append(toEdge, f)
<1>1. f \in F /\ f.req = r /\ f.type = t
  BY FrameType, WindowAssumption
<1>2. toEdge \in Seq(F)
  BY DEF BodyTypes
<1>3. (Sends(r) => toEdge' = s) /\ (~Sends(r) => toEdge' = toEdge)
  BY DEF ToEdge, Sends
<1>4. \A i \in 1..Len(toEdge) : toEdge[i].req \in Requests
  <2>1. \A i \in 1..Len(toEdge) : toEdge[i] \in F
    BY <1>2, ElementOfSeq
  <2>. QED
    BY <2>1 DEF FrameOf
<1>. HIDE DEF f, F
<1>5. /\ Len(toEdge) \in Nat /\ Len(s) = Len(toEdge) + 1
      /\ s[Len(toEdge) + 1] = f
      /\ \A i \in 1..Len(toEdge) : s[i] = toEdge[i]
  BY <1>1, <1>2, AddLast
<1>6. csess[r] \in {"none", "open", "closed", "lost"}
  BY DEF BodyTypes
<1>7. \A q \in Requests : csess[q] # "none" => csess'[q] # "none"
  OBVIOUS
<1>8. \A i \in 1..Len(toEdge) : csess'[toEdge[i].req] # "none"
  BY <1>4, <1>7 DEF DownFrames
<1>9. /\ \A i \in 1..Len(toEdge) :
           \/ toEdge[i].type = "open" \/ esess[toEdge[i].req] # "none"
           \/ OpenAmong(toEdge, i - 1, toEdge[i].req)
      /\ \A q \in Requests : csess[q] \in {"open", "closed"} /\ eUp =>
           esess[q] # "none" \/ OpenAmong(toEdge, Len(toEdge), q)
  BY DEF OpenFirst
<1>10. DataFirst(toEdge) /\ \A q \in Requests : DataFirst(erecv[q])
  BY DEF EofLast
<1>11. CASE ~Sends(r)
  <2>1. toEdge' = toEdge
    BY <1>3, <1>11
  <2>2. DownFrames'
    BY <1>8, <2>1 DEF DownFrames
  <2>3. \A q \in Requests : csess'[q] \in {"open", "closed"} /\ eUp => csess[q] \in {"open", "closed"}
    BY <1>6, <1>11 DEF Sends
  <2>4. OpenFirst'
    BY <1>9, <2>1, <2>3 DEF OpenFirst
  <2>5. EofLast'
    BY <1>10, <2>1 DEF EofLast, DataFirst
  <2>. QED
    BY <2>2, <2>4, <2>5
<1>12. CASE Sends(r)
  <2>1. toEdge' = s
    BY <1>3, <1>12
  <2>2. DownFrames'
    <3>1. ASSUME NEW i \in 1..(Len(toEdge) + 1) PROVE csess'[s[i].req] # "none"
      <4>1. CASE i = Len(toEdge) + 1
        BY <1>1, <1>5, <4>1
      <4>2. CASE i # Len(toEdge) + 1
        <5>1. i \in 1..Len(toEdge)
          BY <1>5, <4>2
        <5>. QED
          BY <1>5, <1>8, <5>1
      <4>. QED
        BY <4>1, <4>2
    <3>2. eUp'
      BY <1>12 DEF Sends
    <3>. HIDE DEF s
    <3>. QED
      BY <1>5, <2>1, <3>1, <3>2 DEF DownFrames
  <2>3. DataFirst(s)
    BY <1>1, <1>2, <1>10, DataFirstAppend
  <2>4. EofLast'
    <3>. HIDE DEF s
    <3>. QED
      BY <1>10, <2>1, <2>3, Zenon DEF EofLast
  <2>. HIDE DEF s
  <2>5. \A q : /\ \A n \in 0..Len(toEdge) : OpenAmong(s, n, q) <=> OpenAmong(toEdge, n, q)
               /\ OpenAmong(s, Len(s), q) <=>
                    OpenAmong(toEdge, Len(toEdge), q) \/ (f.type = "open" /\ f.req = q)
    BY <1>1, <1>2, OpenAppend DEF s
  <2>6. ASSUME NEW i \in 1..Len(s), s[i].type # "open", esess[s[i].req] = "none"
        PROVE  OpenAmong(s, i - 1, s[i].req)
    <3>1. CASE i = Len(toEdge) + 1
      <4>1. t # "open" /\ esess[r] = "none" /\ s[i].req = r
        BY <1>1, <1>5, <2>6, <3>1
      <4>2. csess[r] \in {"open", "closed"} /\ eUp
        BY <1>6, <1>12, <4>1 DEF Sends
      <4>3. OpenAmong(toEdge, Len(toEdge), r)
        BY <1>9, <4>1, <4>2
      <4>4. i - 1 = Len(toEdge) /\ Len(toEdge) \in 0..Len(toEdge)
        BY <1>5, <3>1
      <4>. QED
        BY <2>5, <4>1, <4>3, <4>4
    <3>2. CASE i # Len(toEdge) + 1
      <4>1. i \in 1..Len(toEdge) /\ i - 1 \in 0..Len(toEdge)
        BY <1>5, <3>2
      <4>2. s[i] = toEdge[i]
        BY <1>5, <4>1
      <4>3. OpenAmong(toEdge, i - 1, toEdge[i].req)
        BY <1>9, <2>6, <4>1, <4>2
      <4>. QED
        BY <2>5, <4>1, <4>2, <4>3
    <3>. QED
      BY <3>1, <3>2
  <2>7. \A q \in Requests : csess'[q] \in {"open", "closed"} /\ eUp =>
          esess[q] # "none" \/ OpenAmong(s, Len(s), q)
    <3>1. ASSUME NEW q \in Requests, csess'[q] \in {"open", "closed"}, eUp
          PROVE  csess[q] \in {"open", "closed"} \/ (q = r /\ t = "open")
      BY <3>1
    <3>. QED
      BY <1>1, <1>9, <2>5, <3>1
  <2>8. OpenFirst'
    BY <1>5, <2>1, <2>6, <2>7 DEF OpenFirst
  <2>. QED
    BY <2>2, <2>4, <2>8
<1>. QED
  BY <1>11, <1>12

\* A step of r's pump does not concern the other requests.
LEMMA PumpOthers ==
  ASSUME BodyTypes, BodyTypes', LinkFrames, NEW r \in Requests, NEW q \in Requests \ {r}, Good(q),
         UNCHANGED <<got, erecv, consumed, esess, handler, outcome>>,
         UNCHANGED <<eUp, cUp, toConnector>>,
         nread'[q] = nread[q], credit'[q] = credit[q], pump'[q] = pump[q], csess'[q] = csess[q],
         toEdge' = toEdge \/ \E t \in ToEdgeTypes : toEdge' = ToEdge(r, t)
  PROVE  Good(q)'
<1>1. \A T : Count(toEdge', q, T) = Count(toEdge, q, T)
  <2>1. CASE toEdge' = toEdge
    BY <2>1
  <2>2. CASE \E t \in ToEdgeTypes : toEdge' = ToEdge(r, t)
    <3>1. PICK t \in ToEdgeTypes : toEdge' = ToEdge(r, t)
      BY <2>2
    <3>2. \A T : Count(toEdge', q, T) = Count(toEdge, q, T) + B(Sends(r) /\ q = r /\ t \in T)
      BY <3>1, WriteDown
    <3>3. \A T : B(Sends(r) /\ q = r /\ t \in T) = 0
      BY DEF B
    <3>4. \A T : Count(toEdge, q, T) \in Nat
      BY CountsNat
    <3>5. \A T : Count(toEdge, q, T) + 0 = Count(toEdge, q, T)
      BY <3>4
    <3>. QED
      BY <3>2, <3>3, <3>5, Zenon
  <2>. QED
    BY <2>1, <2>2
<1>2. Still(q)
  BY <1>1 DEF Still
<1>. QED
  BY <1>2, StillKeeps

\* While the pump has not reached the end of the body, no eof is under way and
\* the response has not ended cleanly.
LEMMA NoEofYet ==
  ASSUME BodyTypes, NEW r \in Requests, Good(r), pump[r] \notin {"closing", "ended"}
  PROVE  /\ Count(toEdge, r, {"eof"}) = 0 /\ Count(erecv[r], r, {"eof"}) = 0
         /\ outcome[r] # "clean"
<1>1. Eofs(r) <= 1 /\ CleanEnd(r)
  BY DEF Good, Counted
<1>2. Count(toEdge, r, {"eof"}) \in Nat /\ Count(erecv[r], r, {"eof"}) \in Nat
  BY CountsNat
<1>. QED
  BY <1>1, <1>2 DEF Eofs, Behind, B, CleanEnd

\* A step of r's pump that writes d data, e eof and l last frames.
LEMMA PumpGood ==
  ASSUME BodyTypes, BodyTypes', NEW r \in Requests, Good(r),
         UNCHANGED <<got, erecv, consumed, esess, handler, outcome>>,
         UNCHANGED <<eUp, cUp, toConnector>>,
         csess[r] # "none", csess'[r] # "none", pump'[r] # "none",
         csess'[r] \in {"open", "closed"} => csess[r] \in {"open", "closed"},
         NEW d \in Nat, NEW e \in Nat, NEW l \in Nat,
         Count(toEdge', r, {"data"}) = Count(toEdge, r, {"data"}) + d,
         Count(toEdge', r, {"eof"}) = Count(toEdge, r, {"eof"}) + e,
         Count(toEdge', r, {"close", "error"}) = Count(toEdge, r, {"close", "error"}) + l,
         Count(toEdge', r, {"open"}) = Count(toEdge, r, {"open"}),
         credit'[r] + B(pump'[r] = "write") + d <= credit[r] + B(pump[r] = "write"),
         e + B(pump'[r] \notin {"closing", "ended"}) <= B(pump[r] \notin {"closing", "ended"}),
         l + B(pump'[r] \notin {"ended", "gone"}) <= B(pump[r] \notin {"ended", "gone"}),
         d + B(pump'[r] \in {"credit", "write"}) + nread[r] <= B(pump[r] \in {"credit", "write"}) + nread'[r],
         csess'[r] # "lost" /\ eUp /\ Reachable(r) =>
           d + B(pump'[r] \in {"credit", "write"}) + nread[r] = B(pump[r] \in {"credit", "write"}) + nread'[r],
         \/ pump[r] \notin {"closing", "ended"}
         \/ pump'[r] \in {"closing", "ended"} /\ nread'[r] = nread[r] /\ d = 0,
         e > 0 => csess[r] # "lost" /\ eUp /\ pump[r] = "read" /\ nread'[r] = nread[r] /\ d = 0
  PROVE  Good(r)'
<1>1. /\ \A T : /\ Count(toEdge, r, T) \in Nat /\ Count(erecv[r], r, T) \in Nat
                /\ Behind(r, T) \in Nat /\ Count(toConnector, r, T) \in Nat
      /\ Returning(r) \in Nat
      /\ got[r] \in Nat /\ nread[r] \in Nat /\ Unacked(r) \in Nat /\ credit[r] \in Nat
  BY CountsNat
<1>2. nread'[r] \in Nat /\ credit'[r] \in Nat
  BY CountsNatNext
<1>3. SessionOf(r) /\ Counted(r) /\ Whole(r) /\ CleanEnd(r)
  BY DEF Good
<1>4. SessionOf(r)'
  BY <1>3 DEF SessionOf
<1>5. /\ Behind(r, {"data"})' = Behind(r, {"data"}) + d
      /\ Behind(r, {"eof"})' = Behind(r, {"eof"}) + e
      /\ Behind(r, {"close", "error"})' = Behind(r, {"close", "error"}) + l
  BY <1>1 DEF Behind
<1>6. Returning(r)' = Returning(r) /\ (Reachable(r)' <=> Reachable(r)) /\ Opens(r)' = Opens(r)
  BY DEF Returning, Reachable, Opens, B
<1>7. got'[r] = got[r] /\ Unacked(r)' = Unacked(r)
  BY DEF Unacked
<1>8. SendWindow \in Nat
  BY WindowAssumption
<1>9. Counted(r)'
  <2>1. Tokens(r)' <= SendWindow
    <3>1. Tokens(r) <= SendWindow
      BY <1>3 DEF Counted
    <3>. QED
      BY <1>1, <1>2, <1>5, <1>6, <1>7, <1>8, <3>1, BNat DEF Tokens
  <2>2. Eofs(r)' <= 1 /\ Lasts(r)' <= 1
    <3>1. Eofs(r) <= 1 /\ Lasts(r) <= 1
      BY <1>3 DEF Counted
    <3>. QED
      BY <1>1, <1>5, <3>1, BNat DEF Eofs, Lasts
  <2>3. Chunks(r)' <= nread'[r]
    <3>1. Chunks(r) <= nread[r]
      BY <1>3 DEF Counted
    <3>. QED
      BY <1>1, <1>2, <1>5, <1>7, <3>1, BNat DEF Chunks
  <2>. QED
    BY <1>3, <1>6, <2>1, <2>2, <2>3 DEF Counted
<1>10. Whole(r)'
  <2>1. csess'[r] # "lost" /\ eUp' /\ Reachable(r)' => Chunks(r)' = nread'[r]
    <3>1. SUFFICES ASSUME csess'[r] # "lost", eUp, Reachable(r) PROVE Chunks(r)' = nread'[r]
      BY <1>6
    <3>2. csess[r] # "lost"
      BY <3>1 DEF BodyTypes
    <3>3. Chunks(r) = nread[r]
      BY <1>3, <3>1, <3>2 DEF Whole
    <3>4. d + B(pump'[r] \in {"credit", "write"}) + nread[r] = B(pump[r] \in {"credit", "write"}) + nread'[r]
      BY <3>1
    <3>5. /\ B(pump[r] \in {"credit", "write"}) \in Nat /\ B(pump'[r] \in {"credit", "write"}) \in Nat
          /\ got[r] \in Nat /\ nread[r] \in Nat /\ nread'[r] \in Nat /\ Behind(r, {"data"}) \in Nat
      BY <1>1, <1>2, BNat
    <3>. QED
      BY <1>5, <1>7, <3>3, <3>4, <3>5 DEF Chunks
  <2>2. Count(toEdge', r, {"eof"}) > 0 /\ Reachable(r)' => got'[r] + Behind(r, {"data"})' = nread'[r]
    <3>1. SUFFICES ASSUME Count(toEdge', r, {"eof"}) > 0, Reachable(r)
                   PROVE  got[r] + Behind(r, {"data"}) + d = nread'[r]
      BY <1>1, <1>5, <1>6, <1>7
    <3>2. CASE pump[r] \in {"closing", "ended"}
      <4>1. e = 0 /\ nread'[r] = nread[r] /\ d = 0
        BY <3>2, BNat
      <4>2. Count(toEdge, r, {"eof"}) > 0
        BY <1>1, <3>1, <4>1
      <4>. QED
        BY <1>1, <1>3, <3>1, <4>1, <4>2 DEF Whole
    <3>3. CASE pump[r] \notin {"closing", "ended"}
      <4>1. Count(toEdge, r, {"eof"}) = 0
        BY <3>3, NoEofYet
      <4>2. e > 0
        BY <3>1, <4>1
      <4>3. csess[r] # "lost" /\ eUp /\ pump[r] = "read" /\ nread'[r] = nread[r] /\ d = 0
        BY <4>2
      <4>4. Chunks(r) = nread[r]
        BY <1>3, <3>1, <4>3 DEF Whole
      <4>. QED
        BY <1>1, <4>3, <4>4 DEF Chunks, B
    <3>. QED
      BY <3>2, <3>3
  <2>3. Count(erecv'[r], r, {"eof"}) > 0 /\ (Reachable(r)' \/ handler'[r] # "done") =>
          got'[r] + Count(erecv'[r], r, {"data"}) = nread'[r]
    <3>1. CASE pump[r] \in {"closing", "ended"}
      <4>1. nread'[r] = nread[r]
        BY <3>1
      <4>. QED
        BY <1>3, <1>6, <4>1 DEF Whole
    <3>2. CASE pump[r] \notin {"closing", "ended"}
      BY <3>2, NoEofYet
    <3>. QED
      BY <3>1, <3>2
  <2>. QED
    BY <2>1, <2>2, <2>3 DEF Whole
<1>11. CleanEnd(r)'
  <2>1. outcome[r] = "clean" => pump[r] \in {"closing", "ended"}
    BY <1>3 DEF CleanEnd
  <2>. QED
    BY <1>3, <2>1 DEF CleanEnd
<1>. QED
  BY <1>4, <1>9, <1>10, <1>11 DEF Good

\* What a step of r's pump leaves alone.
PumpFrame(r) ==
  /\ UNCHANGED <<got, erecv, consumed, esess, handler, outcome>>
  /\ UNCHANGED <<eUp, cUp, toConnector>>
  /\ \A q \in Requests \ {r} : /\ nread'[q] = nread[q] /\ credit'[q] = credit[q]
                               /\ pump'[q] = pump[q] /\ csess'[q] = csess[q]
  /\ nread' \in [Requests -> 0..Body] /\ credit' \in [Requests -> 0..SendWindow]
  /\ csess' \in [Requests -> {"none", "open", "closed", "lost"}]

\* A step of r's pump that writes no frame.
LEMMA PumpLocal ==
  ASSUME BodyInv, NEW r \in Requests, PumpFrame(r), toEdge' = toEdge, csess' = csess
  PROVE  BodyTypes' /\ (Good(r)' => BodyInv')
<1>1. /\ BodyTypes /\ LinkFrames /\ DownFrames /\ UpFrames /\ OpenFirst /\ EofLast
      /\ \A q \in Requests : Good(q)
  BY Parts
<1>2. BodyTypes'
  BY <1>1 DEF BodyTypes, PumpFrame
<1>3. DownFrames' /\ OpenFirst' /\ EofLast'
  BY <1>1, DownKept DEF PumpFrame
<1>4. UpFrames'
  BY <1>1 DEF UpFrames, PumpFrame
<1>5. ASSUME NEW q \in Requests \ {r} PROVE Good(q)'
  BY <1>1, <1>2, PumpOthers DEF PumpFrame
<1>6. ASSUME Good(r)' PROVE BodyInv'
  <2>1. \A q \in Requests : Good(q)'
    BY <1>5, <1>6
  <2>. QED
    BY <1>2, <1>3, <1>4, <2>1, Assemble DEF LinkFrames
<1>. QED
  BY <1>2, <1>6

\* A step of r's pump that writes a frame.
LEMMA PumpSends ==
  ASSUME BodyInv, NEW r \in Requests, PumpFrame(r), NEW t \in ToEdgeTypes, toEdge' = ToEdge(r, t),
         csess'[r] # "none",
         \/ t = "open" /\ csess[r] # "lost" /\ cUp
         \/ csess[r] # "none" /\ (csess'[r] \in {"open", "closed"} => csess[r] \in {"open", "closed"}),
         t = "data" => Count(toEdge, r, {"eof"}) = 0
  PROVE  BodyTypes' /\ (Good(r)' => BodyInv')
<1>1. /\ BodyTypes /\ LinkFrames /\ DownFrames /\ UpFrames /\ OpenFirst /\ EofLast
      /\ \A q \in Requests : Good(q)
  BY Parts
<1>2. toEdge' \in Seq(FrameOf(ToEdgeTypes))
  BY <1>1, WriteDown
<1>3. BodyTypes'
  BY <1>1, <1>2 DEF BodyTypes, PumpFrame
<1>4. /\ UNCHANGED <<esess, erecv, eUp, cUp>>
      /\ \A q \in Requests \ {r} : csess'[q] = csess[q]
  BY DEF PumpFrame
<1>5. DownFrames' /\ OpenFirst' /\ EofLast'
  BY <1>1, <1>4, DownWrite
<1>6. UpFrames'
  <2>1. \A q \in Requests : csess[q] # "none" => csess'[q] # "none"
    BY <1>4
  <2>2. "close" \in ToConnectorTypes /\ 0 \in 0..SendWindow
    BY WindowAssumption DEF ToConnectorTypes
  <2>3. toConnector' = toConnector
    BY DEF PumpFrame
  <2>. QED
    BY <1>1, <2>1, <2>2, <2>3, UpWrite
<1>7. ASSUME NEW q \in Requests \ {r} PROVE Good(q)'
  BY <1>1, <1>3, PumpOthers DEF PumpFrame
<1>8. ASSUME Good(r)' PROVE BodyInv'
  <2>1. \A q \in Requests : Good(q)'
    BY <1>7, <1>8
  <2>. QED
    BY <1>3, <1>5, <1>6, <2>1, Assemble DEF LinkFrames
<1>. QED
  BY <1>3, <1>8

\* The pump runs within a session.
LEMMA PumpSession ==
  ASSUME BodyInv, CallTypes, NEW r \in Requests, pump[r] # "none"
  PROVE  /\ BodyTypes /\ Good(r) /\ csess[r] \in {"open", "closed", "lost"}
         /\ (csess[r] \in {"open", "closed"} => cUp)
         /\ pump[r] \in Pumps /\ nread[r] \in 0..Body /\ credit[r] \in 0..SendWindow
         /\ Body \in Nat /\ SendWindow \in Nat
<1>1. BodyTypes /\ Good(r)
  BY Parts
<1>2. csess[r] # "none" /\ (csess[r] \in {"open", "closed"} => cUp)
  BY <1>1 DEF Good, SessionOf
<1>3. csess[r] \in {"none", "open", "closed", "lost"}
  BY <1>1 DEF BodyTypes
<1>4. nread[r] \in 0..Body /\ credit[r] \in 0..SendWindow
  BY <1>1 DEF BodyTypes
<1>5. pump[r] \in Pumps
  BY DEF CallTypes
<1>. QED
  BY <1>1, <1>2, <1>3, <1>4, <1>5, WindowAssumption, BodyAssumption

\* A pump step without a write keeps r's part when it loses no chunk of a
\* session that is up, and takes its token from the credit.
LEMMA PumpQuietly ==
  ASSUME BodyInv, CallTypes, NEW r \in Requests, PumpFrame(r), toEdge' = toEdge, csess' = csess,
         pump[r] \in {"read", "credit", "write"}, pump'[r] \in {"credit", "write", "gone"},
         credit'[r] + B(pump'[r] = "write") <= credit[r] + B(pump[r] = "write"),
         B(pump'[r] \in {"credit", "write"}) + nread[r] <= B(pump[r] \in {"credit", "write"}) + nread'[r],
         csess[r] # "lost" /\ eUp =>
           B(pump'[r] \in {"credit", "write"}) + nread[r] = B(pump[r] \in {"credit", "write"}) + nread'[r]
  PROVE  BodyInv'
<1>1. BodyTypes' /\ (Good(r)' => BodyInv')
  BY PumpLocal
<1>2. /\ BodyTypes /\ Good(r) /\ csess[r] \in {"open", "closed", "lost"}
      /\ nread[r] \in Nat /\ credit[r] \in Nat
  BY PumpSession
<1>3. nread'[r] \in Nat /\ credit'[r] \in Nat
  BY <1>1, CountsNatNext
<1>4. \A T : Count(toEdge, r, T) \in Nat
  BY <1>2, CountsNat
<1>5. \A T : Count(toEdge', r, T) = Count(toEdge, r, T) + 0
  BY <1>4
<1>6. /\ 0 + B(pump'[r] \notin {"closing", "ended"}) <= B(pump[r] \notin {"closing", "ended"})
      /\ 0 + B(pump'[r] \notin {"ended", "gone"}) <= B(pump[r] \notin {"ended", "gone"})
      /\ credit'[r] + B(pump'[r] = "write") + 0 <= credit[r] + B(pump[r] = "write")
  BY <1>2, <1>3 DEF B
<1>7. /\ 0 + B(pump'[r] \in {"credit", "write"}) + nread[r] <= B(pump[r] \in {"credit", "write"}) + nread'[r]
      /\ csess'[r] # "lost" /\ eUp /\ Reachable(r) =>
           0 + B(pump'[r] \in {"credit", "write"}) + nread[r] = B(pump[r] \in {"credit", "write"}) + nread'[r]
  BY BNat
<1>8. /\ UNCHANGED <<got, erecv, consumed, esess, handler, outcome>>
      /\ UNCHANGED <<eUp, cUp, toConnector>>
  BY DEF PumpFrame
<1>9. /\ csess[r] # "none" /\ csess'[r] # "none" /\ pump'[r] # "none"
      /\ csess'[r] \in {"open", "closed"} => csess[r] \in {"open", "closed"}
      /\ pump[r] \notin {"closing", "ended"}
  BY <1>2
<1>10. Good(r)'
  BY <1>1, <1>2, <1>4, <1>5, <1>6, <1>7, <1>8, <1>9, PumpGood
<1>. QED
  BY <1>1, <1>10

\* The frames the pump writes: a chunk for its token, the eof at the end of
\* the body, and the last frame.
LEMMA PumpSpeaks ==
  ASSUME BodyInv, CallTypes, NEW r \in Requests, PumpFrame(r),
         nread' = nread, credit' = credit, csess'[r] # "none",
         csess'[r] \in {"open", "closed"} => csess[r] \in {"open", "closed"},
         NEW t \in {"data", "eof", "close", "error"}, toEdge' = ToEdge(r, t),
         \/ t = "data" /\ pump[r] = "write" /\ pump'[r] = "read" /\ csess[r] = "open"
         \/ t = "eof" /\ pump[r] = "read" /\ pump'[r] = "closing"
         \/ t = "close" /\ pump[r] = "closing" /\ pump'[r] = "ended"
         \/ t = "error" /\ pump[r] = "read" /\ pump'[r] = "gone"
  PROVE  BodyInv'
<1> DEFINE d == B(Sends(r) /\ t \in {"data"})
           e == B(Sends(r) /\ t \in {"eof"})
           l == B(Sends(r) /\ t \in {"close", "error"})
<1>1. t \in ToEdgeTypes /\ t # "open"
  BY DEF ToEdgeTypes
<1>2. /\ BodyTypes /\ Good(r) /\ csess[r] \in {"open", "closed", "lost"}
      /\ (csess[r] \in {"open", "closed"} => cUp)
      /\ nread[r] \in Nat /\ credit[r] \in Nat
  BY PumpSession
<1>3. t = "data" => Count(toEdge, r, {"eof"}) = 0
  BY <1>2, NoEofYet
<1>4. BodyTypes' /\ (Good(r)' => BodyInv')
  BY <1>1, <1>2, <1>3, PumpSends
<1>5. \A T : Count(toEdge, r, T) \in Nat
  BY <1>2, CountsNat
<1>6. \A q, T : Count(toEdge', q, T) = Count(toEdge, q, T) + B(Sends(r) /\ q = r /\ t \in T)
  BY <1>1, <1>2, WriteDown
<1>7. /\ Count(toEdge', r, {"data"}) = Count(toEdge, r, {"data"}) + d
      /\ Count(toEdge', r, {"eof"}) = Count(toEdge, r, {"eof"}) + e
      /\ Count(toEdge', r, {"close", "error"}) = Count(toEdge, r, {"close", "error"}) + l
      /\ Count(toEdge', r, {"open"}) = Count(toEdge, r, {"open"})
  <2>1. /\ B(Sends(r) /\ r = r /\ t \in {"data"}) = d
        /\ B(Sends(r) /\ r = r /\ t \in {"eof"}) = e
        /\ B(Sends(r) /\ r = r /\ t \in {"close", "error"}) = l
        /\ B(Sends(r) /\ r = r /\ t \in {"open"}) = 0
    BY <1>1 DEF B
  <2>. HIDE DEF d, e, l
  <2>. QED
    BY <1>5, <1>6, <2>1
<1>8. /\ UNCHANGED <<got, erecv, consumed, esess, handler, outcome>>
      /\ UNCHANGED <<eUp, cUp, toConnector>>
  BY DEF PumpFrame
<1>9. /\ csess[r] # "none" /\ csess'[r] # "none" /\ pump'[r] # "none"
      /\ csess'[r] \in {"open", "closed"} => csess[r] \in {"open", "closed"}
  BY <1>2
<1>10. nread'[r] = nread[r] /\ credit'[r] = credit[r]
  OBVIOUS
<1>11. (Sends(r) => csess[r] # "lost" /\ eUp) /\ (csess[r] # "lost" /\ eUp => Sends(r))
  BY <1>2 DEF Sends
<1>12. d \in Nat /\ e \in Nat /\ l \in Nat
  BY BNat
<1>13. /\ credit'[r] + B(pump'[r] = "write") + d <= credit[r] + B(pump[r] = "write")
       /\ e + B(pump'[r] \notin {"closing", "ended"}) <= B(pump[r] \notin {"closing", "ended"})
       /\ l + B(pump'[r] \notin {"ended", "gone"}) <= B(pump[r] \notin {"ended", "gone"})
  BY <1>2, <1>10 DEF B
<1>14. /\ d + B(pump'[r] \in {"credit", "write"}) + nread[r] <= B(pump[r] \in {"credit", "write"}) + nread'[r]
       /\ csess'[r] # "lost" /\ eUp /\ Reachable(r) =>
           d + B(pump'[r] \in {"credit", "write"}) + nread[r] = B(pump[r] \in {"credit", "write"}) + nread'[r]
  BY <1>2, <1>10, <1>11 DEF B
<1>15. /\ \/ pump[r] \notin {"closing", "ended"}
          \/ pump'[r] \in {"closing", "ended"} /\ nread'[r] = nread[r] /\ d = 0
       /\ e > 0 => csess[r] # "lost" /\ eUp /\ pump[r] = "read" /\ nread'[r] = nread[r] /\ d = 0
  BY <1>10, <1>11 DEF B
<1>. HIDE DEF d, e, l
<1>16. Good(r)'
  BY <1>2, <1>4, <1>7, <1>8, <1>9, <1>12, <1>13, <1>14, <1>15, PumpGood
<1>. QED
  BY <1>4, <1>16

\* The pump's steps keep the invariant.
LEMMA PumpBody ==
  ASSUME BodyInv, CallTypes, NEW r \in Requests,
         \/ PumpRead(r) \/ PumpCredit(r) \/ PumpClosed(r) \/ PumpWrite(r)
         \/ PumpEOF(r) \/ PumpClose(r) \/ PumpFails(r)
  PROVE  BodyInv'
<1>1. BodyTypes /\ pump \in [Requests -> Pumps]
  BY Parts DEF CallTypes
<1>2. /\ nread \in [Requests -> 0..Body] /\ credit \in [Requests -> 0..SendWindow]
      /\ csess \in [Requests -> {"none", "open", "closed", "lost"}]
      /\ SendWindow \in Nat /\ Body \in Nat
  BY <1>1, WindowAssumption, BodyAssumption DEF BodyTypes
<1>3. pump[r] # "none" => csess[r] \in {"open", "closed", "lost"}
  BY PumpSession
<1>4. ASSUME PumpRead(r) PROVE BodyInv'
  <2>1. /\ pump[r] = "read" /\ pump'[r] = "credit" /\ nread'[r] = nread[r] + 1 /\ credit'[r] = credit[r]
        /\ toEdge' = toEdge /\ csess' = csess
    BY <1>1, <1>2, <1>4 DEF PumpRead, linkVars
  <2>2. PumpFrame(r)
    BY <1>1, <1>2, <1>4 DEF PumpRead, PumpFrame, edgeVars, edgeSess, linkVars
  <2>3. nread[r] \in Nat /\ credit[r] \in Nat
    BY <1>2
  <2>. QED
    BY <2>1, <2>2, <2>3, PumpQuietly DEF B
<1>5. ASSUME PumpCredit(r) PROVE BodyInv'
  <2>1. /\ pump[r] = "credit" /\ pump'[r] = "write" /\ nread'[r] = nread[r] /\ credit'[r] = credit[r] - 1
        /\ toEdge' = toEdge /\ csess' = csess
    BY <1>1, <1>2, <1>5 DEF PumpCredit, linkVars
  <2>2. PumpFrame(r)
    BY <1>1, <1>2, <1>5 DEF PumpCredit, PumpFrame, edgeVars, edgeSess, linkVars
  <2>3. nread[r] \in Nat /\ credit[r] \in Nat
    BY <1>2
  <2>. QED
    BY <2>1, <2>2, <2>3, PumpQuietly DEF B
<1>6. ASSUME pump[r] \in {"credit", "write"}, csess[r] = "lost" \/ ~eUp, PumpReturns(r),
             UNCHANGED <<edgeVars, edgeSess, csess, credit, nread, linkVars>>
      PROVE  BodyInv'
  <2>1. /\ pump'[r] = "gone" /\ nread'[r] = nread[r] /\ credit'[r] = credit[r]
        /\ toEdge' = toEdge /\ csess' = csess
    BY <1>1, <1>6 DEF PumpReturns, linkVars
  <2>2. PumpFrame(r)
    BY <1>1, <1>2, <1>6 DEF PumpReturns, PumpFrame, edgeVars, edgeSess, linkVars
  <2>3. nread[r] \in Nat /\ credit[r] \in Nat
    BY <1>2
  <2>. QED
    BY <1>6, <2>1, <2>2, <2>3, PumpQuietly DEF B
<1>7. ASSUME PumpClosed(r) PROVE BodyInv'
  BY <1>6, <1>7 DEF PumpClosed
<1>8. ASSUME PumpWrite(r) PROVE BodyInv'
  <2>1. ASSUME csess[r] = "open", toEdge' = ToEdge(r, "data"), pump' = [pump EXCEPT ![r] = "read"]
        PROVE  BodyInv'
    <3>1. pump[r] = "write" /\ pump'[r] = "read" /\ nread' = nread /\ credit' = credit /\ csess' = csess
      BY <1>1, <1>8, <2>1 DEF PumpWrite
    <3>2. PumpFrame(r)
      BY <1>1, <1>2, <1>8, <2>1 DEF PumpWrite, PumpFrame, edgeVars, edgeSess
    <3>. QED
      BY <2>1, <3>1, <3>2, PumpSpeaks
  <2>2. ASSUME csess[r] = "lost" \/ ~eUp, PumpReturns(r), UNCHANGED toEdge
        PROVE  BodyInv'
    BY <1>6, <1>8, <2>2 DEF PumpWrite, linkVars
  <2>. QED
    BY <1>8, <2>1, <2>2 DEF PumpWrite
<1>9. ASSUME PumpEOF(r) PROVE BodyInv'
  <2>1. /\ pump[r] = "read" /\ pump'[r] = "closing" /\ nread' = nread /\ credit' = credit
        /\ csess' = csess /\ toEdge' = ToEdge(r, "eof")
    BY <1>1, <1>9 DEF PumpEOF
  <2>2. PumpFrame(r)
    BY <1>1, <1>2, <1>9 DEF PumpEOF, PumpFrame, edgeVars, edgeSess
  <2>. QED
    BY <1>3, <2>1, <2>2, PumpSpeaks
<1>10. ASSUME csess' = Closed(csess, r)
       PROVE  /\ csess' \in [Requests -> {"none", "open", "closed", "lost"}]
              /\ \A q \in Requests \ {r} : csess'[q] = csess[q]
              /\ pump[r] # "none" => csess'[r] # "none"
              /\ csess'[r] \in {"open", "closed"} => csess[r] \in {"open", "closed"}
  BY <1>2, <1>3, <1>10 DEF Closed
<1>11. ASSUME PumpClose(r) PROVE BodyInv'
  <2>1. /\ pump[r] = "closing" /\ pump'[r] = "ended" /\ nread' = nread /\ credit' = credit
        /\ toEdge' = ToEdge(r, "close") /\ csess' = Closed(csess, r)
    BY <1>1, <1>11 DEF PumpClose, PumpReturns
  <2>2. PumpFrame(r)
    BY <1>1, <1>2, <1>10, <1>11, <2>1 DEF PumpClose, PumpReturns, PumpFrame, edgeVars, edgeSess
  <2>. QED
    BY <1>10, <2>1, <2>2, PumpSpeaks
<1>12. ASSUME PumpFails(r) PROVE BodyInv'
  <2>1. /\ pump[r] = "read" /\ pump'[r] = "gone" /\ nread' = nread /\ credit' = credit
        /\ toEdge' = ToEdge(r, "error") /\ csess' = Closed(csess, r)
    BY <1>1, <1>12 DEF PumpFails, PumpReturns
  <2>2. PumpFrame(r)
    BY <1>1, <1>2, <1>10, <1>12, <2>1 DEF PumpFails, PumpReturns, PumpFrame, edgeVars, edgeSess
  <2>. QED
    BY <1>10, <2>1, <2>2, PumpSpeaks
<1>. QED
  BY <1>4, <1>5, <1>7, <1>8, <1>9, <1>11, <1>12

\* streamResponse opens the session: the request had none, so no frame of it
\* is anywhere, and it starts with the whole window.
LEMMA OpenBody ==
  ASSUME BodyInv, CallInv, NEW r \in Requests, StreamOpens(r)
  PROVE  BodyInv'
<1>1. /\ BodyTypes /\ LinkFrames /\ DownFrames /\ UpFrames /\ OpenFirst /\ EofLast
      /\ \A q \in Requests : Good(q)
  BY Parts
<1>2. SessionOf(r) /\ Counted(r) /\ Whole(r) /\ CleanEnd(r) /\ Good(r)
  BY <1>1 DEF Good
<1>3. pump[r] = "none" /\ pump \in [Requests -> Pumps]
  BY DEF CallInv, CallTypes, OrderInv, StreamOpens
<1>4. csess[r] = "none" /\ nread[r] = 0 /\ got[r] = 0 /\ Unacked(r) = 0 /\ erecv[r] = <<>>
  BY <1>2, <1>3 DEF SessionOf
<1>5. /\ \A T : Count(toEdge, r, T) = 0 /\ Count(erecv[r], r, T) = 0 /\ Behind(r, T) = 0
      /\ Count(toConnector, r, {"window"}) = 0
  BY <1>1, <1>2, <1>4, FreshCounts
<1>6. esess[r] = "none"
  BY <1>2, <1>4, <1>5 DEF Counted, Opens, B
<1>7. outcome[r] # "clean"
  BY <1>2, <1>3 DEF CleanEnd
<1>8. /\ nread \in [Requests -> 0..Body] /\ credit \in [Requests -> 0..SendWindow]
      /\ csess \in [Requests -> {"none", "open", "closed", "lost"}]
      /\ SendWindow \in Nat
  BY <1>1, WindowAssumption DEF BodyTypes
<1>9. /\ UNCHANGED <<got, erecv, consumed, esess, handler, outcome, nread, eUp, cUp, toConnector>>
      /\ csess' = [csess EXCEPT ![r] = "open"] /\ credit' = [credit EXCEPT ![r] = SendWindow]
      /\ pump' = [pump EXCEPT ![r] = "read"] /\ toEdge' = ToEdge(r, "open") /\ cUp
  BY DEF StreamOpens, edgeVars, edgeSess
<1>10. csess'[r] = "open" /\ credit'[r] = SendWindow /\ pump'[r] = "read"
  BY <1>3, <1>8, <1>9
<1>11. PumpFrame(r)
  BY <1>3, <1>8, <1>9 DEF PumpFrame
<1>12. "open" \in ToEdgeTypes
  BY DEF ToEdgeTypes
<1>13. BodyTypes' /\ (Good(r)' => BodyInv')
  BY <1>4, <1>9, <1>10, <1>11, <1>12, PumpSends
<1>14. /\ Count(toEdge', r, {"data"}) = 0 /\ Count(toEdge', r, {"eof"}) = 0
       /\ Count(toEdge', r, {"close", "error"}) = 0
       /\ Count(toEdge', r, {"open"}) \in {0, 1}
  <2>1. \A q, T : Count(toEdge', q, T) = Count(toEdge, q, T) + B(Sends(r) /\ q = r /\ "open" \in T)
    BY <1>1, <1>9, <1>12, WriteDown
  <2>2. /\ B(Sends(r) /\ r = r /\ "open" \in {"data"}) = 0
        /\ B(Sends(r) /\ r = r /\ "open" \in {"eof"}) = 0
        /\ B(Sends(r) /\ r = r /\ "open" \in {"close", "error"}) = 0
        /\ B(Sends(r) /\ r = r /\ "open" \in {"open"}) \in {0, 1}
    BY DEF B
  <2>. QED
    BY <1>5, <2>1, <2>2
<1>15. \A T : Count(erecv'[r], r, T) = 0
  BY <1>5, <1>9
<1>16. /\ Behind(r, {"data"})' = 0 /\ Behind(r, {"eof"})' = 0
       /\ Behind(r, {"close", "error"})' = 0
  BY <1>14, <1>15 DEF Behind
<1>17. Returning(r)' = 0
  BY <1>5, <1>9, ThresholdType DEF Returning
<1>18. SessionOf(r)'
  BY <1>4, <1>9, <1>10 DEF SessionOf
<1>19. Counted(r)'
  <2>1. Tokens(r)' <= SendWindow
    <3>1. Unacked(r)' = 0
      BY <1>4, <1>9 DEF Unacked
    <3>. QED
      BY <1>8, <1>10, <1>16, <1>17, <3>1 DEF Tokens, B
  <2>2. Eofs(r)' <= 1 /\ Lasts(r)' <= 1
    BY <1>10, <1>16 DEF Eofs, Lasts, B
  <2>3. Opens(r)' <= 1
    BY <1>6, <1>9, <1>10, <1>14 DEF Opens, B
  <2>4. Chunks(r)' <= nread'[r]
    BY <1>4, <1>9, <1>10, <1>16 DEF Chunks, B
  <2>. QED
    BY <2>1, <2>2, <2>3, <2>4 DEF Counted
<1>20. Whole(r)'
  <2>1. Chunks(r)' = nread'[r]
    BY <1>4, <1>9, <1>10, <1>16 DEF Chunks, B
  <2>. QED
    BY <1>14, <1>15, <2>1 DEF Whole
<1>21. CleanEnd(r)'
  BY <1>7, <1>9 DEF CleanEnd
<1>. QED
  BY <1>13, <1>18, <1>19, <1>20, <1>21 DEF Good

-----------------------------------------------------------------------------
(* The edge's handler reads the session.                                   *)

\* It takes the first frame of r's receive queue.
LEMMA TakeReceived ==
  ASSUME BodyTypes, EofLast, NEW r \in Requests, SessionOf(r), erecv[r] # <<>>,
         erecv' = [erecv EXCEPT ![r] = Tail(@)]
  PROVE  /\ erecv' \in [Requests -> Seq(FrameOf(Down))]
         /\ \A q \in Requests \ {r} : erecv'[q] = erecv[q]
         /\ \A q \in Requests : DataFirst(erecv'[q])
         /\ \A i \in 1..Len(erecv'[r]) : erecv'[r][i].req = r
         /\ \A T : Count(erecv[r], r, T) = Count(erecv'[r], r, T) + B(Head(erecv[r]).type \in T)
         /\ Head(erecv[r]).type \in Down
         /\ csess[r] # "none" /\ esess[r] # "none"
<1> DEFINE s == erecv[r]
           F == FrameOf(Down)
<1>1. erecv \in [Requests -> Seq(F)] /\ s \in Seq(F)
  BY DEF BodyTypes
<1>2. \A i \in 1..Len(s) : s[i].req = r
  BY DEF SessionOf
<1>3. csess[r] # "none" /\ esess[r] # "none"
  BY DEF SessionOf
<1>4. erecv'[r] = Tail(s) /\ \A q \in Requests \ {r} : erecv'[q] = erecv[q]
  BY <1>1
<1>5. s # <<>>
  OBVIOUS
<1>6. \A q \in Requests : DataFirst(erecv[q])
  BY DEF EofLast
<1>7. DataFirst(s)
  BY <1>6
<1>. HIDE DEF s, F
<1>8. /\ Len(s) \in Nat \ {0} /\ Tail(s) \in Seq(F)
      /\ Len(Tail(s)) = Len(s) - 1
      /\ Head(s) = s[1] /\ Head(s) \in F
      /\ \A i \in 1..(Len(s) - 1) : Tail(s)[i] = s[i + 1]
  BY <1>1, <1>5, TakeFirst
<1>9. erecv' \in [Requests -> Seq(F)]
  BY <1>1, <1>8 DEF s
<1>10. \A q \in Requests : DataFirst(erecv'[q])
  <2>1. DataFirst(Tail(s))
    BY <1>1, <1>5, <1>7, DataFirstTail
  <2>. QED
    BY <1>4, <1>6, <2>1
<1>11. \A i \in 1..Len(Tail(s)) : Tail(s)[i].req = r
  BY <1>2, <1>8
<1>12. Head(s).req = r
  BY <1>2, <1>8
<1>13. \A T : Count(s, r, T) = Count(Tail(s), r, T) + B(Head(s).type \in T)
  <2>1. \A T : Count(s, r, T) = Count(Tail(s), r, T) + B(Head(s).req = r /\ Head(s).type \in T)
    BY <1>1, <1>5, CountTail
  <2>2. \A T : B(Head(s).req = r /\ Head(s).type \in T) = B(Head(s).type \in T)
    BY <1>12 DEF B
  <2>. QED
    BY <2>1, <2>2
<1>14. Head(s).type \in Down
  BY <1>8 DEF F, FrameOf
<1>. QED
  BY <1>3, <1>4, <1>9, <1>10, <1>11, <1>13, <1>14, Zenon DEF s, F

\* A step of r's handler does not concern the other requests.
LEMMA ReaderOthers ==
  ASSUME BodyTypes, BodyTypes', LinkFrames, NEW r \in Requests, NEW q \in Requests \ {r}, Good(q),
         UNCHANGED <<nread, csess, credit, pump>>, UNCHANGED <<eUp, cUp, toEdge>>,
         got'[q] = got[q], erecv'[q] = erecv[q], consumed'[q] = consumed[q], esess'[q] = esess[q],
         handler'[q] = handler[q], outcome'[q] = outcome[q],
         NEW t \in ToConnectorTypes, NEW k \in 0..SendWindow,
         toConnector' = toConnector \/ toConnector' = ToConnector(r, t, k)
  PROVE  Good(q)'
<1>1. Count(toConnector', q, {"window"}) = Count(toConnector, q, {"window"})
  <2>1. CASE toConnector' = toConnector
    BY <2>1
  <2>2. CASE toConnector' = ToConnector(r, t, k)
    <3>1. Count(toConnector', q, {"window"}) = Count(toConnector, q, {"window"})
              + B(esess[r] # "lost" /\ cUp /\ eUp /\ q = r /\ t \in {"window"})
      BY <2>2, WriteUp
    <3>2. B(esess[r] # "lost" /\ cUp /\ eUp /\ q = r /\ t \in {"window"}) = 0
      BY DEF B
    <3>3. Count(toConnector, q, {"window"}) \in Nat
      BY CountsNat
    <3>. QED
      BY <3>1, <3>2, <3>3
  <2>. QED
    BY <2>1, <2>2
<1>2. Still(q)
  BY <1>1 DEF Still
<1>. QED
  BY <1>2, StillKeeps

\* The handler ends at the frame it took: the session is closed, and the
\* response is complete only when that frame is the eof, behind which no data
\* is left.
LEMMA ReaderEnds ==
  ASSUME BodyInv, CallTypes, NEW r \in Requests, handler[r] = "streaming", erecv[r] # <<>>,
         erecv' = [erecv EXCEPT ![r] = Tail(@)], NEW o, EndStream(r, o),
         o = "clean" => Head(erecv[r]).type = "eof",
         outcome \in [Requests -> {"none", "ok", "error", "gaveup", "gone", "aborted", "clean"}],
         UNCHANGED <<got, consumed, nread, csess, credit, pump>>, UNCHANGED <<eUp, cUp, toEdge>>
  PROVE  BodyInv'
<1>1. /\ BodyTypes /\ LinkFrames /\ DownFrames /\ UpFrames /\ OpenFirst /\ EofLast
      /\ \A q \in Requests : Good(q)
  BY Parts
<1>2. SessionOf(r) /\ Counted(r) /\ Whole(r) /\ CleanEnd(r) /\ Good(r)
  BY <1>1 DEF Good
<1>3. /\ erecv' \in [Requests -> Seq(FrameOf(Down))]
      /\ \A q \in Requests \ {r} : erecv'[q] = erecv[q]
      /\ \A q \in Requests : DataFirst(erecv'[q])
      /\ \A i \in 1..Len(erecv'[r]) : erecv'[r][i].req = r
      /\ \A T : Count(erecv[r], r, T) = Count(erecv'[r], r, T) + B(Head(erecv[r]).type \in T)
      /\ csess[r] # "none" /\ esess[r] # "none"
  BY <1>1, <1>2, TakeReceived
<1>4. /\ esess' = Closed(esess, r) /\ toConnector' = ToConnector(r, "close", 0)
      /\ handler' = [handler EXCEPT ![r] = "done"] /\ outcome' = [outcome EXCEPT ![r] = o]
  BY DEF EndStream, Answer
<1>5. /\ esess' \in [Requests -> {"none", "open", "closed", "lost"}]
      /\ \A q \in Requests \ {r} : esess'[q] = esess[q]
      /\ esess'[r] \in {"closed", "lost"}
  BY <1>1, <1>3, <1>4 DEF BodyTypes, Closed
<1>6. "close" \in ToConnectorTypes /\ 0 \in 0..SendWindow
  BY WindowAssumption DEF ToConnectorTypes
<1>7. /\ toConnector' \in Seq(FrameOf(ToConnectorTypes))
      /\ \A q, T : Count(toConnector', q, T) =
                     Count(toConnector, q, T) + B(esess[r] # "lost" /\ cUp /\ eUp /\ q = r /\ "close" \in T)
  BY <1>1, <1>4, <1>6, WriteUp
<1>8. BodyTypes'
  BY <1>1, <1>3, <1>5, <1>7 DEF BodyTypes
<1>9. DownFrames' /\ OpenFirst' /\ EofLast'
  <2>1. \A q \in Requests : esess[q] # "none" => esess'[q] # "none"
    BY <1>5
  <2>2. \A i \in 1..Len(toEdge) : toEdge[i].req \in Requests
    <3>1. toEdge \in Seq(FrameOf(ToEdgeTypes))
      BY <1>1 DEF BodyTypes
    <3>2. \A i \in 1..Len(toEdge) : toEdge[i] \in FrameOf(ToEdgeTypes)
      BY <3>1, ElementOfSeq
    <3>. QED
      BY <3>2 DEF FrameOf
  <2>3. DownFrames'
    BY <1>1 DEF DownFrames
  <2>4. OpenFirst'
    BY <1>1, <2>1, <2>2 DEF OpenFirst
  <2>5. EofLast'
    BY <1>1, <1>3 DEF EofLast, DataFirst
  <2>. QED
    BY <2>3, <2>4, <2>5
<1>10. UpFrames'
  BY <1>1, <1>4, <1>6, UpWrite
<1>11. handler'[r] = "done" /\ outcome'[r] = o
  BY <1>4 DEF CallTypes
<1>12. ASSUME NEW q \in Requests \ {r} PROVE Good(q)'
  <2>1. handler'[q] = handler[q] /\ outcome'[q] = outcome[q]
    BY <1>4 DEF CallTypes
  <2>2. Good(q)
    BY <1>1
  <2>. QED
    BY <1>1, <1>3, <1>4, <1>5, <1>6, <1>8, <2>1, <2>2, ReaderOthers
<1>13. /\ \A T : /\ Count(toEdge, r, T) \in Nat /\ Count(erecv[r], r, T) \in Nat
                 /\ Behind(r, T) \in Nat /\ Count(toConnector, r, T) \in Nat
       /\ Returning(r) \in Nat
       /\ got[r] \in Nat /\ nread[r] \in Nat /\ consumed[r] \in Nat /\ credit[r] \in Nat
  BY <1>1, CountsNat
<1>14. \A T : Count(erecv'[r], r, T) \in Nat /\ Count(toEdge', r, T) \in Nat /\ Behind(r, T)' \in Nat
  BY <1>8, CountsNatNext
<1>15. \A T : Behind(r, T)' <= Behind(r, T)
  <2>1. SUFFICES ASSUME NEW T PROVE Behind(r, T)' <= Behind(r, T)
    OBVIOUS
  <2> DEFINE b == B(Head(erecv[r]).type \in T)
  <2>2. /\ Count(erecv[r], r, T) = Count(erecv'[r], r, T) + b
        /\ Count(toEdge', r, T) = Count(toEdge, r, T)
    BY <1>3
  <2>3. b \in Nat
    BY BNat
  <2>4. Count(erecv'[r], r, T) \in Nat /\ Count(erecv[r], r, T) \in Nat /\ Count(toEdge, r, T) \in Nat
    BY <1>13, <1>14
  <2>. HIDE DEF b
  <2>. QED
    BY <2>2, <2>3, <2>4 DEF Behind
<1>16. Count(toConnector', r, {"window"}) = Count(toConnector, r, {"window"})
  <2>1. B(esess[r] # "lost" /\ cUp /\ eUp /\ r = r /\ "close" \in {"window"}) = 0
    BY DEF B
  <2>. QED
    BY <1>7, <1>13, <2>1
<1>17. Returning(r)' = Returning(r)
  BY <1>16 DEF Returning
<1>18. SessionOf(r)'
  BY <1>2, <1>3, <1>5 DEF SessionOf
<1>19. Counted(r)'
  <2>1. Opens(r)' <= 1
    <3>1. Opens(r)' = Opens(r)
      BY <1>3, <1>5 DEF Opens, B
    <3>. QED
      BY <1>2, <3>1 DEF Counted
  <2>2. Returning(r)' <= Returning(r)
    BY <1>13, <1>17
  <2>3. Unacked(r)' <= Unacked(r)
    BY <1>1, <1>11, UnackedKept
  <2>4. /\ got'[r] = got[r] /\ nread'[r] = nread[r]
        /\ credit'[r] = credit[r] /\ pump'[r] = pump[r]
    OBVIOUS
  <2>. QED
    BY <1>1, <1>2, <1>8, <1>15, <2>1, <2>2, <2>3, <2>4, CountedShrinks
<1>20. Whole(r)'
  BY <1>5, <1>11 DEF Whole, Reachable
<1>21. CleanEnd(r)'
  <2>1. SUFFICES ASSUME Head(erecv[r]).type = "eof"
                 PROVE  pump[r] \in {"closing", "ended"} /\ got[r] = nread[r]
    BY <1>11 DEF CleanEnd
  <2>2. Count(erecv[r], r, {"eof"}) > 0
    <3>1. B(Head(erecv[r]).type \in {"eof"}) = 1
      BY <2>1 DEF B
    <3>. QED
      BY <1>3, <1>14, <3>1
  <2>3. pump[r] \in {"closing", "ended"}
    BY <1>1, <1>2, <1>13, <2>2, NoEofYet
  <2>4. got[r] + Count(erecv[r], r, {"data"}) = nread[r]
    BY <1>2, <2>2 DEF Whole
  <2>5. Count(erecv[r], r, {"data"}) = 0
    <3> DEFINE s == erecv[r]
    <3>1. s \in Seq(FrameOf(Down)) /\ DataFirst(s) /\ \A i \in 1..Len(s) : s[i].req = r
      BY <1>1, <1>2 DEF BodyTypes, EofLast, SessionOf
    <3>2. s # <<>> /\ Head(s).type = "eof"
      BY <2>1
    <3>. HIDE DEF s
    <3>3. Len(s) \in Nat \ {0} /\ Head(s) = s[1]
      BY <3>1, <3>2, TakeFirst
    <3>4. Head(s).req = r
      BY <3>1, <3>3
    <3>5. Count(s, r, {"data"}) = 0
      BY <3>1, <3>2, <3>4, EofHead
    <3>. QED
      BY <3>5 DEF s
  <2>. QED
    BY <1>13, <2>3, <2>4, <2>5
<1>22. \A q \in Requests : Good(q)'
  BY <1>12, <1>18, <1>19, <1>20, <1>21 DEF Good
<1>. QED
  BY <1>8, <1>9, <1>10, <1>22, Assemble DEF LinkFrames

\* The handler takes a chunk and begins w.Write: what was behind is with the
\* client, and its token is in the handler's hands.
LEMMA ReadData ==
  ASSUME BodyInv, CallTypes, NEW r \in Requests, StreamData(r)
  PROVE  BodyInv'
<1>1. /\ BodyTypes /\ LinkFrames /\ DownFrames /\ UpFrames /\ OpenFirst /\ EofLast
      /\ \A q \in Requests : Good(q)
  BY Parts
<1>2. SessionOf(r) /\ Counted(r) /\ Whole(r) /\ CleanEnd(r) /\ Good(r)
  BY <1>1 DEF Good
<1>3. /\ handler[r] = "streaming" /\ erecv[r] # <<>> /\ Head(erecv[r]).type = "data"
      /\ erecv' = [erecv EXCEPT ![r] = Tail(@)] /\ got' = [got EXCEPT ![r] = @ + 1]
      /\ handler' = [handler EXCEPT ![r] = "writing"]
      /\ UNCHANGED <<outcome, esess, consumed, csess, credit, pump, nread>>
      /\ UNCHANGED <<eUp, cUp, toEdge>> /\ toConnector' = toConnector
  BY DEF StreamData, pumpVars, linkVars
<1>4. /\ erecv' \in [Requests -> Seq(FrameOf(Down))]
      /\ \A q \in Requests \ {r} : erecv'[q] = erecv[q]
      /\ \A q \in Requests : DataFirst(erecv'[q])
      /\ \A i \in 1..Len(erecv'[r]) : erecv'[r][i].req = r
      /\ \A T : Count(erecv[r], r, T) = Count(erecv'[r], r, T) + B(Head(erecv[r]).type \in T)
      /\ csess[r] # "none" /\ esess[r] # "none"
  BY <1>1, <1>2, <1>3, TakeReceived
<1>5. got \in [Requests -> Nat] /\ SendWindow \in Nat
  BY <1>1, WindowAssumption DEF BodyTypes
<1>6. got' \in [Requests -> Nat] /\ got'[r] = got[r] + 1 /\ \A q \in Requests \ {r} : got'[q] = got[q]
  BY <1>3, <1>5
<1>7. handler'[r] = "writing" /\ \A q \in Requests \ {r} : handler'[q] = handler[q]
  BY <1>3 DEF CallTypes
<1>8. BodyTypes'
  BY <1>1, <1>3, <1>4, <1>6 DEF BodyTypes
<1>9. DownFrames' /\ OpenFirst' /\ EofLast'
  <2>1. DownFrames'
    BY <1>1, <1>3 DEF DownFrames
  <2>2. OpenFirst'
    BY <1>1, <1>3 DEF OpenFirst
  <2>3. EofLast'
    BY <1>1, <1>3, <1>4 DEF EofLast, DataFirst
  <2>. QED
    BY <2>1, <2>2, <2>3
<1>10. UpFrames'
  BY <1>1, <1>3 DEF UpFrames
<1>11. ASSUME NEW q \in Requests \ {r} PROVE Good(q)'
  <2>1. Still(q)
    BY <1>3, <1>4, <1>6, <1>7 DEF Still
  <2>2. Good(q)
    BY <1>1
  <2>. QED
    BY <1>1, <1>8, <2>1, <2>2, StillKeeps
<1>12. /\ \A T : /\ Count(toEdge, r, T) \in Nat /\ Count(erecv[r], r, T) \in Nat
                 /\ Behind(r, T) \in Nat /\ Count(toConnector, r, T) \in Nat
       /\ Returning(r) \in Nat
       /\ got[r] \in Nat /\ nread[r] \in Nat /\ consumed[r] \in Nat /\ credit[r] \in Nat
  BY <1>1, CountsNat
<1>13. \A T : Count(erecv'[r], r, T) \in Nat
  BY <1>8, CountsNatNext
<1>14. /\ Count(erecv[r], r, {"data"}) = Count(erecv'[r], r, {"data"}) + 1
       /\ Count(erecv'[r], r, {"eof"}) = Count(erecv[r], r, {"eof"})
       /\ Count(erecv'[r], r, {"close", "error"}) = Count(erecv[r], r, {"close", "error"})
  <2>1. /\ B(Head(erecv[r]).type \in {"data"}) = 1
        /\ B(Head(erecv[r]).type \in {"eof"}) = 0
        /\ B(Head(erecv[r]).type \in {"close", "error"}) = 0
    BY <1>3 DEF B
  <2>2. /\ Count(erecv[r], r, {"data"}) = Count(erecv'[r], r, {"data"}) + 1
        /\ Count(erecv[r], r, {"eof"}) = Count(erecv'[r], r, {"eof"}) + 0
        /\ Count(erecv[r], r, {"close", "error"}) = Count(erecv'[r], r, {"close", "error"}) + 0
    BY <1>4, <2>1, Zenon
  <2>3. Count(erecv'[r], r, {"eof"}) \in Nat /\ Count(erecv'[r], r, {"close", "error"}) \in Nat
    BY <1>13
  <2>. QED
    BY <2>2, <2>3
<1>15. /\ Behind(r, {"data"}) = Behind(r, {"data"})' + 1
       /\ Behind(r, {"eof"})' = Behind(r, {"eof"})
       /\ Behind(r, {"close", "error"})' = Behind(r, {"close", "error"})
       /\ Behind(r, {"data"})' \in Nat
  <2>1. toEdge' = toEdge
    BY <1>3
  <2>2. Count(toEdge, r, {"data"}) \in Nat /\ Count(erecv'[r], r, {"data"}) \in Nat
    BY <1>12, <1>13
  <2>. QED
    BY <1>14, <2>1, <2>2 DEF Behind
<1>16. Unacked(r)' = Unacked(r) + 1 /\ Unacked(r) \in Nat
  BY <1>3, <1>7, <1>12 DEF Unacked, B
<1>17. nread'[r] = nread[r] /\ credit'[r] = credit[r] /\ pump'[r] = pump[r]
  BY <1>3
<1>18. SessionOf(r)'
  BY <1>2, <1>3, <1>4 DEF SessionOf
<1>19. Chunks(r)' = Chunks(r)
  BY <1>6, <1>12, <1>15, <1>17, BNat DEF Chunks
<1>20. Counted(r)'
  <2>1. Returning(r)' = Returning(r)
    BY <1>3 DEF Returning
  <2>2. Tokens(r)' = Tokens(r)
    BY <1>12, <1>15, <1>16, <1>17, <2>1, BNat DEF Tokens
  <2>3. Eofs(r)' = Eofs(r) /\ Lasts(r)' = Lasts(r)
    BY <1>15, <1>17 DEF Eofs, Lasts
  <2>4. Opens(r)' = Opens(r)
    BY <1>3 DEF Opens
  <2>. QED
    BY <1>2, <1>17, <1>19, <2>2, <2>3, <2>4 DEF Counted
<1>21. Whole(r)'
  <2>1. /\ got'[r] + Behind(r, {"data"})' = got[r] + Behind(r, {"data"})
        /\ got'[r] + Count(erecv'[r], r, {"data"}) = got[r] + Count(erecv[r], r, {"data"})
    BY <1>6, <1>12, <1>13, <1>14, <1>15
  <2>2. Reachable(r)' <=> Reachable(r)
    BY <1>3 DEF Reachable
  <2>. QED
    BY <1>2, <1>3, <1>14, <1>17, <1>19, <2>1, <2>2 DEF Whole
<1>22. CleanEnd(r)'
  BY <1>2, <1>3 DEF CleanEnd
<1>23. \A q \in Requests : Good(q)'
  BY <1>11, <1>18, <1>20, <1>21, <1>22 DEF Good
<1>. QED
  BY <1>8, <1>9, <1>10, <1>23, Assemble DEF LinkFrames

\* AckData: the token of the chunk the client has taken is consumed or, at the
\* threshold, on its way back.
LEMMA ChunkWritten ==
  ASSUME BodyInv, CallTypes, NEW r \in Requests, StreamWritten(r)
  PROVE  BodyInv'
<1> DEFINE k == consumed[r] + 1
<1>1. /\ BodyTypes /\ LinkFrames /\ DownFrames /\ UpFrames /\ OpenFirst /\ EofLast
      /\ \A q \in Requests : Good(q)
  BY Parts
<1>2. SessionOf(r) /\ Counted(r) /\ Whole(r) /\ CleanEnd(r) /\ Good(r)
  BY <1>1 DEF Good
<1>3. /\ handler[r] = "writing" /\ handler' = [handler EXCEPT ![r] = "streaming"]
      /\ UNCHANGED <<outcome, got, erecv, esess, csess, credit, pump, nread>>
      /\ UNCHANGED <<eUp, cUp, toEdge>>
  BY DEF StreamWritten, pumpVars
<1>4. handler'[r] = "streaming" /\ \A q \in Requests \ {r} : handler'[q] = handler[q]
  BY <1>3 DEF CallTypes
<1>5. /\ consumed \in [Requests -> 0..(AckThreshold - 1)]
      /\ AckThreshold \in Nat /\ 1 <= AckThreshold /\ AckThreshold <= SendWindow /\ SendWindow \in Nat
  BY <1>1, ThresholdType, WindowAssumption DEF BodyTypes
<1>6. consumed[r] \in Nat /\ k <= AckThreshold /\ k \in 0..SendWindow /\ "window" \in ToConnectorTypes
  BY <1>5 DEF ToConnectorTypes
<1>7. \/ /\ k = AckThreshold /\ toConnector' = ToConnector(r, "window", k)
         /\ consumed' = [consumed EXCEPT ![r] = 0]
      \/ /\ k < AckThreshold /\ toConnector' = toConnector
         /\ consumed' = [consumed EXCEPT ![r] = @ + 1]
  BY <1>5, <1>6 DEF StreamWritten
<1>8. /\ consumed' \in [Requests -> 0..(AckThreshold - 1)]
      /\ \A q \in Requests \ {r} : consumed'[q] = consumed[q]
      /\ (k = AckThreshold => consumed'[r] = 0) /\ (k < AckThreshold => consumed'[r] = k)
  BY <1>5, <1>6, <1>7
<1>9. /\ Unacked(r) = k
      /\ (k = AckThreshold => Unacked(r)' = 0) /\ (k < AckThreshold => Unacked(r)' = k)
  BY <1>3, <1>4, <1>6, <1>8 DEF Unacked, B
<1>10. csess[r] # "none"
  BY <1>2, <1>6, <1>9 DEF SessionOf
<1>11. \A q, T : Count(ToConnector(r, "window", k), q, T) =
                   Count(toConnector, q, T) + B(esess[r] # "lost" /\ cUp /\ eUp /\ q = r /\ "window" \in T)
  BY <1>1, <1>6, WriteUp
<1>12. toConnector' \in Seq(FrameOf(ToConnectorTypes))
  <2>1. ToConnector(r, "window", k) \in Seq(FrameOf(ToConnectorTypes))
    BY <1>1, <1>6, WriteUp
  <2>. QED
    BY <1>1, <1>7, <2>1 DEF BodyTypes
<1>13. BodyTypes'
  BY <1>1, <1>3, <1>8, <1>12 DEF BodyTypes
<1>14. DownFrames' /\ OpenFirst' /\ EofLast'
  BY <1>1, <1>3, DownKept
<1>15. UpFrames'
  <2>1. CASE toConnector' = toConnector
    BY <1>1, <1>3, <2>1 DEF UpFrames
  <2>2. CASE k = AckThreshold /\ toConnector' = ToConnector(r, "window", k)
    BY <1>1, <1>3, <1>6, <1>10, <2>2, UpWrite
  <2>. QED
    BY <1>7, <2>1, <2>2
<1>16. ASSUME NEW q \in Requests \ {r} PROVE Good(q)'
  <2>1. /\ got'[q] = got[q] /\ erecv'[q] = erecv[q] /\ consumed'[q] = consumed[q]
        /\ esess'[q] = esess[q] /\ handler'[q] = handler[q] /\ outcome'[q] = outcome[q]
    BY <1>3, <1>4, <1>8
  <2>2. toConnector' = toConnector \/ toConnector' = ToConnector(r, "window", k)
    BY <1>7
  <2>3. Good(q)
    BY <1>1
  <2>. HIDE DEF k
  <2>. QED
    BY <1>1, <1>3, <1>6, <1>13, <2>1, <2>2, <2>3, ReaderOthers
<1>17. /\ \A T : /\ Behind(r, T) \in Nat /\ Count(toConnector, r, T) \in Nat
       /\ Returning(r) \in Nat
       /\ got[r] \in Nat /\ nread[r] \in Nat /\ credit[r] \in Nat
  BY <1>1, CountsNat
<1>18. /\ k = AckThreshold => Returning(r)' <= Returning(r) + AckThreshold
       /\ k < AckThreshold => Returning(r)' = Returning(r)
       /\ Returning(r)' \in Nat
  <2>1. Returning(r)' \in Nat
    BY <1>13, CountsNatNext
  <2>2. ASSUME k < AckThreshold PROVE Returning(r)' = Returning(r)
    <3>1. toConnector' = toConnector
      BY <1>5, <1>6, <1>7, <2>2
    <3>. QED
      BY <3>1 DEF Returning
  <2>3. ASSUME k = AckThreshold PROVE Returning(r)' <= Returning(r) + AckThreshold
    <3> DEFINE m == Count(toConnector, r, {"window"})
               n == Count(toConnector', r, {"window"})
    <3>1. m \in Nat /\ n \in Nat
      BY <1>13, <1>17, CountsNatNext
    <3>2. n = m \/ n = m + 1
      <4>1. toConnector' = ToConnector(r, "window", k)
        BY <1>5, <1>6, <1>7, <2>3
      <4>2. n = m + B(esess[r] # "lost" /\ cUp /\ eUp /\ r = r /\ "window" \in {"window"})
        BY <1>11, <4>1
      <4>. QED
        BY <3>1, <4>2 DEF B
    <3>3. /\ n = m => Returning(r)' = Returning(r)
          /\ n = m + 1 => Returning(r)' = Returning(r) + AckThreshold
      BY <3>1, ReturningStep
    <3>. QED
      BY <1>5, <1>17, <2>1, <3>2, <3>3
  <2>. QED
    BY <2>1, <2>2, <2>3
<1>19. /\ got'[r] = got[r] /\ nread'[r] = nread[r] /\ credit'[r] = credit[r] /\ pump'[r] = pump[r]
       /\ \A T : Behind(r, T)' = Behind(r, T) /\ Count(toEdge', r, T) = Count(toEdge, r, T)
                 /\ Count(erecv'[r], r, T) = Count(erecv[r], r, T)
       /\ (Reachable(r)' <=> Reachable(r)) /\ Opens(r)' = Opens(r) /\ Chunks(r)' = Chunks(r)
       /\ Eofs(r)' = Eofs(r) /\ Lasts(r)' = Lasts(r)
  BY <1>3 DEF Behind, Reachable, Opens, Chunks, Eofs, Lasts
<1>20. SessionOf(r)'
  BY <1>2, <1>3, <1>10 DEF SessionOf
<1>21. Counted(r)'
  <2>1. Unacked(r) \in Nat /\ Unacked(r)' \in Nat
    BY <1>1, <1>13, CountsNat, CountsNatNext
  <2>2. Unacked(r)' + Returning(r)' <= Unacked(r) + Returning(r)
    BY <1>5, <1>6, <1>9, <1>17, <1>18
  <2>3. Behind(r, {"data"})' = Behind(r, {"data"}) /\ Behind(r, {"data"}) \in Nat
    BY <1>17, <1>19
  <2>4. B(pump[r] = "write") \in Nat /\ B(pump'[r] = "write") = B(pump[r] = "write")
    BY <1>19, BNat
  <2>5. Tokens(r)' <= Tokens(r)
    BY <1>17, <1>18, <1>19, <2>1, <2>2, <2>3, <2>4 DEF Tokens
  <2>6. Tokens(r) \in Nat /\ Tokens(r)' \in Nat
    BY <1>1, <1>13, MeasuresNat, MeasuresNatNext
  <2>. QED
    BY <1>2, <1>5, <1>19, <2>5, <2>6 DEF Counted
<1>22. Whole(r)'
  BY <1>2, <1>3, <1>4, <1>19 DEF Whole
<1>23. CleanEnd(r)'
  BY <1>2, <1>3 DEF CleanEnd
<1>24. \A q \in Requests : Good(q)'
  BY <1>16, <1>20, <1>21, <1>22, <1>23 DEF Good
<1>. QED
  BY <1>13, <1>14, <1>15, <1>24, Assemble DEF LinkFrames

-----------------------------------------------------------------------------
(* The read loops of the link.                                             *)

\* The edge takes the first frame off the link.  The open comes first, so a
\* frame of another kind finds its session in the table or after it.
LEMMA DownTail ==
  ASSUME BodyTypes, DownFrames, OpenFirst, EofLast, toEdge # <<>>, toEdge' = Tail(toEdge),
         UNCHANGED <<csess, eUp>>,
         \A q \in Requests : esess[q] # "none" => esess'[q] # "none",
         Head(toEdge).type = "open" => esess'[Head(toEdge).req] # "none"
  PROVE  /\ DownFrames' /\ OpenFirst' /\ DataFirst(toEdge')
         /\ toEdge' \in Seq(FrameOf(ToEdgeTypes)) /\ Head(toEdge) \in FrameOf(ToEdgeTypes)
         /\ eUp /\ Head(toEdge).req \in Requests /\ csess[Head(toEdge).req] # "none"
         /\ Head(toEdge).type # "open" => esess[Head(toEdge).req] # "none"
         /\ \A q, T : Count(toEdge, q, T) =
                        Count(toEdge', q, T) + B(Head(toEdge).req = q /\ Head(toEdge).type \in T)
<1> DEFINE s == toEdge
           F == FrameOf(ToEdgeTypes)
           f == Head(toEdge)
<1>1. s \in Seq(F) /\ s # <<>>
  BY DEF BodyTypes
<1>2. /\ \A i \in 1..Len(s) : csess[s[i].req] # "none"
      /\ \A i \in 1..Len(s) : s[i].type = "open" \/ esess[s[i].req] # "none" \/ OpenAmong(s, i - 1, s[i].req)
      /\ \A q \in Requests : csess[q] \in {"open", "closed"} /\ eUp =>
           esess[q] # "none" \/ OpenAmong(s, Len(s), q)
      /\ DataFirst(s) /\ eUp
  BY DEF DownFrames, OpenFirst, EofLast
<1>3. /\ Len(s) \in Nat \ {0} /\ Tail(s) \in Seq(F)
      /\ Len(Tail(s)) = Len(s) - 1
      /\ f = s[1] /\ f \in F
      /\ \A i \in 1..(Len(s) - 1) : Tail(s)[i] = s[i + 1]
  BY <1>1, TakeFirst
<1>4. \A i \in 1..Len(s) : s[i].req \in Requests
  <2>1. \A i \in 1..Len(s) : s[i] \in F
    BY <1>1, ElementOfSeq
  <2>. QED
    BY <2>1 DEF FrameOf
<1>5. \A q, T : Count(s, q, T) = Count(Tail(s), q, T) + B(f.req = q /\ f.type \in T)
  BY <1>1, CountTail
<1>6. DataFirst(Tail(s))
  BY <1>1, <1>2, DataFirstTail
<1>7. \A q, n : n \in 0..(Len(s) - 1) =>
        (OpenAmong(s, n + 1, q) <=> (f.type = "open" /\ f.req = q) \/ OpenAmong(Tail(s), n, q))
  BY <1>1, OpenTail
<1>8. 1 \in 1..Len(s)
  BY <1>3
<1>9. f.type # "open" => esess[f.req] # "none"
  <2>1. ~OpenAmong(s, 1 - 1, s[1].req)
    BY DEF OpenAmong
  <2>. QED
    BY <1>2, <1>3, <1>8, <2>1
<1>10. toEdge' = Tail(s) /\ csess' = csess /\ (eUp' <=> eUp)
  OBVIOUS
<1>11. \A q \in Requests : esess[q] # "none" => esess'[q] # "none"
  OBVIOUS
<1>12. f.type = "open" => esess'[f.req] # "none"
  OBVIOUS
<1>. HIDE DEF s, F, f
<1>13. ASSUME NEW i \in 1..Len(Tail(s))
       PROVE  /\ csess[Tail(s)[i].req] # "none"
              /\ \/ Tail(s)[i].type = "open" \/ esess'[Tail(s)[i].req] # "none"
                 \/ OpenAmong(Tail(s), i - 1, Tail(s)[i].req)
  <2>1. i + 1 \in 1..Len(s) /\ (i + 1) - 1 = (i - 1) + 1 /\ i - 1 \in 0..(Len(s) - 1)
    BY <1>3
  <2>2. Tail(s)[i] = s[i + 1]
    BY <1>3
  <2>3. \/ Tail(s)[i].type = "open" \/ esess[Tail(s)[i].req] # "none"
        \/ OpenAmong(s, (i - 1) + 1, Tail(s)[i].req)
    BY <1>2, <2>1, <2>2
  <2>4. OpenAmong(s, (i - 1) + 1, Tail(s)[i].req) =>
          (f.type = "open" /\ f.req = Tail(s)[i].req) \/ OpenAmong(Tail(s), i - 1, Tail(s)[i].req)
    BY <1>7, <2>1
  <2>5. Tail(s)[i].req \in Requests /\ csess[Tail(s)[i].req] # "none"
    BY <1>2, <1>4, <2>1, <2>2
  <2>. QED
    BY <1>11, <1>12, <2>3, <2>4, <2>5
<1>14. DownFrames'
  BY <1>2, <1>10, <1>13 DEF DownFrames
<1>15. OpenFirst'
  <2>1. \A q \in Requests : csess'[q] \in {"open", "closed"} /\ eUp' =>
          esess'[q] # "none" \/ OpenAmong(Tail(s), Len(Tail(s)), q)
    <3>1. SUFFICES ASSUME NEW q \in Requests, csess[q] \in {"open", "closed"}, esess'[q] = "none"
                   PROVE  OpenAmong(Tail(s), Len(Tail(s)), q)
      BY <1>10
    <3>2. OpenAmong(s, Len(s), q)
      BY <1>2, <1>11, <3>1
    <3>3. Len(s) - 1 \in 0..(Len(s) - 1) /\ (Len(s) - 1) + 1 = Len(s)
      BY <1>3
    <3>4. (f.type = "open" /\ f.req = q) \/ OpenAmong(Tail(s), Len(s) - 1, q)
      BY <1>7, <3>2, <3>3
    <3>. QED
      BY <1>3, <1>12, <3>1, <3>4
  <2>. QED
    BY <1>10, <1>13, <2>1 DEF OpenFirst
<1>16. f.req \in Requests /\ csess[f.req] # "none"
  BY <1>2, <1>3, <1>4, <1>8
<1>17. DataFirst(toEdge') /\ toEdge' \in Seq(F) /\ f \in F /\ eUp
  BY <1>2, <1>3, <1>6, <1>10
<1>18. \A q, T : Count(s, q, T) = Count(toEdge', q, T) + B(f.req = q /\ f.type \in T)
  BY <1>5, <1>10, Zenon
<1>. QED
  BY <1>9, <1>14, <1>15, <1>16, <1>17, <1>18 DEF s, F, f

\* acceptStreamOpen: the one open of r, whose session is not yet in the table.
LEMMA OpenAccepted ==
  ASSUME BodyInv, EdgeOpen
  PROVE  BodyInv'
<1> DEFINE r == Head(toEdge).req
<1>1. /\ BodyTypes /\ LinkFrames /\ DownFrames /\ UpFrames /\ OpenFirst /\ EofLast
      /\ \A q \in Requests : Good(q)
  BY Parts
<1>2. /\ toEdge # <<>> /\ Head(toEdge).type = "open" /\ toEdge' = Tail(toEdge)
      /\ esess' = [esess EXCEPT ![r] = "open"]
      /\ UNCHANGED <<handler, outcome, got, erecv, consumed, csess, credit, pump, nread>>
      /\ UNCHANGED <<eUp, cUp, toConnector>>
  BY DEF EdgeOpen, edgeVars, pumpVars
<1>3. esess \in [Requests -> {"none", "open", "closed", "lost"}]
  BY <1>1 DEF BodyTypes
<1>4. r \in Requests
  <2>1. Head(toEdge) \in FrameOf(ToEdgeTypes)
    <3>1. toEdge \in Seq(FrameOf(ToEdgeTypes))
      BY <1>1 DEF BodyTypes
    <3>. QED
      BY <1>2, <3>1, TakeFirst
  <2>. QED
    BY <2>1 DEF FrameOf
<1>5. /\ esess' \in [Requests -> {"none", "open", "closed", "lost"}]
      /\ esess'[r] = "open" /\ \A q \in Requests \ {r} : esess'[q] = esess[q]
  BY <1>2, <1>3, <1>4
<1>6. /\ \A q \in Requests : esess[q] # "none" => esess'[q] # "none"
      /\ esess'[Head(toEdge).req] # "none"
  BY <1>5
<1>7. /\ DownFrames' /\ OpenFirst' /\ DataFirst(toEdge')
      /\ toEdge' \in Seq(FrameOf(ToEdgeTypes)) /\ csess[r] # "none"
      /\ \A q, T : Count(toEdge, q, T) =
                     Count(toEdge', q, T) + B(Head(toEdge).req = q /\ Head(toEdge).type \in T)
  BY <1>1, <1>2, <1>6, DownTail
<1>8. BodyTypes'
  BY <1>1, <1>2, <1>5, <1>7 DEF BodyTypes
<1>9. EofLast'
  BY <1>1, <1>2, <1>7 DEF EofLast
<1>10. UpFrames'
  BY <1>1, <1>2 DEF UpFrames
<1>11. ASSUME NEW q \in Requests PROVE Good(q)'
  <2>1. /\ Good(q) /\ Opens(q) <= 1 /\ SessionOf(q) /\ (csess[q] \in {"open", "closed"} => cUp)
    BY <1>1 DEF Good, Counted, SessionOf
  <2>2. /\ \A T : Count(toEdge, q, T) \in Nat
        /\ Count(toConnector, q, {"window"}) \in Nat
    BY <1>1, CountsNat
  <2>3. \A T : Count(toEdge', q, T) \in Nat
    BY <1>8, CountsNatNext
  <2>4. \A T \in Kinds : Count(toEdge', q, T) = Count(toEdge, q, T)
    <3>1. SUFFICES ASSUME NEW T \in Kinds PROVE Count(toEdge', q, T) = Count(toEdge, q, T)
      OBVIOUS
    <3>2. B(Head(toEdge).req = q /\ Head(toEdge).type \in T) = 0
      BY <1>2 DEF B, Kinds
    <3>3. Count(toEdge, q, T) = Count(toEdge', q, T) + 0
      BY <1>7, <3>2, Zenon
    <3>4. Count(toEdge', q, T) \in Nat
      BY <2>3
    <3>. QED
      BY <3>3, <3>4
  <2>5. Count(toEdge, q, {"open"}) = Count(toEdge', q, {"open"}) + B(q = r)
    <3>1. B(Head(toEdge).req = q /\ Head(toEdge).type \in {"open"}) = B(q = r)
      BY <1>2 DEF B
    <3>2. Count(toEdge, q, {"open"}) = Count(toEdge', q, {"open"})
                                         + B(Head(toEdge).req = q /\ Head(toEdge).type \in {"open"})
      BY <1>7
    <3>. QED
      BY <3>1, <3>2
  <2>6. Count(toEdge, q, {"open"}) \in Nat /\ Count(toEdge', q, {"open"}) \in Nat
    BY <2>2, <2>3
  <2>7. Opens(q)' <= 1 /\ (Reachable(q)' => Reachable(q))
    <3>1. CASE q = r
      <4>1. esess[q] = "none"
        BY <2>1, <2>5, <2>6, <3>1 DEF Opens, B
      <4>2. Count(toEdge', q, {"open"}) = 0 /\ csess'[q] # "none"
        BY <1>2, <1>7, <2>1, <2>5, <2>6, <3>1 DEF Opens, B
      <4>. QED
        BY <1>5, <3>1, <4>1, <4>2 DEF Opens, B, Reachable
    <3>2. CASE q # r
      <4>1. Count(toEdge', q, {"open"}) = Count(toEdge, q, {"open"})
        BY <2>5, <2>6, <3>2 DEF B
      <4>2. csess'[q] = csess[q] /\ esess'[q] = esess[q]
        BY <1>2, <1>5, <3>2
      <4>. QED
        BY <2>1, <4>1, <4>2 DEF Opens, Reachable
    <3>. QED
      BY <3>1, <3>2
  <2>8. esess'[q] = "none" => esess[q] = "none"
    BY <1>6
  <2>9. Count(toConnector', q, {"window"}) <= Count(toConnector, q, {"window"})
    BY <1>2, <2>2
  <2>10. Unacked(q)' <= Unacked(q)
    BY <1>1, <1>2, UnackedKept
  <2>11. QuietFor(q)
    BY <1>2, <2>1, <2>4, <2>7, <2>8, <2>9, <2>10 DEF QuietFor
  <2>. QED
    BY <1>1, <1>8, <2>1, <2>11, QuietKeeps
<1>. QED
  BY <1>7, <1>8, <1>9, <1>10, <1>11, Assemble DEF LinkFrames

\* dispatch at the edge: a frame moves to its session's receive queue, or is
\* dropped with a session that is over.
LEMMA FrameDispatchedTo ==
  ASSUME BodyInv, EdgeDispatch, NEW f, f = Head(toEdge), NEW r \in Requests, f.req = r
  PROVE  BodyInv'
<1> DEFINE F == FrameOf(Down)
<1>1. /\ BodyTypes /\ LinkFrames /\ DownFrames /\ UpFrames /\ OpenFirst /\ EofLast
      /\ \A q \in Requests : Good(q)
  BY Parts
<1>2. /\ toEdge # <<>> /\ f.type # "open" /\ toEdge' = Tail(toEdge)
      /\ esess[r] = "open" => erecv' = [erecv EXCEPT ![r] = Append(@, f)]
      /\ esess[r] # "open" => erecv' = erecv
      /\ UNCHANGED <<handler, outcome, got, esess, consumed, csess, credit, pump, nread>>
      /\ UNCHANGED <<eUp, cUp, toConnector>>
  BY DEF EdgeDispatch, edgeVars, pumpVars
<1>3. /\ DownFrames' /\ OpenFirst' /\ DataFirst(toEdge')
      /\ toEdge' \in Seq(FrameOf(ToEdgeTypes)) /\ f \in FrameOf(ToEdgeTypes)
      /\ csess[r] # "none" /\ esess[r] # "none"
      /\ \A q, T : Count(toEdge, q, T) = Count(toEdge', q, T) + B(f.req = q /\ f.type \in T)
  BY <1>1, <1>2, DownTail
<1>4. f \in F /\ f.req = r /\ f.type \in Down
  BY <1>2, <1>3 DEF FrameOf, ToEdgeTypes, Down
<1>5. erecv \in [Requests -> Seq(F)] /\ erecv[r] \in Seq(F)
  BY <1>1, <1>3 DEF BodyTypes
<1>6. SessionOf(r) /\ Counted(r) /\ Whole(r) /\ CleanEnd(r) /\ Good(r)
  BY <1>1, <1>3 DEF Good
<1>7. \A q \in Requests \ {r} : erecv'[q] = erecv[q]
  BY <1>2, <1>5
<1>8. esess[r] = "open" => erecv'[r] = Append(erecv[r], f)
  BY <1>2, <1>3, <1>5
<1>9. Append(erecv[r], f) \in Seq(F)
  BY <1>4, <1>5, AddLast
<1>10. erecv' \in [Requests -> Seq(F)]
  BY <1>2, <1>5, <1>9
<1>11. BodyTypes'
  BY <1>1, <1>2, <1>3, <1>10 DEF BodyTypes
<1>12. UpFrames'
  BY <1>1, <1>2 DEF UpFrames
<1>. HIDE DEF F
<1>13. /\ \A T : /\ Count(toEdge, r, T) \in Nat /\ Count(erecv[r], r, T) \in Nat
                 /\ Behind(r, T) \in Nat
       /\ Returning(r) \in Nat
       /\ got[r] \in Nat /\ nread[r] \in Nat /\ consumed[r] \in Nat /\ credit[r] \in Nat
  BY <1>1, <1>3, CountsNat
<1>14. \A T : /\ Count(erecv'[r], r, T) \in Nat /\ Count(toEdge', r, T) \in Nat /\ Behind(r, T)' \in Nat
  BY <1>3, <1>11, CountsNatNext
<1>15. \A T : Count(toEdge, r, T) = Count(toEdge', r, T) + B(f.type \in T)
  <2>1. \A T : B(f.req = r /\ f.type \in T) = B(f.type \in T)
    BY DEF B
  <2>2. \A T : Count(toEdge, r, T) =
                 Count(toEdge', r, T) + B(f.req = r /\ f.type \in T)
    BY <1>3, Zenon
  <2>. QED
    BY <2>1, <2>2, Zenon
<1>16. ASSUME NEW q \in Requests \ {r} PROVE Good(q)'
  <2>1. \A T : Count(toEdge', q, T) = Count(toEdge, q, T)
    <3>1. SUFFICES ASSUME NEW T PROVE Count(toEdge', q, T) = Count(toEdge, q, T)
      OBVIOUS
    <3>2. B(f.req = q /\ f.type \in T) = 0
      BY DEF B
    <3>3. Count(toEdge, q, T) = Count(toEdge', q, T) + 0
      BY <1>3, <3>2, Zenon
    <3>4. Count(toEdge', q, T) \in Nat
      BY <1>11, CountsNatNext
    <3>. QED
      BY <3>3, <3>4
  <2>2. Still(q)
    BY <1>2, <1>7, <2>1 DEF Still
  <2>3. Good(q)
    BY <1>1
  <2>. QED
    BY <1>1, <1>11, <2>2, <2>3, StillKeeps
<1>17. /\ got'[r] = got[r] /\ nread'[r] = nread[r] /\ Unacked(r)' <= Unacked(r)
       /\ credit'[r] = credit[r] /\ pump'[r] = pump[r] /\ Returning(r)' <= Returning(r)
       /\ (Reachable(r)' <=> Reachable(r))
  BY <1>1, <1>2, <1>13, UnackedKept DEF Returning, Reachable
<1>18. Opens(r)' <= 1
  <2>1. B(f.type \in {"open"}) = 0
    BY <1>2 DEF B
  <2>2. Count(toEdge, r, {"open"}) = Count(toEdge', r, {"open"}) + 0
    BY <1>15, <2>1, Zenon
  <2>3. Count(toEdge, r, {"open"}) = Count(toEdge', r, {"open"})
    BY <1>14, <2>2
  <2>4. Opens(r)' = Opens(r)
    BY <1>2, <2>3 DEF Opens
  <2>. QED
    BY <1>6, <2>4 DEF Counted
<1>19. CleanEnd(r)'
  BY <1>2, <1>6 DEF CleanEnd
<1>20. CASE esess[r] # "open"
  <2>1. \A T : Count(erecv'[r], r, T) = Count(erecv[r], r, T)
    BY <1>2, <1>20
  <2>2. ASSUME NEW T PROVE Behind(r, T)' <= Behind(r, T)
    <3> DEFINE b == B(f.type \in T)
    <3>1. Count(toEdge, r, T) = Count(toEdge', r, T) + b /\ Count(erecv'[r], r, T) = Count(erecv[r], r, T)
      BY <1>15, <2>1, Zenon
    <3>2. b \in Nat
      BY BNat
    <3>3. Count(toEdge', r, T) \in Nat /\ Count(erecv[r], r, T) \in Nat
      BY <1>13, <1>14
    <3>. HIDE DEF b
    <3>. QED
      BY <3>1, <3>2, <3>3 DEF Behind
  <2>3. Counted(r)'
    BY <1>1, <1>3, <1>6, <1>11, <1>17, <1>18, <2>2, CountedShrinks
  <2>4. ~Reachable(r)
    BY <1>3, <1>20 DEF Reachable
  <2>5. Whole(r)'
    BY <1>2, <1>6, <1>17, <1>20, <2>4 DEF Whole
  <2>6. SessionOf(r)'
    BY <1>2, <1>3, <1>6, <1>20 DEF SessionOf
  <2>7. EofLast'
    BY <1>1, <1>2, <1>3, <1>20 DEF EofLast
  <2>8. \A q \in Requests : Good(q)'
    BY <1>16, <1>19, <2>3, <2>5, <2>6 DEF Good
  <2>. QED
    BY <1>3, <1>11, <1>12, <2>7, <2>8, Assemble DEF LinkFrames
<1>21. CASE esess[r] = "open"
  <2>1. erecv'[r] = Append(erecv[r], f)
    BY <1>8, <1>21
  <2>2. \A T : Count(erecv'[r], r, T) = Count(erecv[r], r, T) + B(f.type \in T)
    <3>1. \A T : Count(Append(erecv[r], f), r, T) = Count(erecv[r], r, T) + B(f.req = r /\ f.type \in T)
      BY <1>4, <1>5, CountAppend
    <3>2. \A T : B(f.req = r /\ f.type \in T) = B(f.type \in T)
      BY DEF B
    <3>. QED
      BY <2>1, <3>1, <3>2
  <2>3. ASSUME NEW T PROVE Behind(r, T)' = Behind(r, T)
    <3> DEFINE b == B(f.type \in T)
    <3>1. Count(toEdge, r, T) = Count(toEdge', r, T) + b /\ Count(erecv'[r], r, T) = Count(erecv[r], r, T) + b
      BY <1>15, <2>2, Zenon
    <3>2. b \in Nat
      BY BNat
    <3>3. Count(toEdge', r, T) \in Nat /\ Count(erecv[r], r, T) \in Nat
      BY <1>13, <1>14
    <3>. HIDE DEF b
    <3>. QED
      BY <3>1, <3>2, <3>3 DEF Behind
  <2>4. Counted(r)'
    <3>1. /\ Behind(r, {"data"})' <= Behind(r, {"data"}) /\ Behind(r, {"eof"})' <= Behind(r, {"eof"})
          /\ Behind(r, {"close", "error"})' <= Behind(r, {"close", "error"})
      BY <1>13, <2>3
    <3>. QED
      BY <1>1, <1>3, <1>6, <1>11, <1>17, <1>18, <3>1, CountedShrinks
  <2>5. Reachable(r)
    BY <1>21 DEF Reachable
  \* Behind an eof in the receive queue there is no data left on the link.
  <2>6. Count(erecv[r], r, {"eof"}) > 0 => Count(toEdge, r, {"data"}) = 0
    <3>1. SUFFICES ASSUME Count(erecv[r], r, {"eof"}) > 0 PROVE Count(toEdge, r, {"data"}) = 0
      OBVIOUS
    <3>2. got[r] + Count(erecv[r], r, {"data"}) = nread[r]
      BY <1>6, <2>5, <3>1 DEF Whole
    <3>3. Chunks(r) <= nread[r]
      BY <1>6 DEF Counted
    <3>4. B(pump[r] \in {"credit", "write"}) \in Nat
      BY BNat
    <3>5. Count(toEdge, r, {"data"}) \in Nat /\ Count(erecv[r], r, {"data"}) \in Nat
      BY <1>13
    <3>. QED
      BY <1>13, <3>2, <3>3, <3>4, <3>5 DEF Chunks, Behind
  <2>7. f.type = "data" => Count(erecv[r], r, {"eof"}) = 0
    <3>1. SUFFICES ASSUME f.type = "data" PROVE Count(erecv[r], r, {"eof"}) = 0
      OBVIOUS
    <3>2. B(f.type \in {"data"}) = 1
      BY <3>1 DEF B
    <3>3. Count(toEdge, r, {"data"}) = Count(toEdge', r, {"data"}) + 1
      BY <1>15, <3>2, Zenon
    <3>4. Count(toEdge', r, {"data"}) \in Nat /\ Count(erecv[r], r, {"eof"}) \in Nat
      BY <1>13, <1>14
    <3>. QED
      BY <2>6, <3>3, <3>4
  <2>8. EofLast'
    <3>1. \A q \in Requests : DataFirst(erecv[q])
      BY <1>1 DEF EofLast
    <3>2. DataFirst(erecv[r])
      BY <1>3, <3>1
    <3>3. DataFirst(Append(erecv[r], f))
      BY <1>4, <1>5, <2>7, <3>2, DataFirstAppend
    <3>4. \A q \in Requests : DataFirst(erecv'[q])
      BY <1>7, <2>1, <3>1, <3>3
    <3>. QED
      BY <1>3, <3>4 DEF EofLast
  <2>9. SessionOf(r)'
    <3>1. \A i \in 1..Len(erecv[r]) : erecv[r][i].req = r
      BY <1>6 DEF SessionOf
    <3>2. /\ Len(erecv[r]) \in Nat /\ Len(Append(erecv[r], f)) = Len(erecv[r]) + 1
          /\ Append(erecv[r], f)[Len(erecv[r]) + 1] = f
          /\ \A i \in 1..Len(erecv[r]) : Append(erecv[r], f)[i] = erecv[r][i]
      BY <1>4, <1>5, AddLast
    <3>3. \A i \in 1..Len(erecv'[r]) : erecv'[r][i].req = r
      <4>1. SUFFICES ASSUME NEW i \in 1..(Len(erecv[r]) + 1)
                     PROVE  Append(erecv[r], f)[i].req = r
        BY <2>1, <3>2
      <4>2. i \in 1..Len(erecv[r]) \/ i = Len(erecv[r]) + 1
        BY <3>2
      <4>. QED
        BY <1>4, <3>1, <3>2, <4>2
    <3>. QED
      BY <1>2, <1>3, <1>6, <3>3 DEF SessionOf
  <2>10. Whole(r)'
    <3>1. Chunks(r)' = Chunks(r) /\ got'[r] + Behind(r, {"data"})' = got[r] + Behind(r, {"data"})
      BY <1>17, <2>3 DEF Chunks
    <3>2. csess'[r] # "lost" /\ eUp' /\ Reachable(r)' => Chunks(r)' = nread'[r]
      BY <1>2, <1>6, <1>17, <3>1 DEF Whole
    <3>3. Count(toEdge', r, {"eof"}) > 0 => Count(toEdge, r, {"eof"}) > 0
      <4>1. B(f.type \in {"eof"}) \in Nat
        BY BNat
      <4>2. Count(toEdge, r, {"eof"}) = Count(toEdge', r, {"eof"}) + B(f.type \in {"eof"})
        BY <1>15
      <4>3. Count(toEdge', r, {"eof"}) \in Nat
        BY <1>14
      <4>. QED
        BY <4>1, <4>2, <4>3
    <3>4. Count(toEdge', r, {"eof"}) > 0 /\ Reachable(r)' => got'[r] + Behind(r, {"data"})' = nread'[r]
      BY <1>6, <1>17, <3>1, <3>3 DEF Whole
    <3>5. ASSUME Count(erecv'[r], r, {"eof"}) > 0
          PROVE  got'[r] + Count(erecv'[r], r, {"data"}) = nread'[r]
      <4>1. CASE f.type = "eof"
        <5>1. B(f.type \in {"eof"}) = 1 /\ B(f.type \in {"data"}) = 0
          BY <4>1 DEF B
        <5>2. /\ Count(toEdge, r, {"eof"}) = Count(toEdge', r, {"eof"}) + 1
              /\ Count(erecv'[r], r, {"data"}) = Count(erecv[r], r, {"data"}) + 0
          BY <1>15, <2>2, <5>1, Zenon
        <5>3. Count(toEdge', r, {"eof"}) \in Nat /\ Count(erecv[r], r, {"data"}) \in Nat
          BY <1>13, <1>14
        <5>4. Count(toEdge, r, {"eof"}) > 0
          BY <5>2, <5>3
        <5>5. got[r] + Behind(r, {"data"}) = nread[r]
          BY <1>6, <2>5, <5>4 DEF Whole
        <5>6. Count(toEdge, r, {"data"}) = 0
          <6>1. toEdge \in Seq(FrameOf(ToEdgeTypes)) /\ DataFirst(toEdge)
            BY <1>1 DEF BodyTypes, EofLast
          <6>. QED
            BY <1>2, <4>1, <6>1, EofHead
        <5>. QED
          BY <1>13, <1>17, <5>2, <5>3, <5>5, <5>6 DEF Behind
      <4>2. CASE f.type # "eof"
        <5>1. B(f.type \in {"eof"}) = 0
          BY <4>2 DEF B
        <5>2. Count(erecv'[r], r, {"eof"}) = Count(erecv[r], r, {"eof"}) + 0
          BY <2>2, <5>1, Zenon
        <5>3. Count(erecv[r], r, {"eof"}) > 0
          BY <1>13, <3>5, <5>2
        <5>4. f.type # "data"
          BY <2>7, <5>3
        <5>5. B(f.type \in {"data"}) = 0
          BY <5>4 DEF B
        <5>6. Count(erecv'[r], r, {"data"}) = Count(erecv[r], r, {"data"}) + 0
          BY <2>2, <5>5, Zenon
        <5>7. got[r] + Count(erecv[r], r, {"data"}) = nread[r]
          BY <1>6, <2>5, <5>3 DEF Whole
        <5>. QED
          BY <1>13, <1>17, <5>6, <5>7
      <4>. QED
        BY <4>1, <4>2
    <3>. QED
      BY <3>2, <3>4, <3>5 DEF Whole
  <2>11. \A q \in Requests : Good(q)'
    BY <1>16, <1>19, <2>4, <2>9, <2>10 DEF Good
  <2>. QED
    BY <1>3, <1>11, <1>12, <2>8, <2>11, Assemble DEF LinkFrames
<1>. QED
  BY <1>20, <1>21

\* The same for whichever frame comes first.
LEMMA FrameDispatched ==
  ASSUME BodyInv, EdgeDispatch
  PROVE  BodyInv'
<1>1. toEdge \in Seq(FrameOf(ToEdgeTypes)) /\ toEdge # <<>>
  BY Parts DEF BodyTypes, EdgeDispatch
<1>2. Head(toEdge) \in FrameOf(ToEdgeTypes)
  BY <1>1, TakeFirst
<1>3. PICK f : f = Head(toEdge)
  OBVIOUS
<1>4. PICK r \in Requests : f.req = r
  BY <1>2, <1>3 DEF FrameOf
<1>. QED
  BY <1>3, <1>4, FrameDispatchedTo

\* The connector's read loop: a window frame turns back into credit.
LEMMA WindowTakenFor ==
  ASSUME BodyInv, ConnectorDispatch, NEW f, f = Head(toConnector), NEW r \in Requests, f.req = r
  PROVE  BodyInv'
<1> DEFINE F == FrameOf(ToConnectorTypes)
           s == toConnector
<1>1. /\ BodyTypes /\ LinkFrames /\ DownFrames /\ UpFrames /\ OpenFirst /\ EofLast
      /\ \A q \in Requests : Good(q)
  BY Parts
<1>2. /\ s # <<>> /\ toConnector' = Tail(s)
      /\ \/ /\ f.type = "window" /\ csess[r] = "open"
            /\ credit' = [credit EXCEPT ![r] = IF @ + f.n > SendWindow THEN SendWindow ELSE @ + f.n]
         \/ credit' = credit
      /\ UNCHANGED <<handler, outcome, got, esess, erecv, consumed, csess, pump, nread>>
      /\ UNCHANGED <<eUp, cUp, toEdge>>
  BY DEF ConnectorDispatch, edgeVars, edgeSess
<1>3. s \in Seq(F)
  BY <1>1 DEF BodyTypes
<1>4. \A i \in 1..Len(s) : s[i].type = "window" => csess[s[i].req] # "none" /\ s[i].n = AckThreshold
  BY <1>1 DEF UpFrames
<1>5. f = Head(s)
  OBVIOUS
<1>. HIDE DEF F, s
<1>6. /\ Len(s) \in Nat \ {0} /\ Tail(s) \in Seq(F) /\ Len(Tail(s)) = Len(s) - 1
      /\ f = s[1] /\ f \in F
      /\ \A i \in 1..(Len(s) - 1) : Tail(s)[i] = s[i + 1]
  BY <1>2, <1>3, <1>5, TakeFirst
<1>7. f.type = "window" => f.n = AckThreshold
  BY <1>4, <1>6
<1>8. /\ credit \in [Requests -> 0..SendWindow] /\ SendWindow \in Nat
      /\ AckThreshold \in Nat
  BY <1>1, WindowAssumption, ThresholdType DEF BodyTypes
<1>9. /\ credit' \in [Requests -> 0..SendWindow]
      /\ \A q \in Requests \ {r} : credit'[q] = credit[q]
      /\ \/ f.type = "window" /\ credit'[r] <= credit[r] + AckThreshold
         \/ credit'[r] = credit[r]
  BY <1>2, <1>7, <1>8
<1>10. BodyTypes'
  BY <1>1, <1>2, <1>6, <1>9 DEF BodyTypes, F
<1>11. UpFrames'
  <2>1. ASSUME NEW i \in 1..Len(Tail(s)), Tail(s)[i].type = "window"
        PROVE  csess[Tail(s)[i].req] # "none" /\ Tail(s)[i].n = AckThreshold
    <3>1. i + 1 \in 1..Len(s) /\ Tail(s)[i] = s[i + 1]
      BY <1>6
    <3>. QED
      BY <1>4, <2>1, <3>1
  <2>. QED
    BY <1>2, <2>1 DEF UpFrames
<1>12. DownFrames' /\ OpenFirst' /\ EofLast'
  BY <1>1, <1>2, DownKept
<1>13. \A q, T : Count(s, q, T) = Count(Tail(s), q, T) + B(f.req = q /\ f.type \in T)
  BY <1>2, <1>3, <1>5, CountTail
<1>14. \A q \in Requests : Count(toConnector, q, {"window"}) \in Nat /\ Count(toConnector', q, {"window"}) \in Nat
  BY <1>1, <1>10, CountsNat, CountsNatNext
<1>15. ASSUME NEW q \in Requests \ {r} PROVE Good(q)'
  <2>1. B(f.req = q /\ f.type \in {"window"}) = 0
    BY DEF B
  <2>2. Count(s, q, {"window"}) = Count(Tail(s), q, {"window"}) + 0
    BY <1>13, <2>1, Zenon
  <2>3. Count(toConnector', q, {"window"}) = Count(toConnector, q, {"window"})
    BY <1>2, <1>14, <2>2 DEF s
  <2>4. Still(q)
    BY <1>2, <1>9, <2>3 DEF Still
  <2>5. Good(q)
    BY <1>1
  <2>. QED
    BY <1>1, <1>10, <2>4, <2>5, StillKeeps
<1>16. SessionOf(r) /\ Counted(r) /\ Whole(r) /\ CleanEnd(r) /\ Good(r)
  BY <1>1 DEF Good
<1>17. /\ got'[r] = got[r] /\ nread'[r] = nread[r] /\ Unacked(r)' = Unacked(r) /\ pump'[r] = pump[r]
       /\ (Reachable(r)' <=> Reachable(r)) /\ Opens(r)' = Opens(r) /\ Chunks(r)' = Chunks(r)
       /\ Eofs(r)' = Eofs(r) /\ Lasts(r)' = Lasts(r) /\ Behind(r, {"data"})' = Behind(r, {"data"})
  BY <1>2 DEF Reachable, Opens, Chunks, Behind, Eofs, Lasts, Unacked
<1>18. Tokens(r)' <= Tokens(r)
  <2>1. /\ Behind(r, {"data"}) \in Nat /\ Returning(r) \in Nat /\ Unacked(r) \in Nat /\ credit[r] \in Nat
    BY <1>1, CountsNat
  <2>2. credit'[r] \in Nat /\ Returning(r)' \in Nat
    BY <1>10, CountsNatNext
  <2> DEFINE m == Count(toConnector, r, {"window"})
             n == Count(toConnector', r, {"window"})
  <2>3. m \in Nat /\ n \in Nat
    BY <1>14
  <2>4. /\ m = n + 1 => Returning(r) = Returning(r)' + AckThreshold
        /\ n <= m => Returning(r)' <= Returning(r)
    BY <2>3, ReturningStep
  <2>5. m = n + B(f.req = r /\ f.type \in {"window"})
    BY <1>2, <1>13 DEF s
  <2>6. (f.type = "window" => m = n + 1) /\ n <= m
    <3>. HIDE DEF m, n
    <3>. QED
      BY <2>3, <2>5 DEF B
  <2>7. credit'[r] + Returning(r)' <= credit[r] + Returning(r)
    BY <1>8, <1>9, <2>1, <2>2, <2>4, <2>6
  <2>8. B(pump[r] = "write") \in Nat /\ B(pump'[r] = "write") = B(pump[r] = "write")
    BY <1>17, BNat
  <2>. QED
    BY <1>17, <2>1, <2>2, <2>7, <2>8 DEF Tokens
<1>19. Counted(r)'
  <2>1. Tokens(r) \in Nat /\ Tokens(r)' \in Nat
    BY <1>1, <1>10, MeasuresNat, MeasuresNatNext
  <2>. QED
    BY <1>8, <1>16, <1>17, <1>18, <2>1 DEF Counted
<1>20. Whole(r)' /\ CleanEnd(r)' /\ SessionOf(r)'
  BY <1>2, <1>16, <1>17 DEF Whole, CleanEnd, SessionOf
<1>21. \A q \in Requests : Good(q)'
  BY <1>15, <1>19, <1>20 DEF Good
<1>. QED
  BY <1>10, <1>11, <1>12, <1>21, Assemble DEF LinkFrames

\* The same for whichever frame comes first.
LEMMA WindowTaken ==
  ASSUME BodyInv, ConnectorDispatch
  PROVE  BodyInv'
<1>1. toConnector \in Seq(FrameOf(ToConnectorTypes)) /\ toConnector # <<>>
  BY Parts DEF BodyTypes, ConnectorDispatch
<1>2. Head(toConnector) \in FrameOf(ToConnectorTypes)
  BY <1>1, TakeFirst
<1>3. PICK f : f = Head(toConnector)
  OBVIOUS
<1>4. PICK r \in Requests : f.req = r
  BY <1>2, <1>3 DEF FrameOf
<1>. QED
  BY <1>3, <1>4, WindowTakenFor

-----------------------------------------------------------------------------
(* The variables of the edge and of NATS.                                  *)

Outcomes == {"none", "ok", "error", "gaveup", "gone", "aborted", "clean"}
EdgeTypes ==
  /\ outcome \in [Requests -> Outcomes]
  /\ clientGone \in [Requests -> BOOLEAN] /\ claimed \in [Requests -> BOOLEAN]
  /\ claimTimer \in [Requests -> {"off", "armed", "firing"}]
  /\ reply \in [Requests -> {"none", "inline", "error", "stream"}]
  /\ cancelMsg \in [Requests -> {"none", "sent", "handled"}]

\* The types hold at the start.
LEMMA EdgeInit == Init => EdgeTypes
<1>. SUFFICES ASSUME Init PROVE EdgeTypes
  OBVIOUS
<1>1. clientGone \in [Requests -> BOOLEAN] /\ claimed \in [Requests -> BOOLEAN]
  BY Zenon DEF Init
<1>. QED
  BY <1>1 DEF Init, EdgeTypes, Outcomes

\* Every step keeps them.
LEMMA EdgeStep == EdgeTypes /\ [Next]_vars => EdgeTypes'
<1>. SUFFICES ASSUME EdgeTypes, [Next]_vars PROVE EdgeTypes'
  OBVIOUS
<1> DEFINE Bools == [Requests -> BOOLEAN]
<1>1. clientGone \in Bools /\ claimed \in Bools
  BY DEF EdgeTypes
<1>2. /\ outcome \in [Requests -> Outcomes]
      /\ claimTimer \in [Requests -> {"off", "armed", "firing"}]
      /\ reply \in [Requests -> {"none", "inline", "error", "stream"}]
      /\ cancelMsg \in [Requests -> {"none", "sent", "handled"}]
  BY DEF EdgeTypes
<1>3. ASSUME clientGone' \in Bools, claimed' \in Bools,
             outcome' \in [Requests -> Outcomes],
             claimTimer' \in [Requests -> {"off", "armed", "firing"}],
             reply' \in [Requests -> {"none", "inline", "error", "stream"}],
             cancelMsg' \in [Requests -> {"none", "sent", "handled"}]
      PROVE  EdgeTypes'
  BY <1>3 DEF EdgeTypes
<1>. HIDE DEF Bools
<1>4. ASSUME NEW r \in Requests, NEW o \in Outcomes, Answer(r, o)
      PROVE  outcome' \in [Requests -> Outcomes]
  BY <1>2, <1>4 DEF Answer
<1>5. {"ok", "error", "gaveup", "gone", "aborted", "clean"} \subseteq Outcomes
  BY DEF Outcomes
<1>6. ASSUME NEW r \in Requests, NEW k \in {"inline", "error", "stream"}, Respond(r, k)
      PROVE  reply' \in [Requests -> {"none", "inline", "error", "stream"}]
  BY <1>2, <1>6 DEF Respond
<1>7. ASSUME NEW r \in Requests, Edge(r) PROVE EdgeTypes'
  <2>1. CASE GiveUp(r)
    BY <1>1, <1>2, <1>3, <1>4, <1>5, <2>1 DEF GiveUp, edgeSess
  <2>2. CASE TakeReply(r)
    <3>1. outcome' \in [Requests -> Outcomes]
      BY <1>2, <1>4, <1>5, <2>2 DEF TakeReply
    <3>2. reply' \in [Requests -> {"none", "inline", "error", "stream"}]
      BY <1>2, <2>2 DEF TakeReply
    <3>. QED
      BY <1>1, <1>2, <1>3, <2>2, <3>1, <3>2 DEF TakeReply, edgeSess
  <2>3. CASE Claim(r)
    <3>1. claimed' \in Bools
      BY <1>1, <2>3, Zenon DEF Claim, Bools
    <3>. QED
      BY <1>1, <1>2, <1>3, <2>3, <3>1 DEF Claim, natsVars
  <2>4. CASE ClaimTimeout(r)
    BY <1>1, <1>2, <1>3, <1>4, <1>5, <2>4 DEF ClaimTimeout, edgeSess, natsVars
  <2>5. CASE StreamClientGone(r)
    BY <1>1, <1>2, <1>3, <1>4, <1>5, <2>5 DEF StreamClientGone, EndStream, natsVars
  <2>6. CASE StreamSessionDone(r)
    BY <1>1, <1>2, <1>3, <1>4, <1>5, <2>6 DEF StreamSessionDone, EndStream, natsVars
  <2>7. CASE StreamData(r)
    BY <1>1, <1>2, <1>3, <2>7 DEF StreamData, natsVars
  <2>8. CASE StreamWriteFails(r)
    BY <1>1, <1>2, <1>3, <1>4, <1>5, <2>8 DEF StreamWriteFails, EndStream, natsVars
  <2>9. CASE StreamEnd(r)
    BY <1>1, <1>2, <1>3, <1>4, <1>5, <2>9 DEF StreamEnd, EndStream, natsVars
  <2>. QED
    BY <1>7, <2>1, <2>2, <2>3, <2>4, <2>5, <2>6, <2>7, <2>8, <2>9 DEF Edge
<1>8. ASSUME NEW r \in Requests, Timers(r) PROVE EdgeTypes'
  <2>1. CASE ClaimTimerFires(r)
    BY <1>1, <1>2, <1>3, <2>1 DEF ClaimTimerFires, edgeVars, natsVars
  <2>2. CASE ClaimTimerCloses(r)
    BY <1>1, <1>2, <1>3, <2>2 DEF ClaimTimerCloses, edgeVars, natsVars
  <2>3. CASE DeadlineFires(r) \/ DeadlineCancels(r)
    BY <1>1, <1>2, <1>3, <2>3 DEF DeadlineFires, DeadlineCancels, edgeVars, edgeSess, natsVars
  <2>. QED
    BY <1>8, <2>1, <2>2, <2>3 DEF Timers
<1>9. ASSUME NEW r \in Requests, Callback(r) PROVE EdgeTypes'
  <2>1. CASE BackendFails(r)
    BY <1>1, <1>2, <1>3, <1>6, <2>1 DEF BackendFails, Return, edgeVars, edgeSess
  <2>2. CASE StreamOpens(r)
    BY <1>1, <1>2, <1>3, <2>2 DEF StreamOpens, edgeVars, edgeSess, natsVars
  <2>3. CASE StreamFallsBack(r)
    BY <1>1, <1>2, <1>3, <2>3 DEF StreamFallsBack, edgeVars, edgeSess, natsVars
  <2>4. CASE InlineBody(r)
    BY <1>1, <1>2, <1>3, <1>6, <2>4 DEF InlineBody, Return, edgeVars, edgeSess
  <2>5. CASE StreamReturns(r)
    BY <1>1, <1>2, <1>3, <1>6, <2>5 DEF StreamReturns, edgeVars, edgeSess
  <2>. QED
    BY <1>9, <2>1, <2>2, <2>3, <2>4, <2>5 DEF Callback
<1>10. ASSUME NEW r \in Requests, Pump(r) \/ WatchDone(r) PROVE EdgeTypes'
  BY <1>1, <1>2, <1>3, <1>10 DEF Pump, PumpCredit, PumpClosed, PumpWrite, PumpClose, PumpAborted,
       PumpFails, WatchDone, edgeVars, edgeSess, natsVars
<1>11. ASSUME NEW r \in Requests, Network(r) PROVE EdgeTypes'
  BY <1>1, <1>2, <1>3, <1>11 DEF Network, Cancel, CancelLost, edgeVars, edgeSess
<1>12. ASSUME NEW r \in Requests, Outside(r) PROVE EdgeTypes'
  <2>1. CASE SendRequest(r)
    BY <1>1, <1>2, <1>3, <2>1 DEF SendRequest, edgeSess
  <2>2. CASE NoResponders(r)
    BY <1>1, <1>2, <1>3, <1>4, <1>5, <2>2 DEF NoResponders, edgeSess, natsVars
  <2>3. CASE ClientDisconnects(r)
    <3>1. clientGone' \in Bools
      BY <1>1, <2>3, Zenon DEF ClientDisconnects, Bools
    <3>. QED
      BY <1>1, <1>2, <1>3, <2>3, <3>1 DEF ClientDisconnects, edgeSess, natsVars
  <2>4. CASE BackendHeaders(r)
    BY <1>1, <1>2, <1>3, <2>4 DEF BackendHeaders, edgeVars, edgeSess, natsVars
  <2>5. CASE PumpRead(r) \/ PumpEOF(r) \/ BodyBreaks(r)
    BY <1>1, <1>2, <1>3, <2>5 DEF PumpRead, PumpEOF, BodyBreaks, PumpFails, edgeVars, edgeSess, natsVars
  <2>6. CASE StreamWritten(r)
    BY <1>1, <1>2, <1>3, <2>6 DEF StreamWritten, natsVars
  <2>. QED
    BY <1>12, <2>1, <2>2, <2>3, <2>4, <2>5, <2>6 DEF Outside
<1>13. ASSUME StartCall \/ EdgeDispatch \/ ConnectorDispatch PROVE EdgeTypes'
  BY <1>1, <1>2, <1>3, <1>13 DEF StartCall, EdgeDispatch, ConnectorDispatch, edgeVars, edgeSess, natsVars
<1>14. ASSUME EdgeOpen PROVE EdgeTypes'
  BY <1>1, <1>2, <1>3, <1>14 DEF EdgeOpen, edgeVars, natsVars
<1>15. ASSUME LinkBreaks \/ EdgeNotices \/ ConnectorNotices \/ Redial PROVE EdgeTypes'
  BY <1>1, <1>2, <1>3, <1>15 DEF LinkBreaks, EdgeNotices, ConnectorNotices, Redial, EdgeCloses,
       ConnectorCloses, edgeVars, edgeSess, natsVars
<1>16. ASSUME UNCHANGED vars PROVE EdgeTypes'
  BY <1>1, <1>2, <1>3, <1>16 DEF vars, edgeVars, edgeSess, natsVars
<1>. QED
  BY <1>7, <1>8, <1>9, <1>10, <1>11, <1>12, <1>13, <1>14, <1>15, <1>16 DEF Next, Finished

-----------------------------------------------------------------------------
(* The invariant holds.                                                    *)

\* At the start there are no sessions and no frames.
LEMMA BodyInit == Init => BodyInv
<1>. SUFFICES ASSUME Init PROVE BodyInv
  OBVIOUS
<1>1. /\ toEdge = <<>> /\ toConnector = <<>> /\ \A r \in Requests : erecv[r] = <<>>
  BY DEF Init
<1>2. BodyTypes
  <2>1. eUp \in BOOLEAN /\ cUp \in BOOLEAN
    BY Zenon DEF Init
  <2>2. erecv \in [Requests -> Seq(FrameOf(Down))]
    BY EmptySeq DEF Init
  <2>3. toEdge \in Seq(FrameOf(ToEdgeTypes)) /\ toConnector \in Seq(FrameOf(ToConnectorTypes))
    BY <1>1, EmptySeq
  <2>4. 0 \in 0..(AckThreshold - 1) /\ 0 \in 0..SendWindow /\ 0 \in 0..Body
    BY ThresholdType, WindowAssumption, BodyAssumption
  <2>5. /\ got \in [Requests -> Nat] /\ nread \in [Requests -> 0..Body]
        /\ consumed \in [Requests -> 0..(AckThreshold - 1)] /\ credit \in [Requests -> 0..SendWindow]
    BY <2>4 DEF Init
  <2>6. /\ esess \in [Requests -> {"none", "open", "closed", "lost"}]
        /\ csess \in [Requests -> {"none", "open", "closed", "lost"}]
    BY DEF Init
  <2>. QED
    BY <2>1, <2>2, <2>3, <2>5, <2>6 DEF BodyTypes
<1>3. LinkFrames /\ EofLast
  BY <1>1 DEF LinkFrames, DownFrames, UpFrames, EofLast, DataFirst
<1>4. OpenFirst
  BY <1>1 DEF OpenFirst, Init
<1>5. ASSUME NEW r \in Requests
      PROVE  SessionOf(r) /\ Counted(r) /\ Whole(r) /\ CleanEnd(r)
  <2>1. /\ csess[r] = "none" /\ pump[r] = "none" /\ esess[r] = "none" /\ outcome[r] = "none"
        /\ got[r] = 0 /\ nread[r] = 0 /\ consumed[r] = 0 /\ credit[r] = 0 /\ erecv[r] = <<>>
    BY DEF Init
  <2>2. SessionOf(r) /\ CleanEnd(r) /\ Unacked(r) = 0
    <3>1. Unacked(r) = 0
      BY <2>1 DEF Init, Unacked, B
    <3>. QED
      BY <2>1, <3>1 DEF SessionOf, CleanEnd
  <2>3. \A T : Count(toEdge, r, T) = 0 /\ Count(toConnector, r, T) = 0 /\ Count(erecv[r], r, T) = 0
    BY <1>1, <2>1, CountEmpty
  <2>4. \A T : Behind(r, T) = 0
    BY <2>3 DEF Behind
  <2>5. Returning(r) = 0
    BY <2>3, ThresholdType DEF Returning
  <2>6. Chunks(r) = 0
    BY <2>1, <2>4 DEF Chunks, B
  <2>7. Eofs(r) <= 1 /\ Lasts(r) <= 1
    BY <2>1, <2>4 DEF Eofs, Lasts, B
  <2>8. Opens(r) <= 1
    BY <2>1, <2>3 DEF Opens, B
  <2>9. Tokens(r) <= SendWindow
    BY <2>1, <2>2, <2>4, <2>5, WindowAssumption DEF Tokens, B
  <2>10. Counted(r)
    BY <2>1, <2>6, <2>7, <2>8, <2>9 DEF Counted
  <2>11. Whole(r)
    BY <2>1, <2>3, <2>6 DEF Whole
  <2>. QED
    BY <2>2, <2>10, <2>11
<1>. QED
  BY <1>2, <1>3, <1>4, <1>5 DEF BodyInv

\* An answer ends the handler, and only EndStream's may be a clean end.
LEMMA AnswerEnds ==
  ASSUME CallTypes, EdgeTypes, NEW r \in Requests, NEW o, o # "clean", Answer(r, o)
  PROVE  \A q \in Requests : /\ handler[q] = "done" => handler'[q] = "done"
                             /\ handler'[q] = "writing" => handler[q] = "writing"
                             /\ outcome'[q] = "clean" => outcome[q] = "clean"
BY DEF CallTypes, EdgeTypes, Answer

\* The steps of the edge's handler.
LEMMA EdgeBody ==
  ASSUME BodyInv, CallTypes, EdgeTypes, NEW r \in Requests, Edge(r)
  PROVE  BodyInv'
<1> DEFINE Settles == \A q \in Requests : /\ handler[q] = "done" => handler'[q] = "done"
                                          /\ handler'[q] = "writing" => handler[q] = "writing"
                                          /\ outcome'[q] = "clean" => outcome[q] = "clean"
<1>1. CASE GiveUp(r)
  <2>1. Settles
    BY <1>1, AnswerEnds DEF GiveUp
  <2>. QED
    BY <1>1, <2>1, KeptBody DEF GiveUp, edgeSess, pumpVars, linkVars
<1>2. CASE TakeReply(r)
  <2>1. Settles
    <3>1. CASE \E o \in {"ok", "error"} : Answer(r, o)
      BY <3>1, AnswerEnds
    <3>2. CASE handler' = [handler EXCEPT ![r] = "claiming"] /\ UNCHANGED outcome
      BY <1>2, <3>2 DEF TakeReply, CallTypes
    <3>. QED
      BY <1>2, <3>1, <3>2 DEF TakeReply
  <2>. QED
    BY <1>2, <2>1, KeptBody DEF TakeReply, edgeSess, pumpVars, linkVars
<1>3. CASE Claim(r)
  <2>1. Settles
    BY <1>3 DEF Claim, CallTypes
  <2>. QED
    BY <1>3, <2>1, KeptBody DEF Claim, pumpVars, linkVars
<1>4. CASE ClaimTimeout(r)
  <2>1. Settles
    BY <1>4, AnswerEnds DEF ClaimTimeout
  <2>. QED
    BY <1>4, <2>1, KeptBody DEF ClaimTimeout, edgeSess, pumpVars, linkVars
<1>5. CASE StreamClientGone(r)
  <2>1. Settles
    BY <1>5, AnswerEnds DEF StreamClientGone, EndStream
  <2>2. esess' = Closed(esess, r) /\ toConnector' = ToConnector(r, "close", 0)
    BY <1>5 DEF StreamClientGone, EndStream
  <2>. QED
    BY <1>5, <2>1, <2>2, EdgeSessionCloses DEF StreamClientGone, pumpVars
<1>6. CASE StreamSessionDone(r)
  <2>1. Settles
    BY <1>6, AnswerEnds DEF StreamSessionDone, EndStream
  <2>2. esess' = Closed(esess, r) /\ toConnector' = ToConnector(r, "close", 0)
    BY <1>6 DEF StreamSessionDone, EndStream
  <2>. QED
    BY <1>6, <2>1, <2>2, EdgeSessionCloses DEF StreamSessionDone, pumpVars
<1>7. CASE StreamData(r)
  BY <1>7, ReadData
<1>8. outcome \in [Requests -> {"none", "ok", "error", "gaveup", "gone", "aborted", "clean"}]
  BY DEF EdgeTypes, Outcomes
<1>9. CASE StreamWriteFails(r)
  <2>1. Settles
    BY <1>9, AnswerEnds DEF StreamWriteFails, EndStream
  <2>2. esess' = Closed(esess, r) /\ toConnector' = ToConnector(r, "close", 0)
    BY <1>9 DEF StreamWriteFails, EndStream
  <2>. QED
    BY <1>9, <2>1, <2>2, EdgeSessionCloses DEF StreamWriteFails, pumpVars
<1>10. CASE StreamEnd(r)
  <2> DEFINE o == IF Head(erecv[r]).type = "eof" THEN "clean" ELSE "aborted"
  <2>1. /\ handler[r] = "streaming" /\ erecv[r] # <<>> /\ erecv' = [erecv EXCEPT ![r] = Tail(@)]
        /\ EndStream(r, o)
        /\ UNCHANGED <<got, consumed, nread, csess, credit, pump>> /\ UNCHANGED <<eUp, cUp, toEdge>>
    BY <1>10 DEF StreamEnd, pumpVars
  <2>2. PICK x : x = o
    OBVIOUS
  <2>3. (x = "clean" => Head(erecv[r]).type = "eof") /\ EndStream(r, x)
    BY <2>1, <2>2
  <2>. HIDE DEF o
  <2>. QED
    BY <1>8, <2>1, <2>3, ReaderEnds
<1>. QED
  BY <1>1, <1>2, <1>3, <1>4, <1>5, <1>6, <1>7, <1>9, <1>10 DEF Edge

\* Steps that leave the sessions and the responses alone.
LEMMA ElsewhereBody ==
  ASSUME BodyInv, UNCHANGED <<handler, outcome>>,
         UNCHANGED <<got, nread, esess, csess, erecv, consumed, credit, pump>>,
         UNCHANGED <<eUp, cUp, toEdge, toConnector>>
  PROVE  BodyInv'
BY KeptBody

\* Every step keeps the invariant.
LEMMA BodyStep == BodyInv /\ CallInv /\ EdgeTypes /\ [Next]_vars => BodyInv'
<1>. SUFFICES ASSUME BodyInv, CallInv, EdgeTypes, [Next]_vars PROVE BodyInv'
  OBVIOUS
<1>1. CallTypes
  BY DEF CallInv
<1>2. ASSUME NEW r \in Requests, Edge(r) PROVE BodyInv'
  BY <1>1, <1>2, EdgeBody
<1>3. ASSUME NEW r \in Requests, Timers(r) PROVE BodyInv'
  <2>1. CASE ClaimTimerFires(r)
    BY <2>1, ElsewhereBody DEF ClaimTimerFires, edgeVars, pumpVars, linkVars
  <2>2. CASE DeadlineFires(r) \/ DeadlineCancels(r)
    BY <2>2, ElsewhereBody DEF DeadlineFires, DeadlineCancels, edgeVars, edgeSess, pumpVars, linkVars
  <2>3. CASE ClaimTimerCloses(r)
    BY <2>3, EdgeSessionCloses DEF ClaimTimerCloses, edgeVars, pumpVars
  <2>. QED
    BY <1>3, <2>1, <2>2, <2>3 DEF Timers
<1>4. ASSUME NEW r \in Requests, Callback(r) PROVE BodyInv'
  <2>1. CASE BackendFails(r)
    BY <2>1, ElsewhereBody DEF BackendFails, edgeVars, edgeSess, pumpVars, linkVars
  <2>2. CASE StreamOpens(r)
    BY <2>2, OpenBody
  <2>3. CASE StreamFallsBack(r)
    BY <2>3, ElsewhereBody DEF StreamFallsBack, edgeVars, edgeSess, pumpVars, linkVars
  <2>4. CASE InlineBody(r)
    BY <2>4, ElsewhereBody DEF InlineBody, edgeVars, edgeSess, pumpVars, linkVars
  <2>5. CASE StreamReturns(r)
    BY <2>5, ElsewhereBody DEF StreamReturns, edgeVars, edgeSess, pumpVars, linkVars
  <2>. QED
    BY <1>4, <2>1, <2>2, <2>3, <2>4, <2>5 DEF Callback
<1>5. ASSUME NEW r \in Requests, Pump(r) PROVE BodyInv'
  BY <1>1, <1>5, PumpBody DEF Pump, PumpAborted
<1>6. ASSUME NEW r \in Requests, WatchDone(r) PROVE BodyInv'
  BY <1>6, ElsewhereBody DEF WatchDone, edgeVars, edgeSess, pumpVars, linkVars
<1>7. ASSUME NEW r \in Requests, Network(r) PROVE BodyInv'
  BY <1>7, ElsewhereBody DEF Network, Cancel, CancelLost, edgeVars, edgeSess, pumpVars, linkVars
<1>8. ASSUME NEW r \in Requests, Outside(r) PROVE BodyInv'
  <2> DEFINE Settles == \A q \in Requests : /\ handler[q] = "done" => handler'[q] = "done"
                                            /\ handler'[q] = "writing" => handler[q] = "writing"
                                            /\ outcome'[q] = "clean" => outcome[q] = "clean"
  <2>1. CASE SendRequest(r)
    <3>1. Settles
      BY <1>1, <2>1 DEF SendRequest, CallTypes
    <3>. QED
      BY <2>1, <3>1, KeptBody DEF SendRequest, edgeSess, pumpVars, linkVars
  <2>2. CASE NoResponders(r)
    <3>1. Settles
      BY <1>1, <2>2, AnswerEnds DEF NoResponders
    <3>. QED
      BY <2>2, <3>1, KeptBody DEF NoResponders, edgeSess, pumpVars, linkVars
  <2>3. CASE ClientDisconnects(r)
    BY <2>3, ElsewhereBody DEF ClientDisconnects, edgeSess, pumpVars, linkVars
  <2>4. CASE BackendHeaders(r)
    BY <2>4, ElsewhereBody DEF BackendHeaders, edgeVars, edgeSess, pumpVars, linkVars
  <2>5. CASE PumpRead(r) \/ PumpEOF(r) \/ BodyBreaks(r)
    BY <1>1, <2>5, PumpBody DEF BodyBreaks
  <2>6. CASE StreamWritten(r)
    BY <1>1, <2>6, ChunkWritten
  <2>. QED
    BY <1>8, <2>1, <2>2, <2>3, <2>4, <2>5, <2>6 DEF Outside
<1>9. ASSUME StartCall PROVE BodyInv'
  BY <1>9, ElsewhereBody DEF StartCall, edgeVars, edgeSess, pumpVars, linkVars
<1>10. ASSUME EdgeOpen \/ EdgeDispatch \/ ConnectorDispatch PROVE BodyInv'
  BY <1>10, OpenAccepted, FrameDispatched, WindowTaken
<1>11. ASSUME EdgeCloses PROVE BodyInv'
  BY <1>11, EdgeLinkEnds DEF EdgeCloses, edgeVars, pumpVars
<1>12. ASSUME Redial PROVE BodyInv'
  BY <1>12, EdgeLinkEnds DEF Redial, edgeVars, pumpVars
<1>13. ASSUME LinkBreaks \/ EdgeNotices \/ ConnectorNotices PROVE BodyInv'
  BY <1>11, <1>13, ConnectorLinkEnds DEF LinkBreaks, EdgeNotices, ConnectorNotices
<1>14. ASSUME UNCHANGED vars PROVE BodyInv'
  BY <1>14, ElsewhereBody DEF vars, edgeVars, edgeSess, pumpVars, linkVars
<1>. QED
  BY <1>2, <1>3, <1>4, <1>5, <1>6, <1>7, <1>8, <1>9, <1>10, <1>12, <1>13, <1>14 DEF Next, Finished

\* The invariant of streamed bodies, with the one of the calls.
THEOREM BodyInvariant == Spec => []BodyInv
<1> DEFINE Inv == BodyInv /\ CallInv /\ EdgeTypes
<1>1. Init => Inv
  BY BodyInit, InitInv, EdgeInit
<1>2. Inv /\ [Next]_vars => Inv'
  BY BodyStep, InvStep, EdgeStep
<1>. QED
  BY <1>1, <1>2, PTL DEF Spec

\* CleanEndComplete: a response that ends cleanly for the client is the whole
\* body, whatever becomes of links, clients, messages and backends.
THEOREM CleanEndWhole == Spec => []CleanEndComplete
<1>1. BodyInv => CleanEndComplete
  BY DEF BodyInv, CleanEnd, CleanEndComplete
<1>. QED
  BY <1>1, BodyInvariant, PTL

\* ReceiveFits: the receive queue of a streamed body never holds more than the
\* window, an eof and a close or error frame.
THEOREM ReceiveBounded == Spec => []ReceiveFits
<1>1. BodyInv => ReceiveFits
  <2>1. SUFFICES ASSUME BodyInv, NEW r \in Requests PROVE Len(erecv[r]) <= SendWindow + 2
    BY DEF ReceiveFits
  <2> DEFINE s == erecv[r]
             d == Count(s, r, {"data"})
             e == Count(s, r, {"eof"})
             l == Count(s, r, {"close", "error"})
  <2>2. BodyTypes /\ SessionOf(r) /\ Counted(r)
    BY <2>1 DEF BodyInv
  <2>3. s \in Seq(FrameOf(Down)) /\ \A i \in 1..Len(s) : s[i].req = r
    BY <2>2 DEF BodyTypes, SessionOf
  <2>4. \A i \in 1..Len(s) : s[i].type \in ({"data"} \cup {"eof"}) \cup {"close", "error"}
    <3>1. \A i \in 1..Len(s) : s[i] \in FrameOf(Down)
      BY <2>3, ElementOfSeq
    <3>. QED
      BY <3>1 DEF FrameOf, Down
  <2>5. Len(s) = d + e + l
    <3>1. /\ {"data"} \cap {"eof"} = {}
          /\ ({"data"} \cup {"eof"}) \cap {"close", "error"} = {}
      OBVIOUS
    <3>. HIDE DEF s
    <3>. QED
      BY <2>3, <2>4, <3>1, CountThree
  <2>6. /\ d \in Nat /\ e \in Nat /\ l \in Nat
        /\ Count(toEdge, r, {"data"}) \in Nat /\ Count(toEdge, r, {"eof"}) \in Nat
        /\ Count(toEdge, r, {"close", "error"}) \in Nat
        /\ Returning(r) \in Nat /\ Unacked(r) \in Nat /\ credit[r] \in Nat
    BY <2>2, CountsNat
  <2>7. /\ Tokens(r) = credit[r] + B(pump[r] = "write") + (Count(toEdge, r, {"data"}) + d)
                         + Unacked(r) + Returning(r)
        /\ Eofs(r) = (Count(toEdge, r, {"eof"}) + e) + B(pump[r] \notin {"closing", "ended"})
        /\ Lasts(r) = (Count(toEdge, r, {"close", "error"}) + l) + B(pump[r] \notin {"ended", "gone"})
    BY DEF Tokens, Eofs, Lasts, Behind
  <2>8. /\ B(pump[r] = "write") \in Nat /\ B(pump[r] \notin {"closing", "ended"}) \in Nat
        /\ B(pump[r] \notin {"ended", "gone"}) \in Nat
    BY BNat
  <2>9. Tokens(r) <= SendWindow /\ Eofs(r) <= 1 /\ Lasts(r) <= 1 /\ SendWindow \in Nat
    BY <2>2, WindowAssumption DEF Counted
  <2>. HIDE DEF d, e, l
  <2>10. d <= SendWindow
    BY <2>6, <2>7, <2>8, <2>9
  <2>11. e <= 1 /\ l <= 1
    BY <2>6, <2>7, <2>8, <2>9
  <2>. QED
    BY <2>5, <2>6, <2>9, <2>10, <2>11
<1>. QED
  BY <1>1, BodyInvariant, PTL

\* TypeOK: every variable of the exchange stays in its range; the bound on what
\* the client was given rests on the counting of chunks.
THEOREM ExchangeTypes == Spec => []TypeOK
<1>1. BodyInv /\ CallTypes /\ EdgeTypes => TypeOK
  <2>1. SUFFICES ASSUME BodyInv, CallTypes, EdgeTypes PROVE TypeOK
    OBVIOUS
  <2>2. BodyTypes /\ \A r \in Requests : Counted(r)
    BY <2>1 DEF BodyInv
  <2>3. got \in [Requests -> 0..Body]
    <3>1. ASSUME NEW r \in Requests PROVE got[r] \in 0..Body
      <4>1. got[r] \in Nat /\ nread[r] \in 0..Body /\ Behind(r, {"data"}) \in Nat
        BY <2>2, CountsNat DEF BodyTypes
      <4>2. B(pump[r] \in {"credit", "write"}) \in Nat
        BY BNat
      <4>3. Chunks(r) <= nread[r]
        BY <2>2 DEF Counted
      <4>. QED
        BY <4>1, <4>2, <4>3, BodyAssumption DEF Chunks
    <3>2. got \in [Requests -> Nat]
      BY <2>2 DEF BodyTypes
    <3>. QED
      BY <3>1, <3>2
  <2>4. /\ clientGone \in [Requests -> BOOLEAN] /\ claimed \in [Requests -> BOOLEAN]
        /\ cancelled \in [Requests -> BOOLEAN] /\ eUp \in BOOLEAN /\ cUp \in BOOLEAN
    BY <2>1, <2>2, Zenon DEF EdgeTypes, CallTypes, BodyTypes
  <2>5. /\ handler \in [Requests -> {"idle", "waiting", "claiming", "streaming", "writing", "done"}]
        /\ call \in [Requests -> {"none", "do", "headers", "body", "returning", "over"}]
        /\ pump \in [Requests -> {"none", "read", "credit", "write", "closing", "ended", "gone"}]
        /\ deadline \in [Requests -> {"off", "armed", "fired"}]
        /\ queue \in Seq(Requests) /\ inflight \subseteq Requests
    BY <2>1, Zenon DEF CallTypes, Calls, Pumps
  <2>6. /\ outcome \in [Requests -> {"none", "ok", "error", "gaveup", "gone", "aborted", "clean"}]
        /\ claimTimer \in [Requests -> {"off", "armed", "firing"}]
        /\ reply \in [Requests -> {"none", "inline", "error", "stream"}]
        /\ cancelMsg \in [Requests -> {"none", "sent", "handled"}]
    BY <2>1, Zenon DEF EdgeTypes, Outcomes
  <2>7. /\ nread \in [Requests -> 0..Body]
        /\ esess \in [Requests -> {"none", "open", "closed", "lost"}]
        /\ csess \in [Requests -> {"none", "open", "closed", "lost"}]
        /\ erecv \in [Requests -> Seq(FrameOf({"data", "eof", "close", "error"}))]
        /\ consumed \in [Requests -> 0..(AckThreshold - 1)]
        /\ credit \in [Requests -> 0..SendWindow]
        /\ toEdge \in Seq(FrameOf({"open", "data", "eof", "close", "error"}))
        /\ toConnector \in Seq(FrameOf({"window", "close", "error"}))
    BY <2>2, Zenon DEF BodyTypes, Down, ToEdgeTypes, ToConnectorTypes
  <2>. QED
    BY <2>3, <2>4, <2>5, <2>6, <2>7, Zenon DEF TypeOK
<1> DEFINE Inv == BodyInv /\ CallInv /\ EdgeTypes
<1>2. Init => Inv
  BY BodyInit, InitInv, EdgeInit
<1>3. Inv /\ [Next]_vars => Inv'
  BY BodyStep, InvStep, EdgeStep
<1>4. Inv => TypeOK
  BY <1>1 DEF CallInv
<1>. QED
  BY <1>2, <1>3, <1>4, PTL DEF Spec
=============================================================================
