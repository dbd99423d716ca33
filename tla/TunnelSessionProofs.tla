------------------------ MODULE TunnelSessionProofs -------------------------
(***************************************************************************)
(* Theorems about TunnelSession for every window, slack, number of chunks  *)
(* and set of faults: type correctness, conservation of credit, that       *)
(* dispatch's flow-control violation is unreachable, and that waiting for  *)
(* credit is never a standstill.                                           *)
(***************************************************************************)
EXTENDS TunnelSession, TLAPS, FiniteSetTheorems, SequenceTheorems

-----------------------------------------------------------------------------
(* Counting frames in a queue.                                             *)

Places(s, T) == {i \in 1..Len(s) : s[i].type \in T}

\* A queue holds a natural number of frames of any kind.
LEMMA CountNat ==
  ASSUME NEW s \in Seq(Frames), NEW T
  PROVE  IsFiniteSet(Places(s, T)) /\ Count(s, T) \in Nat
<1>1. Len(s) \in Nat
  BY LenProperties
<1>2. IsFiniteSet(1..Len(s))
  BY <1>1, FS_Interval
<1>3. Places(s, T) \in SUBSET (1..Len(s))
  BY DEF Places
<1>4. IsFiniteSet(Places(s, T))
  BY <1>2, <1>3, FS_Subset
<1>. QED
  BY <1>4, FS_CardinalityType DEF Places, Count

\* A channel starts empty.
LEMMA CountEmpty ==
  ASSUME NEW T
  PROVE  Count(<<>>, T) = 0
BY FS_EmptySet DEF Count

\* Sending a frame on a channel or a connection counts it once.
LEMMA CountAppend ==
  ASSUME NEW s \in Seq(Frames), NEW f \in Frames, NEW T
  PROVE  Count(Append(s, f), T) = Count(s, T) + B(f.type \in T)
<1>1. /\ Len(s) \in Nat
      /\ Len(Append(s, f)) = Len(s) + 1
      /\ Append(s, f)[Len(s) + 1] = f
      /\ \A i \in 1..Len(s) : Append(s, f)[i] = s[i]
  BY LenProperties
<1>2. IsFiniteSet(Places(s, T)) /\ Count(s, T) \in Nat
  BY CountNat
<1>3. Len(s) + 1 \notin Places(s, T)
  BY <1>1 DEF Places
<1>4. /\ Count(s, T) = Cardinality(Places(s, T))
      /\ Count(Append(s, f), T) = Cardinality(Places(Append(s, f), T))
  BY DEF Count, Places
<1>5. CASE f.type \in T
  <2>1. Places(Append(s, f), T) = Places(s, T) \cup {Len(s) + 1}
    BY <1>1, <1>5 DEF Places
  <2>2. Cardinality(Places(Append(s, f), T)) = Cardinality(Places(s, T)) + 1
    BY <1>2, <1>3, <2>1, FS_AddElement
  <2>. QED
    BY <1>4, <1>5, <2>2 DEF B
<1>6. CASE f.type \notin T
  <2>1. Places(Append(s, f), T) = Places(s, T)
    BY <1>1, <1>6 DEF Places
  <2>. QED
    BY <1>2, <1>4, <1>6, <2>1 DEF B
<1>. QED
  BY <1>5, <1>6

\* Receiving the first frame uncounts it.
LEMMA CountTail ==
  ASSUME NEW s \in Seq(Frames), s # <<>>, NEW T
  PROVE  Count(s, T) = Count(Tail(s), T) + B(Head(s).type \in T)
<1> DEFINE S == Places(s, T)
           R == Places(Tail(s), T)
           U == S \ {1}
           shift == [i \in R |-> i + 1]
<1>1. /\ Len(s) \in Nat \ {0}
      /\ Tail(s) \in Seq(Frames)
      /\ Len(Tail(s)) = Len(s) - 1
      /\ \A i \in 1..Len(Tail(s)) : Tail(s)[i] = s[i + 1]
      /\ Head(s) = s[1]
  BY EmptySeq, HeadTailProperties
<1>2. IsFiniteSet(S) /\ IsFiniteSet(R) /\ Count(Tail(s), T) \in Nat
  BY <1>1, CountNat
<1>3. shift \in [R -> U]
  BY <1>1 DEF Places
<1>4. \A i, j \in R : shift[i] = shift[j] => i = j
  BY <1>1 DEF Places
<1>5. \A j \in U : \E i \in R : shift[i] = j
  <2>1. SUFFICES ASSUME NEW j \in U PROVE j - 1 \in R /\ shift[j - 1] = j
    OBVIOUS
  <2>. QED
    BY <1>1 DEF Places
<1>6. ExistsBijection(R, U)
  BY <1>3, <1>4, <1>5 DEF ExistsBijection, Bijection, Injection, Surjection, IsInjective
<1>7. Cardinality(U) = Cardinality(R)
  BY <1>2, <1>6, FS_Bijection
<1>8. Cardinality(U) = IF 1 \in S THEN Cardinality(S) - 1 ELSE Cardinality(S)
  BY <1>2, FS_RemoveElement
<1>9. 1 \in S <=> Head(s).type \in T
  BY <1>1 DEF Places
<1>10. Count(s, T) = Cardinality(S) /\ Count(Tail(s), T) = Cardinality(R)
  BY DEF Count, Places
<1>11. Count(s, T) \in Nat
  BY CountNat
<1>. QED
  BY <1>2, <1>7, <1>8, <1>9, <1>10, <1>11 DEF B

\* A queue that holds frames of two disjoint kinds only is as long as the
\* two counts together.
LEMMA CountSplit ==
  ASSUME NEW s \in Seq(Frames), NEW T, NEW U, T \cap U = {},
         \A i \in 1..Len(s) : s[i].type \in T \cup U
  PROVE  Len(s) = Count(s, T) + Count(s, U)
<1>1. Len(s) \in Nat
  BY LenProperties
<1>2. IsFiniteSet(Places(s, T)) /\ IsFiniteSet(Places(s, U))
  BY CountNat
<1>3. Places(s, T) \cup Places(s, U) = 1..Len(s)
  BY Zenon DEF Places
<1>4. Places(s, T) \cap Places(s, U) = {}
  BY DEF Places
<1>5. Cardinality(1..Len(s)) = Len(s)
  <2>1. 1 \in Int /\ Len(s) \in Int
    BY <1>1
  <2>2. Cardinality(1..Len(s)) = IF 1 > Len(s) THEN 0 ELSE Len(s) - 1 + 1
    BY <2>1, FS_Interval
  <2>. QED
    BY <1>1, <2>2
<1>6. Cardinality(Places(s, T) \cap Places(s, U)) = 0
  BY <1>4, FS_EmptySet
<1>7. Count(s, T) = Cardinality(Places(s, T)) /\ Count(s, T) \in Nat
  BY CountNat DEF Count, Places
<1>8. Count(s, U) = Cardinality(Places(s, U)) /\ Count(s, U) \in Nat
  BY CountNat DEF Count, Places
<1>9. Cardinality(Places(s, T) \cup Places(s, U))
        = Cardinality(Places(s, T)) + Cardinality(Places(s, U))
            - Cardinality(Places(s, T) \cap Places(s, U))
  BY <1>2, FS_Union
<1>10. Len(s) = Cardinality(Places(s, T)) + Cardinality(Places(s, U)) - 0
  BY <1>3, <1>5, <1>6, <1>9
<1>. QED
  BY <1>1, <1>7, <1>8, <1>10

-----------------------------------------------------------------------------
(* The two ends, and the frames of a link.                                 *)

\* The peer of an end is the other end.
LEMMA TwoEnds ==
  ASSUME NEW e \in Ends
  PROVE  /\ Peer(e) \in Ends /\ Peer(e) # e /\ Peer(Peer(e)) = e
         /\ \A g \in Ends : g = e \/ g = Peer(e)
BY DEF Ends, Peer

\* Frames are what WriteFrame is given.
LEMMA FrameType ==
  ASSUME NEW t \in {"open", "data", "window"} \cup Ctl, NEW k \in Nat
  PROVE  /\ Frame(t, k) \in Frames
         /\ Frame(t, k).type = t /\ Frame(t, k).n = k
BY DEF Frame, Frames

\* The threshold of AckData is a positive number, at most the window.
LEMMA ThresholdType == AckThreshold \in Nat /\ 1 <= AckThreshold /\ AckThreshold <= SendWindow
BY WindowAssumption DEF AckThreshold

\* WriteFrame adds at most one frame, to the writer's direction.
LEMMA WrittenFrames ==
  ASSUME TypeOK, NEW e \in Ends, NEW f \in Frames, wire' = Written(e, f)
  PROVE  /\ wire' \in [Ends -> Seq(Frames)]
         /\ wire'[Peer(e)] = wire[Peer(e)]
         /\ wire'[e] = wire[e] \/ wire'[e] = Append(wire[e], f)
<1>1. /\ wire \in [Ends -> Seq(Frames)] /\ wire[e] \in Seq(Frames)
      /\ Peer(e) \in Ends /\ Peer(e) # e
  BY TwoEnds DEF TypeOK
<1>2. wire' = wire \/ wire' = [wire EXCEPT ![e] = Append(wire[e], f)]
  BY DEF Written
<1>3. Append(wire[e], f) \in Seq(Frames)
  BY <1>1
<1>4. CASE wire' = wire
  BY <1>1, <1>4
<1>5. CASE wire' = [wire EXCEPT ![e] = Append(wire[e], f)]
  BY <1>1, <1>3, <1>5, Zenon
<1>. QED
  BY <1>2, <1>4, <1>5

\* The read loop takes the first frame its peer wrote.
LEMMA TakenFrames ==
  ASSUME TypeOK, NEW e \in Ends, Arrives(e), wire' = Taken(e)
  PROVE  /\ wire' \in [Ends -> Seq(Frames)]
         /\ wire'[e] = wire[e]
         /\ wire[Peer(e)] # <<>> /\ wire'[Peer(e)] = Tail(wire[Peer(e)])
         /\ Incoming(e) = Head(wire[Peer(e)]) /\ Incoming(e) \in Frames
<1>1. Peer(e) \in Ends /\ Peer(e) # e
  BY TwoEnds
<1>2. wire[Peer(e)] \in Seq(Frames) /\ wire[Peer(e)] # <<>>
  BY <1>1 DEF TypeOK, Arrives
<1>3. Head(wire[Peer(e)]) \in Frames /\ Tail(wire[Peer(e)]) \in Seq(Frames)
  BY <1>2, HeadTailProperties
<1>. QED
  BY <1>1, <1>2, <1>3 DEF TypeOK, Taken, Incoming

\* The select loop takes the first frame of its receive queue.
LEMMA ReceivedFrame ==
  ASSUME TypeOK, NEW e \in Ends, recv[e] # <<>>, Received(e)
  PROVE  /\ recv' \in [Ends -> Seq(Frames)]
         /\ recv'[Peer(e)] = recv[Peer(e)]
         /\ recv'[e] = Tail(recv[e])
         /\ Next1(e) = Head(recv[e]) /\ Next1(e) \in Frames
<1>1. Peer(e) \in Ends /\ Peer(e) # e
  BY TwoEnds
<1>2. recv[e] \in Seq(Frames)
  BY DEF TypeOK
<1>3. Head(recv[e]) \in Frames /\ Tail(recv[e]) \in Seq(Frames)
  BY <1>2, HeadTailProperties
<1>. QED
  BY <1>1, <1>2, <1>3 DEF TypeOK, Received, Next1

-----------------------------------------------------------------------------
(* Type correctness.                                                       *)

USE DEF sessionVars, linkVars, relayVars

\* Every field is an array over the two ends.
LEMMA Arrays ==
  ASSUME TypeOK
  PROVE  /\ credit = [g \in Ends |-> credit[g]] /\ consumed = [g \in Ends |-> consumed[g]]
         /\ wire = [g \in Ends |-> wire[g]] /\ recv = [g \in Ends |-> recv[g]]
         /\ rd = [g \in Ends |-> rd[g]] /\ main = [g \in Ends |-> main[g]]
BY DEF TypeOK

\* Every action keeps the fields in their types.
LEMMA TypeStep ==
  ASSUME TypeOK, [Next]_vars
  PROVE  TypeOK'
<1>1. CASE UNCHANGED vars
  BY <1>1 DEF TypeOK, vars
<1>2. CASE Finished
  BY <1>2 DEF TypeOK, vars, Finished
<1>3. ASSUME NEW e \in Ends, Socket(e) \/ Reader(e) \/ ReadFails(e)
      PROVE  TypeOK'
  <2>1. CASE ReadChunk(e)
    <3>1. nread' \in [Ends -> Nat]
      <4>1. nread \in [Ends -> Nat] /\ nread[e] + 1 \in Nat
        BY DEF TypeOK
      <4>2. nread' = [nread EXCEPT ![e] = nread[e] + 1]
        BY <2>1 DEF ReadChunk
      <4>. QED
        BY <4>1, <4>2, Zenon
    <3>. QED
      BY <2>1, <3>1 DEF TypeOK, ReadChunk
  <2>2. CASE ReadEOF(e)
    BY <2>2 DEF TypeOK, ReadEOF
  <2>3. CASE ReadErr(e)
    BY <2>3 DEF TypeOK, ReadErr
  <2>4. CASE TakeCredit(e)
    <3>1. credit' \in [Ends -> Nat]
      <4>1. credit \in [Ends -> Nat] /\ credit[e] - 1 \in Nat
        BY <2>4 DEF TypeOK, TakeCredit
      <4>2. credit' = [credit EXCEPT ![e] = credit[e] - 1]
        BY <2>4 DEF TakeCredit
      <4>. QED
        BY <4>1, <4>2, Zenon
    <3>. QED
      BY <2>4, <3>1 DEF TypeOK, TakeCredit
  <2>5. CASE SendClosed(e)
    BY <2>5 DEF TypeOK, SendClosed
  <2>6. CASE WriteData(e)
    <3>1. nread[e] \in Nat
      BY DEF TypeOK
    <3>2. Frame("data", nread[e]) \in Frames
      BY <3>1, FrameType
    <3>3. wire' \in [Ends -> Seq(Frames)]
      BY <2>6, <3>2, WrittenFrames DEF WriteData, TypeOK
    <3>. QED
      BY <2>6, <3>3 DEF TypeOK, WriteData
  <2>. QED
    BY <1>3, <2>1, <2>2, <2>3, <2>4, <2>5, <2>6
      DEF Socket, Reader, ReadClosed, ReadFails
<1>4. ASSUME NEW e \in Ends, ReadLoop(e) \/ LinkFails(e)
      PROVE  TypeOK'
  <2>0. Peer(e) \in Ends
    BY TwoEnds
  <2>1. CASE AcceptOpen(e)
    BY <2>1, TakenFrames DEF TypeOK, AcceptOpen
  <2>2. CASE DropFrame(e)
    BY <2>2, TakenFrames DEF TypeOK, DropFrame
  <2>3. CASE AddSendCredit(e)
    <3>1. Incoming(e) \in Frames /\ wire' \in [Ends -> Seq(Frames)]
      BY <2>3, TakenFrames DEF AddSendCredit
    <3>2. Incoming(e).n \in Nat /\ credit[e] \in Nat
      BY <3>1 DEF Frames, TypeOK
    <3>3. credit' \in [Ends -> Nat]
      BY <2>3, <3>2, WindowAssumption DEF TypeOK, AddSendCredit
    <3>. QED
      BY <2>3, <3>1, <3>3 DEF TypeOK, AddSendCredit
  <2>4. CASE Enqueue(e)
    <3>1. Incoming(e) \in Frames /\ wire' \in [Ends -> Seq(Frames)]
      BY <2>4, TakenFrames DEF Enqueue, Queueable
    <3>2. recv[e] \in Seq(Frames)
      BY DEF TypeOK
    <3>3. Append(recv[e], Incoming(e)) \in Seq(Frames)
      BY <3>1, <3>2
    <3>4. recv' \in [Ends -> Seq(Frames)]
      BY <2>4, <3>3 DEF TypeOK, Enqueue
    <3>. QED
      BY <2>4, <3>1, <3>4 DEF TypeOK, Enqueue
  <2>5. CASE Overrun(e)
    <3>1. Taken(e) \in [Ends -> Seq(Frames)]
      <4>1. wire[Peer(e)] \in Seq(Frames) /\ wire[Peer(e)] # <<>>
        BY <2>0, <2>5 DEF TypeOK, Overrun, Queueable, Arrives
      <4>2. Tail(wire[Peer(e)]) \in Seq(Frames)
        BY <4>1, HeadTailProperties
      <4>. QED
        BY <4>2 DEF TypeOK, Taken
    <3>2. Frame("error", 0) \in Frames
      BY FrameType DEF Ctl
    <3>3. wire' \in [Ends -> Seq(Frames)]
      BY <2>5, <3>1, <3>2 DEF Overrun
    <3>. QED
      BY <2>5, <3>3 DEF TypeOK, Overrun
  <2>6. CASE LinkClose(e)
    <3>1. <<>> \in Seq(Frames)
      OBVIOUS
    <3>2. wire' \in [Ends -> Seq(Frames)]
      BY <2>0, <2>6, <3>1 DEF TypeOK, LinkClose
    <3>3. sess' \in [Ends -> {"none", "open", "removed"}]
      BY <2>6 DEF TypeOK, LinkClose
    <3>. QED
      BY <2>6, <3>2, <3>3 DEF TypeOK, LinkClose
  <2>. QED
    BY <1>4, <2>1, <2>2, <2>3, <2>4, <2>5, <2>6 DEF ReadLoop, LinkFails, LinkNotice
<1>5. ASSUME NEW e \in Ends, Relay(e) \/ SocketWrite(e) \/ CtxDone(e) \/ IdleElapses(e)
      PROVE  TypeOK'
  <2>0. /\ Frame("eof", 0) \in Frames /\ Frame("close", 0) \in Frames
        /\ Frame("error", 0) \in Frames
    BY FrameType DEF Ctl
  <2>1. CASE DialOK(e)
    BY <2>1 DEF TypeOK, DialOK
  <2>2. CASE DialFails(e)
    BY <2>2, <2>0, WrittenFrames DEF TypeOK, DialFails
  <2>3. CASE SessionDone(e) \/ CtxDone(e) \/ IdleFires(e)
    BY <2>3 DEF TypeOK, SessionDone, CtxDone, IdleFires, Leave
  <2>4. CASE TakeReadErr(e)
    BY <2>4 DEF TypeOK, TakeReadErr, Leave
  <2>5. CASE TakeReadEOF(e)
    <3>1. wire' \in [Ends -> Seq(Frames)]
      BY <2>5, <2>0, WrittenFrames DEF TypeOK, TakeReadEOF
    <3>. QED
      BY <2>5, <3>1 DEF TypeOK, TakeReadEOF, Leave
  <2>6. CASE TakeData(e)
    <3>1. recv' \in [Ends -> Seq(Frames)] /\ Next1(e) \in Frames
      BY <2>6, ReceivedFrame DEF TakeData
    <3>2. Next1(e).n \in Nat
      BY <3>1 DEF Frames
    <3>. QED
      BY <2>6, <3>1, <3>2 DEF TypeOK, TakeData
  <2>7. CASE TakeEOF(e)
    <3>1. recv' \in [Ends -> Seq(Frames)]
      BY <2>7, ReceivedFrame DEF TakeEOF
    <3>. QED
      BY <2>7, <3>1 DEF TypeOK, TakeEOF, Leave
  <2>8. CASE TakeClose(e)
    <3>1. recv' \in [Ends -> Seq(Frames)]
      BY <2>8, ReceivedFrame DEF TakeClose
    <3>. QED
      BY <2>8, <3>1 DEF TypeOK, TakeClose, Leave
  <2>9. CASE ConnWriteOK(e)
    <3>1. consumed[e] + 1 \in Nat /\ hold[e] \in Nat
      BY DEF TypeOK
    <3>2. Frame("window", consumed[e] + 1) \in Frames
      BY <3>1, FrameType
    <3>3. wire' \in [Ends -> Seq(Frames)]
      BY <2>9, <3>2, WrittenFrames DEF TypeOK, ConnWriteOK
    <3>4. consumed' \in [Ends -> Nat]
      <4>1. \/ consumed' = [consumed EXCEPT ![e] = 0]
            \/ consumed' = [consumed EXCEPT ![e] = consumed[e] + 1]
        BY <2>9, Zenon DEF ConnWriteOK
      <4>2. consumed \in [Ends -> Nat]
        BY DEF TypeOK
      <4>. QED
        BY <3>1, <4>1, <4>2
    <3>5. out' \in [Ends -> Seq(Nat)]
      <4>1. out[e] \in Seq(Nat) /\ out \in [Ends -> Seq(Nat)]
        BY DEF TypeOK
      <4>2. Append(out[e], hold[e]) \in Seq(Nat)
        BY <3>1, <4>1
      <4>. QED
        BY <2>9, <4>1, <4>2 DEF ConnWriteOK
    <3>6. /\ hold' \in [Ends -> Nat] /\ idleDue' \in [Ends -> BOOLEAN]
          /\ main' \in [Ends -> {"none", "dial", "select", "writing", "close", "remove", "done"}]
      BY <2>9 DEF TypeOK, ConnWriteOK
    <3>. QED
      BY <2>9, <3>3, <3>4, <3>5, <3>6 DEF TypeOK, ConnWriteOK
  <2>10. CASE ConnWriteErr(e)
    BY <2>10 DEF TypeOK, ConnWriteErr, Leave
  <2>11. CASE SessionClose(e)
    BY <2>11, <2>0, WrittenFrames DEF TypeOK, SessionClose
  <2>12. CASE SessionRemove(e)
    BY <2>12 DEF TypeOK, SessionRemove
  <2>13. CASE IdleElapses(e)
    BY <2>13 DEF TypeOK, IdleElapses
  <2>. QED
    BY <1>5, <2>1, <2>2, <2>3, <2>4, <2>5, <2>6, <2>7, <2>8, <2>9, <2>10, <2>11,
       <2>12, <2>13 DEF Relay, SocketWrite
<1>. QED
  BY <1>1, <1>2, <1>3, <1>4, <1>5 DEF Next, Environment

\* The relays start in their types.
LEMMA TypeInit == Init => TypeOK
<1>1. Frame("open", 0) \in Frames
  BY FrameType
<1>2. SendWindow \in Nat
  BY WindowAssumption
<1>. QED
  BY <1>1, <1>2 DEF Init, TypeOK

(***************************************************************************)
(* Type correctness of both relays, whatever the window and the faults.    *)
(***************************************************************************)
THEOREM TypeCorrect == Spec => []TypeOK
BY TypeInit, TypeStep, PTL DEF Spec

-----------------------------------------------------------------------------
(* Flow control: no step makes a credit token, or exceeds its share of     *)
(* control and open frames.                                                *)

Shrinks(g) == /\ Tokens(g)' <= Tokens(g)
              /\ Control(g)' <= Control(g)
              /\ Opens(g)' <= Opens(g)

\* The quantities of the bookkeeping are numbers.
LEMMA CountsNat ==
  ASSUME TypeOK, NEW g \in Ends
  PROVE  /\ Count(wire[g], {"data"}) \in Nat /\ Count(recv[g], {"data"}) \in Nat
         /\ Count(wire[g], Ctl) \in Nat /\ Count(recv[g], Ctl) \in Nat
         /\ Count(wire[g], {"open"}) \in Nat
         /\ Count(wire[g], {"window"}) \in Nat /\ Returning(g) \in Nat
         /\ credit[g] \in Nat /\ consumed[g] \in Nat
<1>1. /\ wire[g] \in Seq(Frames) /\ recv[g] \in Seq(Frames)
      /\ credit[g] \in Nat /\ consumed[g] \in Nat
  BY DEF TypeOK
<1>2. /\ Count(wire[g], {"data"}) \in Nat /\ Count(recv[g], {"data"}) \in Nat
      /\ Count(wire[g], Ctl) \in Nat /\ Count(recv[g], Ctl) \in Nat
      /\ Count(wire[g], {"window"}) \in Nat /\ Count(wire[g], {"open"}) \in Nat
  BY <1>1, CountNat
<1>. QED
  BY <1>1, <1>2, ThresholdType DEF Returning

\* ... and stay so.
LEMMA CountsNatNext ==
  ASSUME TypeOK', NEW g \in Ends
  PROVE  /\ Count(wire'[g], {"data"}) \in Nat /\ Count(recv'[g], {"data"}) \in Nat
         /\ Count(wire'[g], Ctl) \in Nat /\ Count(recv'[g], Ctl) \in Nat
         /\ Count(wire'[g], {"open"}) \in Nat
         /\ Count(wire'[g], {"window"}) \in Nat /\ Returning(g)' \in Nat
         /\ credit'[g] \in Nat /\ consumed'[g] \in Nat
<1>1. /\ wire'[g] \in Seq(Frames) /\ recv'[g] \in Seq(Frames)
      /\ credit'[g] \in Nat /\ consumed'[g] \in Nat
  BY DEF TypeOK
<1>2. /\ Count(wire'[g], {"data"}) \in Nat /\ Count(recv'[g], {"data"}) \in Nat
      /\ Count(wire'[g], Ctl) \in Nat /\ Count(recv'[g], Ctl) \in Nat
      /\ Count(wire'[g], {"window"}) \in Nat /\ Count(wire'[g], {"open"}) \in Nat
  BY <1>1, CountNat
<1>. QED
  BY <1>1, <1>2, ThresholdType DEF Returning

\* WriteFrame and the counts.
LEMMA WrittenCounts ==
  ASSUME TypeOK, NEW e \in Ends, NEW f \in Frames, wire' = Written(e, f)
  PROVE  /\ wire'[Peer(e)] = wire[Peer(e)]
         /\ Count(wire'[e], {"data"}) <= Count(wire[e], {"data"}) + B(f.type = "data")
         /\ Count(wire'[e], Ctl) <= Count(wire[e], Ctl) + B(f.type \in Ctl)
         /\ Count(wire'[e], {"open"}) <= Count(wire[e], {"open"}) + B(f.type = "open")
         /\ Returning(e)' <= Returning(e) + (IF f.type = "window" THEN AckThreshold ELSE 0)
<1>1. /\ wire'[Peer(e)] = wire[Peer(e)]
      /\ wire'[e] = wire[e] \/ wire'[e] = Append(wire[e], f)
  BY WrittenFrames
<1>2. wire[e] \in Seq(Frames)
  BY DEF TypeOK
<1>3. /\ Count(wire[e], {"data"}) \in Nat /\ Count(wire[e], Ctl) \in Nat
      /\ Count(wire[e], {"window"}) \in Nat /\ Returning(e) \in Nat
      /\ Count(wire[e], {"open"}) \in Nat
  BY CountsNat
<1>4. CASE wire'[e] = wire[e]
  BY <1>1, <1>3, <1>4, ThresholdType DEF Returning, B
<1>5. CASE wire'[e] = Append(wire[e], f)
  <2>1. /\ Count(wire'[e], {"data"}) = Count(wire[e], {"data"}) + B(f.type \in {"data"})
        /\ Count(wire'[e], Ctl) = Count(wire[e], Ctl) + B(f.type \in Ctl)
        /\ Count(wire'[e], {"window"}) = Count(wire[e], {"window"}) + B(f.type \in {"window"})
        /\ Count(wire'[e], {"open"}) = Count(wire[e], {"open"}) + B(f.type \in {"open"})
    BY <1>2, <1>5, CountAppend
  <2>2. AckThreshold * (Count(wire[e], {"window"}) + 1) = Returning(e) + AckThreshold
    BY <1>3, ThresholdType DEF Returning
  <2>3. /\ f.type \in {"data"} <=> f.type = "data"
        /\ f.type \in {"open"} <=> f.type = "open"
    OBVIOUS
  <2>4. f.type \in {"window"} <=> f.type = "window"
    OBVIOUS
  <2>5. Returning(e)' = Returning(e) + (IF f.type = "window" THEN AckThreshold ELSE 0)
    <3>1. CASE f.type = "window"
      BY <2>1, <2>2, <3>1 DEF Returning, B
    <3>2. CASE f.type # "window"
      BY <1>3, <2>1, <2>4, <3>2, ThresholdType DEF Returning, B
    <3>. QED
      BY <3>1, <3>2
  <2>. QED
    BY <1>1, <1>3, <2>1, <2>3, <2>5, ThresholdType DEF B
<1>. QED
  BY <1>1, <1>4, <1>5

\* The read loop's take and the counts.
LEMMA TakenCounts ==
  ASSUME TypeOK, NEW e \in Ends, Arrives(e), wire' = Taken(e)
  PROVE  /\ wire'[e] = wire[e]
         /\ Count(wire[Peer(e)], {"data"})
              = Count(wire'[Peer(e)], {"data"}) + B(Incoming(e).type = "data")
         /\ Count(wire[Peer(e)], Ctl) = Count(wire'[Peer(e)], Ctl) + B(Incoming(e).type \in Ctl)
         /\ Count(wire[Peer(e)], {"open"})
              = Count(wire'[Peer(e)], {"open"}) + B(Incoming(e).type = "open")
         /\ Returning(Peer(e))
              = Returning(Peer(e))' + (IF Incoming(e).type = "window" THEN AckThreshold ELSE 0)
         /\ /\ Count(wire'[Peer(e)], {"data"}) \in Nat
            /\ Count(wire'[Peer(e)], Ctl) \in Nat
            /\ Count(wire'[Peer(e)], {"open"}) \in Nat
            /\ Returning(Peer(e))' \in Nat
<1> DEFINE s == wire[Peer(e)]
<1>1. /\ s # <<>> /\ wire'[Peer(e)] = Tail(s) /\ Incoming(e) = Head(s)
      /\ wire'[e] = wire[e]
  BY TakenFrames
<1>2. s \in Seq(Frames)
  BY TwoEnds DEF TypeOK
<1>3. Tail(s) \in Seq(Frames)
  BY <1>1, <1>2, HeadTailProperties
<1>4. /\ Count(Tail(s), {"data"}) \in Nat /\ Count(Tail(s), Ctl) \in Nat
      /\ Count(Tail(s), {"window"}) \in Nat /\ Count(Tail(s), {"open"}) \in Nat
  BY <1>3, CountNat
<1>5. /\ Count(s, {"data"}) = Count(Tail(s), {"data"}) + B(Head(s).type \in {"data"})
      /\ Count(s, Ctl) = Count(Tail(s), Ctl) + B(Head(s).type \in Ctl)
      /\ Count(s, {"window"}) = Count(Tail(s), {"window"}) + B(Head(s).type \in {"window"})
      /\ Count(s, {"open"}) = Count(Tail(s), {"open"}) + B(Head(s).type \in {"open"})
  BY <1>1, <1>2, CountTail
<1>6. /\ Head(s).type \in {"data"} <=> Head(s).type = "data"
      /\ Head(s).type \in {"open"} <=> Head(s).type = "open"
      /\ Head(s).type \in {"window"} <=> Head(s).type = "window"
  OBVIOUS
<1>7. /\ AckThreshold * Count(Tail(s), {"window"}) \in Nat
      /\ AckThreshold * (Count(Tail(s), {"window"}) + 1)
           = AckThreshold * Count(Tail(s), {"window"}) + AckThreshold
  BY <1>4, ThresholdType
<1>8. /\ Returning(Peer(e)) = AckThreshold * Count(s, {"window"})
      /\ Returning(Peer(e))' = AckThreshold * Count(Tail(s), {"window"})
  BY <1>1 DEF Returning
<1>9. Returning(Peer(e))
        = Returning(Peer(e))' + (IF Incoming(e).type = "window" THEN AckThreshold ELSE 0)
  BY <1>1, <1>4, <1>5, <1>6, <1>7, <1>8 DEF B
<1>10. /\ Count(wire[Peer(e)], {"data"})
              = Count(wire'[Peer(e)], {"data"}) + B(Incoming(e).type = "data")
       /\ Count(wire[Peer(e)], Ctl) = Count(wire'[Peer(e)], Ctl) + B(Incoming(e).type \in Ctl)
       /\ Count(wire[Peer(e)], {"open"})
              = Count(wire'[Peer(e)], {"open"}) + B(Incoming(e).type = "open")
  BY <1>1, <1>5, <1>6 DEF B
<1>. QED
  BY <1>1, <1>4, <1>7, <1>8, <1>9, <1>10

\* The select loop's receive and the counts.
LEMMA ReceivedCounts ==
  ASSUME TypeOK, NEW e \in Ends, recv[e] # <<>>, Received(e)
  PROVE  /\ recv'[Peer(e)] = recv[Peer(e)]
         /\ Count(recv[e], {"data"}) = Count(recv'[e], {"data"}) + B(Next1(e).type = "data")
         /\ Count(recv[e], Ctl) = Count(recv'[e], Ctl) + B(Next1(e).type \in Ctl)
         /\ Count(recv'[e], {"data"}) \in Nat /\ Count(recv'[e], Ctl) \in Nat
<1>1. /\ recv'[Peer(e)] = recv[Peer(e)] /\ recv'[e] = Tail(recv[e])
      /\ Next1(e) = Head(recv[e])
  BY ReceivedFrame
<1>2. recv[e] \in Seq(Frames)
  BY DEF TypeOK
<1>3. Tail(recv[e]) \in Seq(Frames)
  BY <1>2, HeadTailProperties
<1>4. Count(Tail(recv[e]), {"data"}) \in Nat /\ Count(Tail(recv[e]), Ctl) \in Nat
  BY <1>3, CountNat
<1>5. /\ Count(recv[e], {"data"}) = Count(Tail(recv[e]), {"data"}) + B(Head(recv[e]).type \in {"data"})
      /\ Count(recv[e], Ctl) = Count(Tail(recv[e]), Ctl) + B(Head(recv[e]).type \in Ctl)
  BY <1>2, CountTail
<1>6. Head(recv[e]).type \in {"data"} <=> Head(recv[e]).type = "data"
  OBVIOUS
<1>. QED
  BY <1>1, <1>4, <1>5, <1>6 DEF B

\* A step that leaves queues and counters alone, takes no token in hand and
\* gives up no frame still to be written, makes neither tokens nor frames.
LEMMA QuietStep ==
  ASSUME TypeOK, NEW g \in Ends,
         credit' = credit, consumed' = consumed, wire' = wire, recv' = recv,
         rd'[g] = "write" => rd[g] = "write",
         main'[Peer(g)] = "writing" => main[Peer(g)] = "writing",
         main[Peer(g)] = "none" => main'[Peer(g)] = "none",
         rd[g] = "gone" => rd'[g] = "gone",
         main[g] \in {"remove", "done"} => main'[g] \in {"remove", "done"}
  PROVE  Shrinks(g)
<1>1. Peer(g) \in Ends
  BY TwoEnds
<1>2. /\ Count(wire[g], {"data"}) \in Nat /\ credit[g] \in Nat
      /\ Count(wire[g], Ctl) \in Nat /\ Count(wire[g], {"open"}) \in Nat
      /\ Count(recv[Peer(g)], {"data"}) \in Nat /\ consumed[Peer(g)] \in Nat
      /\ Count(recv[Peer(g)], Ctl) \in Nat /\ Returning(Peer(g)) \in Nat
  BY <1>1, CountsNat
<1>3. Returning(Peer(g))' = Returning(Peer(g))
  BY DEF Returning
<1>4. Tokens(g)' <= Tokens(g)
  BY <1>2, <1>3 DEF Tokens, B
<1>5. Control(g)' <= Control(g)
  BY <1>2 DEF Control, Unsent, B
<1>6. Opens(g)' <= Opens(g)
  BY <1>2 DEF Opens, B
<1>. QED
  BY <1>4, <1>5, <1>6 DEF Shrinks

\* A step that only takes things away from a direction shrinks it.
LEMMA LoseStep ==
  ASSUME TypeOK, TypeOK', NEW g \in Ends,
         credit'[g] <= credit[g], consumed'[Peer(g)] <= consumed[Peer(g)],
         Count(wire'[g], {"data"}) <= Count(wire[g], {"data"}),
         Count(wire'[g], Ctl) <= Count(wire[g], Ctl),
         Count(wire'[g], {"open"}) <= Count(wire[g], {"open"}),
         Count(recv'[Peer(g)], {"data"}) <= Count(recv[Peer(g)], {"data"}),
         Count(recv'[Peer(g)], Ctl) <= Count(recv[Peer(g)], Ctl),
         Returning(Peer(g))' <= Returning(Peer(g)),
         rd' = rd, main' = main
  PROVE  Shrinks(g)
<1>1. Peer(g) \in Ends
  BY TwoEnds
<1>2. /\ Count(wire[g], {"data"}) \in Nat /\ credit[g] \in Nat
      /\ Count(wire[g], Ctl) \in Nat /\ Count(wire[g], {"open"}) \in Nat
      /\ Count(recv[Peer(g)], {"data"}) \in Nat /\ consumed[Peer(g)] \in Nat
      /\ Count(recv[Peer(g)], Ctl) \in Nat /\ Returning(Peer(g)) \in Nat
  BY <1>1, CountsNat
<1>3. /\ Count(wire'[g], {"data"}) \in Nat /\ credit'[g] \in Nat
      /\ Count(wire'[g], Ctl) \in Nat /\ Count(wire'[g], {"open"}) \in Nat
      /\ Count(recv'[Peer(g)], {"data"}) \in Nat /\ consumed'[Peer(g)] \in Nat
      /\ Count(recv'[Peer(g)], Ctl) \in Nat /\ Returning(Peer(g))' \in Nat
  BY <1>1, CountsNatNext
<1>4. Tokens(g)' <= Tokens(g)
  BY <1>2, <1>3 DEF Tokens, B
<1>5. Control(g)' <= Control(g)
  BY <1>2, <1>3 DEF Control, Unsent, B
<1>6. Opens(g)' <= Opens(g)
  BY <1>2, <1>3 DEF Opens, B
<1>. QED
  BY <1>4, <1>5, <1>6 DEF Shrinks

\* The reader goroutine moves a token from the pool to its hand, and from
\* its hand to the wire.
LEMMA ReaderShrinks ==
  ASSUME TypeOK, TypeOK', NEW e \in Ends, Socket(e) \/ Reader(e) \/ ReadFails(e),
         NEW g \in Ends
  PROVE  Shrinks(g)
<1>1. /\ Peer(e) \in Ends /\ Peer(e) # e /\ Peer(Peer(e)) = e
      /\ g = e \/ g = Peer(e)
  BY TwoEnds
<1>2. CASE ReadChunk(e) \/ ReadEOF(e) \/ ReadErr(e) \/ SendClosed(e)
  <2>1. credit' = credit /\ consumed' = consumed /\ wire' = wire /\ recv' = recv /\ main' = main
    BY <1>2 DEF ReadChunk, ReadEOF, ReadErr, SendClosed
  <2>2. /\ rd[e] \in {"read", "credit"}
        /\ \E v \in {"credit", "eof", "err"} : rd' = [rd EXCEPT ![e] = v]
    BY <1>2 DEF ReadChunk, ReadEOF, ReadErr, SendClosed
  <2>3. (rd'[g] = "write" => rd[g] = "write") /\ (rd[g] = "gone" => rd'[g] = "gone")
    BY <2>2, Arrays
  <2>. QED
    BY <2>1, <2>3, QuietStep
<1>3. CASE TakeCredit(e)
  <2>0. /\ UNCHANGED <<wire, recv, consumed, main>>
        /\ rd[e] = "credit" /\ rd' = [rd EXCEPT ![e] = "write"]
        /\ credit' = [credit EXCEPT ![e] = credit[e] - 1]
    BY <1>3 DEF TakeCredit
  <2>1. /\ UNCHANGED <<wire, recv, consumed, main>>
        /\ rd[e] = "credit" /\ rd'[e] = "write" /\ credit'[e] = credit[e] - 1
        /\ rd'[Peer(e)] = rd[Peer(e)] /\ credit'[Peer(e)] = credit[Peer(e)]
    BY <1>1, <2>0, Arrays
  <2>2. Returning(e)' = Returning(e) /\ Returning(Peer(e))' = Returning(Peer(e))
    BY <2>1 DEF Returning
  <2>3. CASE g = Peer(e)
    <3>1. /\ credit'[g] = credit[g] /\ rd'[g] = rd[g]
          /\ consumed' = consumed /\ wire' = wire /\ recv' = recv /\ main' = main
      BY <2>1, <2>3
    <3>. QED
      BY <1>1, <2>2, <2>3, <3>1, CountsNat DEF Shrinks, Tokens, Control, Unsent, Opens, B
  <2>4. CASE g = e
    BY <1>1, <2>1, <2>2, <2>4, CountsNat DEF Shrinks, Tokens, Control, Unsent, Opens, B
  <2>. QED
    BY <1>1, <2>3, <2>4
<1>4. CASE WriteData(e) /\ wire' = Written(e, Frame("data", nread[e]))
  <2>1. /\ Frame("data", nread[e]) \in Frames
        /\ Frame("data", nread[e]).type = "data"
    BY FrameType DEF TypeOK
  <2>2. /\ wire'[Peer(e)] = wire[Peer(e)]
        /\ Count(wire'[e], {"data"}) <= Count(wire[e], {"data"}) + 1
        /\ Count(wire'[e], Ctl) <= Count(wire[e], Ctl)
        /\ Count(wire'[e], {"open"}) <= Count(wire[e], {"open"})
        /\ Returning(e)' <= Returning(e)
    BY <1>4, <2>1, WrittenCounts, CountsNat DEF B, Ctl
  <2>3. /\ UNCHANGED <<credit, recv, consumed, main>>
        /\ rd[e] = "write" /\ rd'[e] \in {"read", "err"}
        /\ rd'[Peer(e)] = rd[Peer(e)]
    <3>1. /\ UNCHANGED <<credit, recv, consumed, main>> /\ rd[e] = "write"
          /\ \E v \in {"read", "err"} : rd' = [rd EXCEPT ![e] = v]
      BY <1>4 DEF WriteData
    <3>. QED
      BY <1>1, <3>1, Arrays
  <2>4. Returning(Peer(e))' = Returning(Peer(e))
    BY <2>2 DEF Returning
  <2>5. CASE g = e
    BY <1>1, <2>2, <2>3, <2>4, <2>5, CountsNat, CountsNatNext
      DEF Shrinks, Tokens, Control, Unsent, Opens, B
  <2>6. CASE g = Peer(e)
    BY <1>1, <2>2, <2>3, <2>6, CountsNat, CountsNatNext
      DEF Shrinks, Tokens, Control, Unsent, Opens, B
  <2>. QED
    BY <1>1, <2>5, <2>6
<1>5. CASE WriteData(e) /\ UNCHANGED wire
  <2>1. /\ credit' = credit /\ consumed' = consumed /\ wire' = wire /\ recv' = recv
        /\ main' = main /\ rd[e] = "write"
        /\ \E v \in {"read", "err"} : rd' = [rd EXCEPT ![e] = v]
    BY <1>5 DEF WriteData
  <2>2. (rd'[g] = "write" => rd[g] = "write") /\ (rd[g] = "gone" => rd'[g] = "gone")
    BY <2>1, Arrays
  <2>. QED
    BY <2>1, <2>2, QuietStep
<1>. QED
  BY <1>2, <1>3, <1>4, <1>5 DEF Socket, Reader, ReadClosed, ReadFails, WriteData

\* The read loop moves tokens from the wire to the queue or back to the pool,
\* or loses them; the session is opened by the one open frame.
LEMMA ReadLoopShrinks ==
  ASSUME FlowInv, TypeOK', NEW e \in Ends, NEW g \in Ends,
         AcceptOpen(e) \/ DropFrame(e) \/ AddSendCredit(e) \/ Enqueue(e) \/ LinkClose(e)
  PROVE  Shrinks(g)
<1>0. TypeOK
  BY DEF FlowInv
<1>1. /\ Peer(e) \in Ends /\ Peer(e) # e /\ Peer(Peer(e)) = e
      /\ g = e \/ g = Peer(e)
  BY TwoEnds
<1>2. CASE AcceptOpen(e)
  <2>1. /\ Arrives(e) /\ wire' = Taken(e) /\ Incoming(e).type = "open"
        /\ credit' = credit /\ consumed' = consumed /\ recv' = recv /\ rd' = rd
        /\ main' = [main EXCEPT ![e] = "dial"]
    BY <1>2 DEF AcceptOpen
  <2>2. /\ wire'[e] = wire[e]
        /\ Count(wire[Peer(e)], {"data"}) = Count(wire'[Peer(e)], {"data"})
        /\ Count(wire[Peer(e)], Ctl) = Count(wire'[Peer(e)], Ctl)
        /\ Count(wire[Peer(e)], {"open"}) = Count(wire'[Peer(e)], {"open"}) + 1
        /\ Returning(Peer(e)) = Returning(Peer(e))'
    BY <1>0, <1>1, <2>1, TakenCounts, CountsNatNext DEF B, Ctl
  <2>3. Returning(e)' = Returning(e)
    BY <2>2 DEF Returning
  <2>4. main[e] = "none"
    <3>1. Count(wire[Peer(e)], {"open"}) + B(main[e] # "none") <= 1
      BY <1>1 DEF FlowInv, OpenOnce, Opens
    <3>. QED
      BY <1>1, <2>2, <3>1, CountsNatNext DEF B
  <2>5. main'[e] = "dial" /\ main'[Peer(e)] = main[Peer(e)]
    BY <1>0, <1>1, <2>1, Arrays
  <2>6. CASE g = e
    BY <1>0, <1>1, <2>1, <2>2, <2>4, <2>5, <2>6, CountsNat, CountsNatNext
      DEF Shrinks, Tokens, Control, Unsent, Opens, B
  <2>7. CASE g = Peer(e)
    BY <1>0, <1>1, <2>1, <2>2, <2>3, <2>4, <2>5, <2>7, CountsNat, CountsNatNext
      DEF Shrinks, Tokens, Control, Unsent, Opens, B
  <2>. QED
    BY <1>1, <2>6, <2>7
<1>3. CASE DropFrame(e)
  <2>1. /\ Arrives(e) /\ wire' = Taken(e)
        /\ credit' = credit /\ consumed' = consumed /\ recv' = recv /\ rd' = rd
        /\ main' = main
    BY <1>3 DEF DropFrame
  <2>2. /\ wire'[e] = wire[e]
        /\ Count(wire'[Peer(e)], {"data"}) <= Count(wire[Peer(e)], {"data"})
        /\ Count(wire'[Peer(e)], Ctl) <= Count(wire[Peer(e)], Ctl)
        /\ Count(wire'[Peer(e)], {"open"}) <= Count(wire[Peer(e)], {"open"})
        /\ Returning(Peer(e))' <= Returning(Peer(e))
    BY <1>0, <1>1, <2>1, TakenCounts, CountsNatNext, ThresholdType DEF B
  <2>3. Returning(e)' = Returning(e)
    BY <2>2 DEF Returning
  <2>. QED
    BY <1>0, <1>1, <2>1, <2>2, <2>3, CountsNat, CountsNatNext
      DEF Shrinks, Tokens, Control, Unsent, Opens, B
<1>4. CASE AddSendCredit(e)
  <2>1. /\ Arrives(e) /\ wire' = Taken(e) /\ Incoming(e).type = "window"
        /\ consumed' = consumed /\ recv' = recv /\ rd' = rd /\ main' = main
        /\ LET c == credit[e] + Incoming(e).n
           IN  credit' = [credit EXCEPT ![e] = IF c > SendWindow THEN SendWindow ELSE c]
    BY <1>4 DEF AddSendCredit
  <2>2. /\ wire'[e] = wire[e]
        /\ Count(wire[Peer(e)], {"data"}) = Count(wire'[Peer(e)], {"data"})
        /\ Count(wire[Peer(e)], Ctl) = Count(wire'[Peer(e)], Ctl)
        /\ Count(wire[Peer(e)], {"open"}) = Count(wire'[Peer(e)], {"open"})
        /\ Returning(Peer(e)) = Returning(Peer(e))' + AckThreshold
    BY <1>0, <1>1, <2>1, TakenCounts, CountsNatNext DEF B, Ctl
  <2>3. Returning(e)' = Returning(e)
    BY <2>2 DEF Returning
  <2>4. Incoming(e).n = AckThreshold
    <3>1. wire[Peer(e)] \in Seq(Frames) /\ wire[Peer(e)] # <<>>
      BY <1>0, <1>1, <2>1 DEF TypeOK, Arrives
    <3>2. Len(wire[Peer(e)]) \in Nat \ {0} /\ Incoming(e) = wire[Peer(e)][1]
      BY <3>1, EmptySeq DEF Incoming
    <3>. QED
      BY <1>1, <2>1, <3>2 DEF FlowInv, AckUnits
  <2>5. credit'[e] <= credit[e] + AckThreshold /\ credit'[Peer(e)] = credit[Peer(e)]
    BY <1>0, <1>1, <2>1, <2>4, Arrays, CountsNat, ThresholdType, WindowAssumption
  <2>6. CASE g = e
    BY <1>0, <1>1, <2>1, <2>2, <2>5, <2>6, CountsNat, CountsNatNext, ThresholdType
      DEF Shrinks, Tokens, Control, Unsent, Opens, B
  <2>7. CASE g = Peer(e)
    BY <1>0, <1>1, <2>1, <2>2, <2>3, <2>5, <2>7, CountsNat, CountsNatNext
      DEF Shrinks, Tokens, Control, Unsent, Opens, B
  <2>. QED
    BY <1>1, <2>6, <2>7
<1>5. CASE Enqueue(e)
  <2> DEFINE d == B(Incoming(e).type = "data")
             c == B(Incoming(e).type \in Ctl)
  <2>1. /\ Arrives(e) /\ wire' = Taken(e) /\ Incoming(e).type \in {"data"} \cup Ctl
        /\ recv' = [recv EXCEPT ![e] = Append(recv[e], Incoming(e))]
    BY <1>5 DEF Enqueue, Queueable
  <2>2. /\ wire'[e] = wire[e]
        /\ Count(wire[Peer(e)], {"data"}) = Count(wire'[Peer(e)], {"data"}) + d
        /\ Count(wire[Peer(e)], Ctl) = Count(wire'[Peer(e)], Ctl) + c
        /\ Count(wire[Peer(e)], {"open"}) = Count(wire'[Peer(e)], {"open"})
        /\ Returning(Peer(e)) = Returning(Peer(e))'
    <3>1. Incoming(e).type # "open" /\ Incoming(e).type # "window"
      BY <2>1 DEF Ctl
    <3>2. /\ wire'[e] = wire[e]
          /\ Count(wire[Peer(e)], {"data"}) = Count(wire'[Peer(e)], {"data"}) + d
          /\ Count(wire[Peer(e)], Ctl) = Count(wire'[Peer(e)], Ctl) + c
      BY <1>0, <2>1, TakenCounts
    <3>3. /\ Count(wire[Peer(e)], {"open"})
               = Count(wire'[Peer(e)], {"open"}) + B(Incoming(e).type = "open")
          /\ Returning(Peer(e))
               = Returning(Peer(e))' + (IF Incoming(e).type = "window" THEN AckThreshold ELSE 0)
          /\ Count(wire'[Peer(e)], {"open"}) \in Nat /\ Returning(Peer(e))' \in Nat
      BY <1>0, <2>1, TakenCounts
    <3>. QED
      BY <3>1, <3>2, <3>3 DEF B
  <2>3. Returning(e)' = Returning(e)
    BY <2>2 DEF Returning
  <2>4. /\ recv[e] \in Seq(Frames) /\ Incoming(e) \in Frames
        /\ recv'[e] = Append(recv[e], Incoming(e)) /\ recv'[Peer(e)] = recv[Peer(e)]
    BY <1>0, <1>1, <2>1, TakenFrames DEF TypeOK
  <2>5. /\ Count(recv'[e], {"data"}) = Count(recv[e], {"data"}) + d
        /\ Count(recv'[e], Ctl) = Count(recv[e], Ctl) + c
    <3>1. /\ Count(recv'[e], {"data"}) = Count(recv[e], {"data"}) + B(Incoming(e).type \in {"data"})
          /\ Count(recv'[e], Ctl) = Count(recv[e], Ctl) + B(Incoming(e).type \in Ctl)
      BY <2>4, CountAppend
    <3>2. Incoming(e).type \in {"data"} <=> Incoming(e).type = "data"
      OBVIOUS
    <3>. QED
      BY <3>1, <3>2 DEF B
  <2>6. d \in Nat /\ c \in Nat
    BY DEF B
  <2> HIDE DEF d, c
  <2>9. credit' = credit /\ consumed' = consumed /\ rd' = rd /\ main' = main
    BY <1>5 DEF Enqueue
  <2>7. CASE g = e
    <3>1. /\ Count(wire[g], {"data"}) \in Nat /\ Count(wire[g], Ctl) \in Nat
          /\ Count(wire[g], {"open"}) \in Nat /\ credit[g] \in Nat
          /\ Returning(Peer(g)) \in Nat /\ consumed[Peer(g)] \in Nat
          /\ Count(recv[Peer(g)], {"data"}) \in Nat /\ Count(recv[Peer(g)], Ctl) \in Nat
      BY <1>0, <1>1, <2>7, CountsNat
    <3>2. /\ wire'[g] = wire[g] /\ recv'[Peer(g)] = recv[Peer(g)]
          /\ Returning(Peer(g))' = Returning(Peer(g))
      BY <2>2, <2>4, <2>7
    <3>. QED
      BY <1>0, <2>9, <3>1, <3>2, LoseStep
  <2>8. CASE g = Peer(e)
    <3>1. /\ Count(wire'[g], {"data"}) \in Nat /\ Count(wire'[g], Ctl) \in Nat
          /\ Count(wire'[g], {"open"}) \in Nat
      BY <1>1, CountsNatNext
    <3>2. /\ Count(recv[e], {"data"}) \in Nat /\ Count(recv[e], Ctl) \in Nat
          /\ Returning(e) \in Nat /\ credit[g] \in Nat /\ consumed[e] \in Nat
      BY <1>0, CountsNat
    <3>3. Peer(g) = e
      BY <1>1, <2>8
    <3>4. Tokens(g)' <= Tokens(g)
      BY <2>2, <2>3, <2>5, <2>6, <2>8, <2>9, <3>1, <3>2, <3>3 DEF Tokens, B
    <3>5. Control(g)' <= Control(g)
      BY <2>2, <2>5, <2>6, <2>8, <2>9, <3>1, <3>2, <3>3 DEF Control, Unsent, B
    <3>6. Opens(g)' <= Opens(g)
      BY <2>2, <2>8, <2>9, <3>1, <3>3 DEF Opens, B
    <3>. QED
      BY <3>4, <3>5, <3>6 DEF Shrinks
  <2>. QED
    BY <1>1, <2>7, <2>8
<1>6. CASE LinkClose(e)
  <2>1. /\ credit' = credit /\ consumed' = consumed /\ recv' = recv /\ rd' = rd
        /\ main' = main /\ wire' = [wire EXCEPT ![Peer(e)] = <<>>]
    BY <1>6 DEF LinkClose
  <2>2. wire'[e] = wire[e] /\ wire'[Peer(e)] = <<>>
    BY <1>0, <1>1, <2>1, Arrays
  <2>3. /\ Count(wire'[Peer(e)], {"data"}) = 0 /\ Count(wire'[Peer(e)], Ctl) = 0
        /\ Count(wire'[Peer(e)], {"open"}) = 0 /\ Count(wire'[Peer(e)], {"window"}) = 0
    BY <2>2, CountEmpty
  <2>4. Returning(e)' = Returning(e) /\ Returning(Peer(e))' = 0
    BY <2>2, <2>3, ThresholdType DEF Returning
  <2>5. /\ Count(wire[g], {"data"}) \in Nat /\ Count(wire[g], Ctl) \in Nat
        /\ Count(wire[g], {"open"}) \in Nat /\ credit[g] \in Nat
        /\ Returning(Peer(g)) \in Nat /\ consumed[Peer(g)] \in Nat
        /\ Count(recv[Peer(g)], {"data"}) \in Nat /\ Count(recv[Peer(g)], Ctl) \in Nat
    BY <1>0, <1>1, CountsNat
  <2>6. /\ Count(wire'[g], {"data"}) <= Count(wire[g], {"data"})
        /\ Count(wire'[g], Ctl) <= Count(wire[g], Ctl)
        /\ Count(wire'[g], {"open"}) <= Count(wire[g], {"open"})
        /\ Returning(Peer(g))' <= Returning(Peer(g))
    BY <1>1, <2>2, <2>3, <2>4, <2>5
  <2>. QED
    BY <1>0, <2>1, <2>5, <2>6, LoseStep
<1>. QED
  BY <1>2, <1>3, <1>4, <1>5, <1>6

\* Writing one control frame is paid for by giving up the right to write it.
LEMMA ControlWrite ==
  ASSUME TypeOK, TypeOK', NEW e \in Ends, NEW g \in Ends,
         NEW t \in Ctl, wire' = Written(e, Frame(t, 0)),
         credit' = credit, consumed' = consumed, recv' = recv,
         rd'[Peer(e)] = rd[Peer(e)], main'[Peer(e)] = main[Peer(e)],
         rd'[e] = "write" => rd[e] = "write",
         main'[e] = "writing" => main[e] = "writing",
         main[e] # "none",
         Unsent(e)' + 1 <= Unsent(e)
  PROVE  Shrinks(g)
<1>1. /\ Peer(e) \in Ends /\ Peer(e) # e /\ Peer(Peer(e)) = e
      /\ g = e \/ g = Peer(e)
  BY TwoEnds
<1>2. /\ Frame(t, 0) \in Frames /\ Frame(t, 0).type = t
      /\ t # "data" /\ t # "open" /\ t # "window"
  BY FrameType DEF Ctl
<1>3. /\ wire'[Peer(e)] = wire[Peer(e)]
      /\ Count(wire'[e], {"data"}) <= Count(wire[e], {"data"})
      /\ Count(wire'[e], Ctl) <= Count(wire[e], Ctl) + 1
      /\ Count(wire'[e], {"open"}) <= Count(wire[e], {"open"})
      /\ Returning(e)' <= Returning(e)
  BY <1>2, WrittenCounts, CountsNat DEF B
<1>4. Returning(Peer(e))' = Returning(Peer(e))
  BY <1>3 DEF Returning
<1>5. /\ Count(wire[g], {"data"}) \in Nat /\ Count(wire[g], Ctl) \in Nat
      /\ Count(wire[g], {"open"}) \in Nat /\ credit[g] \in Nat
      /\ Returning(Peer(g)) \in Nat /\ consumed[Peer(g)] \in Nat
      /\ Count(recv[Peer(g)], {"data"}) \in Nat /\ Count(recv[Peer(g)], Ctl) \in Nat
  BY <1>1, CountsNat
<1>6. /\ Count(wire'[g], {"data"}) \in Nat /\ Count(wire'[g], Ctl) \in Nat
      /\ Count(wire'[g], {"open"}) \in Nat /\ Returning(Peer(g))' \in Nat
  BY <1>1, CountsNatNext
<1>7. CASE g = e
  <2>1. Tokens(g)' <= Tokens(g)
    BY <1>3, <1>4, <1>5, <1>6, <1>7 DEF Tokens, B
  <2>2. Control(g)' <= Control(g)
    <3>1. Unsent(e) \in Nat /\ Unsent(e)' \in Nat
      BY DEF Unsent, B
    <3>. QED
      BY <1>3, <1>5, <1>6, <1>7, <3>1 DEF Control
  <2>3. Opens(g)' <= Opens(g)
    BY <1>3, <1>5, <1>6, <1>7 DEF Opens, B
  <2>. QED
    BY <2>1, <2>2, <2>3 DEF Shrinks
<1>8. CASE g = Peer(e)
  <2>0. Peer(g) = e
    BY <1>1, <1>8
  <2>1. Tokens(g)' <= Tokens(g)
    BY <1>3, <1>5, <1>6, <1>8, <2>0 DEF Tokens, B
  <2>2. Control(g)' <= Control(g)
    BY <1>3, <1>5, <1>6, <1>8, <2>0 DEF Control, Unsent, B
  <2>3. Opens(g)' <= Opens(g)
    BY <1>3, <1>5, <1>6, <1>8, <2>0 DEF Opens, B
  <2>. QED
    BY <2>1, <2>2, <2>3 DEF Shrinks
<1>. QED
  BY <1>1, <1>7, <1>8

\* Leaving the select loop, dialling and time make no frames and no tokens.
LEMMA QuietRelay ==
  ASSUME FlowInv, TypeOK', NEW e \in Ends, NEW g \in Ends,
         \/ DialOK(e) \/ SessionDone(e) \/ CtxDone(e) \/ IdleFires(e) \/ TakeReadErr(e)
         \/ ConnWriteErr(e) \/ SessionRemove(e) \/ IdleElapses(e)
  PROVE  Shrinks(g)
<1>0. TypeOK
  BY DEF FlowInv
<1>1. credit' = credit /\ consumed' = consumed /\ wire' = wire /\ recv' = recv
  BY DEF DialOK, SessionDone, CtxDone, IdleFires, TakeReadErr, ConnWriteErr,
         SessionRemove, IdleElapses
<1>2. \/ /\ main[e] = "dial" /\ rd' = [rd EXCEPT ![e] = "read"]
         /\ main' = [main EXCEPT ![e] = "select"]
      \/ /\ main[e] \in {"select", "writing"} /\ main' = [main EXCEPT ![e] = "close"]
         /\ rd' = rd \/ rd' = [rd EXCEPT ![e] = "gone"]
      \/ /\ main[e] = "remove" /\ main' = [main EXCEPT ![e] = "done"] /\ rd' = rd
      \/ main' = main /\ rd' = rd
  BY DEF DialOK, SessionDone, CtxDone, IdleFires, TakeReadErr, ConnWriteErr,
         SessionRemove, IdleElapses, Leave
<1>3. main[e] = "dial" => rd[e] = "none"
  BY DEF FlowInv, ReaderStarts
<1>4. /\ rd'[g] = "write" => rd[g] = "write"
      /\ rd[g] = "gone" => rd'[g] = "gone"
      /\ main[g] \in {"remove", "done"} => main'[g] \in {"remove", "done"}
  BY <1>0, <1>2, <1>3, Arrays
<1>5. Peer(g) \in Ends
  BY TwoEnds
<1>6. /\ main'[Peer(g)] = "writing" => main[Peer(g)] = "writing"
      /\ main[Peer(g)] = "none" => main'[Peer(g)] = "none"
  BY <1>0, <1>2, <1>5, Arrays
<1>. QED
  BY <1>0, <1>1, <1>4, <1>6, QuietStep

\* An EOF, a close or an error frame is written at most once by a relay.
LEMMA ControlRelay ==
  ASSUME FlowInv, TypeOK', NEW e \in Ends, NEW g \in Ends,
         DialFails(e) \/ SessionClose(e) \/ TakeReadEOF(e)
  PROVE  Shrinks(g)
<1>0. TypeOK /\ Peer(e) \in Ends /\ Peer(e) # e
  BY TwoEnds DEF FlowInv
<1>1. credit' = credit /\ consumed' = consumed /\ recv' = recv
  BY DEF DialFails, SessionClose, TakeReadEOF
<1>2. CASE DialFails(e) \/ SessionClose(e)
  <2>1. /\ \E t \in Ctl : wire' = Written(e, Frame(t, 0))
        /\ main[e] \in {"dial", "close"} /\ rd' = rd
        /\ main' = [main EXCEPT ![e] = "remove"]
    BY <1>2 DEF DialFails, SessionClose, Ctl
  <2>2. main'[e] = "remove" /\ main'[Peer(e)] = main[Peer(e)]
    BY <1>0, <2>1, Arrays
  <2>3. Unsent(e)' + 1 <= Unsent(e)
    BY <2>1, <2>2 DEF Unsent, B
  <2>4. PICK t \in Ctl : wire' = Written(e, Frame(t, 0))
    BY <2>1
  <2>5. rd' = rd /\ main[e] # "none"
    BY <2>1
  <2>. QED
    BY <1>0, <1>1, <2>2, <2>3, <2>4, <2>5, ControlWrite
<1>3. CASE TakeReadEOF(e)
  <2>1. /\ main[e] = "select" /\ rd[e] = "eof" /\ rd' = [rd EXCEPT ![e] = "gone"]
        /\ main' = main \/ main' = [main EXCEPT ![e] = "close"]
        /\ wire' = Written(e, Frame("eof", 0)) \/ wire' = wire
    BY <1>3 DEF TakeReadEOF, Leave
  <2>2. /\ rd'[e] = "gone" /\ rd'[Peer(e)] = rd[Peer(e)]
        /\ main'[e] \in {"select", "close"} /\ main'[Peer(e)] = main[Peer(e)]
    BY <1>0, <2>1, Arrays
  <2>3. CASE wire' = Written(e, Frame("eof", 0))
    <3>1. Unsent(e)' + 1 <= Unsent(e)
      BY <2>1, <2>2 DEF Unsent, B
    <3>2. "eof" \in Ctl /\ main[e] # "none"
      BY <2>1 DEF Ctl
    <3>. QED
      BY <1>0, <1>1, <2>2, <2>3, <3>1, <3>2, ControlWrite
  <2>4. CASE wire' = wire
    <3>1. g = e \/ g = Peer(e)
      BY TwoEnds
    <3>2. Peer(g) = e \/ Peer(g) = Peer(e)
      BY <3>1, TwoEnds
    <3>3. /\ rd'[g] = "write" => rd[g] = "write"
          /\ rd[g] = "gone" => rd'[g] = "gone"
          /\ main[g] \in {"remove", "done"} => main'[g] \in {"remove", "done"}
      BY <2>1, <2>2, <3>1
    <3>4. /\ main'[Peer(g)] = "writing" => main[Peer(g)] = "writing"
          /\ main[Peer(g)] = "none" => main'[Peer(g)] = "none"
      BY <2>1, <2>2, <3>2
    <3>. QED
      BY <1>0, <1>1, <2>4, <3>3, <3>4, QuietStep
  <2>. QED
    BY <2>1, <2>3, <2>4
<1>. QED
  BY <1>2, <1>3

\* The select loop takes a frame; a data frame's token is now in its hand.
LEMMA ReceiveShrinks ==
  ASSUME FlowInv, TypeOK', NEW e \in Ends, NEW g \in Ends,
         TakeData(e) \/ TakeEOF(e) \/ TakeClose(e)
  PROVE  Shrinks(g)
<1>0. /\ TypeOK /\ Peer(e) \in Ends /\ Peer(e) # e /\ Peer(Peer(e)) = e
      /\ g = e \/ g = Peer(e)
  BY TwoEnds DEF FlowInv
<1>1. /\ credit' = credit /\ consumed' = consumed /\ wire' = wire /\ rd' = rd
      /\ recv[e] # <<>> /\ Received(e) /\ main[e] = "select"
  BY DEF TakeData, TakeEOF, TakeClose
<1>2. \/ Next1(e).type = "data" /\ main' = [main EXCEPT ![e] = "writing"]
      \/ main' = main
      \/ main' = [main EXCEPT ![e] = "close"]
  BY DEF TakeData, TakeEOF, TakeClose, Leave
<1>3. /\ main'[Peer(e)] = main[Peer(e)]
      /\ main'[e] \in {"select", "close"} \/ (main'[e] = "writing" /\ Next1(e).type = "data")
  BY <1>0, <1>1, <1>2, Arrays
<1>4. /\ recv'[Peer(e)] = recv[Peer(e)]
      /\ Count(recv[e], {"data"}) = Count(recv'[e], {"data"}) + B(Next1(e).type = "data")
      /\ Count(recv'[e], Ctl) <= Count(recv[e], Ctl)
  <2>1. /\ recv'[Peer(e)] = recv[Peer(e)]
        /\ Count(recv[e], {"data"}) = Count(recv'[e], {"data"}) + B(Next1(e).type = "data")
        /\ Count(recv[e], Ctl) = Count(recv'[e], Ctl) + B(Next1(e).type \in Ctl)
    BY <1>0, <1>1, ReceivedCounts
  <2>2. Count(recv'[e], Ctl) \in Nat
    BY CountsNatNext
  <2>. QED
    BY <2>1, <2>2 DEF B
<1>5. B(main'[e] = "writing") + Count(recv'[e], {"data"})
        <= B(main[e] = "writing") + Count(recv[e], {"data"})
  <2>1. Count(recv'[e], {"data"}) \in Nat
    BY CountsNatNext
  <2>. QED
    BY <1>1, <1>3, <1>4, <2>1 DEF B
<1>6. /\ Count(wire[g], {"data"}) \in Nat /\ Count(wire[g], Ctl) \in Nat
      /\ Count(wire[g], {"open"}) \in Nat /\ credit[g] \in Nat
      /\ Returning(Peer(g)) \in Nat /\ consumed[Peer(g)] \in Nat
      /\ Count(recv[Peer(g)], {"data"}) \in Nat /\ Count(recv[Peer(g)], Ctl) \in Nat
  BY <1>0, CountsNat
<1>7. Count(recv'[Peer(g)], {"data"}) \in Nat /\ Count(recv'[Peer(g)], Ctl) \in Nat
  BY <1>0, CountsNatNext
<1>8. Returning(Peer(g))' = Returning(Peer(g))
  BY <1>1 DEF Returning
<1>9. CASE g = e
  <2>1. Tokens(g)' <= Tokens(g)
    <3>1. /\ B(rd[g] = "write") \in Nat /\ B(rd'[g] = "write") = B(rd[g] = "write")
          /\ B(main[Peer(g)] = "writing") \in Nat
      BY <1>1 DEF B
    <3>2. /\ credit'[g] = credit[g] /\ wire'[g] = wire[g]
          /\ consumed'[Peer(g)] = consumed[Peer(g)]
          /\ recv'[Peer(g)] = recv[Peer(g)] /\ main'[Peer(g)] = main[Peer(g)]
      BY <1>1, <1>3, <1>4, <1>9
    <3>. QED
      BY <1>6, <1>8, <3>1, <3>2 DEF Tokens
  <2>2. Control(g)' <= Control(g)
    BY <1>1, <1>3, <1>4, <1>6, <1>9 DEF Control, Unsent, B
  <2>3. Opens(g)' <= Opens(g)
    BY <1>1, <1>3, <1>6, <1>9 DEF Opens, B
  <2>. QED
    BY <2>1, <2>2, <2>3 DEF Shrinks
<1>10. CASE g = Peer(e)
  <2>0. Peer(g) = e
    BY <1>0, <1>10
  <2>1. Tokens(g)' <= Tokens(g)
    <3>1. /\ B(rd[g] = "write") \in Nat /\ B(rd'[g] = "write") = B(rd[g] = "write")
          /\ B(main[e] = "writing") \in Nat /\ B(main'[e] = "writing") \in Nat
      BY <1>1 DEF B
    <3>2. /\ credit'[g] = credit[g] /\ wire'[g] = wire[g] /\ consumed'[e] = consumed[e]
      BY <1>1
    <3>. QED
      BY <1>5, <1>6, <1>7, <1>8, <2>0, <3>1, <3>2 DEF Tokens
  <2>2. Control(g)' <= Control(g)
    <3>1. /\ rd'[g] = rd[g] /\ wire'[g] = wire[g] /\ main'[g] = main[g]
          /\ Count(recv'[e], Ctl) <= Count(recv[e], Ctl)
      BY <1>1, <1>3, <1>4, <1>10
    <3>2. Unsent(g)' = Unsent(g) /\ Unsent(g) \in Nat
      BY <3>1 DEF Unsent, B
    <3>. QED
      BY <1>6, <1>7, <2>0, <3>1, <3>2 DEF Control
  <2>3. Opens(g)' <= Opens(g)
    BY <1>1, <1>3, <1>6, <2>0 DEF Opens, B
  <2>. QED
    BY <2>1, <2>2, <2>3 DEF Shrinks
<1>. QED
  BY <1>0, <1>9, <1>10

\* AckData: a written chunk's token joins consumed, and ackThreshold of them
\* leave in one window frame.
LEMMA AckShrinks ==
  ASSUME FlowInv, TypeOK', NEW e \in Ends, NEW g \in Ends, ConnWriteOK(e)
  PROVE  Shrinks(g)
<1>0. /\ TypeOK /\ Peer(e) \in Ends /\ Peer(e) # e /\ Peer(Peer(e)) = e
      /\ g = e \/ g = Peer(e)
  BY TwoEnds DEF FlowInv
<1>1. /\ credit' = credit /\ recv' = recv /\ rd' = rd
      /\ main[e] = "writing" /\ main' = [main EXCEPT ![e] = "select"]
  BY DEF ConnWriteOK
<1>2. main'[e] = "select" /\ main'[Peer(e)] = main[Peer(e)]
  BY <1>0, <1>1, Arrays
<1>3. /\ wire'[Peer(e)] = wire[Peer(e)]
      /\ Count(wire'[e], {"data"}) <= Count(wire[e], {"data"})
      /\ Count(wire'[e], Ctl) <= Count(wire[e], Ctl)
      /\ Count(wire'[e], {"open"}) <= Count(wire[e], {"open"})
      /\ consumed'[e] + Returning(e)' <= consumed[e] + 1 + Returning(e)
      /\ consumed'[Peer(e)] = consumed[Peer(e)]
  <2>0. /\ consumed[e] \in Nat /\ consumed[e] < AckThreshold
        /\ Count(wire[e], {"data"}) \in Nat /\ Count(wire[e], Ctl) \in Nat
        /\ Count(wire[e], {"open"}) \in Nat /\ Returning(e) \in Nat
    BY <1>0, CountsNat DEF FlowInv, AckUnits
  <2>1. CASE consumed[e] + 1 >= AckThreshold
    <3>1. consumed[e] + 1 = AckThreshold
      BY <2>0, <2>1, ThresholdType
    <3>2. /\ wire' = Written(e, Frame("window", consumed[e] + 1))
          /\ consumed' = [consumed EXCEPT ![e] = 0]
      BY <2>1 DEF ConnWriteOK
    <3>3. /\ Frame("window", consumed[e] + 1) \in Frames
          /\ Frame("window", consumed[e] + 1).type = "window"
      BY <2>0, FrameType
    <3>4. /\ wire'[Peer(e)] = wire[Peer(e)]
          /\ Count(wire'[e], {"data"}) <= Count(wire[e], {"data"}) + 0
          /\ Count(wire'[e], Ctl) <= Count(wire[e], Ctl) + 0
          /\ Count(wire'[e], {"open"}) <= Count(wire[e], {"open"}) + 0
          /\ Returning(e)' <= Returning(e) + AckThreshold
      BY <1>0, <3>2, <3>3, WrittenCounts DEF B, Ctl
    <3>5. consumed'[e] = 0 /\ consumed'[Peer(e)] = consumed[Peer(e)]
      BY <1>0, <3>2, Arrays
    <3>6. Returning(e)' \in Nat
      BY CountsNatNext
    <3>. QED
      BY <2>0, <3>1, <3>4, <3>5, <3>6, ThresholdType
  <2>2. CASE ~(consumed[e] + 1 >= AckThreshold)
    <3>1. wire' = wire /\ consumed' = [consumed EXCEPT ![e] = consumed[e] + 1]
      BY <2>2 DEF ConnWriteOK
    <3>2. /\ consumed'[e] = consumed[e] + 1 /\ consumed'[Peer(e)] = consumed[Peer(e)]
          /\ Returning(e)' = Returning(e)
      BY <1>0, <3>1, Arrays DEF Returning
    <3>. QED
      BY <2>0, <3>1, <3>2
  <2>. QED
    BY <2>1, <2>2
<1>4. Returning(Peer(e))' = Returning(Peer(e))
  BY <1>3 DEF Returning
<1>5. /\ Count(wire[g], {"data"}) \in Nat /\ Count(wire[g], Ctl) \in Nat
      /\ Count(wire[g], {"open"}) \in Nat /\ credit[g] \in Nat
      /\ Returning(Peer(g)) \in Nat /\ consumed[Peer(g)] \in Nat
      /\ Count(recv[Peer(g)], {"data"}) \in Nat /\ Count(recv[Peer(g)], Ctl) \in Nat
  BY <1>0, CountsNat
<1>6. /\ Count(wire'[g], {"data"}) \in Nat /\ Count(wire'[g], Ctl) \in Nat
      /\ Count(wire'[g], {"open"}) \in Nat /\ Returning(Peer(g))' \in Nat
      /\ consumed'[Peer(g)] \in Nat
  BY <1>0, CountsNatNext
<1>7. CASE g = e
  <2>1. Tokens(g)' <= Tokens(g)
    BY <1>1, <1>2, <1>3, <1>4, <1>5, <1>6, <1>7 DEF Tokens, B
  <2>2. Control(g)' <= Control(g)
    BY <1>1, <1>2, <1>3, <1>5, <1>6, <1>7 DEF Control, Unsent, B
  <2>3. Opens(g)' <= Opens(g)
    BY <1>2, <1>3, <1>5, <1>6, <1>7 DEF Opens, B
  <2>. QED
    BY <2>1, <2>2, <2>3 DEF Shrinks
<1>8. CASE g = Peer(e)
  <2>0. Peer(g) = e
    BY <1>0, <1>8
  <2>1. Tokens(g)' <= Tokens(g)
    BY <1>1, <1>2, <1>3, <1>5, <1>6, <1>8, <2>0 DEF Tokens, B
  <2>2. Control(g)' <= Control(g)
    BY <1>1, <1>2, <1>3, <1>5, <1>6, <1>8, <2>0 DEF Control, Unsent, B
  <2>3. Opens(g)' <= Opens(g)
    BY <1>1, <1>2, <1>3, <1>5, <1>6, <1>8, <2>0 DEF Opens, B
  <2>. QED
    BY <2>1, <2>2, <2>3 DEF Shrinks
<1>. QED
  BY <1>0, <1>7, <1>8

-----------------------------------------------------------------------------
(* The inductive invariant.                                                *)

\* The invariant leaves no room for dispatch's violation branch: a full queue
\* would hold more data frames than the window or more than two control
\* frames.
LEMMA FlowNoOverrun == FlowInv => NoOverrun
<1>1. SUFFICES ASSUME FlowInv, NEW e \in Ends, Queueable(e)
               PROVE  Len(recv[e]) < RecvCapacity
  BY DEF NoOverrun
<1>2. /\ TypeOK /\ Peer(e) \in Ends /\ Peer(Peer(e)) = e
  BY <1>1, TwoEnds DEF FlowInv
<1>3. /\ Len(recv[e]) = Count(recv[e], {"data"}) + Count(recv[e], Ctl)
  <2>1. recv[e] \in Seq(Frames)
    BY <1>2 DEF TypeOK
  <2>2. \A i \in 1..Len(recv[e]) : recv[e][i].type \in {"data"} \cup Ctl
    BY <1>1 DEF FlowInv, QueueKinds
  <2>3. {"data"} \cap Ctl = {}
    BY DEF Ctl
  <2>. QED
    BY <2>1, <2>2, <2>3, CountSplit
<1>4. /\ Count(wire[Peer(e)], {"data"}) \in Nat /\ Count(wire[Peer(e)], Ctl) \in Nat
      /\ credit[Peer(e)] \in Nat /\ Returning(e) \in Nat /\ consumed[e] \in Nat
      /\ Count(recv[e], {"data"}) \in Nat /\ Count(recv[e], Ctl) \in Nat
  BY <1>2, CountsNat
<1>5. Count(wire[Peer(e)], {"data"}) + Count(recv[e], {"data"}) <= SendWindow
  <2>1. Tokens(Peer(e)) <= SendWindow
    BY <1>1, <1>2 DEF FlowInv, CreditConserved
  <2>2. SendWindow \in Nat
    BY WindowAssumption
  <2>. QED
    BY <1>2, <1>4, <2>1, <2>2 DEF Tokens, B
<1>6. Count(wire[Peer(e)], Ctl) + Count(recv[e], Ctl) <= 2
  <2>1. Control(Peer(e)) <= 2
    BY <1>1, <1>2 DEF FlowInv, ControlBounded
  <2>. QED
    BY <1>2, <1>4, <2>1 DEF Control, Unsent, B
<1>7. Count(wire[Peer(e)], {"data"}) + Count(wire[Peer(e)], Ctl) >= 1
  <2>1. wire[Peer(e)] \in Seq(Frames) /\ wire[Peer(e)] # <<>>
    BY <1>1, <1>2 DEF TypeOK, Queueable, Arrives
  <2>2. /\ Tail(wire[Peer(e)]) \in Seq(Frames)
        /\ Head(wire[Peer(e)]).type \in {"data"} \cup Ctl
    BY <1>1, <2>1, HeadTailProperties DEF Queueable, Incoming
  <2>3. /\ Count(wire[Peer(e)], {"data"})
             = Count(Tail(wire[Peer(e)]), {"data"}) + B(Head(wire[Peer(e)]).type \in {"data"})
        /\ Count(wire[Peer(e)], Ctl)
             = Count(Tail(wire[Peer(e)]), Ctl) + B(Head(wire[Peer(e)]).type \in Ctl)
        /\ Count(Tail(wire[Peer(e)]), {"data"}) \in Nat
        /\ Count(Tail(wire[Peer(e)]), Ctl) \in Nat
    BY <2>1, <2>2, CountTail, CountNat
  <2>4. CASE Head(wire[Peer(e)]).type \in {"data"}
    BY <1>4, <2>3, <2>4 DEF B
  <2>5. CASE Head(wire[Peer(e)]).type \in Ctl
    BY <1>4, <2>3, <2>5 DEF B
  <2>. QED
    BY <2>2, <2>4, <2>5
<1>. QED
  BY <1>3, <1>4, <1>5, <1>6, <1>7, WindowAssumption, SlackAssumption DEF RecvCapacity

\* Every step takes from a direction at least what it adds to it.
LEMMA AllShrink ==
  ASSUME FlowInv, TypeOK', [Next]_vars, NEW g \in Ends
  PROVE  Shrinks(g)
<1>0. TypeOK
  BY DEF FlowInv
<1>1. CASE UNCHANGED vars \/ Finished
  <2>1. /\ credit' = credit /\ consumed' = consumed /\ wire' = wire /\ recv' = recv
        /\ rd' = rd /\ main' = main
    BY <1>1 DEF vars, Finished
  <2>. QED
    BY <1>0, <2>1, QuietStep
<1>2. ASSUME NEW e \in Ends, Socket(e) \/ Reader(e) \/ ReadFails(e)
      PROVE  Shrinks(g)
  BY <1>0, <1>2, ReaderShrinks
<1>3. ASSUME NEW e \in Ends, ReadLoop(e) \/ LinkFails(e)
      PROVE  Shrinks(g)
  <2>1. ~Overrun(e)
    <3>1. Queueable(e) => Len(recv[e]) < RecvCapacity
      BY FlowNoOverrun DEF NoOverrun
    <3>2. recv[e] \in Seq(Frames) /\ RecvCapacity \in Nat
      BY <1>0, WindowAssumption, SlackAssumption DEF TypeOK, RecvCapacity
    <3>. QED
      BY <3>1, <3>2 DEF Overrun
  <2>. QED
    BY <1>3, <2>1, ReadLoopShrinks DEF ReadLoop, LinkFails, LinkNotice
<1>4. ASSUME NEW e \in Ends, Relay(e) \/ SocketWrite(e) \/ CtxDone(e) \/ IdleElapses(e)
      PROVE  Shrinks(g)
  BY <1>4, QuietRelay, ControlRelay, ReceiveShrinks, AckShrinks DEF Relay, SocketWrite
<1>. QED
  BY <1>1, <1>2, <1>3, <1>4 DEF Next, Environment

\* What reaches the receive queue is data or control.
LEMMA KindsStep ==
  ASSUME FlowInv, [Next]_vars
  PROVE  QueueKinds'
<1>0. TypeOK /\ QueueKinds
  BY DEF FlowInv
<1>1. CASE recv' = recv
  BY <1>0, <1>1 DEF QueueKinds
<1>2. ASSUME NEW e \in Ends, Enqueue(e)
      PROVE  QueueKinds'
  <2>1. /\ recv' = [recv EXCEPT ![e] = Append(recv[e], Incoming(e))]
        /\ Incoming(e).type \in {"data"} \cup Ctl
    BY <1>2 DEF Enqueue, Queueable
  <2>2. recv[e] \in Seq(Frames)
    BY <1>0 DEF TypeOK
  <2>3. SUFFICES ASSUME NEW g \in Ends, NEW i \in 1..Len(recv'[g])
                 PROVE  recv'[g][i].type \in {"data"} \cup Ctl
    BY DEF QueueKinds
  <2>4. CASE g # e
    <3>1. recv'[g] = recv[g]
      BY <1>0, <2>1, <2>4, Arrays
    <3>. QED
      BY <1>0, <2>3, <3>1 DEF QueueKinds
  <2>5. CASE g = e
    <3>1. recv'[g] = Append(recv[e], Incoming(e))
      BY <1>0, <2>1, <2>5, Arrays
    <3>2. (i \in 1..Len(recv[e]) /\ recv'[g][i] = recv[e][i]) \/ recv'[g][i] = Incoming(e)
      BY <2>2, <2>3, <3>1
    <3>. QED
      BY <1>0, <2>1, <3>2 DEF QueueKinds
  <2>. QED
    BY <2>4, <2>5
<1>3. ASSUME NEW e \in Ends, recv[e] # <<>>, Received(e)
      PROVE  QueueKinds'
  <2>1. recv' = [recv EXCEPT ![e] = Tail(recv[e])]
    BY <1>3 DEF Received
  <2>2. recv[e] \in Seq(Frames)
    BY <1>0 DEF TypeOK
  <2>3. SUFFICES ASSUME NEW g \in Ends, NEW i \in 1..Len(recv'[g])
                 PROVE  recv'[g][i].type \in {"data"} \cup Ctl
    BY DEF QueueKinds
  <2>4. CASE g # e
    <3>1. recv'[g] = recv[g]
      BY <1>0, <2>1, <2>4, Arrays
    <3>. QED
      BY <1>0, <2>3, <3>1 DEF QueueKinds
  <2>5. CASE g = e
    <3>1. recv'[g] = Tail(recv[e])
      BY <1>0, <2>1, <2>5, Arrays
    <3>2. i + 1 \in 1..Len(recv[e]) /\ recv'[g][i] = recv[e][i + 1]
      BY <1>3, <2>2, <2>3, <3>1, HeadTailProperties, EmptySeq
    <3>. QED
      BY <1>0, <3>2 DEF QueueKinds
  <2>. QED
    BY <2>4, <2>5
<1>4. \/ recv' = recv
      \/ \E e \in Ends : Enqueue(e) \/ (recv[e] # <<>> /\ Received(e))
  <2>1. CASE UNCHANGED vars \/ Finished
    BY <2>1 DEF vars, Finished
  <2>2. ASSUME NEW e \in Ends, Socket(e) \/ Reader(e) \/ ReadFails(e) PROVE recv' = recv
    BY <2>2 DEF Socket, Reader, ReadClosed, ReadFails, ReadChunk, ReadEOF, ReadErr,
                TakeCredit, SendClosed, WriteData
  <2>3. ASSUME NEW e \in Ends, ReadLoop(e) \/ LinkFails(e) PROVE recv' = recv \/ Enqueue(e)
    BY <2>3 DEF ReadLoop, LinkFails, LinkNotice, LinkClose, AcceptOpen, DropFrame,
                AddSendCredit, Overrun
  <2>4. ASSUME NEW e \in Ends, Relay(e) \/ SocketWrite(e) \/ CtxDone(e) \/ IdleElapses(e)
        PROVE  recv' = recv \/ (recv[e] # <<>> /\ Received(e))
    BY <2>4 DEF Relay, SocketWrite, DialOK, DialFails, SessionDone, TakeReadErr, TakeReadEOF,
                TakeData, TakeEOF, TakeClose, IdleFires, SessionClose, SessionRemove,
                ConnWriteOK, ConnWriteErr, CtxDone, IdleElapses
  <2>. QED
    BY <2>1, <2>2, <2>3, <2>4 DEF Next, Environment
<1>. QED
  BY <1>1, <1>2, <1>3, <1>4

\* A relay's reader exists only once the relay does.
LEMMA ReaderStartsStep ==
  ASSUME FlowInv, [Next]_vars
  PROVE  ReaderStarts'
<1>0. TypeOK /\ ReaderStarts
  BY DEF FlowInv
<1>1. CASE UNCHANGED vars \/ Finished
  BY <1>0, <1>1 DEF vars, Finished, ReaderStarts
<1>2. ASSUME NEW e \in Ends, Socket(e) \/ Reader(e) \/ ReadFails(e) PROVE ReaderStarts'
  <2>1. main' = main /\ rd[e] # "none" /\ \E v : rd' = [rd EXCEPT ![e] = v]
    BY <1>2 DEF Socket, Reader, ReadClosed, ReadFails, ReadChunk, ReadEOF, ReadErr,
                TakeCredit, SendClosed, WriteData
  <2>. QED
    BY <1>0, <2>1, Arrays DEF ReaderStarts
<1>3. ASSUME NEW e \in Ends, AcceptOpen(e) PROVE ReaderStarts'
  <2>1. rd' = rd /\ main' = [main EXCEPT ![e] = "dial"]
    BY <1>3 DEF AcceptOpen
  <2>2. main[e] = "none"
    <3>1. /\ Peer(e) \in Ends /\ Peer(Peer(e)) = e
      BY TwoEnds
    <3>2. Count(wire[Peer(e)], {"open"}) + B(main[e] # "none") <= 1
      BY <3>1 DEF FlowInv, OpenOnce, Opens
    <3>3. /\ Count(wire[Peer(e)], {"open"}) = Count(wire'[Peer(e)], {"open"}) + 1
          /\ Count(wire'[Peer(e)], {"open"}) \in Nat
      BY <1>0, <1>3, TakenCounts DEF AcceptOpen, B
    <3>. QED
      BY <3>2, <3>3 DEF B
  <2>. QED
    BY <1>0, <2>1, <2>2, Arrays DEF ReaderStarts
<1>4. ASSUME NEW e \in Ends, ReadLoop(e) \/ LinkFails(e), ~AcceptOpen(e) PROVE ReaderStarts'
  <2>1. rd' = rd /\ main' = main
    BY <1>4 DEF ReadLoop, LinkFails, LinkNotice, LinkClose, DropFrame, AddSendCredit,
                Enqueue, Overrun
  <2>. QED
    BY <1>0, <2>1 DEF ReaderStarts
<1>5. ASSUME NEW e \in Ends, Relay(e) \/ SocketWrite(e) \/ CtxDone(e) \/ IdleElapses(e)
      PROVE  ReaderStarts'
  <2>1. /\ rd' = rd \/ \E v : rd' = [rd EXCEPT ![e] = v]
        /\ main[e] # "none"
        /\ \/ main' = main /\ main[e] \notin {"none", "dial"}
           \/ \E v \in {"select", "writing", "close", "remove", "done"} :
                 main' = [main EXCEPT ![e] = v]
    BY <1>5 DEF Relay, SocketWrite, DialOK, DialFails, SessionDone, TakeReadErr, TakeReadEOF,
                TakeData, TakeEOF, TakeClose, IdleFires, SessionClose, SessionRemove,
                ConnWriteOK, ConnWriteErr, CtxDone, IdleElapses, Leave
  <2>. QED
    BY <1>0, <2>1, Arrays DEF ReaderStarts
<1>. QED
  BY <1>1, <1>2, <1>3, <1>4, <1>5 DEF Next, Environment

\* What may happen to a direction of the wire without breaking AckUnits.
WireKeeps(g) ==
  \/ wire'[g] = wire[g] \/ wire'[g] = <<>>
  \/ wire[g] # <<>> /\ wire'[g] = Tail(wire[g])
  \/ \E f \in Frames :
        /\ f.type = "window" => f.n = AckThreshold
        /\ wire'[g] = Append(wire[g], f)

\* The frames of a wire that only loses frames, or gains one that is not a
\* window frame of another size.
LEMMA WireUnits ==
  ASSUME TypeOK, AckUnits, NEW g \in Ends, WireKeeps(g), NEW i \in 1..Len(wire'[g]),
         wire'[g][i].type = "window"
  PROVE  wire'[g][i].n = AckThreshold
<1>0. wire[g] \in Seq(Frames)
  BY DEF TypeOK
<1>1. CASE wire'[g] = wire[g]
  BY <1>1 DEF AckUnits
<1>2. CASE wire'[g] = <<>>
  BY <1>2
<1>3. CASE wire[g] # <<>> /\ wire'[g] = Tail(wire[g])
  <2>1. i + 1 \in 1..Len(wire[g]) /\ wire'[g][i] = wire[g][i + 1]
    BY <1>0, <1>3, HeadTailProperties, EmptySeq
  <2>. QED
    BY <2>1 DEF AckUnits
<1>4. CASE \E f \in Frames : /\ f.type = "window" => f.n = AckThreshold
                             /\ wire'[g] = Append(wire[g], f)
  <2>1. PICK f \in Frames : /\ f.type = "window" => f.n = AckThreshold
                            /\ wire'[g] = Append(wire[g], f)
    BY <1>4
  <2>2. (i \in 1..Len(wire[g]) /\ wire'[g][i] = wire[g][i]) \/ wire'[g][i] = f
    BY <1>0, <2>1
  <2>. QED
    BY <2>1, <2>2 DEF AckUnits
<1>. QED
  BY <1>1, <1>2, <1>3, <1>4, Zenon DEF WireKeeps

\* WriteFrame of such a frame keeps both directions.
LEMMA WrittenKeeps ==
  ASSUME TypeOK, NEW e \in Ends, NEW f \in Frames, wire' = Written(e, f),
         f.type = "window" => f.n = AckThreshold, NEW g \in Ends
  PROVE  WireKeeps(g)
<1>1. /\ wire'[Peer(e)] = wire[Peer(e)]
      /\ wire'[e] = wire[e] \/ wire'[e] = Append(wire[e], f)
  BY WrittenFrames
<1>2. g = e \/ g = Peer(e)
  BY TwoEnds
<1>. QED
  BY <1>1, <1>2 DEF WireKeeps

\* Credit is returned in units of ackThreshold.
LEMMA AckUnitsStep ==
  ASSUME FlowInv, [Next]_vars
  PROVE  AckUnits'
<1>0. TypeOK /\ AckUnits
  BY DEF FlowInv
<1>1. SUFFICES /\ \A g \in Ends : consumed'[g] < AckThreshold
               /\ \A g \in Ends : WireKeeps(g)
  <2>1. ASSUME \A g \in Ends : WireKeeps(g), NEW g \in Ends, NEW i \in 1..Len(wire'[g]),
               wire'[g][i].type = "window"
        PROVE  wire'[g][i].n = AckThreshold
    BY <1>0, <2>1, WireUnits
  <2>. QED
    BY <2>1 DEF AckUnits
<1>2. CASE UNCHANGED vars \/ Finished
  <2>1. consumed' = consumed /\ wire' = wire
    BY <1>2 DEF vars, Finished
  <2>. QED
    BY <1>0, <2>1 DEF AckUnits, WireKeeps
<1>3. ASSUME NEW e \in Ends, Socket(e) \/ Reader(e) \/ ReadFails(e)
      PROVE  /\ \A g \in Ends : consumed'[g] < AckThreshold
             /\ \A g \in Ends : WireKeeps(g)
  <2>1. consumed' = consumed /\ (wire' = wire \/ wire' = Written(e, Frame("data", nread[e])))
    BY <1>3 DEF Socket, Reader, ReadClosed, ReadFails, ReadChunk, ReadEOF, ReadErr,
                TakeCredit, SendClosed, WriteData
  <2>2. Frame("data", nread[e]) \in Frames /\ Frame("data", nread[e]).type # "window"
    BY <1>0, FrameType DEF TypeOK
  <2>3. \A g \in Ends : WireKeeps(g)
    <3>1. CASE wire' = wire
      BY <3>1 DEF WireKeeps
    <3>2. CASE wire' = Written(e, Frame("data", nread[e]))
      BY <1>0, <2>2, <3>2, WrittenKeeps
    <3>. QED
      BY <2>1, <3>1, <3>2
  <2>. QED
    BY <1>0, <2>1, <2>3 DEF AckUnits
<1>4. ASSUME NEW e \in Ends, ReadLoop(e) \/ LinkFails(e)
      PROVE  /\ \A g \in Ends : consumed'[g] < AckThreshold
             /\ \A g \in Ends : WireKeeps(g)
  <2>1. ~Overrun(e)
    <3>1. Queueable(e) => Len(recv[e]) < RecvCapacity
      BY FlowNoOverrun DEF NoOverrun
    <3>2. recv[e] \in Seq(Frames) /\ RecvCapacity \in Nat
      BY <1>0, WindowAssumption, SlackAssumption DEF TypeOK, RecvCapacity
    <3>. QED
      BY <3>1, <3>2 DEF Overrun
  <2>2. /\ consumed' = consumed
        /\ \/ Arrives(e) /\ wire' = Taken(e)
           \/ wire' = [wire EXCEPT ![Peer(e)] = <<>>]
    BY <1>4, <2>1 DEF ReadLoop, LinkFails, LinkNotice, LinkClose, AcceptOpen, DropFrame,
                      AddSendCredit, Enqueue, Queueable
  <2>3. Peer(e) \in Ends /\ \A g \in Ends : g = e \/ g = Peer(e)
    BY TwoEnds
  <2>4. CASE Arrives(e) /\ wire' = Taken(e)
    <3>1. /\ wire'[e] = wire[e]
          /\ wire[Peer(e)] # <<>> /\ wire'[Peer(e)] = Tail(wire[Peer(e)])
      BY <1>0, <2>4, TakenFrames
    <3>. QED
      BY <1>0, <2>2, <2>3, <3>1 DEF AckUnits, WireKeeps
  <2>5. CASE wire' = [wire EXCEPT ![Peer(e)] = <<>>]
    <3>1. \A g \in Ends : wire'[g] = wire[g] \/ wire'[g] = <<>>
      BY <1>0, <2>3, <2>5, Arrays
    <3>. QED
      BY <1>0, <2>2, <3>1 DEF AckUnits, WireKeeps
  <2>. QED
    BY <2>2, <2>4, <2>5
<1>5. ASSUME NEW e \in Ends, ConnWriteOK(e)
      PROVE  /\ \A g \in Ends : consumed'[g] < AckThreshold
             /\ \A g \in Ends : WireKeeps(g)
  <2>0. consumed[e] \in Nat /\ consumed[e] < AckThreshold
    BY <1>0 DEF TypeOK, AckUnits
  <2>1. CASE consumed[e] + 1 >= AckThreshold
    <3>1. /\ wire' = Written(e, Frame("window", consumed[e] + 1))
          /\ consumed' = [consumed EXCEPT ![e] = 0]
      BY <1>5, <2>1 DEF ConnWriteOK
    <3>2. /\ Frame("window", consumed[e] + 1) \in Frames
          /\ Frame("window", consumed[e] + 1).n = AckThreshold
      BY <2>0, <2>1, FrameType, ThresholdType
    <3>3. \A g \in Ends : WireKeeps(g)
      BY <1>0, <3>1, <3>2, WrittenKeeps
    <3>4. \A g \in Ends : consumed'[g] < AckThreshold
      BY <1>0, <3>1, Arrays, ThresholdType DEF AckUnits
    <3>. QED
      BY <3>3, <3>4
  <2>2. CASE ~(consumed[e] + 1 >= AckThreshold)
    <3>1. wire' = wire /\ consumed' = [consumed EXCEPT ![e] = consumed[e] + 1]
      BY <1>5, <2>2 DEF ConnWriteOK
    <3>2. consumed[e] + 1 < AckThreshold
      BY <2>0, <2>2, ThresholdType
    <3>3. \A g \in Ends : consumed'[g] < AckThreshold
      BY <1>0, <3>1, <3>2, Arrays DEF AckUnits
    <3>. QED
      BY <3>1, <3>3 DEF WireKeeps
  <2>. QED
    BY <2>1, <2>2
<1>6. ASSUME NEW e \in Ends, ~ConnWriteOK(e),
             Relay(e) \/ SocketWrite(e) \/ CtxDone(e) \/ IdleElapses(e)
      PROVE  /\ \A g \in Ends : consumed'[g] < AckThreshold
             /\ \A g \in Ends : WireKeeps(g)
  <2>1. /\ consumed' = consumed
        /\ wire' = wire \/ \E t \in Ctl : wire' = Written(e, Frame(t, 0))
    BY <1>6 DEF Relay, SocketWrite, DialOK, DialFails, SessionDone, TakeReadErr, TakeReadEOF,
                TakeData, TakeEOF, TakeClose, IdleFires, SessionClose, SessionRemove,
                ConnWriteErr, CtxDone, IdleElapses, Ctl
  <2>2. CASE wire' = wire
    BY <1>0, <2>1, <2>2 DEF AckUnits, WireKeeps
  <2>3. ASSUME NEW t \in Ctl, wire' = Written(e, Frame(t, 0))
        PROVE  \A g \in Ends : WireKeeps(g)
    <3>1. Frame(t, 0) \in Frames /\ Frame(t, 0).type # "window"
      BY FrameType DEF Ctl
    <3>. QED
      BY <1>0, <2>3, <3>1, WrittenKeeps
  <2>. QED
    BY <1>0, <2>1, <2>2, <2>3 DEF AckUnits
<1>. QED
  BY <1>2, <1>3, <1>4, <1>5, <1>6 DEF Next, Environment

\* The bookkeeping holds when the edge has just opened the session: the one
\* frame on the wire is the open frame, and every token is in its pool.
LEMMA FlowInit == Init => FlowInv
<1> SUFFICES ASSUME Init PROVE FlowInv
  OBVIOUS
<1>0. Frame("open", 0) \in Frames /\ Frame("open", 0).type = "open"
  BY FrameType
<1>1. TypeOK
  BY TypeInit
<1>2. /\ wire["edge"] = <<Frame("open", 0)>> /\ wire["connector"] = <<>>
      /\ recv["edge"] = <<>> /\ recv["connector"] = <<>>
      /\ rd["edge"] = "read" /\ rd["connector"] = "none"
      /\ main["edge"] = "select" /\ main["connector"] = "none"
      /\ credit["edge"] = SendWindow /\ credit["connector"] = SendWindow
      /\ consumed["edge"] = 0 /\ consumed["connector"] = 0
  BY DEF Init, Ends
<1>3. wire["edge"] = Append(<<>>, Frame("open", 0)) /\ <<>> \in Seq(Frames)
  BY <1>2
<1>4. \A T : /\ Count(wire["edge"], T) = Count(<<>>, T) + B(Frame("open", 0).type \in T)
             /\ Count(<<>>, T) = 0
  BY <1>0, <1>3, CountAppend, CountEmpty
<1>5. /\ Count(wire["edge"], {"data"}) = 0 /\ Count(wire["edge"], {"window"}) = 0
      /\ Count(wire["edge"], {"open"}) = 1 /\ Count(wire["edge"], Ctl) = 0
  BY <1>0, <1>4 DEF B, Ctl
<1>6. \A T : Count(wire["connector"], T) = 0 /\ Count(recv["edge"], T) = 0
            /\ Count(recv["connector"], T) = 0
  BY <1>2, <1>4
<1>7. Returning("edge") = 0 /\ Returning("connector") = 0
  BY <1>5, <1>6, ThresholdType DEF Returning
<1>8. Peer("edge") = "connector" /\ Peer("connector") = "edge"
  BY DEF Peer
<1>9. CreditConserved
  BY <1>2, <1>5, <1>6, <1>7, <1>8, WindowAssumption DEF CreditConserved, Tokens, B, Ends
<1>10. ControlBounded
  BY <1>2, <1>5, <1>6, <1>8 DEF ControlBounded, Control, Unsent, B, Ends
<1>11. OpenOnce
  BY <1>2, <1>5, <1>6, <1>8 DEF OpenOnce, Opens, B, Ends
<1>12. ReaderStarts
  BY <1>2 DEF ReaderStarts, Ends
<1>13. QueueKinds
  BY <1>2 DEF QueueKinds, Ends
<1>14. AckUnits
  BY <1>0, <1>2, ThresholdType DEF AckUnits, Ends
<1>. QED
  BY <1>1, <1>9, <1>10, <1>11, <1>12, <1>13, <1>14 DEF FlowInv

\* Every step keeps the bookkeeping.
LEMMA FlowStep ==
  ASSUME FlowInv, [Next]_vars
  PROVE  FlowInv'
<1>1. TypeOK'
  BY TypeStep DEF FlowInv
<1>2. \A g \in Ends : Shrinks(g)
  BY <1>1, AllShrink
<1>3. \A g \in Ends : /\ Tokens(g) \in Nat /\ Control(g) \in Nat /\ Opens(g) \in Nat
                      /\ Tokens(g)' \in Nat /\ Control(g)' \in Nat /\ Opens(g)' \in Nat
  <2>1. SUFFICES ASSUME NEW g \in Ends
                 PROVE  /\ Tokens(g) \in Nat /\ Control(g) \in Nat /\ Opens(g) \in Nat
                        /\ Tokens(g)' \in Nat /\ Control(g)' \in Nat /\ Opens(g)' \in Nat
    OBVIOUS
  <2>2. TypeOK /\ Peer(g) \in Ends
    BY TwoEnds DEF FlowInv
  <2>3. Tokens(g) \in Nat /\ Control(g) \in Nat /\ Opens(g) \in Nat
    BY <2>2, CountsNat DEF Tokens, Control, Unsent, Opens, B
  <2>4. Tokens(g)' \in Nat /\ Control(g)' \in Nat /\ Opens(g)' \in Nat
    BY <1>1, <2>2, CountsNatNext DEF Tokens, Control, Unsent, Opens, B
  <2>. QED
    BY <2>3, <2>4
<1>4. CreditConserved'
  BY <1>2, <1>3, WindowAssumption DEF FlowInv, CreditConserved, Shrinks
<1>5. ControlBounded'
  BY <1>2, <1>3 DEF FlowInv, ControlBounded, Shrinks
<1>6. OpenOnce'
  BY <1>2, <1>3 DEF FlowInv, OpenOnce, Shrinks
<1>. QED
  BY <1>1, <1>4, <1>5, <1>6, KindsStep, ReaderStartsStep, AckUnitsStep DEF FlowInv

(***************************************************************************)
(* The flow-control bookkeeping of both directions holds always: credit is *)
(* never made, whatever faults occur (Session.SendData, AckData,           *)
(* addSendCredit, Link.dispatch).                                          *)
(***************************************************************************)
THEOREM FlowControl == Spec => []FlowInv
BY FlowInit, FlowStep, PTL DEF Spec

(***************************************************************************)
(* dispatch never kills a session for a flow-control violation between two *)
(* ends that run this code, for every window of at least 2 and every slack *)
(* of at least 2 (the code's values are 32 and 8).                         *)
(***************************************************************************)
THEOREM Unreachable == Spec => []NoOverrun
BY FlowControl, FlowNoOverrun, PTL

-----------------------------------------------------------------------------
(* No standstill: while the link is up and both sessions are registered,   *)
(* no credit is lost, so a sender without credit has data or credit under  *)
(* way.                                                                    *)

\* Neither link has closed and neither session has been removed.
Intact == \A e \in Ends : linkOpen[e] /\ sess[e] # "removed"

\* A session whose relay has not started is not in the table.
Unopened == \A e \in Ends : main[e] = "none" => sess[e] = "none"

\* The frame that opens the session is the first its end will dispatch.
OpenAhead == Intact => \A e \in Ends :
  sess[e] = "none" => wire[Peer(e)] # <<>> /\ Head(wire[Peer(e)]).type = "open"

\* Every token of a direction whose receiver goes on is still there.
NothingLost == Intact => \A e \in Ends : ~Ended(Peer(e)) => Tokens(e) >= SendWindow

TokenInv == FlowInv /\ Unopened /\ OpenAhead /\ NothingLost

\* A sender that waits for credit has a chunk on its way to the other socket,
\* or the credit for one on its way back.
NoStandstill == Intact => \A e \in Ends :
  rd[e] = "credit" /\ credit[e] = 0 /\ ~Ended(Peer(e)) =>
    \/ Count(wire[e], {"data"}) > 0 \/ Count(recv[Peer(e)], {"data"}) > 0
    \/ main[Peer(e)] = "writing" \/ Count(wire[Peer(e)], {"window"}) > 0

\* WriteFrame on a link that is up adds the frame.
LEMMA WrittenWhole ==
  ASSUME TypeOK, Intact, NEW e \in Ends, NEW f \in Frames, wire' = Written(e, f)
  PROVE  /\ wire'[Peer(e)] = wire[Peer(e)] /\ wire'[e] = Append(wire[e], f)
         /\ Count(wire'[e], {"data"}) = Count(wire[e], {"data"}) + B(f.type = "data")
         /\ Returning(e)' = Returning(e) + (IF f.type = "window" THEN AckThreshold ELSE 0)
         /\ Returning(Peer(e))' = Returning(Peer(e))
<1>1. wire \in [Ends -> Seq(Frames)] /\ Peer(e) \in Ends /\ Peer(e) # e
  BY TwoEnds DEF TypeOK
<1>2. wire' = [wire EXCEPT ![e] = Append(wire[e], f)]
  BY <1>1 DEF Written, Intact
<1>3. wire'[e] = Append(wire[e], f) /\ wire'[Peer(e)] = wire[Peer(e)]
  BY <1>1, <1>2, Zenon
<1>4. wire[e] \in Seq(Frames)
  BY <1>1
<1>5. /\ Count(wire'[e], {"data"}) = Count(wire[e], {"data"}) + B(f.type \in {"data"})
      /\ Count(wire'[e], {"window"}) = Count(wire[e], {"window"}) + B(f.type \in {"window"})
  BY <1>3, <1>4, CountAppend
<1>6. /\ f.type \in {"data"} <=> f.type = "data"
      /\ f.type \in {"window"} <=> f.type = "window"
  OBVIOUS
<1>7. /\ Count(wire[e], {"window"}) \in Nat
      /\ AckThreshold * (Count(wire[e], {"window"}) + 1) = Returning(e) + AckThreshold
      /\ Returning(e) \in Nat
  BY CountsNat, ThresholdType DEF Returning
<1>8. Returning(e)' = Returning(e) + (IF f.type = "window" THEN AckThreshold ELSE 0)
  <2>1. Returning(e)' = AckThreshold * Count(wire'[e], {"window"})
    BY DEF Returning
  <2>2. CASE f.type = "window"
    BY <1>5, <1>6, <1>7, <2>1, <2>2 DEF B
  <2>3. CASE f.type # "window"
    <3>1. Count(wire'[e], {"window"}) = Count(wire[e], {"window"})
      BY <1>5, <1>6, <1>7, <2>3 DEF B
    <3>2. Returning(e)' = Returning(e)
      BY <2>1, <3>1 DEF Returning
    <3>. QED
      BY <1>7, <2>3, <3>2
  <2>. QED
    BY <2>2, <2>3
<1>9. Returning(Peer(e))' = Returning(Peer(e))
  BY <1>3 DEF Returning
<1>10. Count(wire'[e], {"data"}) = Count(wire[e], {"data"}) + B(f.type = "data")
  BY <1>5, <1>6 DEF B
<1>. QED
  BY <1>3, <1>8, <1>9, <1>10

\* A step that leaves queues and counters alone and lets go of no token keeps
\* them all.
LEMMA QuietKeeps ==
  ASSUME TypeOK, NEW g \in Ends,
         credit' = credit, consumed' = consumed, wire' = wire, recv' = recv,
         rd[g] = "write" => rd'[g] = "write",
         main[Peer(g)] = "writing" => main'[Peer(g)] = "writing"
  PROVE  Tokens(g)' >= Tokens(g)
<1>1. Peer(g) \in Ends
  BY TwoEnds
<1>2. /\ Count(wire[g], {"data"}) \in Nat /\ credit[g] \in Nat
      /\ Count(recv[Peer(g)], {"data"}) \in Nat /\ consumed[Peer(g)] \in Nat
      /\ Returning(Peer(g)) \in Nat
  BY <1>1, CountsNat
<1>3. Returning(Peer(g))' = Returning(Peer(g))
  BY DEF Returning
<1>. QED
  BY <1>2, <1>3 DEF Tokens, B

\* The reader goroutine keeps its token until the frame is on the wire.
LEMMA ReaderKeeps ==
  ASSUME TypeOK, TypeOK', Intact, NEW e \in Ends, NEW g \in Ends,
         Socket(e) \/ Reader(e) \/ ReadFails(e)
  PROVE  Tokens(g)' >= Tokens(g)
<1>1. /\ Peer(e) \in Ends /\ Peer(e) # e /\ Peer(Peer(e)) = e
      /\ g = e \/ g = Peer(e)
  BY TwoEnds
<1>2. CASE ReadChunk(e) \/ ReadEOF(e) \/ ReadErr(e) \/ SendClosed(e)
  <2>1. credit' = credit /\ consumed' = consumed /\ wire' = wire /\ recv' = recv /\ main' = main
    BY <1>2 DEF ReadChunk, ReadEOF, ReadErr, SendClosed
  <2>2. rd[e] \in {"read", "credit"} /\ \E v : rd' = [rd EXCEPT ![e] = v]
    BY <1>2 DEF ReadChunk, ReadEOF, ReadErr, SendClosed
  <2>3. rd[g] = "write" => rd'[g] = "write"
    BY <2>2, Arrays
  <2>. QED
    BY <2>1, <2>3, QuietKeeps
<1>3. CASE TakeCredit(e)
  <2>0. /\ UNCHANGED <<wire, recv, consumed, main>>
        /\ rd[e] = "credit" /\ rd' = [rd EXCEPT ![e] = "write"]
        /\ credit' = [credit EXCEPT ![e] = credit[e] - 1]
    BY <1>3 DEF TakeCredit
  <2>1. /\ UNCHANGED <<wire, recv, consumed, main>>
        /\ rd[e] = "credit" /\ rd'[e] = "write" /\ credit'[e] = credit[e] - 1
        /\ rd'[Peer(e)] = rd[Peer(e)] /\ credit'[Peer(e)] = credit[Peer(e)]
    BY <1>1, <2>0, Arrays
  <2>2. Returning(e)' = Returning(e) /\ Returning(Peer(e))' = Returning(Peer(e))
    BY <2>1 DEF Returning
  <2>3. CASE g = Peer(e)
    <3>1. /\ credit'[g] = credit[g] /\ rd'[g] = rd[g]
          /\ consumed' = consumed /\ wire' = wire /\ recv' = recv /\ main' = main
      BY <2>1, <2>3
    <3>. QED
      BY <1>1, <2>2, <2>3, <3>1, CountsNat DEF Tokens, B
  <2>4. CASE g = e
    BY <1>1, <2>1, <2>2, <2>4, CountsNat DEF Tokens, B
  <2>. QED
    BY <1>1, <2>3, <2>4
<1>4. CASE WriteData(e)
  <2>0. linkOpen[e] /\ linkOpen[Peer(e)]
    BY <1>1 DEF Intact
  <2>1. /\ wire' = Written(e, Frame("data", nread[e])) /\ rd[e] = "write"
        /\ rd' = [rd EXCEPT ![e] = "read"] /\ UNCHANGED <<credit, recv, consumed, main>>
    BY <1>4, <2>0 DEF WriteData, WriteMayFail
  <2>2. /\ Frame("data", nread[e]) \in Frames
        /\ Frame("data", nread[e]).type = "data"
    BY FrameType DEF TypeOK
  <2>3. /\ wire'[Peer(e)] = wire[Peer(e)]
        /\ Count(wire'[e], {"data"}) = Count(wire[e], {"data"}) + 1
        /\ Returning(e)' = Returning(e) /\ Returning(Peer(e))' = Returning(Peer(e))
    <3>1. PICK f \in Frames : f = Frame("data", nread[e])
      BY <2>2
    <3>2. /\ wire'[Peer(e)] = wire[Peer(e)]
          /\ Count(wire'[e], {"data"}) = Count(wire[e], {"data"}) + B(f.type = "data")
          /\ Returning(e)' = Returning(e) + (IF f.type = "window" THEN AckThreshold ELSE 0)
          /\ Returning(Peer(e))' = Returning(Peer(e))
      BY <2>1, <3>1, WrittenWhole
    <3>3. f.type = "data" /\ Returning(e) \in Nat /\ Count(wire[e], {"data"}) \in Nat
      BY <2>2, <3>1, CountsNat
    <3>. QED
      BY <3>2, <3>3 DEF B
  <2>4. rd'[e] = "read" /\ rd'[Peer(e)] = rd[Peer(e)]
    BY <1>1, <2>1, Arrays
  <2>5. CASE g = e
    BY <1>1, <2>1, <2>3, <2>4, <2>5, CountsNat, CountsNatNext DEF Tokens, B
  <2>6. CASE g = Peer(e)
    BY <1>1, <2>1, <2>3, <2>4, <2>6, CountsNat, CountsNatNext DEF Tokens, B
  <2>. QED
    BY <1>1, <2>5, <2>6
<1>. QED
  BY <1>2, <1>3, <1>4 DEF Socket, Reader, ReadClosed, ReadFails

\* The open frame finds no relay and no session: it comes once.
LEMMA OpenFinds ==
  ASSUME FlowInv, Unopened, NEW e \in Ends, AcceptOpen(e)
  PROVE  main[e] = "none" /\ sess[e] = "none"
<1>1. TypeOK /\ Peer(e) \in Ends /\ Peer(Peer(e)) = e
  BY TwoEnds DEF FlowInv
<1>2. Count(wire[Peer(e)], {"open"}) + B(main[e] # "none") <= 1
  BY <1>1 DEF FlowInv, OpenOnce, Opens
<1>3. /\ Count(wire[Peer(e)], {"open"}) = Count(wire'[Peer(e)], {"open"}) + 1
      /\ Count(wire'[Peer(e)], {"open"}) \in Nat
  BY <1>1, TakenCounts DEF AcceptOpen, B
<1>. QED
  BY <1>2, <1>3 DEF B, Unopened

\* dispatch moves tokens from the wire to the queue, or back to the pool,
\* which has room for all that come back.
LEMMA ReadLoopKeeps ==
  ASSUME TokenInv, TypeOK', Intact, NEW e \in Ends, NEW g \in Ends,
         AcceptOpen(e) \/ AddSendCredit(e) \/ Enqueue(e)
  PROVE  Tokens(g)' >= Tokens(g)
<1>0. FlowInv /\ TypeOK
  BY DEF TokenInv, FlowInv
<1>1. /\ Peer(e) \in Ends /\ Peer(e) # e /\ Peer(Peer(e)) = e
      /\ g = e \/ g = Peer(e)
  BY TwoEnds
<1>2. CASE AcceptOpen(e)
  <2>1. /\ Arrives(e) /\ wire' = Taken(e) /\ Incoming(e).type = "open"
        /\ credit' = credit /\ consumed' = consumed /\ recv' = recv /\ rd' = rd
        /\ main' = [main EXCEPT ![e] = "dial"]
    BY <1>2 DEF AcceptOpen
  <2>2. /\ wire'[e] = wire[e]
        /\ Count(wire[Peer(e)], {"data"}) = Count(wire'[Peer(e)], {"data"})
        /\ Returning(Peer(e)) = Returning(Peer(e))'
    BY <1>0, <1>1, <2>1, TakenCounts, CountsNatNext DEF B
  <2>3. Returning(e)' = Returning(e)
    BY <2>2 DEF Returning
  <2>4. main[e] = "none"
    BY <1>0, <1>2, OpenFinds DEF TokenInv
  <2>5. main'[e] = "dial" /\ main'[Peer(e)] = main[Peer(e)]
    BY <1>0, <1>1, <2>1, Arrays
  <2>6. CASE g = e
    BY <1>0, <1>1, <2>1, <2>2, <2>4, <2>5, <2>6, CountsNat, CountsNatNext DEF Tokens, B
  <2>7. CASE g = Peer(e)
    BY <1>0, <1>1, <2>1, <2>2, <2>3, <2>4, <2>5, <2>7, CountsNat, CountsNatNext
      DEF Tokens, B
  <2>. QED
    BY <1>1, <2>6, <2>7
<1>3. CASE AddSendCredit(e)
  <2>1. /\ Arrives(e) /\ wire' = Taken(e) /\ Incoming(e).type = "window"
        /\ consumed' = consumed /\ recv' = recv /\ rd' = rd /\ main' = main
        /\ LET c == credit[e] + Incoming(e).n
           IN  credit' = [credit EXCEPT ![e] = IF c > SendWindow THEN SendWindow ELSE c]
    BY <1>3 DEF AddSendCredit
  <2>2. /\ wire'[e] = wire[e]
        /\ Count(wire[Peer(e)], {"data"}) = Count(wire'[Peer(e)], {"data"})
        /\ Returning(Peer(e)) = Returning(Peer(e))' + AckThreshold
        /\ Returning(Peer(e))' \in Nat
    BY <1>0, <1>1, <2>1, TakenCounts, CountsNatNext DEF B
  <2>3. Returning(e)' = Returning(e)
    BY <2>2 DEF Returning
  <2>4. Incoming(e).n = AckThreshold
    <3>1. wire[Peer(e)] \in Seq(Frames) /\ wire[Peer(e)] # <<>>
      BY <1>0, <1>1, <2>1 DEF TypeOK, Arrives
    <3>2. Len(wire[Peer(e)]) \in Nat \ {0} /\ Incoming(e) = wire[Peer(e)][1]
      BY <3>1, EmptySeq DEF Incoming
    <3>. QED
      BY <1>0, <1>1, <2>1, <3>2 DEF FlowInv, AckUnits
  <2>5. credit[e] + AckThreshold <= SendWindow
    <3>1. Tokens(e) <= SendWindow
      BY <1>0 DEF FlowInv, CreditConserved
    <3>2. /\ Count(wire[e], {"data"}) \in Nat /\ credit[e] \in Nat
          /\ Count(recv[Peer(e)], {"data"}) \in Nat /\ consumed[Peer(e)] \in Nat
      BY <1>0, <1>1, CountsNat
    <3>3. B(rd[e] = "write") \in Nat /\ B(main[Peer(e)] = "writing") \in Nat
      BY DEF B
    <3>. QED
      BY <2>2, <3>1, <3>2, <3>3, ThresholdType, WindowAssumption DEF Tokens
  <2>6. credit'[e] = credit[e] + AckThreshold /\ credit'[Peer(e)] = credit[Peer(e)]
    BY <1>0, <1>1, <2>1, <2>4, <2>5, Arrays, CountsNat, ThresholdType, WindowAssumption
  <2>7. CASE g = e
    BY <1>0, <1>1, <2>1, <2>2, <2>6, <2>7, CountsNat, CountsNatNext, ThresholdType
      DEF Tokens, B
  <2>8. CASE g = Peer(e)
    BY <1>0, <1>1, <2>1, <2>2, <2>3, <2>6, <2>8, CountsNat, CountsNatNext DEF Tokens, B
  <2>. QED
    BY <1>1, <2>7, <2>8
<1>4. CASE Enqueue(e)
  <2>1. /\ Arrives(e) /\ wire' = Taken(e) /\ Incoming(e).type \in {"data"} \cup Ctl
        /\ recv' = [recv EXCEPT ![e] = Append(recv[e], Incoming(e))]
        /\ credit' = credit /\ consumed' = consumed /\ rd' = rd /\ main' = main
    BY <1>4 DEF Enqueue, Queueable
  <2>2. PICK d \in Nat : d = B(Incoming(e).type = "data")
    BY DEF B
  <2>3. Incoming(e).type # "window"
    BY <2>1 DEF Ctl
  <2>4. /\ wire'[e] = wire[e]
        /\ Count(wire[Peer(e)], {"data"}) = Count(wire'[Peer(e)], {"data"}) + d
        /\ Returning(Peer(e)) = Returning(Peer(e))'
    <3>1. /\ wire'[e] = wire[e]
          /\ Count(wire[Peer(e)], {"data"}) = Count(wire'[Peer(e)], {"data"}) + d
          /\ Returning(Peer(e))
               = Returning(Peer(e))' + (IF Incoming(e).type = "window" THEN AckThreshold ELSE 0)
          /\ Returning(Peer(e))' \in Nat
      BY <1>0, <2>1, <2>2, TakenCounts
    <3>. QED
      BY <2>3, <3>1
  <2>5. Returning(e)' = Returning(e)
    BY <2>4 DEF Returning
  <2>6. /\ recv[e] \in Seq(Frames) /\ Incoming(e) \in Frames
        /\ recv'[e] = Append(recv[e], Incoming(e)) /\ recv'[Peer(e)] = recv[Peer(e)]
    BY <1>0, <1>1, <2>1, TakenFrames DEF TypeOK
  <2>7. Count(recv'[e], {"data"}) = Count(recv[e], {"data"}) + d
    <3>1. Count(recv'[e], {"data"}) = Count(recv[e], {"data"}) + B(Incoming(e).type \in {"data"})
      BY <2>6, CountAppend
    <3>2. Incoming(e).type \in {"data"} <=> Incoming(e).type = "data"
      OBVIOUS
    <3>. QED
      BY <2>2, <3>1, <3>2 DEF B
  <2>8. CASE g = e
    <3>1. /\ Count(wire[g], {"data"}) \in Nat /\ credit[g] \in Nat
          /\ Returning(Peer(g)) \in Nat /\ consumed[Peer(g)] \in Nat
          /\ Count(recv[Peer(g)], {"data"}) \in Nat
      BY <1>0, <1>1, <2>8, CountsNat
    <3>2. /\ wire'[g] = wire[g] /\ recv'[Peer(g)] = recv[Peer(g)]
          /\ Returning(Peer(g))' = Returning(Peer(g))
      BY <2>4, <2>6, <2>8
    <3>. QED
      BY <2>1, <3>1, <3>2 DEF Tokens, B
  <2>9. CASE g = Peer(e)
    <3>1. Count(wire'[g], {"data"}) \in Nat
      BY <1>1, CountsNatNext
    <3>2. /\ Count(recv[e], {"data"}) \in Nat /\ credit[g] \in Nat
          /\ Returning(e) \in Nat /\ consumed[e] \in Nat
      BY <1>0, CountsNat
    <3>3. Peer(g) = e
      BY <1>1, <2>9
    <3>4. /\ credit'[g] = credit[g] /\ B(rd'[g] = "write") = B(rd[g] = "write")
          /\ consumed'[e] = consumed[e] /\ B(main'[e] = "writing") = B(main[e] = "writing")
          /\ B(rd[g] = "write") \in Nat /\ B(main[e] = "writing") \in Nat
      BY <2>1 DEF B
    <3>5. Count(wire[g], {"data"}) = Count(wire'[g], {"data"}) + d
      BY <2>4, <2>9
    <3>. QED
      BY <2>5, <2>7, <3>1, <3>2, <3>3, <3>4, <3>5 DEF Tokens
  <2>. QED
    BY <1>1, <2>8, <2>9
<1>. QED
  BY <1>2, <1>3, <1>4

\* Dialling, leaving the select loop and time take no token from a direction
\* whose receiver goes on.
LEMMA QuietRelayKeeps ==
  ASSUME FlowInv, NEW e \in Ends, NEW g \in Ends, ~Ended(Peer(g))',
         \/ DialOK(e) \/ SessionDone(e) \/ CtxDone(e) \/ IdleFires(e) \/ TakeReadErr(e)
         \/ ConnWriteErr(e) \/ SessionRemove(e) \/ IdleElapses(e)
  PROVE  Tokens(g)' >= Tokens(g)
<1>0. TypeOK /\ Peer(g) \in Ends
  BY TwoEnds DEF FlowInv
<1>1. credit' = credit /\ consumed' = consumed /\ wire' = wire /\ recv' = recv
  BY DEF DialOK, SessionDone, CtxDone, IdleFires, TakeReadErr, ConnWriteErr,
         SessionRemove, IdleElapses
<1>2. \/ /\ main[e] = "dial" /\ rd' = [rd EXCEPT ![e] = "read"]
         /\ main' = [main EXCEPT ![e] = "select"]
      \/ /\ main' = [main EXCEPT ![e] = "close"] \/ main' = [main EXCEPT ![e] = "done"]
         /\ rd' = rd \/ (rd[e] = "err" /\ rd' = [rd EXCEPT ![e] = "gone"])
      \/ main' = main /\ rd' = rd
  BY DEF DialOK, SessionDone, CtxDone, IdleFires, TakeReadErr, ConnWriteErr,
         SessionRemove, IdleElapses, Leave
<1>3. main[e] = "dial" => rd[e] = "none"
  BY DEF FlowInv, ReaderStarts
<1>4. rd[g] = "write" => rd'[g] = "write"
  BY <1>0, <1>2, <1>3, Arrays
<1>5. main[Peer(g)] = "writing" => main'[Peer(g)] = "writing"
  BY <1>0, <1>2, Arrays DEF Ended
<1>. QED
  BY <1>0, <1>1, <1>4, <1>5, QuietKeeps

\* Control frames carry no tokens.
LEMMA ControlKeeps ==
  ASSUME FlowInv, Intact, NEW e \in Ends, NEW g \in Ends,
         DialFails(e) \/ SessionClose(e) \/ TakeReadEOF(e)
  PROVE  Tokens(g)' >= Tokens(g)
<1>0. /\ TypeOK /\ Peer(e) \in Ends /\ Peer(e) # e /\ Peer(Peer(e)) = e
      /\ g = e \/ g = Peer(e)
  BY TwoEnds DEF FlowInv
<1>1. linkOpen[e] /\ linkOpen[Peer(e)]
  BY <1>0 DEF Intact
<1>2. /\ credit' = credit /\ consumed' = consumed /\ recv' = recv
      /\ main[e] \in {"dial", "close", "select"}
      /\ main' = main \/ \E v : main' = [main EXCEPT ![e] = v]
      /\ rd' = rd \/ (rd[e] = "eof" /\ rd' = [rd EXCEPT ![e] = "gone"])
      /\ \E t \in Ctl : wire' = Written(e, Frame(t, 0))
  BY <1>1 DEF DialFails, SessionClose, TakeReadEOF, Leave, WriteMayFail, Ctl
<1>3. PICK t \in Ctl : wire' = Written(e, Frame(t, 0))
  BY <1>2
<1>4. /\ Frame(t, 0) \in Frames /\ Frame(t, 0).type = t
      /\ t # "data" /\ t # "window"
  BY FrameType DEF Ctl
<1>5. /\ wire'[Peer(e)] = wire[Peer(e)]
      /\ Count(wire'[e], {"data"}) = Count(wire[e], {"data"})
      /\ Returning(e)' = Returning(e) /\ Returning(Peer(e))' = Returning(Peer(e))
  <2>1. /\ wire'[Peer(e)] = wire[Peer(e)]
        /\ Count(wire'[e], {"data"}) = Count(wire[e], {"data"}) + B(Frame(t, 0).type = "data")
        /\ Returning(e)'
             = Returning(e) + (IF Frame(t, 0).type = "window" THEN AckThreshold ELSE 0)
        /\ Returning(Peer(e))' = Returning(Peer(e))
    BY <1>0, <1>3, <1>4, WrittenWhole
  <2>2. Count(wire[e], {"data"}) \in Nat /\ Returning(e) \in Nat
    BY <1>0, CountsNat
  <2>. QED
    BY <1>4, <2>1, <2>2 DEF B
<1>6. /\ rd[g] = "write" => rd'[g] = "write"
      /\ main[Peer(g)] = "writing" => main'[Peer(g)] = "writing"
  BY <1>0, <1>2, Arrays
<1>7. /\ Count(wire[g], {"data"}) \in Nat /\ credit[g] \in Nat
      /\ Returning(Peer(g)) \in Nat /\ consumed[Peer(g)] \in Nat
      /\ Count(recv[Peer(g)], {"data"}) \in Nat
  BY <1>0, CountsNat
<1>8. /\ Count(wire'[g], {"data"}) = Count(wire[g], {"data"})
      /\ Returning(Peer(g))' = Returning(Peer(g))
  BY <1>0, <1>5
<1>. QED
  BY <1>2, <1>6, <1>7, <1>8 DEF Tokens, B

\* The select loop keeps the token of the chunk it takes.
LEMMA ReceiveKeeps ==
  ASSUME FlowInv, TypeOK', NEW e \in Ends, NEW g \in Ends,
         TakeData(e) \/ TakeEOF(e) \/ TakeClose(e)
  PROVE  Tokens(g)' >= Tokens(g)
<1>0. /\ TypeOK /\ Peer(e) \in Ends /\ Peer(e) # e /\ Peer(Peer(e)) = e
      /\ g = e \/ g = Peer(e)
  BY TwoEnds DEF FlowInv
<1>1. /\ credit' = credit /\ consumed' = consumed /\ wire' = wire /\ rd' = rd
      /\ recv[e] # <<>> /\ Received(e) /\ main[e] = "select"
  BY DEF TakeData, TakeEOF, TakeClose
<1>2. \/ Next1(e).type = "data" /\ main' = [main EXCEPT ![e] = "writing"]
      \/ Next1(e).type # "data" /\ main' = main
      \/ Next1(e).type # "data" /\ main' = [main EXCEPT ![e] = "close"]
  BY DEF TakeData, TakeEOF, TakeClose, Leave
<1>3. /\ main'[Peer(e)] = main[Peer(e)]
      /\ Next1(e).type = "data" => main'[e] = "writing"
  BY <1>0, <1>1, <1>2, Arrays
<1>4. /\ recv'[Peer(e)] = recv[Peer(e)]
      /\ Count(recv[e], {"data"}) = Count(recv'[e], {"data"}) + B(Next1(e).type = "data")
  BY <1>0, <1>1, ReceivedCounts
<1>5. B(main'[e] = "writing") + Count(recv'[e], {"data"})
        >= B(main[e] = "writing") + Count(recv[e], {"data"})
  <2>1. Count(recv'[e], {"data"}) \in Nat
    BY CountsNatNext
  <2>. QED
    BY <1>1, <1>3, <1>4, <2>1 DEF B
<1>6. /\ Count(wire[g], {"data"}) \in Nat /\ credit[g] \in Nat
      /\ Returning(Peer(g)) \in Nat /\ consumed[Peer(g)] \in Nat
      /\ Count(recv[Peer(g)], {"data"}) \in Nat
  BY <1>0, CountsNat
<1>7. Count(recv'[Peer(g)], {"data"}) \in Nat
  BY <1>0, CountsNatNext
<1>8. Returning(Peer(g))' = Returning(Peer(g))
  BY <1>1 DEF Returning
<1>9. /\ B(rd[g] = "write") \in Nat /\ B(rd'[g] = "write") = B(rd[g] = "write")
      /\ B(main[Peer(g)] = "writing") \in Nat /\ B(main'[Peer(g)] = "writing") \in Nat
      /\ credit'[g] = credit[g] /\ wire'[g] = wire[g]
      /\ consumed'[Peer(g)] = consumed[Peer(g)]
  BY <1>1 DEF B
<1>10. CASE g = e
  <2>1. recv'[Peer(g)] = recv[Peer(g)] /\ main'[Peer(g)] = main[Peer(g)]
    BY <1>3, <1>4, <1>10
  <2>. QED
    BY <1>6, <1>8, <1>9, <2>1 DEF Tokens
<1>11. CASE g = Peer(e)
  <2>0. Peer(g) = e
    BY <1>0, <1>11
  <2>. QED
    BY <1>5, <1>6, <1>7, <1>8, <1>9, <2>0 DEF Tokens
<1>. QED
  BY <1>0, <1>10, <1>11

\* AckData keeps the token in consumed, or sends it back with its batch.
LEMMA AckKeeps ==
  ASSUME FlowInv, TypeOK', Intact, NEW e \in Ends, NEW g \in Ends, ConnWriteOK(e)
  PROVE  Tokens(g)' >= Tokens(g)
<1>0. /\ TypeOK /\ Peer(e) \in Ends /\ Peer(e) # e /\ Peer(Peer(e)) = e
      /\ g = e \/ g = Peer(e)
  BY TwoEnds DEF FlowInv
<1>1. /\ credit' = credit /\ recv' = recv /\ rd' = rd
      /\ main[e] = "writing" /\ main' = [main EXCEPT ![e] = "select"]
  BY DEF ConnWriteOK
<1>2. main'[e] = "select" /\ main'[Peer(e)] = main[Peer(e)]
  BY <1>0, <1>1, Arrays
<1>3. /\ wire'[Peer(e)] = wire[Peer(e)]
      /\ Count(wire'[e], {"data"}) = Count(wire[e], {"data"})
      /\ consumed'[e] + Returning(e)' = consumed[e] + 1 + Returning(e)
      /\ consumed'[Peer(e)] = consumed[Peer(e)]
  <2>0. /\ consumed[e] \in Nat /\ consumed[e] < AckThreshold
        /\ Count(wire[e], {"data"}) \in Nat /\ Returning(e) \in Nat
    BY <1>0, CountsNat DEF FlowInv, AckUnits
  <2>1. CASE consumed[e] + 1 >= AckThreshold
    <3>1. consumed[e] + 1 = AckThreshold
      BY <2>0, <2>1, ThresholdType
    <3>2. /\ wire' = Written(e, Frame("window", consumed[e] + 1))
          /\ consumed' = [consumed EXCEPT ![e] = 0]
      BY <2>1 DEF ConnWriteOK
    <3>3. /\ Frame("window", consumed[e] + 1) \in Frames
          /\ Frame("window", consumed[e] + 1).type = "window"
      BY <2>0, FrameType
    <3>4. /\ wire'[Peer(e)] = wire[Peer(e)]
          /\ Count(wire'[e], {"data"}) = Count(wire[e], {"data"}) + 0
          /\ Returning(e)' = Returning(e) + AckThreshold
      BY <1>0, <3>2, <3>3, WrittenWhole DEF B
    <3>5. consumed'[e] = 0 /\ consumed'[Peer(e)] = consumed[Peer(e)]
      BY <1>0, <3>2, Arrays
    <3>. QED
      BY <2>0, <3>1, <3>4, <3>5, ThresholdType
  <2>2. CASE ~(consumed[e] + 1 >= AckThreshold)
    <3>1. wire' = wire /\ consumed' = [consumed EXCEPT ![e] = consumed[e] + 1]
      BY <2>2 DEF ConnWriteOK
    <3>2. /\ consumed'[e] = consumed[e] + 1 /\ consumed'[Peer(e)] = consumed[Peer(e)]
          /\ Returning(e)' = Returning(e)
      BY <1>0, <3>1, Arrays DEF Returning
    <3>. QED
      BY <2>0, <3>1, <3>2
  <2>. QED
    BY <2>1, <2>2
<1>4. Returning(Peer(e))' = Returning(Peer(e))
  BY <1>3 DEF Returning
<1>5. /\ Count(wire[g], {"data"}) \in Nat /\ credit[g] \in Nat
      /\ Returning(Peer(g)) \in Nat /\ consumed[Peer(g)] \in Nat
      /\ Count(recv[Peer(g)], {"data"}) \in Nat
  BY <1>0, CountsNat
<1>6. Returning(Peer(g))' \in Nat /\ consumed'[Peer(g)] \in Nat
  BY <1>0, CountsNatNext
<1>7. CASE g = e
  BY <1>1, <1>2, <1>3, <1>4, <1>5, <1>6, <1>7 DEF Tokens, B
<1>8. CASE g = Peer(e)
  <2>0. Peer(g) = e
    BY <1>0, <1>8
  <2>. QED
    BY <1>1, <1>2, <1>3, <1>5, <1>6, <1>8, <2>0 DEF Tokens, B
<1>. QED
  BY <1>0, <1>7, <1>8

\* While nothing has failed, dispatch drops no frame of the session, and
\* closes no link.
LEMMA NothingDropped ==
  ASSUME TokenInv, Intact, Intact', NEW e \in Ends
  PROVE  ~DropFrame(e) /\ ~Overrun(e) /\ ~LinkClose(e)
<1>0. FlowInv /\ TypeOK /\ OpenAhead
  BY DEF TokenInv, FlowInv
<1>1. ~DropFrame(e)
  <2>1. sess[e] # "open" => sess[e] = "none"
    BY <1>0 DEF TypeOK, Intact
  <2>. QED
    BY <1>0, <2>1 DEF DropFrame, OpenAhead, Incoming
<1>2. ~Overrun(e)
  <2>1. Queueable(e) => Len(recv[e]) < RecvCapacity
    BY <1>0, FlowNoOverrun DEF NoOverrun
  <2>2. recv[e] \in Seq(Frames) /\ RecvCapacity \in Nat
    BY <1>0, WindowAssumption, SlackAssumption DEF TypeOK, RecvCapacity
  <2>. QED
    BY <2>1, <2>2 DEF Overrun
<1>3. ~LinkClose(e)
  BY <1>0 DEF LinkClose, Intact, TypeOK
<1>. QED
  BY <1>1, <1>2, <1>3

\* Every step of an intact session keeps the tokens of a direction whose
\* receiver goes on.
LEMMA AllKeep ==
  ASSUME TokenInv, TypeOK', Intact, Intact', [Next]_vars, NEW g \in Ends, ~Ended(Peer(g))'
  PROVE  Tokens(g)' >= Tokens(g)
<1>0. FlowInv /\ TypeOK
  BY DEF TokenInv, FlowInv
<1>1. CASE UNCHANGED vars \/ Finished
  <2>1. /\ credit' = credit /\ consumed' = consumed /\ wire' = wire /\ recv' = recv
        /\ rd' = rd /\ main' = main
    BY <1>1 DEF vars, Finished
  <2>. QED
    BY <1>0, <2>1, QuietKeeps
<1>2. ASSUME NEW e \in Ends, Socket(e) \/ Reader(e) \/ ReadFails(e)
      PROVE  Tokens(g)' >= Tokens(g)
  BY <1>0, <1>2, ReaderKeeps
<1>3. ASSUME NEW e \in Ends, ReadLoop(e) \/ LinkFails(e)
      PROVE  Tokens(g)' >= Tokens(g)
  BY <1>3, NothingDropped, ReadLoopKeeps DEF ReadLoop, LinkFails, LinkNotice
<1>4. ASSUME NEW e \in Ends, Relay(e) \/ SocketWrite(e) \/ CtxDone(e) \/ IdleElapses(e)
      PROVE  Tokens(g)' >= Tokens(g)
  BY <1>0, <1>4, QuietRelayKeeps, ControlKeeps, ReceiveKeeps, AckKeeps DEF Relay, SocketWrite
<1>. QED
  BY <1>1, <1>2, <1>3, <1>4 DEF Next, Environment

\* What a step may do to the table, the links and the relays: a session is
\* registered once, before its relay starts; a removed session, a closed link
\* and an ended relay stay so.
Onward == \A h \in Ends :
  /\ sess'[h] = "none" => sess[h] = "none"
  /\ sess[h] = "removed" => sess'[h] = "removed"
  /\ linkOpen'[h] => linkOpen[h]
  /\ main'[h] = "none" => main[h] = "none" /\ sess'[h] = sess[h]
  /\ Ended(h) => Ended(h)'

\* Every step goes onward: the open frame finds no session, and only a
\* registered one is removed.
LEMMA SessionSteps ==
  ASSUME FlowInv, Unopened, [Next]_vars
  PROVE  Onward
<1>0. /\ TypeOK
      /\ sess = [g \in Ends |-> sess[g]] /\ linkOpen = [g \in Ends |-> linkOpen[g]]
      /\ main = [g \in Ends |-> main[g]]
  BY DEF FlowInv, TypeOK
<1>1. CASE UNCHANGED vars \/ Finished
  BY <1>1 DEF vars, Finished, Ended, Onward
<1>2. ASSUME NEW e \in Ends, Socket(e) \/ Reader(e) \/ ReadFails(e)
      PROVE  sess' = sess /\ linkOpen' = linkOpen /\ main' = main
  BY <1>2 DEF Socket, Reader, ReadClosed, ReadFails, ReadChunk, ReadEOF, ReadErr,
              TakeCredit, SendClosed, WriteData
<1>3. ASSUME NEW e \in Ends, AcceptOpen(e)
      PROVE  /\ main[e] = "none" /\ sess[e] = "none" /\ linkOpen' = linkOpen
             /\ sess' = [sess EXCEPT ![e] = "open"] /\ main' = [main EXCEPT ![e] = "dial"]
  BY <1>3, OpenFinds DEF AcceptOpen
<1>4. ASSUME NEW e \in Ends, ReadLoop(e) \/ LinkFails(e), ~AcceptOpen(e)
      PROVE  /\ main' = main
             /\ linkOpen' = linkOpen \/ linkOpen' = [linkOpen EXCEPT ![e] = FALSE]
             /\ sess' = sess \/ (sess[e] = "open" /\ sess' = [sess EXCEPT ![e] = "removed"])
  <2>1. CASE DropFrame(e) \/ AddSendCredit(e) \/ Enqueue(e) \/ Overrun(e)
    BY <2>1 DEF DropFrame, AddSendCredit, Enqueue, Overrun, Queueable
  <2>2. CASE LinkClose(e)
    <3>1. /\ main' = main /\ linkOpen' = [linkOpen EXCEPT ![e] = FALSE]
          /\ sess' = [sess EXCEPT ![e] = IF sess[e] = "open" THEN "removed" ELSE sess[e]]
      BY <2>2 DEF LinkClose
    <3>2. CASE sess[e] = "open"
      BY <3>1, <3>2
    <3>3. CASE sess[e] # "open"
      <4>1. sess' = [sess EXCEPT ![e] = sess[e]]
        BY <3>1, <3>3
      <4>2. sess' = sess
        BY <1>0, <4>1, Zenon
      <4>. QED
        BY <3>1, <4>2
    <3>. QED
      BY <3>2, <3>3
  <2>. QED
    BY <1>4, <2>1, <2>2 DEF ReadLoop, LinkFails, LinkNotice
<1>5. ASSUME NEW e \in Ends, Relay(e) \/ SocketWrite(e) \/ CtxDone(e) \/ IdleElapses(e)
      PROVE  /\ linkOpen' = linkOpen /\ main[e] # "none"
             /\ sess' = sess \/ (main[e] = "remove" /\ sess' = [sess EXCEPT ![e] = "removed"])
             /\ \/ main' = main /\ sess' = sess
                \/ /\ main[e] \in {"dial", "select", "writing"}
                   /\ \E v \in {"select", "writing", "close", "remove"} :
                         main' = [main EXCEPT ![e] = v]
                \/ \E v \in {"remove", "done"} : main' = [main EXCEPT ![e] = v]
  BY <1>5 DEF Relay, SocketWrite, DialOK, DialFails, SessionDone, TakeReadErr, TakeReadEOF,
              TakeData, TakeEOF, TakeClose, IdleFires, SessionClose, SessionRemove,
              ConnWriteOK, ConnWriteErr, CtxDone, IdleElapses, Leave
<1>6. ASSUME NEW e \in Ends, Socket(e) \/ Reader(e) \/ ReadFails(e)
      PROVE  Onward
  BY <1>2, <1>6 DEF Ended, Onward
<1>7. ASSUME NEW e \in Ends, AcceptOpen(e)
      PROVE  Onward
  BY <1>0, <1>3, <1>7 DEF Ended, Onward
<1>8. ASSUME NEW e \in Ends, ReadLoop(e) \/ LinkFails(e), ~AcceptOpen(e)
      PROVE  Onward
  BY <1>0, <1>4, <1>8 DEF Ended, Onward, Unopened
<1>9. ASSUME NEW e \in Ends, Relay(e) \/ SocketWrite(e) \/ CtxDone(e) \/ IdleElapses(e)
      PROVE  Onward
  BY <1>0, <1>5, <1>9 DEF Ended, Onward
<1>. QED
  BY <1>1, <1>6, <1>7, <1>8, <1>9 DEF Next, Environment

\* Until the session is open at h, frames are only added behind its open frame.
LEMMA OpenWaits ==
  ASSUME TokenInv, Intact, Intact', [Next]_vars, NEW h \in Ends, sess'[h] = "none"
  PROVE  \/ wire'[Peer(h)] = wire[Peer(h)]
         \/ \E f \in Frames : wire'[Peer(h)] = Append(wire[Peer(h)], f)
<1>0. /\ FlowInv /\ TypeOK /\ Unopened
      /\ Peer(h) \in Ends /\ Peer(h) # h
  BY TwoEnds DEF TokenInv, FlowInv
<1>1. sess[h] = "none"
  BY <1>0, SessionSteps DEF Onward
<1>2. CASE wire' = wire
  BY <1>2
<1>3. ASSUME NEW e \in Ends, NEW f \in Frames, wire' = Written(e, f)
      PROVE  \/ wire'[Peer(h)] = wire[Peer(h)]
             \/ \E k \in Frames : wire'[Peer(h)] = Append(wire[Peer(h)], k)
  <2>1. h = e \/ Peer(h) = e
    BY TwoEnds
  <2>2. wire'[Peer(e)] = wire[Peer(e)] /\ wire'[e] = Append(wire[e], f)
    BY <1>0, <1>3, WrittenWhole
  <2>3. CASE h = e
    BY <2>2, <2>3
  <2>4. CASE Peer(h) = e
    BY <2>2, <2>4
  <2>. QED
    BY <2>1, <2>3, <2>4
<1>4. ASSUME NEW e \in Ends, Socket(e) \/ Reader(e) \/ ReadFails(e)
      PROVE  wire' = wire \/ \E f \in Frames : wire' = Written(e, f)
  <2>1. Frame("data", nread[e]) \in Frames
    BY <1>0, FrameType DEF TypeOK
  <2>2. wire' = wire \/ wire' = Written(e, Frame("data", nread[e]))
    BY <1>4 DEF Socket, Reader, ReadClosed, ReadFails, ReadChunk, ReadEOF, ReadErr,
                TakeCredit, SendClosed, WriteData
  <2>. QED
    BY <2>1, <2>2
<1>5. ASSUME NEW e \in Ends, ReadLoop(e) \/ LinkFails(e)
      PROVE  wire'[Peer(h)] = wire[Peer(h)]
  <2>1. AcceptOpen(e) \/ AddSendCredit(e) \/ Enqueue(e)
    BY <1>5, NothingDropped DEF ReadLoop, LinkFails, LinkNotice
  <2>2. Arrives(e) /\ wire' = Taken(e) /\ (sess[e] = "open" \/ sess'[e] = "open")
    BY <1>0, <2>1 DEF AcceptOpen, AddSendCredit, Enqueue, Queueable, TypeOK
  <2>3. e # h
    BY <1>1, <2>2
  <2>4. Peer(h) = e
    BY <2>3, TwoEnds
  <2>. QED
    BY <1>0, <2>2, <2>4, TakenFrames
<1>6. ASSUME NEW e \in Ends, Relay(e) \/ SocketWrite(e) \/ CtxDone(e) \/ IdleElapses(e)
      PROVE  wire' = wire \/ \E f \in Frames : wire' = Written(e, f)
  <2>1. /\ Frame("eof", 0) \in Frames /\ Frame("close", 0) \in Frames
        /\ Frame("error", 0) \in Frames /\ Frame("window", consumed[e] + 1) \in Frames
    <3>1. consumed[e] + 1 \in Nat
      <4>1. consumed[e] \in Nat
        BY <1>0 DEF TypeOK
      <4>. QED
        BY <4>1
    <3>. QED
      BY <3>1, FrameType DEF Ctl
  <2>2. \/ wire' = wire
        \/ wire' = Written(e, Frame("eof", 0)) \/ wire' = Written(e, Frame("close", 0))
        \/ wire' = Written(e, Frame("error", 0))
        \/ wire' = Written(e, Frame("window", consumed[e] + 1))
    BY <1>6 DEF Relay, SocketWrite, DialOK, DialFails, SessionDone, TakeReadErr, TakeReadEOF,
                TakeData, TakeEOF, TakeClose, IdleFires, SessionClose, SessionRemove,
                ConnWriteOK, ConnWriteErr, CtxDone, IdleElapses
  <2>. QED
    BY <2>1, <2>2
<1>7. CASE UNCHANGED vars \/ Finished
  BY <1>2, <1>7 DEF vars, Finished
<1>. QED
  BY <1>2, <1>3, <1>4, <1>5, <1>6, <1>7 DEF Next, Environment

\* Every step keeps the tokens of an intact session.
LEMMA TokenStep ==
  ASSUME TokenInv, [Next]_vars
  PROVE  TokenInv'
<1>0. FlowInv /\ TypeOK /\ Unopened /\ OpenAhead /\ NothingLost
  BY DEF TokenInv, FlowInv
<1>1. FlowInv' /\ TypeOK'
  BY <1>0, FlowStep DEF FlowInv
<1>2. Onward
  BY <1>0, SessionSteps
<1>3. Unopened'
  BY <1>0, <1>2 DEF Unopened, Onward
<1>4. Intact' => Intact
  BY <1>2 DEF Intact, Onward
<1>5. OpenAhead'
  <2>1. SUFFICES ASSUME Intact', NEW h \in Ends, sess'[h] = "none"
                 PROVE  wire'[Peer(h)] # <<>> /\ Head(wire'[Peer(h)]).type = "open"
    BY DEF OpenAhead
  <2>2. Intact /\ sess[h] = "none"
    BY <1>2, <1>4, <2>1 DEF Onward
  <2>3. wire[Peer(h)] # <<>> /\ Head(wire[Peer(h)]).type = "open"
    BY <1>0, <2>2 DEF OpenAhead
  <2>4. wire[Peer(h)] \in Seq(Frames)
    BY <1>0, TwoEnds DEF TypeOK
  <2>5. CASE wire'[Peer(h)] = wire[Peer(h)]
    BY <2>3, <2>5
  <2>6. ASSUME NEW f \in Frames, wire'[Peer(h)] = Append(wire[Peer(h)], f)
        PROVE  wire'[Peer(h)] # <<>> /\ Head(wire'[Peer(h)]).type = "open"
    <3>1. \A s \in Seq(Frames) : s # <<>> =>
             Append(s, f) # <<>> /\ Head(Append(s, f)) = Head(s)
      BY AppendProperties, HeadTailProperties
    <3>. QED
      BY <2>3, <2>4, <2>6, <3>1
  <2>. QED
    BY <2>1, <2>2, <2>5, <2>6, OpenWaits
<1>6. NothingLost'
  <2>1. SUFFICES ASSUME Intact', NEW g \in Ends, ~Ended(Peer(g))'
                 PROVE  Tokens(g)' >= SendWindow
    BY DEF NothingLost
  <2>2. Intact /\ ~Ended(Peer(g))
    BY <1>2, <1>4, <2>1, TwoEnds DEF Onward
  <2>3. Tokens(g) >= SendWindow
    BY <1>0, <2>2 DEF NothingLost
  <2>4. Tokens(g)' >= Tokens(g)
    BY <1>1, <2>1, <2>2, AllKeep
  <2>5. Tokens(g) \in Nat /\ Tokens(g)' \in Nat
    BY <1>0, <1>1, TwoEnds, CountsNat, CountsNatNext DEF Tokens, B
  <2>. QED
    BY <2>3, <2>4, <2>5, WindowAssumption
<1>. QED
  BY <1>1, <1>3, <1>5, <1>6 DEF TokenInv

\* When the edge has opened the session, the open frame is the only one under
\* way and both pools are full.
LEMMA TokenInit == Init => TokenInv
<1> SUFFICES ASSUME Init PROVE TokenInv
  OBVIOUS
<1>1. FlowInv /\ TypeOK
  BY FlowInit DEF FlowInv
<1>2. /\ sess["edge"] = "open" /\ sess["connector"] = "none"
      /\ main["edge"] = "select" /\ Peer("connector") = "edge"
      /\ wire["edge"] = <<Frame("open", 0)>>
  BY DEF Init, Ends, Peer
<1>3. Unopened
  BY <1>2 DEF Unopened, Ends
<1>4. OpenAhead
  <2>1. Frame("open", 0).type = "open"
    BY FrameType
  <2>. QED
    BY <1>2, <2>1 DEF OpenAhead, Ends
<1>5. NothingLost
  <2>1. \A g \in Ends : credit[g] = SendWindow
    BY DEF Init
  <2>2. \A g \in Ends : Tokens(g) >= SendWindow
    BY <1>1, <2>1, TwoEnds, CountsNat, WindowAssumption DEF Tokens, B
  <2>. QED
    BY <2>2 DEF NothingLost
<1>. QED
  BY <1>1, <1>3, <1>4, <1>5 DEF TokenInv

\* Fewer than ackThreshold tokens are withheld by AckData: the window has one
\* more, and it is not in the pool.
LEMMA TokensUnderWay == TokenInv => NoStandstill
<1>1. SUFFICES ASSUME TokenInv, Intact, NEW e \in Ends,
                      rd[e] = "credit", credit[e] = 0, ~Ended(Peer(e))
               PROVE  \/ Count(wire[e], {"data"}) > 0 \/ Count(recv[Peer(e)], {"data"}) > 0
                      \/ main[Peer(e)] = "writing" \/ Count(wire[Peer(e)], {"window"}) > 0
  BY DEF NoStandstill
<1>2. TypeOK /\ Peer(e) \in Ends /\ consumed[Peer(e)] < AckThreshold
  BY <1>1, TwoEnds DEF TokenInv, FlowInv, AckUnits
<1>3. Tokens(e) >= SendWindow
  BY <1>1 DEF TokenInv, NothingLost
<1>4. /\ Count(wire[e], {"data"}) \in Nat /\ Count(recv[Peer(e)], {"data"}) \in Nat
      /\ Count(wire[Peer(e)], {"window"}) \in Nat /\ consumed[Peer(e)] \in Nat
  BY <1>1, <1>2, CountsNat
<1>5. Count(wire[Peer(e)], {"window"}) = 0 => Returning(Peer(e)) = 0
  BY ThresholdType DEF Returning
<1>. QED
  BY <1>1, <1>2, <1>3, <1>4, <1>5, ThresholdType, WindowAssumption DEF Tokens, B

(***************************************************************************)
(* Backpressure is never a standstill: as long as both links are up and    *)
(* both sessions registered, a reader that waits for credit in SendData,   *)
(* with a peer that still relays, has a chunk on the wire, in the peer's   *)
(* receive queue or being written to the peer's socket, or a window frame  *)
(* coming back: one of them is the next step towards its token.  AckData's *)
(* batches never withhold the whole window.                                *)
(***************************************************************************)
THEOREM NeverStandsStill == Spec => []NoStandstill
BY TokenInit, TokenStep, TokensUnderWay, PTL DEF Spec
=============================================================================
