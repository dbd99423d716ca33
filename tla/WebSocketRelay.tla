--------------------------- MODULE WebSocketRelay ---------------------------
(***************************************************************************)
(* One relayed WebSocket connection: handleWebSocketRoute at the edge,     *)
(* relayWebSocketBackend at the connector, and RelayWebSocket at both ends *)
(* of a session.  The edge's socket leads to the public client, the        *)
(* connector's to the private backend.                                     *)
(*                                                                         *)
(* Flow control is TunnelSession's subject.  A receive queue never         *)
(* overflows (its NoOverrun), so the link's wire and the peer's receive    *)
(* queue are one sequence here, and window frames act when written.        *)
(* Frames for a relay that has ended are never looked at and are dropped.  *)
(***************************************************************************)
EXTENDS Integers, Sequences

CONSTANTS
  SendWindow,   \* sendWindow
  Messages,     \* bound: the kinds of the messages each application has to send
  Codes,        \* close statuses the two applications use
  Faults        \* what the environment may do in this instance

Ends == {"edge", "connector"}
Peer(e) == IF e = "edge" THEN "connector" ELSE "edge"
Kinds == {"text", "binary"}

\* Statuses of RFC 6455 that the code or gorilla/websocket uses by itself.
NoStatus      == 1005   \* reported for a close frame without a status
Abnormal      == 1006   \* reported when the connection ends without a close frame
Internal      == 1011
TryAgainLater == 1013
Statuses == Codes \cup {NoStatus, Abnormal, Internal, TryAgainLater}

ASSUME WindowAssumption   == SendWindow \in Nat /\ SendWindow >= 2
ASSUME MessagesAssumption == Messages \in [Ends -> Seq(Kinds)]
ASSUME CodesAssumption    == Codes \subseteq (1000..4999) \ {NoStatus, Abnormal}
ASSUME FaultsAssumption   ==
  Faults \subseteq {"link", "cut", "drop", "read", "write", "dial", "open"}

AckThreshold == SendWindow \div 2

VARIABLES
  end,    \* per end: its Session, its two goroutines and its socket
  chan    \* chan[e]: frames e has written that its peer has not received

vars == <<end, chan>>

Message(k, kind) == [n |-> k, kind |-> kind]
NoMessage == Message(0, "binary")

\* Frames: m is the message of a data frame, code the status of a close frame.
Frame(t, m, c) == [type |-> t, m |-> m, code |-> c]
Open == Frame("open", NoMessage, 0)
Data(m) == Frame("data", m, 0)
Close(c) == Frame("close", NoMessage, c)
Error == Frame("error", NoMessage, 0)

(***************************************************************************)
(* main: where the goroutine of RelayWebSocket stands; left: the case by   *)
(* which it left the select loop; hold: the message it is writing; rd:     *)
(* where the reader goroutine stands, with the readResult it left; sess:   *)
(* "none", "open", "removed" (= done); up: this end of the link is open;   *)
(* ws: "open", "sent" (a close frame was written: gorilla refuses further  *)
(* messages) or "closed"; nread: messages read from the socket; status:    *)
(* that of the CloseError that ended reading, 0 if none; out: messages     *)
(* written to the socket; seen: the status the application behind the      *)
(* socket was told, 0 if none yet, Abnormal if the connection just ended.  *)
(***************************************************************************)
Init ==
  /\ end = [e \in Ends |->
       [main |-> IF e = "edge" THEN "opening" ELSE "none", left |-> "no", hold |-> NoMessage,
        rd |-> "none", sess |-> "none", credit |-> SendWindow, consumed |-> 0, up |-> TRUE,
        ws |-> IF e = "edge" THEN "open" ELSE "closed", nread |-> 0, status |-> 0,
        out |-> <<>>, seen |-> 0]]
  /\ chan = [e \in Ends |-> <<>>]

Ended(e) == end[e].main \in {"close", "remove", "done"}
Selecting(e) == end[e].main = "select"

\* Link.WriteFrame: see TunnelSession.
Delivers(e) == end[e].up /\ end[Peer(e)].up
Written(e, f) ==
  IF Delivers(e) /\ ~Ended(Peer(e)) THEN [chan EXCEPT ![e] = Append(@, f)] ELSE chan

-----------------------------------------------------------------------------
(* Setting up: the edge has upgraded the client's connection.              *)

\* openDataSession succeeds: TunnelLinks models how.
OpenSession ==
  /\ end["edge"].main = "opening" /\ end["edge"].up
  /\ end' = [end EXCEPT !["edge"].sess = "open", !["edge"].main = "select", !["edge"].rd = "read"]
  /\ chan' = Written("edge", Open)

\* No session ID, or no connector: a close frame with a status of its own.
OpenRefused ==
  /\ end["edge"].main = "opening" /\ ("open" \in Faults \/ ~end["edge"].up)
  /\ \E c \in {Internal, TryAgainLater} :
       end' = [end EXCEPT !["edge"].seen = c, !["edge"].ws = "closed",
                          !["edge"].main = "done", !["edge"].left = "refused"]
  /\ UNCHANGED chan

\* handleOpen at the connector.
AcceptOpen ==
  /\ end["connector"].main = "none" /\ end["connector"].up /\ chan["edge"] # <<>>
  /\ end' = [end EXCEPT !["connector"].sess = "open", !["connector"].main = "dial"]
  /\ chan' = [chan EXCEPT !["edge"] = Tail(@)]

DialOK ==
  /\ end["connector"].main = "dial"
  /\ end' = [end EXCEPT !["connector"].main = "select", !["connector"].rd = "read",
                        !["connector"].ws = "open"]
  /\ UNCHANGED chan

\* targetURL or the dial fails: CloseWithError, whose removal of the session
\* is SessionRemove.
DialFails ==
  /\ end["connector"].main = "dial" /\ "dial" \in Faults
  /\ end' = [end EXCEPT !["connector"].main = "remove", !["connector"].left = "dial"]
  /\ chan' = [Written("connector", Error) EXCEPT !["edge"] = <<>>]

-----------------------------------------------------------------------------
(* The reader goroutine: ws.ReadMessage, then SendData.                    *)

Reading(e) == end[e].rd = "read" /\ end[e].ws = "open"

ReadMessage(e) ==
  /\ Reading(e) /\ end[e].nread < Len(Messages[e])
  /\ end' = [end EXCEPT ![e].nread = @ + 1, ![e].rd = "credit"]
  /\ UNCHANGED chan

\* A close frame: gorilla's close handler answers it with the same status,
\* which ends writing on this socket, and ReadMessage returns a CloseError.
ReadClose(e) ==
  /\ Reading(e)
  /\ \E c \in Codes \cup {NoStatus} :
       end' = [end EXCEPT ![e].status = c, ![e].seen = c, ![e].ws = "sent", ![e].rd = "closed"]
  /\ UNCHANGED chan

\* The connection ends without a close frame: also a CloseError, of 1006.
ReadDrop(e) ==
  /\ Reading(e) /\ "drop" \in Faults
  /\ end' = [end EXCEPT ![e].status = Abnormal, ![e].seen = Abnormal, ![e].rd = "closed"]
  /\ UNCHANGED chan

\* Any other error: that of our own ws.Close, or the network's.
ReadErr(e) ==
  /\ end[e].rd = "read" /\ (end[e].ws = "closed" \/ "read" \in Faults)
  /\ end' = [end EXCEPT ![e].rd = "err"]
  /\ UNCHANGED chan

\* Mutants: SendData sends without a token; SendData waits for a token alone.
TakeCreditUnchecked(e) ==
  /\ end[e].rd = "credit"
  /\ end' = [end EXCEPT ![e].credit = @ - 1, ![e].rd = "write"]
  /\ UNCHANGED chan
SendClosedMissing(e) == FALSE /\ UNCHANGED vars

\* SendData's select: a credit token, or the session is done.
TakeCredit(e) ==
  /\ end[e].rd = "credit" /\ end[e].credit > 0
  /\ end' = [end EXCEPT ![e].credit = @ - 1, ![e].rd = "write"]
  /\ UNCHANGED chan

SendClosed(e) ==
  /\ end[e].rd = "credit" /\ end[e].sess = "removed"
  /\ end' = [end EXCEPT ![e].rd = "err"]
  /\ UNCHANGED chan

\* The kind of the message becomes the frame's DataKind.
WriteData(e) ==
  /\ end[e].rd = "write"
  /\ \/ /\ end[e].up
        /\ end' = [end EXCEPT ![e].rd = "read"]
        /\ chan' = Written(e, Data(Message(end[e].nread, Messages[e][end[e].nread])))
     \/ /\ ~Delivers(e)
        /\ end' = [end EXCEPT ![e].rd = "err"]
        /\ UNCHANGED chan

-----------------------------------------------------------------------------
(* The select loop.  Leaving it runs the deferred calls: ws.Close at once, *)
(* then session.Close (SessionClose, SessionRemove).  told is the status   *)
(* of the close frame written before, or Abnormal; it reaches an           *)
(* application that has not closed by itself.                              *)

Exit(p, why, told) ==
  [p EXCEPT !.main = "close", !.left = why, !.ws = "closed", !.seen = IF @ = 0 THEN told ELSE @]

Leave(e, why, told) ==
  /\ end' = [end EXCEPT ![e] = Exit(@, why, told)]
  /\ chan' = [chan EXCEPT ![Peer(e)] = <<>>]

\* ctx.Done, or an idle timer that has expired.
Cut(e) == Selecting(e) /\ "cut" \in Faults /\ Leave(e, "cut", Abnormal)
SessionDone(e) == Selecting(e) /\ end[e].sess = "removed" /\ Leave(e, "done", Abnormal)
TakeReadErr(e) == Selecting(e) /\ end[e].rd = "err" /\ Leave(e, "read", Abnormal)

\* Mutant: the plain close frame of session.Close goes out first.
TakeCloseErrLate(e) ==
  /\ Selecting(e) /\ end[e].rd = "closed"
  /\ end' = [end EXCEPT ![e] = [Exit(@, "status", Abnormal) EXCEPT !.sess = "removed"]]
  /\ chan' = [Written(e, Close(0)) EXCEPT ![Peer(e)] = <<>>]

\* A CloseError: CloseWithCode with its status.
TakeCloseErr(e) ==
  /\ Selecting(e) /\ end[e].rd = "closed"
  /\ end' = [end EXCEPT ![e] = [Exit(@, "status", Abnormal) EXCEPT !.sess = "removed"]]
  /\ chan' = [Written(e, Close(end[e].status)) EXCEPT ![Peer(e)] = <<>>]

Arrived(e) == Head(chan[Peer(e)])
Receives(e, type) == Selecting(e) /\ chan[Peer(e)] # <<>> /\ Arrived(e).type = type

TakeData(e) ==
  /\ Receives(e, "data")
  /\ end' = [end EXCEPT ![e].hold = Arrived(e).m, ![e].main = "writing"]
  /\ chan' = [chan EXCEPT ![Peer(e)] = Tail(@)]

\* Mutant: a close frame overtakes the data frames queued before it.
TakeCloseFirst(e) ==
  /\ Selecting(e)
  /\ \E i \in 1..Len(chan[Peer(e)]) :
       /\ chan[Peer(e)][i].type = "close"
       /\ \A j \in 1..(i - 1) : chan[Peer(e)][j].type # "close"
       /\ LET c == chan[Peer(e)][i].code IN Leave(e, "close", IF c # 0 THEN c ELSE Abnormal)

\* FrameClose: WriteControl passes a status on to the socket.  A close frame
\* without a status is what FormatCloseMessage makes of 1005.
TakeClose(e) ==
  /\ Receives(e, "close")
  /\ Leave(e, "close", IF Arrived(e).code # 0 THEN Arrived(e).code ELSE Abnormal)

TakeError(e) == Receives(e, "error") /\ Leave(e, "error", Abnormal)

\* AckData: credit returns to the peer in batches, capped at its window.
Credited(e, n) ==
  LET c == end[Peer(e)].credit
  IN  IF ~Delivers(e) \/ end[Peer(e)].sess = "removed" THEN c
      ELSE IF c + n > SendWindow THEN SendWindow ELSE c + n
AckData(e) ==
  LET n == end[e].consumed + 1
  IN  IF n >= AckThreshold
      THEN [end EXCEPT ![e].consumed = 0, ![Peer(e)].credit = Credited(e, n)]
      ELSE [end EXCEPT ![e].consumed = n]

Wrote(e, m) ==
  /\ end[e].main = "writing" /\ end[e].ws = "open"
  /\ end' = [AckData(e) EXCEPT ![e].out = Append(@, m), ![e].hold = NoMessage,
                               ![e].main = "select"]
  /\ UNCHANGED chan

\* Mutant: every message is written as a binary message.
WriteMessageBinary(e) == Wrote(e, Message(end[e].hold.n, "binary"))

\* ws.WriteMessage with the frame's kind, then AckData.
WriteMessage(e) == Wrote(e, end[e].hold)

\* WriteMessage fails: the connection is broken, or the reader has answered a
\* close frame (ErrCloseSent).
WriteFails(e) ==
  /\ end[e].main = "writing" /\ (end[e].rd = "closed" \/ "write" \in Faults)
  /\ Leave(e, "write", Abnormal)

SessionClose(e) ==
  /\ end[e].main = "close"
  /\ end' = [end EXCEPT ![e].main = "remove"]
  /\ chan' = Written(e, Close(0))

SessionRemove(e) ==
  /\ end[e].main = "remove"
  /\ end' = [end EXCEPT ![e].main = "done", ![e].sess = "removed"]
  /\ UNCHANGED chan

\* Link.Close; of the frames under way some have reached the receive queue.
LinkClose(e) ==
  /\ end[e].up
  /\ end' = [end EXCEPT ![e].up = FALSE, ![e].sess = IF @ = "open" THEN "removed" ELSE @]
  /\ \E k \in 0..Len(chan[Peer(e)]) : chan' = [chan EXCEPT ![Peer(e)] = SubSeq(@, 1, k)]
LinkFails(e)  == "link" \in Faults /\ LinkClose(e)
LinkNotice(e) == ~end[Peer(e)].up /\ LinkClose(e)

\* Both ends are through, or the connector never heard of the session.
Finished ==
  /\ \A e \in Ends : /\ end[e].main \in {"none", "done"}
                     /\ end[e].rd \in {"none", "closed", "err"}
  /\ end["connector"].main = "none" => chan["edge"] = <<>> \/ ~end["connector"].up
  /\ UNCHANGED vars

-----------------------------------------------------------------------------
Opening   == OpenSession \/ OpenRefused
Connect   == AcceptOpen \/ DialOK \/ DialFails
Socket(e) == ReadMessage(e) \/ ReadClose(e) \/ ReadDrop(e) \/ ReadErr(e)
Reader(e) == TakeCredit(e) \/ SendClosed(e) \/ WriteData(e)
Relay(e)  == \/ SessionDone(e) \/ TakeReadErr(e) \/ TakeCloseErr(e)
             \/ TakeData(e) \/ TakeClose(e) \/ TakeError(e)
             \/ SessionClose(e) \/ SessionRemove(e)
SocketWrite(e) == WriteMessage(e) \/ WriteFails(e)

Next ==
  \/ Opening \/ Connect
  \/ \E e \in Ends : \/ Socket(e) \/ Reader(e) \/ Relay(e) \/ SocketWrite(e)
                     \/ Cut(e) \/ LinkFails(e) \/ LinkNotice(e)
  \/ Finished

Spec == Init /\ [][Next]_vars

(***************************************************************************)
(* Goroutines run, opens and dials are decided, a lost link is noticed, a  *)
(* write to a socket returns, and so does a read from one that we closed.  *)
(* What the two applications send, and whether they close, is theirs.      *)
(***************************************************************************)
FairSpec ==
  /\ Spec /\ WF_vars(Opening) /\ WF_vars(Connect)
  /\ \A e \in Ends : /\ WF_vars(Reader(e)) /\ WF_vars(Relay(e))
                     /\ WF_vars(SocketWrite(e)) /\ WF_vars(LinkNotice(e))
                     /\ WF_vars(end[e].ws = "closed" /\ ReadErr(e))

-----------------------------------------------------------------------------
(* Properties.                                                             *)

MessageSet == [n : Nat, kind : Kinds]

\* The values the fields of the two relays take.
TypeOK ==
  /\ end \in [Ends ->
       [main : {"none", "opening", "dial", "select", "writing", "close", "remove", "done"},
        left : {"no", "refused", "dial", "cut", "done", "read", "status", "close", "error", "write"},
        hold : MessageSet, rd : {"none", "read", "credit", "write", "closed", "err"},
        sess : {"none", "open", "removed"}, credit : 0..SendWindow, consumed : 0..SendWindow,
        up : BOOLEAN, ws : {"open", "sent", "closed"}, nread : Nat,
        status : Statuses \cup {0}, out : Seq(MessageSet), seen : Statuses \cup {0}]]
  /\ chan \in [Ends -> Seq([type : {"open", "data", "close", "error"}, m : MessageSet,
                            code : Statuses \cup {0}])]

(***************************************************************************)
(* The messages written to a socket are the first ones read from the other *)
(* socket, in order and each of the kind it came with.                     *)
(***************************************************************************)
MessagesKept == \A e \in Ends :
  /\ Len(end[e].out) <= end[Peer(e)].nread
  /\ \A i \in 1..Len(end[e].out) : end[e].out[i] = Message(i, Messages[Peer(e)][i])

(***************************************************************************)
(* Told(e): RelayWebSocket gave the application at e a status, rather than *)
(* answering the one it sent.  Then it is the status the other application *)
(* closed with, and every message sent before that close came first, text  *)
(* and binary, through the window.                                         *)
(***************************************************************************)
Told(e) == /\ end[e].seen \notin {0, Abnormal} /\ end[e].status = 0
           /\ end[e].left # "refused"
StatusAfterMessages == \A e \in Ends : Told(e) =>
  /\ end[e].seen = end[Peer(e)].status
  /\ Len(end[e].out) = end[Peer(e)].nread

(***************************************************************************)
(* A relay that ended with CloseWithCode sends a second, plain close frame *)
(* from its deferred session.Close: the other end never acts on that one   *)
(* first and so never loses the status.                                    *)
(***************************************************************************)
StatusCarried == \A e \in Ends :
  end[Peer(e)].left = "status" /\ end[e].left = "close" /\ end[e].status = 0 =>
    end[e].seen = end[Peer(e)].status

(***************************************************************************)
(* When one end of the relay is over, for whatever reason, both ends       *)
(* release their sockets, goroutines and sessions.                         *)
(***************************************************************************)
AllGone == \A e \in Ends :
  /\ end[e].main \in {"none", "done"} /\ end[e].sess # "open" /\ end[e].ws = "closed"
  /\ end[e].rd \in {"none", "closed", "err"}
Teardown == (\E e \in Ends : Ended(e)) ~> AllGone

(***************************************************************************)
(* "a close initiated by either end is relayed with its original status    *)
(* code and text" (docs/architecture.md:74).                               *)
(***************************************************************************)
CloseRelayed == \A e \in Ends :
  end[Peer(e)].status \in Codes /\ end[e].status = 0 /\ end[e].seen # 0 =>
    end[e].seen = end[Peer(e)].status
=============================================================================
