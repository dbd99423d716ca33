---------------------------- MODULE TunnelSession ----------------------------
(***************************************************************************)
(* One relayed TCP (or gRPC) session of the data tunnel, from the moment   *)
(* the edge has opened it: at each end a Session of internal/datatunnel    *)
(* (send credit, receive queue, consumed counter, done channel), the Link  *)
(* it belongs to (an ordered frame stream per direction and a read loop    *)
(* that dispatches), and the two goroutines of RelayConn that move data    *)
(* between the session and the local socket.  The edge's socket is the     *)
(* public client's, the connector's socket is the private backend's.       *)
(*                                                                         *)
(* Data is abstracted to chunk numbers: the k-th chunk read from a socket  *)
(* is the number k.  Other sessions of the link do not appear: dispatch    *)
(* never blocks, so they only interleave with this one.                    *)
(***************************************************************************)
EXTENDS Integers, Sequences, FiniteSets

CONSTANTS
  SendWindow,   \* sendWindow: unacknowledged data frames allowed per direction
  RecvSlack,    \* recvSlack: room in the receive queue for control frames
  Chunks,       \* bound: how many chunks each end's socket may produce
  Faults        \* what the environment may do in this instance

Ends == {"edge", "connector"}
Peer(e) == IF e = "edge" THEN "connector" ELSE "edge"
AllFaults == {"link", "ctx", "idle", "read", "write", "dial"}

ASSUME WindowAssumption == SendWindow \in Nat /\ SendWindow >= 2
ASSUME SlackAssumption  == RecvSlack \in Nat /\ RecvSlack >= 2
ASSUME ChunksAssumption == Chunks \in [Ends -> Nat]
ASSUME FaultsAssumption == Faults \subseteq AllFaults

\* Mutants of the two constants below.
AckThresholdTooLarge == SendWindow + 1
RecvCapacityNoSlack == SendWindow

AckThreshold == SendWindow \div 2
RecvCapacity == SendWindow + RecvSlack

VARIABLES
  sess,       \* the session in the link's table: "none", "open", "removed" (= done)
  recv,       \* Session.recv
  credit,     \* tokens in Session.credit
  consumed,   \* Session.consumed
  linkOpen,   \* the Link's read loop is running and its connection is open
  wire,       \* wire[e]: frames written by e that its peer has not dispatched
  rd,         \* the reader goroutine of RelayConn, with the readResult it left
  nread,      \* chunks read so far from the local socket
  main,       \* the select loop of RelayConn and its deferred calls
  hold,       \* the chunk the select loop is writing to the socket, 0 if none
  localEOF, remoteEOF,
  conn,       \* local socket: "open", "half" (write side closed), "closed"
  out,        \* chunks written to the local socket
  idleDue     \* idle_timeout has elapsed since the last touch

sessionVars == <<sess, recv, credit, consumed>>
linkVars    == <<linkOpen, wire>>
relayVars   == <<rd, nread, main, hold, localEOF, remoteEOF, conn, out, idleDue>>
vars        == <<sessionVars, linkVars, relayVars>>

(***************************************************************************)
(* Frames.  n is the chunk of a data frame, the credit of a window frame   *)
(* and 0 otherwise.                                                        *)
(***************************************************************************)
Ctl == {"eof", "close", "error"}
Frame(t, k) == [type |-> t, n |-> k]
Frames == [type : {"open", "data", "window"} \cup Ctl, n : Nat]

\* How many frames of sequence s have their type in T.
Count(s, T) == Cardinality({i \in 1..Len(s) : s[i].type \in T})

-----------------------------------------------------------------------------
(* Init: Link.Open has registered the edge session and written FrameOpen.  *)

Init ==
  /\ sess      = [e \in Ends |-> IF e = "edge" THEN "open" ELSE "none"]
  /\ recv      = [e \in Ends |-> <<>>]
  /\ credit    = [e \in Ends |-> SendWindow]
  /\ consumed  = [e \in Ends |-> 0]
  /\ linkOpen  = [e \in Ends |-> TRUE]
  /\ wire      = [e \in Ends |-> IF e = "edge" THEN <<Frame("open", 0)>> ELSE <<>>]
  /\ rd        = [e \in Ends |-> IF e = "edge" THEN "read" ELSE "none"]
  /\ nread     = [e \in Ends |-> 0]
  /\ main      = [e \in Ends |-> IF e = "edge" THEN "select" ELSE "none"]
  /\ hold      = [e \in Ends |-> 0]
  /\ localEOF  = [e \in Ends |-> FALSE]
  /\ remoteEOF = [e \in Ends |-> FALSE]
  /\ conn      = [e \in Ends |-> IF e = "edge" THEN "open" ELSE "closed"]
  /\ out       = [e \in Ends |-> <<>>]
  /\ idleDue   = [e \in Ends |-> FALSE]

(***************************************************************************)
(* Link.WriteFrame.  A write on a closed link fails; one to a peer that    *)
(* has gone is lost, and may or may not report an error.                   *)
(***************************************************************************)
Written(e, f) ==
  IF linkOpen[e] /\ linkOpen[Peer(e)]
  THEN [wire EXCEPT ![e] = Append(@, f)]
  ELSE wire

WriteMayFail(e) == ~linkOpen[e] \/ ~linkOpen[Peer(e)]

-----------------------------------------------------------------------------
(* The reader goroutine: conn.Read, then SendData.                         *)

ReadChunk(e) ==
  /\ rd[e] = "read" /\ conn[e] # "closed"
  /\ nread[e] < Chunks[e]
  /\ nread' = [nread EXCEPT ![e] = @ + 1]
  /\ rd' = [rd EXCEPT ![e] = "credit"]
  /\ UNCHANGED <<sessionVars, linkVars, main, hold, localEOF, remoteEOF, conn, out, idleDue>>

ReadEOF(e) ==
  /\ rd[e] = "read" /\ conn[e] # "closed"
  /\ rd' = [rd EXCEPT ![e] = "eof"]
  /\ UNCHANGED <<sessionVars, linkVars, nread, main, hold, localEOF, remoteEOF, conn, out, idleDue>>

\* conn.Read fails: our own conn.Close (ReadClosed), or the network (ReadFails).
ReadErr(e) ==
  /\ rd[e] = "read"
  /\ rd' = [rd EXCEPT ![e] = "err"]
  /\ UNCHANGED <<sessionVars, linkVars, nread, main, hold, localEOF, remoteEOF, conn, out, idleDue>>

ReadClosed(e) == conn[e] = "closed" /\ ReadErr(e)
ReadFails(e)  == "read" \in Faults /\ conn[e] # "closed" /\ ReadErr(e)

\* Mutants: SendData sends without a token; SendData waits for a token alone.
TakeCreditUnchecked(e) ==
  /\ rd[e] = "credit"
  /\ credit' = [credit EXCEPT ![e] = @ - 1]
  /\ rd' = [rd EXCEPT ![e] = "write"]
  /\ UNCHANGED <<sess, recv, consumed, linkVars, nread, main, hold, localEOF, remoteEOF, conn, out, idleDue>>
SendClosedMissing(e) == FALSE /\ UNCHANGED vars

\* SendData's select: a credit token, or the session is done.
TakeCredit(e) ==
  /\ rd[e] = "credit" /\ credit[e] > 0
  /\ credit' = [credit EXCEPT ![e] = @ - 1]
  /\ rd' = [rd EXCEPT ![e] = "write"]
  /\ UNCHANGED <<sess, recv, consumed, linkVars, nread, main, hold, localEOF, remoteEOF, conn, out, idleDue>>

SendClosed(e) ==
  /\ rd[e] = "credit" /\ sess[e] = "removed"
  /\ rd' = [rd EXCEPT ![e] = "err"]
  /\ UNCHANGED <<sessionVars, linkVars, nread, main, hold, localEOF, remoteEOF, conn, out, idleDue>>

\* SendData's WriteFrame, then idle.touch.
WriteData(e) ==
  /\ rd[e] = "write"
  /\ \/ /\ linkOpen[e]
        /\ wire' = Written(e, Frame("data", nread[e]))
        /\ rd' = [rd EXCEPT ![e] = "read"]
        /\ idleDue' = [idleDue EXCEPT ![e] = FALSE]
     \/ /\ WriteMayFail(e)
        /\ rd' = [rd EXCEPT ![e] = "err"]
        /\ UNCHANGED <<wire, idleDue>>
  /\ UNCHANGED <<sessionVars, linkOpen, nread, main, hold, localEOF, remoteEOF, conn, out>>

-----------------------------------------------------------------------------
(* The read loop of the link: Run, dispatch, onOpen.                       *)

\* The frame e's read loop takes next.
Incoming(e) == Head(wire[Peer(e)])
Arrives(e) == linkOpen[e] /\ wire[Peer(e)] # <<>>
Taken(e) == [wire EXCEPT ![Peer(e)] = Tail(@)]

\* handleOpen at the connector: register the session, start its goroutine,
\* which dials the backend.
AcceptOpen(e) ==
  /\ Arrives(e) /\ Incoming(e).type = "open"
  /\ wire' = Taken(e)
  /\ sess' = [sess EXCEPT ![e] = "open"]
  /\ main' = [main EXCEPT ![e] = "dial"]
  /\ UNCHANGED <<recv, credit, consumed, linkOpen, rd, nread, hold, localEOF, remoteEOF, conn, out, idleDue>>

\* dispatch of a frame whose session is not in the table.
DropFrame(e) ==
  /\ Arrives(e) /\ Incoming(e).type # "open"
  /\ sess[e] # "open"
  /\ wire' = Taken(e)
  /\ UNCHANGED <<sessionVars, linkOpen, relayVars>>

\* dispatch of FrameWindow: addSendCredit caps the tokens at the window.
AddSendCredit(e) ==
  /\ Arrives(e) /\ Incoming(e).type = "window"
  /\ sess[e] = "open"
  /\ wire' = Taken(e)
  /\ LET c == credit[e] + Incoming(e).n
     IN  credit' = [credit EXCEPT ![e] = IF c > SendWindow THEN SendWindow ELSE c]
  /\ UNCHANGED <<sess, recv, consumed, linkOpen, relayVars>>

Queueable(e) ==
  /\ Arrives(e) /\ Incoming(e).type \in {"data"} \cup Ctl
  /\ sess[e] = "open"

Enqueue(e) ==
  /\ Queueable(e) /\ Len(recv[e]) < RecvCapacity
  /\ wire' = Taken(e)
  /\ recv' = [recv EXCEPT ![e] = Append(@, Incoming(e))]
  /\ UNCHANGED <<sess, credit, consumed, linkOpen, relayVars>>

\* Mutant: a frame that finds the queue full is dropped.
OverrunDrops(e) ==
  /\ Queueable(e) /\ Len(recv[e]) = RecvCapacity
  /\ wire' = Taken(e)
  /\ UNCHANGED <<sessionVars, linkOpen, relayVars>>

\* dispatch's default case: report a flow control violation, kill the session.
Overrun(e) ==
  /\ Queueable(e) /\ Len(recv[e]) = RecvCapacity
  /\ wire' = LET w == Taken(e)
             IN  IF linkOpen[Peer(e)] THEN [w EXCEPT ![e] = Append(@, Frame("error", 0))] ELSE w
  /\ sess' = [sess EXCEPT ![e] = "removed"]
  /\ UNCHANGED <<recv, credit, consumed, linkOpen, relayVars>>

\* Mutant: Link.Close leaves the sessions of the link alone.
LinkCloseOnly(e) ==
  /\ linkOpen[e]
  /\ linkOpen' = [linkOpen EXCEPT ![e] = FALSE]
  /\ wire' = [wire EXCEPT ![Peer(e)] = <<>>]
  /\ UNCHANGED <<sessionVars, relayVars>>

\* Link.Close: the connection failed, was replaced, or the process shuts
\* the link down.  What the peer had written and we had not dispatched is lost.
LinkClose(e) ==
  /\ linkOpen[e]
  /\ linkOpen' = [linkOpen EXCEPT ![e] = FALSE]
  /\ wire' = [wire EXCEPT ![Peer(e)] = <<>>]
  /\ sess' = [sess EXCEPT ![e] = IF @ = "open" THEN "removed" ELSE @]
  /\ UNCHANGED <<recv, credit, consumed, relayVars>>

LinkFails(e)  == "link" \in Faults /\ LinkClose(e)
LinkNotice(e) == ~linkOpen[Peer(e)] /\ LinkClose(e)

-----------------------------------------------------------------------------
(* relayTCPBackend: dial, then RelayConn.                                  *)

DialOK(e) ==
  /\ main[e] = "dial"
  /\ main' = [main EXCEPT ![e] = "select"]
  /\ rd' = [rd EXCEPT ![e] = "read"]
  /\ conn' = [conn EXCEPT ![e] = "open"]
  /\ UNCHANGED <<sessionVars, linkVars, nread, hold, localEOF, remoteEOF, out, idleDue>>

\* The dial fails and CloseWithError writes the error frame; removeSession
\* follows (SessionRemove).
DialFails(e) ==
  /\ main[e] = "dial" /\ "dial" \in Faults
  /\ wire' = Written(e, Frame("error", 0))
  /\ main' = [main EXCEPT ![e] = "remove"]
  /\ UNCHANGED <<sessionVars, linkOpen, rd, nread, hold, localEOF, remoteEOF, conn, out, idleDue>>

(***************************************************************************)
(* The select loop of RelayConn.  Leaving it runs the deferred calls:      *)
(* conn.Close at once, then session.Close (SessionClose, SessionRemove).   *)
(***************************************************************************)
Leave(e) ==
  /\ main' = [main EXCEPT ![e] = "close"]
  /\ conn' = [conn EXCEPT ![e] = "closed"]

CtxDone(e) ==
  /\ main[e] = "select" /\ "ctx" \in Faults
  /\ Leave(e)
  /\ UNCHANGED <<sessionVars, linkVars, rd, nread, hold, localEOF, remoteEOF, out, idleDue>>

SessionDone(e) ==
  /\ main[e] = "select" /\ sess[e] = "removed"
  /\ Leave(e)
  /\ UNCHANGED <<sessionVars, linkVars, rd, nread, hold, localEOF, remoteEOF, out, idleDue>>

TakeReadErr(e) ==
  /\ main[e] = "select" /\ rd[e] = "err"
  /\ rd' = [rd EXCEPT ![e] = "gone"]
  /\ Leave(e)
  /\ UNCHANGED <<sessionVars, linkVars, nread, hold, localEOF, remoteEOF, out, idleDue>>

\* The local socket's read side ended: send EOF; leave if the peer's EOF
\* was already processed or the write failed.
TakeReadEOF(e) ==
  /\ main[e] = "select" /\ rd[e] = "eof"
  /\ rd' = [rd EXCEPT ![e] = "gone"]
  /\ localEOF' = [localEOF EXCEPT ![e] = TRUE]
  /\ \/ /\ linkOpen[e]
        /\ wire' = Written(e, Frame("eof", 0))
        /\ IF remoteEOF[e] THEN Leave(e) ELSE UNCHANGED <<main, conn>>
     \/ /\ WriteMayFail(e)
        /\ Leave(e)
        /\ UNCHANGED wire
  /\ UNCHANGED <<sessionVars, linkOpen, nread, hold, remoteEOF, out, idleDue>>

Next1(e) == Head(recv[e])
Received(e) == recv' = [recv EXCEPT ![e] = Tail(@)]

TakeData(e) ==
  /\ main[e] = "select" /\ recv[e] # <<>> /\ Next1(e).type = "data"
  /\ Received(e)
  /\ main' = [main EXCEPT ![e] = "writing"]
  /\ hold' = [hold EXCEPT ![e] = Next1(e).n]
  /\ UNCHANGED <<sess, credit, consumed, linkVars, rd, nread, localEOF, remoteEOF, conn, out, idleDue>>

\* Mutant: the peer's EOF ends the relay whether or not the local side ended.
TakeEOFLeaves(e) ==
  /\ main[e] = "select" /\ recv[e] # <<>> /\ Next1(e).type = "eof"
  /\ Received(e)
  /\ remoteEOF' = [remoteEOF EXCEPT ![e] = TRUE]
  /\ Leave(e)
  /\ UNCHANGED <<sess, credit, consumed, linkVars, rd, nread, hold, localEOF, out, idleDue>>

\* A peer EOF half-closes the socket (closeWrite) and ends the relay when the
\* local side has ended too.
TakeEOF(e) ==
  /\ main[e] = "select" /\ recv[e] # <<>> /\ Next1(e).type = "eof"
  /\ Received(e)
  /\ remoteEOF' = [remoteEOF EXCEPT ![e] = TRUE]
  /\ IF localEOF[e]
     THEN Leave(e)
     ELSE conn' = [conn EXCEPT ![e] = "half"] /\ UNCHANGED main
  /\ UNCHANGED <<sess, credit, consumed, linkVars, rd, nread, hold, localEOF, out, idleDue>>

TakeClose(e) ==
  /\ main[e] = "select" /\ recv[e] # <<>> /\ Next1(e).type \in {"close", "error"}
  /\ Received(e)
  /\ Leave(e)
  /\ UNCHANGED <<sess, credit, consumed, linkVars, rd, nread, hold, localEOF, remoteEOF, out, idleDue>>

IdleFires(e) ==
  /\ main[e] = "select" /\ idleDue[e]
  /\ Leave(e)
  /\ UNCHANGED <<sessionVars, linkVars, rd, nread, hold, localEOF, remoteEOF, out, idleDue>>

\* conn.Write of the held chunk returns: touch, then AckData, which returns
\* the accumulated credit once AckThreshold chunks were consumed.
ConnWriteOK(e) ==
  /\ main[e] = "writing"
  /\ out' = [out EXCEPT ![e] = Append(@, hold[e])]
  /\ hold' = [hold EXCEPT ![e] = 0]
  /\ main' = [main EXCEPT ![e] = "select"]
  /\ idleDue' = [idleDue EXCEPT ![e] = FALSE]
  /\ IF consumed[e] + 1 >= AckThreshold
     THEN /\ wire' = Written(e, Frame("window", consumed[e] + 1))
          /\ consumed' = [consumed EXCEPT ![e] = 0]
     ELSE /\ consumed' = [consumed EXCEPT ![e] = @ + 1]
          /\ UNCHANGED wire
  /\ UNCHANGED <<sess, recv, credit, linkOpen, rd, nread, localEOF, remoteEOF, conn>>

\* Mutant: a failed write is skipped and the relay goes on.
ConnWriteErrIgnored(e) ==
  /\ main[e] = "writing" /\ "write" \in Faults
  /\ hold' = [hold EXCEPT ![e] = 0]
  /\ main' = [main EXCEPT ![e] = "select"]
  /\ UNCHANGED <<sessionVars, linkVars, rd, nread, localEOF, remoteEOF, conn, out, idleDue>>

ConnWriteErr(e) ==
  /\ main[e] = "writing" /\ "write" \in Faults
  /\ hold' = [hold EXCEPT ![e] = 0]
  /\ Leave(e)
  /\ UNCHANGED <<sessionVars, linkVars, rd, nread, localEOF, remoteEOF, out, idleDue>>

SessionClose(e) ==
  /\ main[e] = "close"
  /\ wire' = Written(e, Frame("close", 0))
  /\ main' = [main EXCEPT ![e] = "remove"]
  /\ UNCHANGED <<sessionVars, linkOpen, rd, nread, hold, localEOF, remoteEOF, conn, out, idleDue>>

SessionRemove(e) ==
  /\ main[e] = "remove"
  /\ sess' = [sess EXCEPT ![e] = "removed"]
  /\ main' = [main EXCEPT ![e] = "done"]
  /\ UNCHANGED <<recv, credit, consumed, linkVars, rd, nread, hold, localEOF, remoteEOF, conn, out, idleDue>>

\* Time passes with nothing relayed at e for idle_timeout.
IdleElapses(e) ==
  /\ main[e] \in {"select", "writing"} /\ "idle" \in Faults
  /\ ~idleDue[e]
  /\ idleDue' = [idleDue EXCEPT ![e] = TRUE]
  /\ UNCHANGED <<sessionVars, linkVars, rd, nread, main, hold, localEOF, remoteEOF, conn, out>>

\* Both relays are over and nothing is left in flight.
Finished ==
  /\ \A e \in Ends : main[e] \in {"none", "done"} /\ rd[e] \in {"none", "eof", "err", "gone"}
  /\ \A e \in Ends : wire[e] = <<>>
  /\ UNCHANGED vars

-----------------------------------------------------------------------------
Socket(e)   == ReadChunk(e) \/ ReadEOF(e)
Reader(e)   == ReadClosed(e) \/ TakeCredit(e) \/ SendClosed(e) \/ WriteData(e)
ReadLoop(e) == \/ AcceptOpen(e) \/ DropFrame(e) \/ AddSendCredit(e)
               \/ Enqueue(e) \/ Overrun(e) \/ LinkNotice(e)
Relay(e)    == \/ DialOK(e) \/ DialFails(e) \/ SessionDone(e)
               \/ TakeReadErr(e) \/ TakeReadEOF(e)
               \/ TakeData(e) \/ TakeEOF(e) \/ TakeClose(e)
               \/ IdleFires(e) \/ SessionClose(e) \/ SessionRemove(e)
SocketWrite(e) == ConnWriteOK(e) \/ ConnWriteErr(e)
Environment(e) == ReadFails(e) \/ LinkFails(e) \/ CtxDone(e) \/ IdleElapses(e)

Next ==
  \/ \E e \in Ends : \/ Socket(e) \/ Reader(e) \/ ReadLoop(e) \/ Relay(e)
                     \/ SocketWrite(e) \/ Environment(e)
  \/ Finished

Spec == Init /\ [][Next]_vars

(***************************************************************************)
(* Fairness.  Each goroutine that can run eventually runs; a socket need   *)
(* neither produce data nor end (Socket has no fairness), faults need not  *)
(* happen.  Every conn.Write returns: its socket keeps reading or fails.   *)
(***************************************************************************)
Fairness == \A e \in Ends :
  /\ WF_vars(Reader(e)) /\ WF_vars(ReadLoop(e)) /\ WF_vars(Relay(e))
  /\ WF_vars(SocketWrite(e))

FairSpec == Spec /\ Fairness

(***************************************************************************)
(* A peer that breaks the window: its SendData does not wait for credit.   *)
(* dispatch and addSendCredit defend against such a peer.                  *)
(***************************************************************************)
SkipCredit(e) ==
  /\ rd[e] = "credit"
  /\ rd' = [rd EXCEPT ![e] = "write"]
  /\ UNCHANGED <<sessionVars, linkVars, nread, main, hold, localEOF, remoteEOF, conn, out, idleDue>>

RogueNext == Next \/ SkipCredit("edge")
RogueSpec == Init /\ [][RogueNext]_vars /\ Fairness

-----------------------------------------------------------------------------
(* Properties.                                                             *)

Ended(e) == main[e] \in {"close", "remove", "done"}
B(p) == IF p THEN 1 ELSE 0

\* The values the fields of the two relays take.
TypeOK ==
  /\ sess      \in [Ends -> {"none", "open", "removed"}]
  /\ recv      \in [Ends -> Seq(Frames)]
  /\ credit    \in [Ends -> Nat]
  /\ consumed  \in [Ends -> Nat]
  /\ linkOpen  \in [Ends -> BOOLEAN]
  /\ wire      \in [Ends -> Seq(Frames)]
  /\ rd        \in [Ends -> {"none", "read", "credit", "write", "eof", "err", "gone"}]
  /\ nread     \in [Ends -> Nat]
  /\ main      \in [Ends -> {"none", "dial", "select", "writing", "close", "remove", "done"}]
  /\ hold      \in [Ends -> Nat]
  /\ localEOF  \in [Ends -> BOOLEAN]
  /\ remoteEOF \in [Ends -> BOOLEAN]
  /\ conn      \in [Ends -> {"open", "half", "closed"}]
  /\ out       \in [Ends -> Seq(Nat)]
  /\ idleDue   \in [Ends -> BOOLEAN]

(***************************************************************************)
(* Every credit token of a direction e -> f is in exactly one place: the   *)
(* sender's pool, the sender's hand, a data frame on the wire or in the    *)
(* receive queue, the chunk being written to f's socket, f's consumed      *)
(* counter, or a window frame on its way back.  Tokens may be lost with    *)
(* the link, never made.                                                   *)
(***************************************************************************)
Returning(e) == AckThreshold * Count(wire[e], {"window"})
Tokens(e) ==
  LET f == Peer(e)
  IN  credit[e] + B(rd[e] = "write") + Count(wire[e], {"data"})
        + Count(recv[f], {"data"}) + B(main[f] = "writing") + consumed[f]
        + Returning(f)

\* sendWindow bounds what each direction may have unacknowledged.
CreditConserved == \A e \in Ends : Tokens(e) <= SendWindow

\* Control frames e may still write, and those it wrote that are in flight.
Unsent(e) == B(rd[e] # "gone") + B(main[e] \notin {"remove", "done"})
Control(e) == Count(wire[e], Ctl) + Count(recv[Peer(e)], Ctl) + Unsent(e)

\* A relay writes at most one EOF and one close or error frame.
ControlBounded == \A e \in Ends : Control(e) <= 2

\* The session is opened once.
Opens(e) == Count(wire[e], {"open"}) + B(main[Peer(e)] # "none")
OpenOnce == \A e \in Ends : Opens(e) <= 1

\* RelayConn starts its reader after the dial.
ReaderStarts == \A e \in Ends : main[e] \in {"none", "dial"} => rd[e] = "none"

\* Only data and control frames reach the receive queue.
QueueKinds == \A e \in Ends : \A i \in 1..Len(recv[e]) :
  recv[e][i].type \in {"data"} \cup Ctl

\* AckData returns credit in units of exactly ackThreshold.
AckUnits == \A e \in Ends :
  /\ consumed[e] < AckThreshold
  /\ \A i \in 1..Len(wire[e]) :
        wire[e][i].type = "window" => wire[e][i].n = AckThreshold

(***************************************************************************)
(* The bookkeeping of flow control, as an inductive invariant.             *)
(***************************************************************************)
FlowInv ==
  /\ TypeOK /\ CreditConserved /\ ControlBounded /\ OpenOnce
  /\ ReaderStarts /\ QueueKinds /\ AckUnits

(***************************************************************************)
(* dispatch never meets a full receive queue (its "protocol violation"     *)
(* branch) when both ends run this code: sendWindow data frames and two    *)
(* control frames are all that can be queued.                              *)
(***************************************************************************)
NoOverrun == \A e \in Ends : Queueable(e) => Len(recv[e]) < RecvCapacity

(***************************************************************************)
(* The bytes written to a socket are a prefix of those read from the other *)
(* socket: RelayConn never reorders, repeats or skips a chunk.             *)
(***************************************************************************)
InOrder == \A e \in Ends :
  /\ Len(out[e]) <= nread[Peer(e)]
  /\ \A i \in 1..Len(out[e]) : out[e][i] = i

(***************************************************************************)
(* Without faults a relay ends only when both streams ended, and then its  *)
(* socket has received everything: a half-close, and the close that        *)
(* follows it, cut nothing off.                                            *)
(***************************************************************************)
GracefulComplete == Faults = {} => \A e \in Ends :
  Ended(e) => localEOF[e] /\ remoteEOF[e] /\ Len(out[e]) = nread[Peer(e)]

\* RelayConn implements the promise of DuplexStream.
Stream == INSTANCE DuplexStream WITH
  sent    <- nread,
  fin     <- [e \in Ends |-> rd[e] = "eof" \/ localEOF[e]],
  got     <- out,
  seenEnd <- remoteEOF,
  over    <- [e \in Ends |-> Ended(e)]
ImplementsStream == Stream!Spec

(***************************************************************************)
(* Backpressure never becomes a standstill: every chunk read from a socket *)
(* is eventually written to the other one (AckData returns credit in       *)
(* batches of half a window, so an unreturned remainder cannot exhaust the *)
(* window).                                                                *)
(***************************************************************************)
Delivered == \A e \in Ends : \A k \in 1..Chunks[e] :
  nread[e] >= k ~> Len(out[Peer(e)]) >= k

(***************************************************************************)
(* When a relay ends at one end, for whatever reason, everything it        *)
(* started ends: both select loops, both reader goroutines, and the        *)
(* entries in both links' tables.                                          *)
(***************************************************************************)
AllGone == \A e \in Ends :
  /\ main[e] \in {"none", "done"} /\ sess[e] # "open"
  /\ rd[e] \in {"none", "eof", "err", "gone"}
  /\ conn[e] = "closed"
Teardown == (\E e \in Ends : Ended(e)) ~> AllGone
=============================================================================
