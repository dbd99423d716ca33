---------------------------- MODULE GrpcObserver ----------------------------
(***************************************************************************)
(* The passive gRPC observer of one relayed connection (internal/grpcobs), *)
(* with the observedConn of the edge that feeds it: two bounded queues of  *)
(* byte chunks, one parser goroutine behind each, and the table of RPCs in *)
(* flight that both parsers share.                                         *)
(*                                                                         *)
(* The bytes of a direction are abstracted to units: every HTTP/2 frame is *)
(* two units long, so that a chunk may end within a frame.  Unit u is part *)
(* of frame (u + 1) \div 2.  The two goroutines of RelayConn that call the *)
(* observer appear as ConnRead with ClientBytes, and as BackendBytes.      *)
(***************************************************************************)
EXTENDS Integers, Sequences

CONSTANTS
  FeedQueueSize,  \* feedQueueSize: chunks a feed holds
  MaxChunk,       \* bound: units one Read or Write may carry
  Traffics,       \* what client and backend may send: pairs of frame sequences
  Streams,        \* HTTP/2 stream identifiers, 0 for the connection itself
  Methods,        \* method names that match methodPattern
  Atoi,           \* strconv.Atoi on the strings it accepts, "007" and "+5" among them
  None

Dirs == {"client", "backend"}

\* A frame: what it means to the parsers, its stream, and the :path or
\* grpc-status it carries.  "other" frames decode and mean nothing here;
\* "bad" ones the framer or the HPACK decoder refuses.
Frame(k, s, v) == [kind |-> k, stream |-> s, val |-> v]
FrameKinds == {"preface", "headers", "trailers", "rst", "other", "bad"}
Frames == [kind : FrameKinds, stream : Streams, val : STRING]

ASSUME QueueAssumption   == FeedQueueSize \in Nat \ {0} /\ MaxChunk \in Nat \ {0}
ASSUME AtoiAssumption    == \A v \in DOMAIN Atoi : Atoi[v] \in Int
ASSUME NoneAssumption    == None \notin Methods \cup {"other"}
ASSUME TrafficAssumption == Traffics \subseteq [Dirs -> Seq(Frames)]
\* A stream identifier is used once, and gRPC clients send no trailers.
ASSUME StreamAssumption  == \A t \in Traffics : \A i, j \in 1..Len(t["client"]) :
  t["client"][i].kind = "headers" /\ t["client"][j].kind = "headers"
    /\ t["client"][i].stream = t["client"][j].stream => i = j

VARIABLES
  traffic,   \* the frames of this connection
  put,       \* units handed to feed.put so far, per direction
  inHand,    \* units the reader goroutine has read and not yet handed over
  feed,      \* feed.ch: chunks, as the interval of units they hold
  dead,      \* feed.dead
  fetched,   \* the last unit feedReader took out of the queue
  parsed,    \* frames the framer has returned
  parser,    \* "running", "eof" (Read said EOF) or "failed" (anything else)
  started,   \* Observer.started: stream to method, None if absent
  recorded,  \* RPCs counted in the metrics
  closed,    \* Observer.done is closed
  mark       \* the last unit queued when it was closed

feedVars  == <<put, inHand, feed, dead>>
parseVars == <<fetched, parsed, parser, started, recorded>>
vars == <<traffic, feedVars, parseVars, closed, mark>>

Init ==
  /\ traffic \in Traffics
  /\ put      = [d \in Dirs |-> 0]
  /\ inHand   = 0
  /\ feed     = [d \in Dirs |-> <<>>]
  /\ dead     = [d \in Dirs |-> FALSE]
  /\ fetched  = [d \in Dirs |-> 0]
  /\ parsed   = [d \in Dirs |-> 0]
  /\ parser   = [d \in Dirs |-> "running"]
  /\ started  = [s \in Streams |-> None]
  /\ recorded = <<>>
  /\ closed   = FALSE
  /\ mark     = [d \in Dirs |-> 0]

-----------------------------------------------------------------------------
(* feed.put of the next n units of direction d: never blocks, and after    *)
(* one chunk that did not fit takes nothing more.                          *)

\* Mutant: a chunk that does not fit is skipped.
PutSkips(d, n) ==
  /\ put' = [put EXCEPT ![d] = @ + n]
  /\ feed' = IF Len(feed[d]) = FeedQueueSize THEN feed
             ELSE [feed EXCEPT ![d] = Append(@, [from |-> put[d] + 1, to |-> put[d] + n])]
  /\ UNCHANGED dead

Put(d, n) ==
  /\ put' = [put EXCEPT ![d] = @ + n]
  /\ IF dead[d] \/ Len(feed[d]) = FeedQueueSize
     THEN /\ dead' = [dead EXCEPT ![d] = TRUE]
          /\ UNCHANGED feed
     ELSE /\ feed' = [feed EXCEPT ![d] = Append(@, [from |-> put[d] + 1, to |-> put[d] + n])]
          /\ UNCHANGED dead

Units(d) == 2 * Len(traffic[d])

\* observedConn.Read: the socket's Read, then ClientBytes.  The relay may end
\* and close the observer in between.
ConnRead ==
  /\ ~closed /\ inHand = 0
  /\ \E n \in 1..MaxChunk : put["client"] + n <= Units("client") /\ inHand' = n
  /\ UNCHANGED <<traffic, put, feed, dead, parseVars, closed, mark>>

ClientBytes ==
  /\ inHand > 0
  /\ Put("client", inHand)
  /\ inHand' = 0
  /\ UNCHANGED <<traffic, parseVars, closed, mark>>

\* The backend answers on a stream only after it was opened to it.
Causal(u) ==
  \A i \in 1..((u + 1) \div 2) : traffic["backend"][i].kind \in {"trailers", "rst"} =>
    \E j \in 1..(put["client"] \div 2) :
      /\ traffic["client"][j].kind = "headers"
      /\ traffic["client"][j].stream = traffic["backend"][i].stream

\* observedConn.Write: the socket's Write, then BackendBytes.
BackendBytes ==
  /\ ~closed
  /\ \E n \in 1..MaxChunk : /\ put["backend"] + n <= Units("backend")
                            /\ Causal(put["backend"] + n)
                            /\ Put("backend", n)
  /\ UNCHANGED <<traffic, inHand, parseVars, closed, mark>>

\* observedConn.finish, when RelayConn has returned.
LastQueued(d) == IF feed[d] = <<>> THEN fetched[d] ELSE feed[d][Len(feed[d])].to
Close ==
  /\ ~closed
  /\ closed' = TRUE
  /\ mark' = [d \in Dirs |-> LastQueued(d)]
  /\ UNCHANGED <<traffic, feedVars, parseVars>>

-----------------------------------------------------------------------------
(* feedReader.Read, called when the framer needs bytes for its next frame. *)

FrameReady(d) == 2 * (parsed[d] + 1) <= fetched[d]
Needs(d) == parser[d] = "running" /\ ~FrameReady(d)

Fetch(d) ==
  /\ Needs(d) /\ feed[d] # <<>>
  /\ fetched' = [fetched EXCEPT ![d] = Head(feed[d]).to]
  /\ feed' = [feed EXCEPT ![d] = Tail(@)]
  /\ UNCHANGED <<traffic, put, inHand, dead, parsed, parser, started, recorded, closed, mark>>

\* Mutants: done is looked at first; done is not looked at.
ReadEOFAtOnce(d) ==
  /\ Needs(d) /\ closed
  /\ parser' = [parser EXCEPT ![d] = "eof"]
  /\ UNCHANGED <<traffic, feedVars, fetched, parsed, started, recorded, closed, mark>>
ReadEOFNever(d) == FALSE /\ UNCHANGED vars

\* The queue is drained before done is reported as EOF.
ReadEOF(d) ==
  /\ Needs(d) /\ closed /\ feed[d] = <<>>
  /\ parser' = [parser EXCEPT ![d] = "eof"]
  /\ UNCHANGED <<traffic, feedVars, fetched, parsed, started, recorded, closed, mark>>

-----------------------------------------------------------------------------
(* The parsers.                                                            *)

\* Mutant: any status becomes a label.
StatusCodeRaw(value) == value

Method(path) == IF path \in Methods THEN path ELSE "other"

\* statusCode returns the string it was given, not the number: every spelling of
\* a code is a label of its own.
GrpcCodes == {v \in DOMAIN Atoi : Atoi[v] \in 0..16}
StatusCode(value) == IF value \in GrpcCodes THEN value ELSE "invalid"

NextFrame(d) == traffic[d][parsed[d] + 1]
Returned(d) == parsed' = [parsed EXCEPT ![d] = @ + 1]

\* Mutant: the preface is read and not compared.
RefusedAnyPreface(d) == NextFrame(d).kind = "bad"

\* The preface is not HTTP/2's, or ReadFrame fails.
Refused(d) ==
  \/ NextFrame(d).kind = "bad"
  \/ d = "client" /\ parsed[d] = 0 /\ NextFrame(d).kind # "preface"

ParseFails(d) ==
  /\ parser[d] = "running" /\ FrameReady(d) /\ Refused(d)
  /\ parser' = [parser EXCEPT ![d] = "failed"]
  /\ UNCHANGED <<traffic, feedVars, fetched, parsed, started, recorded, closed, mark>>

Reads(d) == parser[d] = "running" /\ FrameReady(d) /\ ~Refused(d) /\ Returned(d)

ParseClient ==
  /\ Reads("client")
  /\ LET f == NextFrame("client")
     IN  started' = IF f.kind = "headers"
                    THEN [started EXCEPT ![f.stream] = Method(f.val)] ELSE started
  /\ UNCHANGED <<traffic, feedVars, fetched, parser, recorded, closed, mark>>

Rpc(s, m, c) == [stream |-> s, method |-> m, code |-> c]

\* Mutant: the entry stays in the table.
FinishKeeps(s, code) ==
  /\ recorded' = IF started[s] = None THEN recorded ELSE Append(recorded, Rpc(s, started[s], code))
  /\ UNCHANGED started

Finish(s, code) ==
  /\ recorded' = IF started[s] = None THEN recorded ELSE Append(recorded, Rpc(s, started[s], code))
  /\ started' = [started EXCEPT ![s] = None]

ParseBackend ==
  /\ Reads("backend")
  /\ LET f == NextFrame("backend")
     IN  \/ f.kind = "trailers" /\ Finish(f.stream, StatusCode(f.val))
         \/ f.kind = "rst" /\ Finish(f.stream, "canceled")
         \/ f.kind \notin {"trailers", "rst"} /\ UNCHANGED <<started, recorded>>
  /\ UNCHANGED <<traffic, feedVars, fetched, parser, closed, mark>>

-----------------------------------------------------------------------------
Parser(d) == \/ Fetch(d) \/ ReadEOF(d) \/ ParseFails(d)
             \/ d = "client" /\ ParseClient
             \/ d = "backend" /\ ParseBackend

Next == ConnRead \/ ClientBytes \/ BackendBytes \/ Close \/ \E d \in Dirs : Parser(d)

Spec == Init /\ [][Next]_vars

\* The parser goroutines run; the connection need not send or end.
FairSpec == Spec /\ \A d \in Dirs : WF_vars(Parser(d))

-----------------------------------------------------------------------------
(* Properties.                                                             *)

\* The values the observer's fields take.  A code label is "canceled", "invalid"
\* or one of the spellings, any number of them, of 0 to 16; never another string
\* the backend has sent.
TypeOK ==
  /\ traffic \in Traffics
  /\ put \in [Dirs -> Nat] /\ inHand \in 0..MaxChunk
  /\ feed \in [Dirs -> Seq([from : Nat, to : Nat])]
  /\ dead \in [Dirs -> BOOLEAN]
  /\ fetched \in [Dirs -> Nat] /\ parsed \in [Dirs -> Nat]
  /\ parser \in [Dirs -> {"running", "eof", "failed"}]
  /\ started \in [Streams -> Methods \cup {"other", None}]
  /\ recorded \in Seq([stream : Streams, method : Methods \cup {"other"},
                       code : GrpcCodes \cup {"invalid", "canceled"}])
  /\ closed \in BOOLEAN
  /\ mark \in [Dirs -> Nat]

(***************************************************************************)
(* A parser never loses its place: the chunk it gets next continues where  *)
(* the last one ended, also after the queue has overflowed.  A gap would   *)
(* make the framer read payload as frame headers and put HPACK out of      *)
(* step with the peer.                                                     *)
(***************************************************************************)
InStep == \A d \in Dirs : feed[d] # <<>> => Head(feed[d]).from = fetched[d] + 1

(***************************************************************************)
(* Every RPC in the metrics is one: on an HTTP/2 connection the client has *)
(* opened the stream with that method, and the backend has ended it with   *)
(* that code.                                                              *)
(***************************************************************************)
OpenedAs(s, m) == \E j \in 2..parsed["client"] :
  /\ traffic["client"][j].kind = "headers" /\ traffic["client"][j].stream = s
  /\ Method(traffic["client"][j].val) = m
EndedBy(s, c) == \E j \in 1..parsed["backend"] :
  /\ traffic["backend"][j].stream = s
  /\ \/ traffic["backend"][j].kind = "trailers" /\ StatusCode(traffic["backend"][j].val) = c
     \/ traffic["backend"][j].kind = "rst" /\ c = "canceled"
Genuine == \A i \in 1..Len(recorded) :
  /\ traffic["client"][1].kind = "preface"
  /\ OpenedAs(recorded[i].stream, recorded[i].method)
  /\ EndedBy(recorded[i].stream, recorded[i].code)

(***************************************************************************)
(* No RPC is counted twice, although a server ends a stream with trailers  *)
(* and an RST_STREAM after them.                                           *)
(***************************************************************************)
CountedOnce == \A i, j \in 1..Len(recorded) :
  recorded[i].stream = recorded[j].stream => i = j

\* A parser that stops because of Close has read all that was queued before.
Drained == \A d \in Dirs : parser[d] = "eof" => fetched[d] >= mark[d]

(***************************************************************************)
(* What InStep, Genuine, CountedOnce and Drained rest on.  The queue of a  *)
(* direction holds consecutive chunks up to the last unit handed over, or, *)
(* once it has overflowed, up to an earlier one; a parser is never ahead   *)
(* of its bytes; and a stream in the table of RPCs was opened with the     *)
(* method noted there and has not been counted.                            *)
(***************************************************************************)
FeedInv(d) ==
  /\ \A i \in 1..Len(feed[d]) :
       /\ feed[d][i].from = (IF i = 1 THEN fetched[d] ELSE feed[d][i - 1].to) + 1
       /\ feed[d][i].to >= feed[d][i].from /\ feed[d][i].to <= put[d]
  /\ fetched[d] <= put[d] /\ 2 * parsed[d] <= fetched[d]
  /\ ~dead[d] => LastQueued(d) = put[d]
  /\ put[d] + (IF d = "client" THEN inHand ELSE 0) <= Units(d)
  /\ closed => mark[d] <= LastQueued(d)
  /\ parser[d] = "eof" => closed /\ fetched[d] >= mark[d]
TableInv ==
  /\ parsed["client"] > 0 => traffic["client"][1].kind = "preface"
  /\ \A s \in Streams : started[s] # None =>
       /\ OpenedAs(s, started[s])
       /\ \A i \in 1..Len(recorded) : recorded[i].stream # s
ObserverInv == (\A d \in Dirs : FeedInv(d)) /\ TableInv

\* Close releases both parser goroutines, wherever they are.
Released == closed ~> \A d \in Dirs : parser[d] # "running"
=============================================================================
