------------------------- MODULE GrpcObserverProofs -------------------------
(***************************************************************************)
(* The gRPC observer, for any connection, queue size and cut into chunks.  *)
(***************************************************************************)
EXTENDS GrpcObserver, TLAPS

USE QueueAssumption DEF Dirs

Chunk == [from : Nat, to : Nat]
Rpcs == [stream : Streams, method : Methods \cup {"other"},
         code : GrpcCodes \cup {"invalid", "canceled"}]

Inv == TypeOK /\ ObserverInv /\ Genuine /\ CountedOnce

\* The frame a parser is about to return lies within its direction's frames.
LEMMA FrameInRange ==
  ASSUME TypeOK, NEW d \in Dirs, FeedInv(d), FrameReady(d)
  PROVE  /\ parsed[d] + 1 \in 1..Len(traffic[d])
         /\ traffic[d] \in Seq(Frames)
         /\ NextFrame(d) \in Frames
<1>1. traffic[d] \in Seq(Frames)
  BY TrafficAssumption DEF TypeOK
<1>2. Len(traffic[d]) \in Nat /\ parsed[d] \in Nat /\ fetched[d] \in Nat /\ put[d] \in Nat /\ inHand \in Nat
  BY <1>1 DEF TypeOK
<1>3. 2 * (parsed[d] + 1) <= fetched[d] /\ fetched[d] <= put[d] /\ put[d] <= 2 * Len(traffic[d])
  BY <1>2 DEF FeedInv, FrameReady, Units
<1>4. parsed[d] + 1 \in 1..Len(traffic[d])
  BY <1>2, <1>3
<1>. QED
  BY <1>1, <1>4 DEF NextFrame

\* statusCode and the method's label are taken from bounded sets.
LEMMA Labels ==
  ASSUME NEW v
  PROVE  /\ Method(v) \in Methods \cup {"other"}
         /\ Method(v) # None
         /\ StatusCode(v) \in GrpcCodes \cup {"invalid", "canceled"}
BY NoneAssumption DEF Method, StatusCode

LEMMA InitInv == Init => Inv
<1>. SUFFICES ASSUME Init PROVE Inv
  OBVIOUS
<1>1. TypeOK
  <2>1. dead \in [Dirs -> BOOLEAN] /\ closed \in BOOLEAN
    BY Zenon DEF Init
  <2>2. feed \in [Dirs -> Seq([from : Nat, to : Nat])] /\ recorded \in Seq(Rpcs)
    BY DEF Init
  <2>3. /\ traffic \in Traffics /\ put \in [Dirs -> Nat] /\ inHand \in 0..MaxChunk
        /\ fetched \in [Dirs -> Nat] /\ parsed \in [Dirs -> Nat] /\ mark \in [Dirs -> Nat]
        /\ parser \in [Dirs -> {"running", "eof", "failed"}]
        /\ started \in [Streams -> Methods \cup {"other", None}]
    BY DEF Init
  <2>. QED
    BY <2>1, <2>2, <2>3 DEF TypeOK, Rpcs
<1>2. \A d \in Dirs : FeedInv(d)
  <2>. TAKE d \in Dirs
  <2>1. traffic[d] \in Seq(Frames)
    BY TrafficAssumption DEF Init
  <2>2. Len(traffic[d]) \in Nat
    BY <2>1
  <2>. QED
    BY <2>2 DEF Init, FeedInv, Units, LastQueued
<1>3. TableInv
  BY DEF Init, TableInv
<1>4. Genuine /\ CountedOnce
  BY DEF Init, Genuine, CountedOnce
<1>. QED
  BY <1>1, <1>2, <1>3, <1>4 DEF Inv, ObserverInv

-----------------------------------------------------------------------------
(* Types.                                                                  *)

LEMMA PutTypes ==
  ASSUME TypeOK, NEW d \in Dirs, NEW n \in Nat, Put(d, n)
  PROVE  /\ put' \in [Dirs -> Nat]
         /\ feed' \in [Dirs -> Seq(Chunk)]
         /\ dead' \in [Dirs -> BOOLEAN]
<1>1. put' \in [Dirs -> Nat]
  <2>1. put \in [Dirs -> Nat] /\ put[d] + n \in Nat
    BY DEF TypeOK
  <2>2. put' = [put EXCEPT ![d] = put[d] + n]
    BY DEF Put
  <2>. QED
    BY <2>1, <2>2, Zenon
<1>2. dead' \in [Dirs -> BOOLEAN]
  <2>1. dead \in [Dirs -> BOOLEAN]
    BY DEF TypeOK
  <2>2. dead' = [dead EXCEPT ![d] = TRUE] \/ dead' = dead
    BY DEF Put
  <2>. QED
    BY <2>1, <2>2, Zenon
<1>3. feed' \in [Dirs -> Seq(Chunk)]
  <2>1. feed \in [Dirs -> Seq(Chunk)] /\ put[d] \in Nat
    BY DEF TypeOK, Chunk
  <2>2. \/ feed' = feed
        \/ feed' = [feed EXCEPT ![d] = Append(@, [from |-> put[d] + 1, to |-> put[d] + n])]
    BY DEF Put
  <2>3. [from |-> put[d] + 1, to |-> put[d] + n] \in Chunk
    BY <2>1 DEF Chunk
  <2>4. Append(feed[d], [from |-> put[d] + 1, to |-> put[d] + n]) \in Seq(Chunk)
    BY <2>1, <2>3
  <2>. QED
    BY <2>1, <2>2, <2>4
<1>. QED
  BY <1>1, <1>2, <1>3

\* A chunk that is queued, and what is left of its queue.
LEMMA QueuedChunk ==
  ASSUME TypeOK, NEW d \in Dirs, feed[d] # <<>>
  PROVE  /\ Len(feed[d]) \in Nat \ {0}
         /\ \A i \in 1..Len(feed[d]) : feed[d][i] \in Chunk
         /\ Head(feed[d]) = feed[d][1]
         /\ Tail(feed[d]) \in Seq(Chunk) /\ Len(Tail(feed[d])) = Len(feed[d]) - 1
         /\ \A i \in 1..(Len(feed[d]) - 1) : Tail(feed[d])[i] = feed[d][i + 1]
<1>1. feed[d] \in Seq(Chunk)
  BY DEF TypeOK, Chunk
<1>2. Len(feed[d]) \in Nat \ {0}
  BY <1>1
<1>. QED
  BY <1>1, <1>2

LEMMA LastQueuedNat ==
  ASSUME TypeOK, NEW d \in Dirs
  PROVE  LastQueued(d) \in Nat
<1>1. CASE feed[d] = <<>>
  BY <1>1 DEF LastQueued, TypeOK
<1>2. CASE feed[d] # <<>>
  <2>1. feed[d][Len(feed[d])] \in Chunk
    BY <1>2, QueuedChunk
  <2>. QED
    BY <1>2, <2>1 DEF LastQueued, Chunk
<1>. QED
  BY <1>1, <1>2

LEMMA FetchTypes ==
  ASSUME TypeOK, NEW d \in Dirs, Fetch(d)
  PROVE  fetched' \in [Dirs -> Nat] /\ feed' \in [Dirs -> Seq(Chunk)]
<1>1. feed[d] # <<>> /\ feed \in [Dirs -> Seq(Chunk)] /\ fetched \in [Dirs -> Nat]
  BY DEF TypeOK, Fetch, Chunk
<1>2. Len(feed[d]) \in Nat \ {0} /\ Head(feed[d]) = feed[d][1] /\ Tail(feed[d]) \in Seq(Chunk)
  BY <1>1, QueuedChunk
<1>3. feed[d][1] \in Chunk
  BY <1>1, <1>2
<1>4. Head(feed[d]).to \in Nat
  BY <1>2, <1>3 DEF Chunk
<1>5. fetched' \in [Dirs -> Nat]
  BY <1>1, <1>4 DEF Fetch
<1>6. feed' = [feed EXCEPT ![d] = Tail(feed[d])]
  BY DEF Fetch
<1>. QED
  BY <1>1, <1>2, <1>5, <1>6, Zenon

LEMMA FinishTypes ==
  ASSUME TypeOK, NEW s \in Streams, NEW c \in GrpcCodes \cup {"invalid", "canceled"}, Finish(s, c)
  PROVE  /\ started' \in [Streams -> Methods \cup {"other", None}]
         /\ recorded' \in Seq(Rpcs)
<1>1. started \in [Streams -> Methods \cup {"other", None}] /\ recorded \in Seq(Rpcs)
  BY DEF TypeOK, Rpcs
<1>2. started' \in [Streams -> Methods \cup {"other", None}]
  BY <1>1 DEF Finish
<1>3. CASE started[s] = None
  BY <1>1, <1>2, <1>3 DEF Finish
<1>4. CASE started[s] # None
  <2>1. Rpc(s, started[s], c) \in Rpcs
    BY <1>1, <1>4 DEF Rpc, Rpcs
  <2>2. recorded' = Append(recorded, Rpc(s, started[s], c))
    BY <1>4 DEF Finish
  <2>. QED
    BY <1>1, <1>2, <2>1, <2>2
<1>. QED
  BY <1>3, <1>4

LEMMA TypeStep ==
  ASSUME TypeOK, \A d \in Dirs : FeedInv(d), [Next]_vars
  PROVE  TypeOK'
<1>. USE DEF TypeOK, vars, feedVars, parseVars
<1>1. CASE ConnRead
  BY <1>1 DEF ConnRead
<1>2. CASE ClientBytes
  BY <1>2, PutTypes DEF ClientBytes, Chunk
<1>3. CASE BackendBytes
  BY <1>3, PutTypes DEF BackendBytes, Chunk
<1>4. CASE Close
  <2>1. \A d \in Dirs : LastQueued(d) \in Nat
    BY LastQueuedNat
  <2>2. closed' \in BOOLEAN
    BY <1>4, Zenon DEF Close
  <2>3. mark' \in [Dirs -> Nat]
    BY <1>4, <2>1 DEF Close
  <2>. QED
    BY <1>4, <2>2, <2>3 DEF Close
<1>5. ASSUME NEW d \in Dirs, Fetch(d) PROVE TypeOK'
  BY <1>5, FetchTypes DEF Fetch, Chunk
<1>6. ASSUME NEW d \in Dirs, ReadEOF(d) PROVE TypeOK'
  BY <1>6 DEF ReadEOF
<1>7. ASSUME NEW d \in Dirs, ParseFails(d) PROVE TypeOK'
  BY <1>7 DEF ParseFails
<1>8. CASE ParseClient
  <2>1. NextFrame("client") \in Frames
    BY <1>8, FrameInRange DEF ParseClient, Reads
  <2>. QED
    BY <1>8, <2>1, Labels DEF ParseClient, Reads, Returned, Frames
<1>9. CASE ParseBackend
  <2>1. NextFrame("backend") \in Frames
    BY <1>9, FrameInRange DEF ParseBackend, Reads
  <2>2. /\ started' \in [Streams -> Methods \cup {"other", None}]
        /\ recorded' \in Seq(Rpcs)
    <3>1. NextFrame("backend").stream \in Streams
      BY <2>1 DEF Frames
    <3>2. CASE Finish(NextFrame("backend").stream, StatusCode(NextFrame("backend").val))
      BY <3>1, <3>2, FinishTypes, Labels
    <3>3. CASE Finish(NextFrame("backend").stream, "canceled")
      BY <3>1, <3>3, FinishTypes
    <3>4. CASE UNCHANGED <<started, recorded>>
      BY <3>4 DEF Rpcs
    <3>. QED
      BY <1>9, <3>2, <3>3, <3>4 DEF ParseBackend
  <2>. QED
    BY <1>9, <2>2 DEF ParseBackend, Reads, Returned, Rpcs
<1>10. CASE UNCHANGED vars
  BY <1>10
<1>. QED
  BY <1>1, <1>2, <1>3, <1>4, <1>5, <1>6, <1>7, <1>8, <1>9, <1>10 DEF Next, Parser

-----------------------------------------------------------------------------
(* The feeds.                                                              *)

\* feed.put keeps the queue of its direction consecutive.
LEMMA PutFeed ==
  ASSUME TypeOK, NEW d \in Dirs, FeedInv(d), NEW n \in Nat \ {0}, Put(d, n),
         put[d] + n + (IF d = "client" THEN inHand' ELSE 0) <= Units(d),
         UNCHANGED <<traffic, fetched, parsed, parser, closed, mark>>
  PROVE  FeedInv(d)'
<1>. DEFINE c == [from |-> put[d] + 1, to |-> put[d] + n]
            q == feed[d]
<1>0. /\ put[d] \in Nat /\ fetched[d] \in Nat /\ parsed[d] \in Nat /\ mark[d] \in Nat
      /\ q \in Seq(Chunk) /\ Len(q) \in Nat
  BY DEF TypeOK, Chunk
<1>1. put'[d] = put[d] + n /\ Units(d)' = Units(d)
  BY DEF TypeOK, Put, Units
<1>2. \A i \in 1..Len(q) : q[i].from \in Nat /\ q[i].to \in Nat
  <2>1. \A i \in 1..Len(q) : q[i] \in Chunk
    BY <1>0
  <2>. QED
    BY <2>1 DEF Chunk
<1>. DEFINE Link(i) == q[i].from = (IF i = 1 THEN fetched[d] ELSE q[i - 1].to) + 1
<1>6. \A i \in 1..Len(q) : Link(i) /\ q[i].to >= q[i].from /\ q[i].to <= put[d]
  BY DEF FeedInv
<1>7. /\ fetched[d] <= put[d] /\ 2 * parsed[d] <= fetched[d]
      /\ closed => mark[d] <= LastQueued(d)
      /\ parser[d] = "eof" => closed /\ fetched[d] >= mark[d]
  BY DEF FeedInv
<1>3. LastQueued(d) \in Nat
  BY LastQueuedNat
<1>4. CASE dead[d] \/ Len(q) = FeedQueueSize
  <2>1. feed'[d] = q /\ dead'[d] /\ LastQueued(d)' = LastQueued(d)
    BY <1>4 DEF Put, TypeOK, LastQueued
  <2>2. \A i \in 1..Len(q) : Link(i) /\ q[i].to >= q[i].from /\ q[i].to <= put[d] + n
    BY <1>0, <1>2, <1>6
  <2>. QED
    BY <1>0, <1>1, <1>3, <1>7, <2>1, <2>2 DEF FeedInv
<1>5. CASE ~(dead[d] \/ Len(q) = FeedQueueSize)
  <2>1. feed'[d] = Append(q, c)
    BY <1>5 DEF Put, TypeOK
  <2>2. LastQueued(d) = put[d]
    BY <1>5 DEF FeedInv
  <2>3. /\ Len(feed'[d]) = Len(q) + 1 /\ feed'[d] # <<>>
        /\ \A i \in 1..Len(q) : feed'[d][i] = q[i]
        /\ feed'[d][Len(q) + 1] = c
    BY <1>0, <2>1
  <2>4. LastQueued(d)' = put[d] + n
    BY <1>0, <2>3 DEF LastQueued
  <2>5. c.from = (IF Len(q) + 1 = 1 THEN fetched[d] ELSE q[Len(q)].to) + 1
    BY <1>0, <2>2 DEF LastQueued
  <2>6. \A i \in 1..Len(feed'[d]) :
          /\ feed'[d][i].from = (IF i = 1 THEN fetched[d] ELSE feed'[d][i - 1].to) + 1
          /\ feed'[d][i].to >= feed'[d][i].from /\ feed'[d][i].to <= put'[d]
    <3>. TAKE i \in 1..Len(feed'[d])
    <3>1. CASE i \in 1..Len(q)
      <4>1. feed'[d][i] = q[i] /\ (i # 1 => feed'[d][i - 1] = q[i - 1])
        BY <1>0, <2>3, <3>1
      <4>2. /\ Link(i) /\ q[i].to >= q[i].from /\ q[i].to <= put[d]
            /\ q[i].to \in Nat
        BY <1>2, <1>6, <3>1
      <4>3. q[i].to <= put[d] + n
        BY <1>0, <4>2
      <4>. QED
        BY <1>1, <4>1, <4>2, <4>3
    <3>2. CASE i = Len(q) + 1
      <4>1. i - 1 = Len(q) /\ feed'[d][i] = c
        BY <1>0, <2>3, <3>2
      <4>2. i # 1 => Len(q) \in 1..Len(q)
        BY <1>0, <3>2
      <4>3. i # 1 => feed'[d][i - 1] = q[Len(q)]
        BY <2>3, <4>1, <4>2, Zenon
      <4>4. c.from = (IF i = 1 THEN fetched[d] ELSE feed'[d][i - 1].to) + 1
        BY <2>5, <3>2, <4>3, Zenon
      <4>5. c.to >= c.from /\ c.to <= put'[d]
        BY <1>0, <1>1
      <4>. QED
        BY <4>1, <4>4, <4>5, Zenon
    <3>. QED
      BY <1>0, <2>3, <3>1, <3>2
  <2>. QED
    BY <1>0, <1>1, <1>7, <2>2, <2>4, <2>6 DEF FeedInv
<1>. QED
  BY <1>4, <1>5

\* feedReader takes the oldest chunk.
LEMMA FetchFeed ==
  ASSUME TypeOK, NEW d \in Dirs, FeedInv(d), Fetch(d)
  PROVE  FeedInv(d)'
<1>. DEFINE q == feed[d]
<1>0. /\ put[d] \in Nat /\ fetched[d] \in Nat /\ parsed[d] \in Nat /\ mark[d] \in Nat
      /\ q # <<>>
  BY DEF TypeOK, Fetch
<1>8. Len(q) \in Nat \ {0}
  BY <1>0, QueuedChunk
<1>1. /\ Len(q) \in Nat \ {0} /\ \A i \in 1..Len(q) : q[i] \in Chunk
      /\ fetched'[d] = q[1].to /\ feed'[d] = Tail(q) /\ Len(Tail(q)) = Len(q) - 1
      /\ \A i \in 1..(Len(q) - 1) : Tail(q)[i] = q[i + 1]
  BY <1>0, QueuedChunk DEF Fetch, TypeOK
<1>2. \A i \in 1..Len(q) : q[i].from \in Nat /\ q[i].to \in Nat
  BY <1>1 DEF Chunk
<1>3. q[1].from = fetched[d] + 1 /\ q[1].to >= q[1].from /\ q[1].to <= put[d]
  BY <1>1 DEF FeedInv
<1>7. \A i \in 1..Len(q) :
        /\ q[i].from = (IF i = 1 THEN fetched[d] ELSE q[i - 1].to) + 1
        /\ q[i].to >= q[i].from /\ q[i].to <= put[d]
  BY DEF FeedInv
<1>4. LastQueued(d)' = LastQueued(d)
  <2>1. CASE Len(q) = 1
    BY <1>0, <1>1, <2>1 DEF LastQueued
  <2>2. CASE Len(q) # 1
    <3>1. Len(feed'[d]) = Len(q) - 1
      BY <1>1
    <3>2. Len(q) - 1 \in 1..(Len(q) - 1)
      <4>1. \A n \in Nat \ {0} : n # 1 => n - 1 \in 1..(n - 1)
        OBVIOUS
      <4>. QED
        BY <1>8, <2>2, <4>1
    <3>4. feed'[d] # <<>>
      BY <3>1, <3>2
    <3>3. feed'[d][Len(q) - 1] = q[Len(q)]
      BY <1>1, <3>2
    <3>. QED
      BY <1>0, <3>1, <3>3, <3>4 DEF LastQueued
  <2>. QED
    BY <2>1, <2>2
<1>5. \A i \in 1..Len(feed'[d]) :
        /\ feed'[d][i].from = (IF i = 1 THEN fetched'[d] ELSE feed'[d][i - 1].to) + 1
        /\ feed'[d][i].to >= feed'[d][i].from /\ feed'[d][i].to <= put[d]
  <2>. TAKE i \in 1..Len(feed'[d])
  <2>1. i + 1 \in 1..Len(q) /\ feed'[d][i] = q[i + 1]
    BY <1>1
  <2>2. i # 1 => feed'[d][i - 1] = q[i]
    BY <1>1
  <2>3. q[i + 1].from = q[i].to + 1 /\ q[i + 1].to >= q[i + 1].from /\ q[i + 1].to <= put[d]
    <3>1. i + 1 # 1 /\ (i + 1) - 1 = i
      OBVIOUS
    <3>. QED
      BY <1>7, <2>1, <3>1
  <2>. QED
    BY <1>1, <2>1, <2>2, <2>3
<1>6. UNCHANGED <<traffic, put, inHand, dead, parsed, parser, closed, mark>> /\ parser[d] # "eof"
  BY DEF Fetch, Needs
<1>. HIDE DEF q
<1>9. fetched'[d] <= put'[d] /\ fetched'[d] >= fetched[d] /\ fetched'[d] \in Nat
  <2>1. q[1].to \in Nat
    BY <1>2, <1>8
  <2>. QED
    BY <1>0, <1>1, <1>3, <1>6, <2>1
<1>10. 2 * parsed'[d] <= fetched'[d]
  <2>1. 2 * parsed[d] <= fetched[d]
    BY DEF FeedInv
  <2>. QED
    BY <1>0, <1>6, <1>9, <2>1
<1>11. Units(d)' = Units(d)
  BY <1>6 DEF Units
<1>. QED
  BY <1>4, <1>5, <1>6, <1>9, <1>10, <1>11 DEF FeedInv

\* A direction that a step leaves alone.
LEMMA FeedKept ==
  ASSUME NEW d \in Dirs, FeedInv(d),
         UNCHANGED <<traffic, put[d], inHand, feed[d], dead[d], fetched[d], parsed[d], parser[d],
                     closed, mark[d]>>
  PROVE  FeedInv(d)'
BY DEF FeedInv, Units, LastQueued

LEMMA FeedStep ==
  ASSUME TypeOK, \A d \in Dirs : FeedInv(d), [Next]_vars
  PROVE  \A d \in Dirs : FeedInv(d)'
<1>. USE DEF feedVars, parseVars
<1>1. CASE ConnRead
  <2>1. FeedInv("client")'
    BY <1>1 DEF ConnRead, FeedInv, Units, LastQueued
  <2>2. FeedInv("backend")'
    BY <1>1 DEF ConnRead, FeedInv, Units, LastQueued
  <2>. QED
    BY <2>1, <2>2
<1>2. CASE ClientBytes
  <2>1. inHand \in Nat \ {0} /\ put["client"] \in Nat
    BY <1>2 DEF ClientBytes, TypeOK
  <2>2. put["client"] + inHand + inHand' <= Units("client")
    BY <1>2, <2>1 DEF ClientBytes, FeedInv
  <2>3. FeedInv("client")'
    BY <1>2, <2>1, <2>2, PutFeed DEF ClientBytes
  <2>4. put'["backend"] = put["backend"] /\ feed'["backend"] = feed["backend"]
          /\ dead'["backend"] = dead["backend"]
    BY <1>2 DEF ClientBytes, Put, TypeOK
  <2>5. FeedInv("backend")'
    BY <1>2, <2>4 DEF ClientBytes, FeedInv, Units, LastQueued
  <2>. QED
    BY <2>3, <2>5
<1>3. CASE BackendBytes
  <2>1. PICK n \in 1..MaxChunk : put["backend"] + n <= Units("backend") /\ Put("backend", n)
    BY <1>3 DEF BackendBytes
  <2>2. n \in Nat \ {0} /\ put["backend"] \in Nat
    BY DEF TypeOK
  <2>3. FeedInv("backend")'
    BY <1>3, <2>1, <2>2, PutFeed DEF BackendBytes
  <2>4. put'["client"] = put["client"] /\ feed'["client"] = feed["client"]
          /\ dead'["client"] = dead["client"]
    BY <2>1 DEF Put, TypeOK
  <2>5. FeedInv("client")'
    BY <1>3, <2>4, FeedKept DEF BackendBytes
  <2>. QED
    BY <2>3, <2>5
<1>4. CASE Close
  <2>. TAKE d \in Dirs
  <2>1. mark'[d] = LastQueued(d) /\ LastQueued(d)' = LastQueued(d) /\ LastQueued(d) \in Nat
    BY <1>4, LastQueuedNat DEF Close, LastQueued
  <2>2. parser[d] # "eof"
    BY <1>4 DEF Close, FeedInv
  <2>3. mark'[d] <= LastQueued(d)'
    BY <2>1
  <2>4. UNCHANGED <<traffic, put, inHand, feed, dead, fetched, parsed, parser>>
    BY <1>4 DEF Close
  <2>. QED
    BY <2>1, <2>2, <2>3, <2>4 DEF FeedInv, Units
<1>5. ASSUME NEW d \in Dirs, Fetch(d) PROVE \A e \in Dirs : FeedInv(e)'
  <2>. TAKE e \in Dirs
  <2>1. CASE e = d
    BY <1>5, <2>1, FetchFeed
  <2>2. CASE e # d
    BY <1>5, <2>2, FeedKept DEF Fetch, TypeOK
  <2>. QED
    BY <2>1, <2>2
<1>6. ASSUME NEW d \in Dirs, ReadEOF(d) PROVE \A e \in Dirs : FeedInv(e)'
  <2>. TAKE e \in Dirs
  <2>1. CASE e = d
    <3>1. /\ closed /\ LastQueued(d) = fetched[d] /\ LastQueued(d)' = LastQueued(d)
          /\ fetched[d] \in Nat /\ mark[d] \in Nat
      BY <1>6 DEF ReadEOF, LastQueued, TypeOK
    <3>2. mark[d] <= fetched[d]
      BY <3>1 DEF FeedInv
    <3>. QED
      BY <1>6, <2>1, <3>1, <3>2 DEF ReadEOF, FeedInv, Units
  <2>2. CASE e # d
    BY <1>6, <2>2, FeedKept DEF ReadEOF, TypeOK
  <2>. QED
    BY <2>1, <2>2
<1>7. ASSUME NEW d \in Dirs, ParseFails(d) PROVE \A e \in Dirs : FeedInv(e)'
  <2>. TAKE e \in Dirs
  <2>1. parser'[e] = parser[e] \/ parser'[e] = "failed"
    BY <1>7 DEF ParseFails, TypeOK
  <2>. QED
    BY <1>7, <2>1 DEF ParseFails, FeedInv, Units, LastQueued
<1>8. ASSUME NEW d \in Dirs, Reads(d),
             UNCHANGED <<traffic, feedVars, fetched, parser, closed, mark>>
      PROVE  \A e \in Dirs : FeedInv(e)'
  <2>. TAKE e \in Dirs
  <2>1. parsed'[e] = parsed[e] \/ 2 * parsed'[e] <= fetched[e]
    BY <1>8 DEF Reads, Returned, FrameReady, TypeOK
  <2>. QED
    BY <1>8, <2>1 DEF FeedInv, Units, LastQueued
<1>9. CASE UNCHANGED vars
  BY <1>9, FeedKept DEF vars
<1>. QED
  BY <1>1, <1>2, <1>3, <1>4, <1>5, <1>6, <1>7, <1>8, <1>9
     DEF Next, Parser, ParseClient, ParseBackend

-----------------------------------------------------------------------------
(* The table of RPCs and the metrics.                                      *)

CallsInv == TableInv /\ Genuine /\ CountedOnce

\* What was opened or ended stays so.
LEMMA StillTrue ==
  ASSUME TypeOK, TypeOK', UNCHANGED traffic, \A d \in Dirs : parsed'[d] >= parsed[d]
  PROVE  /\ \A s, m : OpenedAs(s, m) => OpenedAs(s, m)'
         /\ \A s, c : EndedBy(s, c) => EndedBy(s, c)'
<1>1. \A d \in Dirs : parsed[d] \in Nat /\ parsed'[d] \in Nat
  BY DEF TypeOK
<1>2. \A j \in 2..parsed["client"] : j \in 2..parsed'["client"]
  BY <1>1
<1>3. \A j \in 1..parsed["backend"] : j \in 1..parsed'["backend"]
  BY <1>1
<1>. QED
  BY <1>2, <1>3 DEF OpenedAs, EndedBy

\* Steps that leave the table and the metrics alone.
LEMMA CallsKept ==
  ASSUME TypeOK, CallsInv, UNCHANGED <<traffic, parsed, started, recorded>>
  PROVE  CallsInv'
BY DEF CallsInv, TableInv, Genuine, CountedOnce, OpenedAs, EndedBy

\* An RPC that enters the table is new: its stream has not been counted.
LEMMA NewStream ==
  ASSUME TypeOK, FeedInv("client"), Genuine, FrameReady("client"),
         NextFrame("client").kind = "headers",
         NEW i \in 1..Len(recorded)
  PROVE  recorded[i].stream # NextFrame("client").stream
<1>. DEFINE t == traffic["client"]
            k == parsed["client"] + 1
<1>1. k \in 1..Len(t) /\ parsed["client"] \in Nat /\ NextFrame("client") = t[k]
  BY FrameInRange DEF NextFrame, TypeOK
<1>2. SUFFICES ASSUME recorded[i].stream = t[k].stream PROVE FALSE
  BY <1>1
<1>3. PICK j \in 2..parsed["client"] : t[j].kind = "headers" /\ t[j].stream = t[k].stream
  BY <1>2 DEF Genuine, OpenedAs
<1>4. j \in 1..Len(t) /\ j # k
  BY <1>1
<1>5. traffic \in Traffics
  BY DEF TypeOK
<1>. QED
  BY <1>1, <1>3, <1>4, <1>5, StreamAssumption

LEMMA ParseClientCalls ==
  ASSUME TypeOK, TypeOK', FeedInv("client"), CallsInv, ParseClient
  PROVE  CallsInv'
<1>. DEFINE f == NextFrame("client")
            k == parsed["client"] + 1
<1>1. /\ parsed["client"] \in Nat /\ parsed'["client"] = k /\ parsed'["backend"] = parsed["backend"]
      /\ f = traffic["client"][k] /\ FrameReady("client") /\ UNCHANGED <<traffic, recorded>>
  BY DEF ParseClient, Reads, Returned, NextFrame, TypeOK
<1>2. parsed["client"] = 0 => f.kind = "preface"
  BY DEF ParseClient, Reads, Refused
<1>3. /\ \A s, m : OpenedAs(s, m) => OpenedAs(s, m)'
      /\ \A s, c : EndedBy(s, c) => EndedBy(s, c)'
  <2>1. \A d \in Dirs : parsed'[d] >= parsed[d]
    <3>1. \A d \in Dirs : parsed[d] \in Nat
      BY DEF TypeOK
    <3>. QED
      BY <1>1, <3>1
  <2>. QED
    BY <1>1, <2>1, StillTrue
<1>4. Genuine' /\ CountedOnce'
  BY <1>1, <1>3 DEF CallsInv, Genuine, CountedOnce
<1>5. parsed'["client"] > 0 => traffic'["client"][1].kind = "preface"
  BY <1>1, <1>2 DEF CallsInv, TableInv
<1>6. CASE f.kind = "headers"
  <2>1. f.stream \in Streams
    BY <1>1, FrameInRange DEF Frames
  <2>2. started' = [started EXCEPT ![f.stream] = Method(f.val)] /\ started \in [Streams -> Methods \cup {"other", None}]
    BY <1>6 DEF ParseClient, TypeOK
  <2>3. ASSUME NEW s, NEW m, s = f.stream, m = Method(f.val) PROVE OpenedAs(s, m)'
    <3>1. k \in 2..parsed'["client"]
      BY <1>1, <1>2, <1>6
    <3>. QED
      BY <1>1, <1>6, <2>3, <3>1 DEF OpenedAs, Method
  <2>4. \A i \in 1..Len(recorded) : recorded[i].stream # f.stream
    BY <1>1, <1>6, NewStream DEF CallsInv
  <2>5. ASSUME NEW s \in Streams, NEW m, m = started'[s], m # None
        PROVE  /\ OpenedAs(s, m)'
               /\ \A i \in 1..Len(recorded') : recorded'[i].stream # s
    <3>1. CASE s = f.stream
      <4>1. m = Method(f.val)
        BY <2>2, <2>5, <3>1
      <4>. QED
        BY <1>1, <2>3, <2>4, <3>1, <4>1
    <3>2. CASE s # f.stream
      <4>1. started[s] = m
        BY <2>2, <2>5, <3>2
      <4>2. OpenedAs(s, m) /\ \A i \in 1..Len(recorded) : recorded[i].stream # s
        BY <2>5, <4>1 DEF CallsInv, TableInv
      <4>. QED
        BY <1>1, <1>3, <4>2
    <3>. QED
      BY <3>1, <3>2
  <2>6. TableInv'
    BY <1>5, <2>5 DEF TableInv, OpenedAs
  <2>. QED
    BY <1>4, <2>6 DEF CallsInv
<1>7. CASE f.kind # "headers"
  <2>1. started' = started
    BY <1>7 DEF ParseClient
  <2>2. ASSUME NEW s \in Streams, NEW m, m = started'[s], m # None
        PROVE  OpenedAs(s, m)' /\ \A i \in 1..Len(recorded') : recorded'[i].stream # s
    <3>1. OpenedAs(s, m) /\ \A i \in 1..Len(recorded) : recorded[i].stream # s
      BY <2>1, <2>2 DEF CallsInv, TableInv
    <3>. QED
      BY <1>1, <1>3, <3>1
  <2>3. TableInv'
    BY <1>5, <2>2 DEF TableInv, OpenedAs
  <2>. QED
    BY <1>4, <2>3 DEF CallsInv
<1>. QED
  BY <1>6, <1>7

\* finish, called for a frame that ends stream s with code c.
LEMMA FinishCalls ==
  ASSUME TypeOK, TypeOK', CallsInv, UNCHANGED <<traffic, parsed["client"]>>,
         \A d \in Dirs : parsed'[d] >= parsed[d],
         NEW s \in Streams, NEW c, Finish(s, c), EndedBy(s, c)'
  PROVE  CallsInv'
<1>. DEFINE r == Rpc(s, started[s], c)
<1>1. /\ \A t, m : OpenedAs(t, m) => OpenedAs(t, m)'
      /\ \A t, e : EndedBy(t, e) => EndedBy(t, e)'
  BY StillTrue
<1>2. /\ started' = [started EXCEPT ![s] = None]
      /\ started \in [Streams -> Methods \cup {"other", None}]
      /\ recorded \in Seq(Rpcs) /\ Len(recorded) \in Nat
      /\ parsed["client"] \in Nat /\ parsed'["client"] \in Nat
  <2>1. recorded \in Seq(Rpcs)
    BY DEF TypeOK, Rpcs
  <2>2. Len(recorded) \in Nat
    BY <2>1
  <2>3. /\ started \in [Streams -> Methods \cup {"other", None}]
        /\ parsed["client"] \in Nat
    BY DEF TypeOK
  <2>. QED
    BY <2>1, <2>2, <2>3 DEF Finish
<1>3. parsed'["client"] > 0 => traffic'["client"][1].kind = "preface"
  BY DEF CallsInv, TableInv
<1>4. \A i \in 1..Len(recorded) :
        /\ traffic'["client"][1].kind = "preface"
        /\ OpenedAs(recorded[i].stream, recorded[i].method)
        /\ EndedBy(recorded[i].stream, recorded[i].code)
  BY DEF CallsInv, Genuine
<1>5. CASE started[s] = None
  <2>1. recorded' = recorded
    BY <1>5 DEF Finish
  <2>2. CountedOnce'
    BY <2>1 DEF CallsInv, CountedOnce
  <2>5. ASSUME NEW i \in 1..Len(recorded'), NEW t, NEW m, NEW e,
               t = recorded'[i].stream, m = recorded'[i].method, e = recorded'[i].code
        PROVE  OpenedAs(t, m)' /\ EndedBy(t, e)'
    BY <1>1, <1>4, <2>1, <2>5
  <2>7. \A i \in 1..Len(recorded') : traffic'["client"][1].kind = "preface"
    BY <1>4, <2>1
  <2>6. Genuine'
    BY <2>5, <2>7 DEF Genuine, OpenedAs, EndedBy
  <2>3. ASSUME NEW t \in Streams, NEW m, m = started'[t], m # None
        PROVE  OpenedAs(t, m)' /\ \A i \in 1..Len(recorded') : recorded'[i].stream # t
    <3>1. started[t] = m
      BY <1>2, <2>3
    <3>. QED
      BY <1>1, <2>1, <2>3, <3>1 DEF CallsInv, TableInv
  <2>4. TableInv'
    BY <1>3, <2>3 DEF TableInv, OpenedAs
  <2>. QED
    BY <2>2, <2>4, <2>6 DEF CallsInv
<1>6. CASE started[s] # None
  <2>1. recorded' = Append(recorded, r) /\ r.stream = s /\ r.method = started[s] /\ r.code = c
    BY <1>6 DEF Finish, Rpc
  <2>2. /\ Len(recorded') = Len(recorded) + 1
        /\ \A i \in 1..Len(recorded) : recorded'[i] = recorded[i]
        /\ recorded'[Len(recorded) + 1] = r
    BY <1>2, <2>1
  <2>3. OpenedAs(s, started[s]) /\ \A i \in 1..Len(recorded) : recorded[i].stream # s
    BY <1>6 DEF CallsInv, TableInv
  <2>4. traffic'["client"][1].kind = "preface"
    BY <1>2, <2>3 DEF OpenedAs, CallsInv, TableInv
  <2>5. ASSUME NEW i \in 1..Len(recorded'), NEW t, NEW m, NEW e,
               t = recorded'[i].stream, m = recorded'[i].method, e = recorded'[i].code
        PROVE  OpenedAs(t, m)' /\ EndedBy(t, e)'
    <3>1. CASE i \in 1..Len(recorded)
      BY <1>1, <1>4, <2>2, <2>5, <3>1
    <3>2. CASE i = Len(recorded) + 1
      <4>1. t = s /\ m = started[s] /\ e = c
        BY <2>1, <2>2, <2>5, <3>2
      <4>. QED
        BY <1>1, <2>3, <4>1
    <3>. QED
      BY <1>2, <2>2, <3>1, <3>2
  <2>6. Genuine'
    BY <2>4, <2>5 DEF Genuine, OpenedAs, EndedBy
  <2>7. CountedOnce'
    <3>. SUFFICES ASSUME NEW i \in 1..(Len(recorded) + 1), NEW j \in 1..(Len(recorded) + 1),
                         recorded'[i].stream = recorded'[j].stream
                  PROVE  i = j
      BY <2>2 DEF CountedOnce
    <3>1. CASE i \in 1..Len(recorded) /\ j \in 1..Len(recorded)
      BY <2>2, <3>1 DEF CallsInv, CountedOnce
    <3>2. CASE i = Len(recorded) + 1 \/ j = Len(recorded) + 1
      BY <1>2, <2>1, <2>2, <2>3, <3>2
    <3>. QED
      BY <1>2, <3>1, <3>2
  <2>8. ASSUME NEW t \in Streams, NEW m, m = started'[t], m # None
        PROVE  OpenedAs(t, m)' /\ \A i \in 1..Len(recorded') : recorded'[i].stream # t
    <3>1. t # s /\ started[t] = m
      BY <1>2, <2>8
    <3>2. OpenedAs(t, m) /\ \A i \in 1..Len(recorded) : recorded[i].stream # t
      BY <2>8, <3>1 DEF CallsInv, TableInv
    <3>3. \A i \in 1..(Len(recorded) + 1) : i \in 1..Len(recorded) \/ i = Len(recorded) + 1
      BY <1>2
    <3>. QED
      BY <1>1, <2>1, <2>2, <3>1, <3>2, <3>3
  <2>9. TableInv'
    BY <1>3, <2>8 DEF TableInv, OpenedAs
  <2>. QED
    BY <2>6, <2>7, <2>9 DEF CallsInv
<1>. QED
  BY <1>5, <1>6

LEMMA ParseBackendCalls ==
  ASSUME TypeOK, TypeOK', FeedInv("backend"), CallsInv, ParseBackend
  PROVE  CallsInv'
<1>. DEFINE f == NextFrame("backend")
            k == parsed["backend"] + 1
<1>1. /\ parsed["backend"] \in Nat /\ parsed'["backend"] = k /\ parsed'["client"] = parsed["client"]
      /\ f = traffic["backend"][k] /\ FrameReady("backend") /\ UNCHANGED traffic
  BY DEF ParseBackend, Reads, Returned, NextFrame, TypeOK
<1>2. \A d \in Dirs : parsed'[d] >= parsed[d]
  <2>1. \A d \in Dirs : parsed[d] \in Nat
    BY DEF TypeOK
  <2>. QED
    BY <1>1, <2>1
<1>3. f.stream \in Streams /\ k \in 1..parsed'["backend"]
  BY <1>1, FrameInRange DEF Frames
<1>4. CASE f.kind = "trailers" /\ Finish(f.stream, StatusCode(f.val))
  <2>1. ASSUME NEW s, NEW c, s = f.stream, c = StatusCode(f.val) PROVE EndedBy(s, c)'
    BY <1>1, <1>3, <1>4, <2>1 DEF EndedBy, StatusCode
  <2>. QED
    BY <1>1, <1>2, <1>3, <1>4, <2>1, FinishCalls
<1>5. CASE f.kind = "rst" /\ Finish(f.stream, "canceled")
  <2>1. ASSUME NEW s, s = f.stream PROVE EndedBy(s, "canceled")'
    BY <1>1, <1>3, <1>5, <2>1 DEF EndedBy
  <2>. QED
    BY <1>1, <1>2, <1>3, <1>5, <2>1, FinishCalls
<1>6. CASE UNCHANGED <<started, recorded>>
  <2>1. /\ \A t, m : OpenedAs(t, m) => OpenedAs(t, m)'
        /\ \A t, e : EndedBy(t, e) => EndedBy(t, e)'
    BY <1>1, <1>2, StillTrue
  <2>2. Genuine'
    BY <1>1, <1>6, <2>1 DEF CallsInv, Genuine
  <2>3. CountedOnce'
    BY <1>6 DEF CallsInv, CountedOnce
  <2>4. TableInv'
    BY <1>1, <1>6, <2>1 DEF CallsInv, TableInv
  <2>. QED
    BY <2>2, <2>3, <2>4 DEF CallsInv
<1>. QED
  BY <1>4, <1>5, <1>6 DEF ParseBackend

LEMMA CallsStep ==
  ASSUME TypeOK, TypeOK', \A d \in Dirs : FeedInv(d), CallsInv, [Next]_vars
  PROVE  CallsInv'
<1>1. CASE ParseClient
  BY <1>1, ParseClientCalls
<1>2. CASE ParseBackend
  BY <1>2, ParseBackendCalls
<1>3. CASE UNCHANGED <<traffic, parsed, started, recorded>>
  BY <1>3, CallsKept
<1>. QED
  BY <1>1, <1>2, <1>3 DEF Next, Parser, ConnRead, ClientBytes, BackendBytes, Close, Fetch, ReadEOF,
     ParseFails, vars, feedVars, parseVars

-----------------------------------------------------------------------------
LEMMA InvStep == Inv /\ [Next]_vars => Inv'
BY TypeStep, FeedStep, CallsStep DEF Inv, ObserverInv, CallsInv

LEMMA Invariance == Spec => []Inv
BY InitInv, InvStep, PTL DEF Spec

(***************************************************************************)
(* The observer's fields keep their types, whatever the connection sends   *)
(* and however it is cut into chunks: a method label is "other" or matches *)
(* methodPattern, a code label is "invalid", "canceled" or a string, as    *)
(* the backend spelled it, that Atoi reads as 0 to 16 (statusCode).        *)
(***************************************************************************)
THEOREM TypeCorrect == Spec => []TypeOK
<1>1. Inv => TypeOK
  BY DEF Inv
<1>. QED
  BY <1>1, Invariance, PTL

(***************************************************************************)
(* The queues stay consecutive, the parsers behind their bytes, and the    *)
(* table of RPCs holds streams that were opened and not yet counted.       *)
(***************************************************************************)
THEOREM ObserverInvariant == Spec => []ObserverInv
<1>1. Inv => ObserverInv
  BY DEF Inv
<1>. QED
  BY <1>1, Invariance, PTL

(***************************************************************************)
(* feed.put and feedReader: a parser never skips or repeats a byte, for    *)
(* any size of the queue.                                                  *)
(***************************************************************************)
THEOREM ParserInStep == Spec => []InStep
<1>1. Inv => InStep
  <2>. SUFFICES ASSUME Inv, NEW d \in Dirs, feed[d] # <<>>
                PROVE  Head(feed[d]).from = fetched[d] + 1
    BY DEF InStep
  <2>1. Len(feed[d]) \in Nat \ {0} /\ Head(feed[d]) = feed[d][1]
    BY QueuedChunk DEF Inv
  <2>2. 1 \in 1..Len(feed[d])
    BY <2>1
  <2>. QED
    BY <2>1, <2>2 DEF Inv, ObserverInv, FeedInv
<1>. QED
  BY <1>1, Invariance, PTL

(***************************************************************************)
(* parseClient, parseBackend and finish: every RPC in the metrics was      *)
(* opened on an HTTP/2 connection with its method and ended with its code. *)
(***************************************************************************)
THEOREM RpcsGenuine == Spec => []Genuine
<1>1. Inv => Genuine
  BY DEF Inv
<1>. QED
  BY <1>1, Invariance, PTL

(***************************************************************************)
(* finish deletes what it counts: no stream is counted twice, on any       *)
(* connection that does not reuse a stream identifier.                     *)
(***************************************************************************)
THEOREM RpcsCountedOnce == Spec => []CountedOnce
<1>1. Inv => CountedOnce
  BY DEF Inv
<1>. QED
  BY <1>1, Invariance, PTL

(***************************************************************************)
(* feedReader.Read drains the queue before it reports the end: a parser    *)
(* stopped by Close has had every byte queued before Close.                *)
(***************************************************************************)
THEOREM DrainedAtEnd == Spec => []Drained
<1>1. Inv => Drained
  BY DEF Inv, ObserverInv, FeedInv, Drained
<1>. QED
  BY <1>1, Invariance, PTL
=============================================================================
