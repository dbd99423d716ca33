------------------------- MODULE TunnelStreamProofs --------------------------
(***************************************************************************)
(* Theorems about what the sockets of a relayed session receive: RelayConn *)
(* keeps the order of the bytes, it implements the contract of             *)
(* DuplexStream, and without faults it ends only when both streams have    *)
(* been delivered whole.                                                   *)
(*                                                                         *)
(* The argument is about one direction at a time.  The frames that may     *)
(* still reach f's relay are one queue, Pipe(f): its receive queue and the *)
(* wire behind it.  The items in it (data and the end of the stream) are   *)
(* numbered, the end coming after the last chunk; they continue, without   *)
(* gap, what f's relay has taken.  Every step leaves the queue as it is,   *)
(* appends the next item or a frame that is not one, takes the first       *)
(* frame, drops one that is not an item, or cuts the queue off.            *)
(***************************************************************************)
EXTENDS TunnelSessionProofs

-----------------------------------------------------------------------------
(* The frames in flight in one direction, as one queue.                    *)

\* A data frame is the item with its chunk's number; the end of a stream of
\* z chunks is the item after the last of them.
Item(fr) == fr.type \in {"data", "eof"}
Pos(fr, z) == IF fr.type = "data" THEN fr.n ELSE z + 1

\* Item k is in the queue before place i.
Before(s, i, k, z) == \E j \in 1..(i - 1) : Item(s[j]) /\ Pos(s[j], z) = k

\* The items of queue s follow a, without gap, repetition or reordering, and
\* do not pass b.
Link1(s, i, a, b, z) ==
  /\ a < Pos(s[i], z) /\ Pos(s[i], z) <= b
  /\ s[i].type = "data" => s[i].n <= z
  /\ \A j \in 1..(i - 1) : Item(s[j]) => Pos(s[j], z) < Pos(s[i], z)
  /\ \A k \in (a + 1)..(Pos(s[i], z) - 1) : Before(s, i, k, z)
Chain(s, a, b, z) ==
  /\ a <= b
  /\ \A i \in 1..Len(s) : Item(s[i]) => Link1(s, i, a, b, z)

\* Every item from a + 1 to b is in queue s.
Full(s, a, b, z) == \A k \in (a + 1)..b : Before(s, Len(s) + 1, k, z)

\* dispatch still queues what arrives at f.
Flows(f) == linkOpen[f] /\ sess[f] # "removed"

\* What e's relay may still receive: its queue, and the wire behind it.
Pipe(f) == recv[f] \o (IF Flows(f) THEN wire[Peer(f)] ELSE <<>>)

\* The items f's relay has taken, and those e's relay has written.
Got(f) == Len(out[f]) + B(main[f] = "writing") + B(remoteEOF[f])
Sent(e) == nread[e] - B(rd[e] \in {"credit", "write"}) + B(localEOF[e])

\* e's relay can still write to f, and all its writes have succeeded.
Writes(e) == /\ linkOpen[e] /\ Flows(Peer(e))
             /\ rd[e] \notin {"err", "gone"} \/ localEOF[e]

-----------------------------------------------------------------------------
(* The invariant.                                                          *)

\* The open frame comes first, once, and nothing reaches a session before it.
OpenFirst(f) ==
  /\ main[f] = "none" <=> sess[f] = "none"
  /\ \A i \in 1..Len(wire[Peer(f)]) :
        wire[Peer(f)][i].type = "open" => main[f] = "none" /\ i = 1
  /\ main[f] = "none" /\ linkOpen[f] =>
        wire[Peer(f)] # <<>> /\ Head(wire[Peer(f)]).type = "open"

\* The reader goroutine starts after the dial; it is over when the end of
\* the local stream has been sent; RelayConn leaves no socket open.
ReaderOK(e) ==
  /\ main[e] \in {"none", "dial"} => rd[e] = "none"
  /\ rd[e] \in {"credit", "write"} => nread[e] > 0
  /\ localEOF[e] => rd[e] = "gone"
  /\ Ended(e) \/ main[e] \in {"none", "dial"} => conn[e] = "closed"

\* What the socket at f has been given.
OutOK(f) ==
  /\ \A i \in 1..Len(out[f]) : out[f][i] = i
  /\ Len(out[f]) <= nread[Peer(f)]
  /\ main[f] = "writing" => hold[f] = Len(out[f]) + 1 /\ hold[f] <= nread[Peer(f)]
  /\ remoteEOF[f] => localEOF[Peer(f)] /\ Len(out[f]) = nread[Peer(f)]

\* What is in flight towards f continues what f's relay has taken.
PipeOK(f) == ~Ended(f) =>
  /\ Chain(Pipe(f), Got(f), Sent(Peer(f)), nread[Peer(f)])
  /\ Writes(Peer(f)) => Full(Pipe(f), Got(f), Sent(Peer(f)), nread[Peer(f)])

StreamInv ==
  /\ TypeOK
  /\ \A f \in Ends : OpenFirst(f) /\ ReaderOK(f) /\ OutOK(f) /\ PipeOK(f)

-----------------------------------------------------------------------------
(* What the operations on the two queues do to a chain.                    *)

\* The position of an item is a number.
LEMMA PosInt ==
  ASSUME NEW s \in Seq(Frames), NEW z \in Int
  PROVE  \A i \in 1..Len(s) : s[i] \in Frames /\ Pos(s[i], z) \in Int
<1>1. \A i \in 1..Len(s) : s[i] \in Frames
  BY ElementOfSeq
<1>2. \A fr \in Frames : Pos(fr, z) \in Int
  BY DEF Frames, Pos
<1>. QED
  BY <1>1, <1>2

\* A bound on what was written may grow.
LEMMA ChainWeaken ==
  ASSUME NEW s \in Seq(Frames), NEW a \in Int, NEW b \in Int, NEW c \in Int, NEW z \in Int,
         Chain(s, a, b, z), b <= c
  PROVE  Chain(s, a, c, z)
<1>1. \A i \in 1..Len(s) : Pos(s[i], z) \in Int
  BY PosInt
<1>2. \A i \in 1..Len(s) : Item(s[i]) => Link1(s, i, a, c, z)
  <2>. SUFFICES ASSUME NEW i \in 1..Len(s), Item(s[i])
                PROVE  Link1(s, i, a, c, z)
    OBVIOUS
  <2>1. Link1(s, i, a, b, z) /\ Pos(s[i], z) \in Int
    BY <1>1 DEF Chain
  <2>2. Pos(s[i], z) <= c
    BY <2>1 DEF Link1
  <2>. QED
    BY <2>1, <2>2 DEF Link1
<1>. QED
  BY <1>2 DEF Chain

\* Another chunk is read: the end moves, and no end was in flight.
LEMMA ChainMore ==
  ASSUME NEW s \in Seq(Frames), NEW a \in Int, NEW b \in Int, NEW z \in Int,
         Chain(s, a, b, z), b <= z
  PROVE  /\ Chain(s, a, b, z + 1)
         /\ Full(s, a, b, z) => Full(s, a, b, z + 1)
<1>1. \A i \in 1..Len(s) : Item(s[i]) => Pos(s[i], z) = Pos(s[i], z + 1) /\ s[i].type = "data" 
                                           /\ s[i].n <= z /\ s[i].n \in Int
  <2>. TAKE i \in 1..Len(s)
  <2>1. s[i] \in Frames /\ Pos(s[i], z) \in Int
    BY PosInt
  <2>2. s[i].n \in Int
    BY <2>1 DEF Frames
  <2>. QED
    BY <2>1, <2>2 DEF Chain, Link1, Pos, Item
<1>2. \A i \in 1..(Len(s) + 1), k \in Int : Before(s, i, k, z) => Before(s, i, k, z + 1)
  BY <1>1, LenProperties DEF Before
<1>3. \A i \in 1..Len(s) : Item(s[i]) => Link1(s, i, a, b, z + 1)
  <2>. SUFFICES ASSUME NEW i \in 1..Len(s), Item(s[i])
                PROVE  Link1(s, i, a, b, z + 1)
    OBVIOUS
  <2>1. Link1(s, i, a, b, z) /\ Len(s) \in Nat
    BY LenProperties DEF Chain
  <2>2. a < Pos(s[i], z + 1) /\ Pos(s[i], z + 1) <= b /\ s[i].n <= z + 1
    BY <1>1, <2>1 DEF Link1
  <2>3. \A j \in 1..(i - 1) : Item(s[j]) => Pos(s[j], z + 1) < Pos(s[i], z + 1)
    BY <1>1, <2>1 DEF Link1
  <2>4. \A k \in (a + 1)..(Pos(s[i], z + 1) - 1) : Before(s, i, k, z + 1)
    BY <1>1, <1>2, <2>1 DEF Link1
  <2>. QED
    BY <2>2, <2>3, <2>4 DEF Link1
<1>4. Full(s, a, b, z) => Full(s, a, b, z + 1)
  BY <1>2, LenProperties DEF Full
<1>. QED
  BY <1>3, <1>4 DEF Chain

\* WriteFrame of the next item.
LEMMA ChainAppend ==
  ASSUME NEW s \in Seq(Frames), NEW fr \in Frames,
         NEW a \in Int, NEW b \in Int, NEW z \in Int,
         Chain(s, a, b, z), Full(s, a, b, z),
         Item(fr), Pos(fr, z) = b + 1, fr.type = "data" => fr.n <= z
  PROVE  Chain(Append(s, fr), a, b + 1, z) /\ Full(Append(s, fr), a, b + 1, z)
<1> DEFINE t == Append(s, fr)
<1>1. /\ Len(s) \in Nat /\ Len(t) = Len(s) + 1 /\ t[Len(s) + 1] = fr
      /\ \A i \in 1..Len(s) : t[i] = s[i]
  BY AppendProperties, LenProperties
<1>2. \A i \in 1..Len(s) : Pos(s[i], z) \in Int
  BY PosInt
<1>. HIDE DEF t
<1>3. \A i \in 1..(Len(s) + 1), k \in Int : Before(s, i, k, z) => Before(t, i, k, z)
  BY <1>1 DEF Before
<1>4. \A i \in 1..Len(s) : Item(s[i]) => Link1(t, i, a, b + 1, z)
  <2>. SUFFICES ASSUME NEW i \in 1..Len(s), Item(s[i])
                PROVE  Link1(t, i, a, b + 1, z)
    OBVIOUS
  <2>1. Link1(s, i, a, b, z) /\ t[i] = s[i] /\ Pos(s[i], z) \in Int
    BY <1>1, <1>2 DEF Chain
  <2>2. \A j \in 1..(i - 1) : t[j] = s[j] /\ Pos(s[j], z) \in Int
    BY <1>1, <1>2
  <2>3. \A k \in (a + 1)..(Pos(s[i], z) - 1) : Before(t, i, k, z)
    BY <1>1, <1>3, <2>1 DEF Link1
  <2>. QED
    BY <2>1, <2>2, <2>3 DEF Link1
<1>5. Link1(t, Len(s) + 1, a, b + 1, z)
  <2>1. \A j \in 1..Len(s) : Item(s[j]) => Pos(s[j], z) <= b
    BY DEF Chain, Link1
  <2>2. \A j \in 1..Len(s) : Item(t[j]) => Pos(t[j], z) < b + 1
    BY <1>1, <1>2, <2>1
  <2>3. \A k \in (a + 1)..b : Before(t, Len(s) + 1, k, z)
    BY <1>1, <1>3 DEF Full
  <2>4. a < b + 1
    BY DEF Chain
  <2>. QED
    BY <1>1, <2>2, <2>3, <2>4 DEF Link1
<1>6. Chain(t, a, b + 1, z)
  BY <1>1, <1>4, <1>5 DEF Chain
<1>7. Full(t, a, b + 1, z)
  <2>. SUFFICES ASSUME NEW k \in (a + 1)..(b + 1)
                PROVE  Before(t, Len(t) + 1, k, z)
    BY DEF Full
  <2>1. CASE k = b + 1
    BY <1>1, <2>1 DEF Before
  <2>2. CASE k # b + 1
    <3>1. Before(t, Len(s) + 1, k, z)
      BY <1>1, <1>3, <2>2 DEF Full
    <3>. QED
      BY <1>1, <3>1 DEF Before
  <2>. QED
    BY <2>1, <2>2
<1>. QED
  BY <1>6, <1>7 DEF t

\* WriteFrame of a frame that is not an item.
LEMMA ChainSkip ==
  ASSUME NEW s \in Seq(Frames), NEW fr \in Frames,
         NEW a \in Int, NEW b \in Int, NEW z \in Int,
         Chain(s, a, b, z), ~Item(fr)
  PROVE  /\ Chain(Append(s, fr), a, b, z)
         /\ Full(s, a, b, z) => Full(Append(s, fr), a, b, z)
<1> DEFINE t == Append(s, fr)
<1>1. /\ Len(s) \in Nat /\ Len(t) = Len(s) + 1 /\ t[Len(s) + 1] = fr
      /\ \A i \in 1..Len(s) : t[i] = s[i]
  BY AppendProperties, LenProperties
<1>2. \A i \in 1..Len(s) : Pos(s[i], z) \in Int
  BY PosInt
<1>. HIDE DEF t
<1>3. \A i \in 1..(Len(s) + 1), k \in Int : Before(s, i, k, z) => Before(t, i, k, z)
  BY <1>1 DEF Before
<1>4. \A i \in 1..Len(s) : Item(s[i]) => Link1(t, i, a, b, z)
  <2>. SUFFICES ASSUME NEW i \in 1..Len(s), Item(s[i])
                PROVE  Link1(t, i, a, b, z)
    OBVIOUS
  <2>1. Link1(s, i, a, b, z) /\ t[i] = s[i] /\ Pos(s[i], z) \in Int
    BY <1>1, <1>2 DEF Chain
  <2>2. \A j \in 1..(i - 1) : t[j] = s[j] /\ Pos(s[j], z) \in Int
    BY <1>1, <1>2
  <2>3. \A k \in (a + 1)..(Pos(s[i], z) - 1) : Before(t, i, k, z)
    BY <1>1, <1>3, <2>1 DEF Link1
  <2>. QED
    BY <2>1, <2>2, <2>3 DEF Link1
<1>5. Chain(t, a, b, z)
  BY <1>1, <1>4 DEF Chain
<1>6. Full(s, a, b, z) => Full(t, a, b, z)
  <2>. SUFFICES ASSUME Full(s, a, b, z), NEW k \in (a + 1)..b
                PROVE  Before(t, Len(t) + 1, k, z)
    BY DEF Full
  <2>1. Before(t, Len(s) + 1, k, z)
    BY <1>1, <1>3 DEF Full
  <2>. QED
    BY <1>1, <2>1 DEF Before
<1>. QED
  BY <1>5, <1>6 DEF t

\* What is lost behind a queue leaves the queue a chain.
LEMMA ChainPrefix ==
  ASSUME NEW r \in Seq(Frames), NEW w \in Seq(Frames),
         NEW a \in Int, NEW b \in Int, NEW z \in Int,
         Chain(r \o w, a, b, z)
  PROVE  Chain(r, a, b, z)
<1> DEFINE t == r \o w
<1>1. /\ Len(r) \in Nat /\ Len(w) \in Nat /\ Len(t) = Len(r) + Len(w)
      /\ \A i \in 1..Len(r) : t[i] = r[i]
  <2>1. Len(r) \in Nat /\ Len(w) \in Nat
    BY LenProperties
  <2>. QED
    BY <2>1, ConcatProperties
<1>. HIDE DEF t
<1>2. \A i \in 1..Len(r) : Item(r[i]) => Link1(r, i, a, b, z)
  <2>. SUFFICES ASSUME NEW i \in 1..Len(r), Item(r[i])
                PROVE  Link1(r, i, a, b, z)
    OBVIOUS
  <2>1. Link1(t, i, a, b, z) /\ t[i] = r[i]
    BY <1>1 DEF Chain, t
  <2>2. \A j \in 1..(i - 1) : t[j] = r[j]
    BY <1>1
  <2>3. \A k : Before(t, i, k, z) => Before(r, i, k, z)
    BY <2>2 DEF Before
  <2>. QED
    BY <2>1, <2>2, <2>3 DEF Link1
<1>. QED
  BY <1>2 DEF Chain

\* A frame that is not an item leaves the middle of a queue.
LEMMA ChainRemove ==
  ASSUME NEW s \in Seq(Frames), NEW u \in Seq(Frames), NEW m \in 1..Len(s),
         NEW a \in Int, NEW b \in Int, NEW z \in Int,
         Chain(s, a, b, z), ~Item(s[m]),
         Len(u) = Len(s) - 1,
         \A i \in 1..(m - 1) : u[i] = s[i],
         \A i \in m..Len(u) : u[i] = s[i + 1]
  PROVE  /\ Chain(u, a, b, z)
         /\ Full(s, a, b, z) => Full(u, a, b, z)
<1>1. Len(s) \in Nat /\ Len(u) \in Nat
  BY LenProperties
<1>2. \A i \in 1..Len(s) : Pos(s[i], z) \in Int
  BY PosInt
<1>3. ASSUME NEW i \in 1..(Len(s) + 1), NEW k \in Int, Before(s, i, k, z)
      PROVE  Before(u, IF i > m THEN i - 1 ELSE i, k, z)
  <2>1. PICK j \in 1..(i - 1) : Item(s[j]) /\ Pos(s[j], z) = k
    BY <1>3 DEF Before
  <2>2. j # m /\ j \in 1..Len(s)
    BY <1>1, <2>1
  <2>3. CASE j < m
    BY <1>1, <2>1, <2>3 DEF Before
  <2>4. CASE j > m
    <3>1. u[j - 1] = s[j] /\ j - 1 \in 1..(i - 2) /\ i > m
      BY <1>1, <2>1, <2>2, <2>4
    <3>. QED
      BY <2>1, <3>1 DEF Before
  <2>. QED
    BY <2>2, <2>3, <2>4
<1>4. \A i \in 1..Len(u) : Item(u[i]) => Link1(u, i, a, b, z)
  <2>. SUFFICES ASSUME NEW i \in 1..Len(u), Item(u[i])
                PROVE  Link1(u, i, a, b, z)
    OBVIOUS
  <2>1. CASE i < m
    <3>1. i \in 1..Len(s) /\ u[i] = s[i] /\ \A j \in 1..(i - 1) : u[j] = s[j]
      BY <1>1, <2>1
    <3>2. Link1(s, i, a, b, z) /\ Pos(s[i], z) \in Int
      BY <1>2, <3>1 DEF Chain
    <3>3. \A k : Before(s, i, k, z) => Before(u, i, k, z)
      BY <3>1 DEF Before
    <3>. QED
      BY <3>1, <3>2, <3>3 DEF Link1
  <2>2. CASE i >= m
    <3>1. i + 1 \in 1..Len(s) /\ u[i] = s[i + 1]
      BY <1>1, <2>2
    <3>2. Link1(s, i + 1, a, b, z) /\ Pos(s[i + 1], z) \in Int
      BY <1>2, <3>1 DEF Chain
    <3>3. ASSUME NEW j \in 1..(i - 1), Item(u[j])
          PROVE  Pos(u[j], z) < Pos(u[i], z)
      <4>1. (j < m => u[j] = s[j]) /\ (j >= m => u[j] = s[j + 1])
        BY <1>1
      <4>2. j \in 1..((i + 1) - 1) /\ j + 1 \in 1..((i + 1) - 1)
        BY <1>1
      <4>3. \A l \in 1..((i + 1) - 1) : Item(s[l]) => Pos(s[l], z) < Pos(s[i + 1], z)
        BY <3>2 DEF Link1
      <4>4. CASE j < m
        BY <3>1, <3>3, <4>1, <4>2, <4>3, <4>4
      <4>5. CASE j >= m
        BY <3>1, <3>3, <4>1, <4>2, <4>3, <4>5
      <4>. QED
        BY <1>1, <4>4, <4>5
    <3>4. ASSUME NEW k \in (a + 1)..(Pos(s[i + 1], z) - 1)
          PROVE  Before(u, i, k, z)
      <4>1. Before(s, i + 1, k, z) /\ k \in Int
        BY <3>2 DEF Link1
      <4>2. Before(u, IF i + 1 > m THEN (i + 1) - 1 ELSE i + 1, k, z)
        BY <1>1, <1>3, <3>1, <4>1
      <4>. QED
        BY <2>2, <4>2
    <3>. QED
      BY <3>1, <3>2, <3>3, <3>4 DEF Link1
  <2>. QED
    BY <2>1, <2>2
<1>5. Full(s, a, b, z) => Full(u, a, b, z)
  <2>. SUFFICES ASSUME Full(s, a, b, z), NEW k \in (a + 1)..b
                PROVE  Before(u, Len(u) + 1, k, z)
    BY DEF Full
  <2>1. Before(s, Len(s) + 1, k, z) /\ k \in Int
    BY DEF Full
  <2>2. Len(s) + 1 \in 1..(Len(s) + 1)
    BY <1>1
  <2>3. Before(u, IF Len(s) + 1 > m THEN (Len(s) + 1) - 1 ELSE Len(s) + 1, k, z)
    BY <1>3, <2>1, <2>2, Zenon
  <2>4. Len(s) + 1 > m /\ (Len(s) + 1) - 1 = Len(u) + 1
    BY <1>1
  <2>. QED
    BY <2>3, <2>4
<1>. QED
  BY <1>4, <1>5 DEF Chain

\* Taking the first frame of the wire takes it from the middle of the two
\* queues together.
LEMMA DropPlaces ==
  ASSUME NEW r \in Seq(Frames), NEW w \in Seq(Frames), w # <<>>
  PROVE  /\ r \o w \in Seq(Frames) /\ r \o Tail(w) \in Seq(Frames)
         /\ Len(r) + 1 \in 1..Len(r \o w) /\ (r \o w)[Len(r) + 1] = Head(w)
         /\ Len(r \o Tail(w)) = Len(r \o w) - 1
         /\ \A i \in 1..((Len(r) + 1) - 1) : (r \o Tail(w))[i] = (r \o w)[i]
         /\ \A i \in (Len(r) + 1)..Len(r \o Tail(w)) : (r \o Tail(w))[i] = (r \o w)[i + 1]
<1> DEFINE s == r \o w
           u == r \o Tail(w)
<1>1. /\ Len(r) \in Nat /\ Len(w) \in Nat \ {0} /\ Tail(w) \in Seq(Frames)
      /\ Len(Tail(w)) = Len(w) - 1 /\ Head(w) = w[1]
      /\ \A i \in 1..Len(Tail(w)) : Tail(w)[i] = w[i + 1]
  BY LenProperties, EmptySeq, HeadTailProperties
<1>2. /\ s \in Seq(Frames) /\ Len(s) = Len(r) + Len(w)
      /\ \A i \in 1..Len(s) : s[i] = IF i <= Len(r) THEN r[i] ELSE w[i - Len(r)]
  BY ConcatProperties
<1>3. /\ u \in Seq(Frames) /\ Len(u) = Len(r) + Len(w) - 1
      /\ \A i \in 1..Len(u) : u[i] = IF i <= Len(r) THEN r[i] ELSE Tail(w)[i - Len(r)]
  BY <1>1, ConcatProperties
<1>. HIDE DEF s, u
<1>4. Len(r) + 1 \in 1..Len(s) /\ s[Len(r) + 1] = Head(w)
  BY <1>1, <1>2
<1>5. \A i \in 1..Len(r) : u[i] = s[i]
  <2>. SUFFICES ASSUME NEW i \in 1..Len(r) PROVE u[i] = s[i]
    OBVIOUS
  <2>1. i \in 1..Len(s) /\ i \in 1..Len(u) /\ i <= Len(r)
    BY <1>1, <1>2, <1>3
  <2>2. s[i] = r[i] /\ u[i] = r[i]
    BY <1>2, <1>3, <2>1
  <2>. QED
    BY <2>2
<1>6. \A i \in (Len(r) + 1)..Len(u) : u[i] = s[i + 1]
  <2>. SUFFICES ASSUME NEW i \in (Len(r) + 1)..Len(u) PROVE u[i] = s[i + 1]
    OBVIOUS
  <2>1. i - Len(r) \in 1..Len(Tail(w))
    BY <1>1, <1>3
  <2>2. u[i] = Tail(w)[i - Len(r)] /\ s[i + 1] = w[(i - Len(r)) + 1]
    BY <1>1, <1>2, <1>3
  <2>. QED
    BY <1>1, <2>1, <2>2
<1>7. Len(u) = Len(s) - 1 /\ (Len(r) + 1) - 1 = Len(r)
  BY <1>1, <1>2, <1>3
<1>8. \A i \in 1..((Len(r) + 1) - 1) : u[i] = s[i]
  BY <1>5, <1>7
<1>9. /\ s \in Seq(Frames) /\ u \in Seq(Frames)
      /\ Len(r) + 1 \in 1..Len(s) /\ s[Len(r) + 1] = Head(w)
      /\ Len(u) = Len(s) - 1
      /\ \A i \in 1..((Len(r) + 1) - 1) : u[i] = s[i]
      /\ \A i \in (Len(r) + 1)..Len(u) : u[i] = s[i + 1]
  BY <1>2, <1>3, <1>4, <1>6, <1>7, <1>8
<1>. QED
  BY <1>9, Zenon DEF s, u

\* The read loop takes a frame that is not an item from the wire.
LEMMA ChainDrop ==
  ASSUME NEW r \in Seq(Frames), NEW w \in Seq(Frames), w # <<>>,
         NEW a \in Int, NEW b \in Int, NEW z \in Int,
         Chain(r \o w, a, b, z), ~Item(Head(w))
  PROVE  /\ Chain(r \o Tail(w), a, b, z)
         /\ Full(r \o w, a, b, z) => Full(r \o Tail(w), a, b, z)
<1> DEFINE s == r \o w
           u == r \o Tail(w)
           m == Len(r) + 1
<1>1. /\ s \in Seq(Frames) /\ u \in Seq(Frames) /\ m \in 1..Len(s) /\ s[m] = Head(w)
      /\ Len(u) = Len(s) - 1
      /\ \A i \in 1..(m - 1) : u[i] = s[i]
      /\ \A i \in m..Len(u) : u[i] = s[i + 1]
  BY DropPlaces, Zenon
<1>2. Chain(s, a, b, z)
  OBVIOUS
<1>. HIDE DEF s, u, m
<1>3. ~Item(s[m])
  BY <1>1
<1>4. Chain(u, a, b, z) /\ (Full(s, a, b, z) => Full(u, a, b, z))
  BY <1>1, <1>2, <1>3, ChainRemove
<1>. QED
  BY <1>4 DEF s, u

\* The select loop takes the first frame: the next item, or none.
LEMMA ChainTake ==
  ASSUME NEW s \in Seq(Frames), s # <<>>,
         NEW a \in Int, NEW b \in Int, NEW z \in Int, Chain(s, a, b, z)
  PROVE  /\ ~Item(Head(s)) => /\ Chain(Tail(s), a, b, z)
                              /\ Full(s, a, b, z) => Full(Tail(s), a, b, z)
         /\ Item(Head(s)) => /\ Pos(Head(s), z) = a + 1 /\ a + 1 <= b
                             /\ Head(s).type = "data" => Head(s).n <= z
                             /\ Chain(Tail(s), a + 1, b, z)
                             /\ Full(s, a, b, z) => Full(Tail(s), a + 1, b, z)
<1> DEFINE u == Tail(s)
<1>1. /\ Len(s) \in Nat \ {0} /\ u \in Seq(Frames) /\ Len(u) = Len(s) - 1
      /\ Head(s) = s[1] /\ \A i \in 1..Len(u) : u[i] = s[i + 1]
  BY LenProperties, EmptySeq, HeadTailProperties
<1>2. \A i \in 1..Len(s) : Pos(s[i], z) \in Int
  BY PosInt
<1>. HIDE DEF u
<1>3. ASSUME ~Item(Head(s))
      PROVE  Chain(u, a, b, z) /\ (Full(s, a, b, z) => Full(u, a, b, z))
  <2>1. 1 \in 1..Len(s) /\ ~Item(s[1]) /\ Len(u) = Len(s) - 1
    BY <1>1, <1>3
  <2>2. \A i \in 1..(1 - 1) : u[i] = s[i]
    OBVIOUS
  <2>. QED
    BY <1>1, <2>1, <2>2, ChainRemove
<1>4. ASSUME Item(Head(s))
      PROVE  /\ Pos(Head(s), z) = a + 1 /\ a + 1 <= b
             /\ Head(s).type = "data" => Head(s).n <= z
             /\ Chain(u, a + 1, b, z)
             /\ Full(s, a, b, z) => Full(u, a + 1, b, z)
  <2>1. Link1(s, 1, a, b, z) /\ Item(s[1]) /\ Pos(s[1], z) \in Int
    BY <1>1, <1>2, <1>4 DEF Chain
  <2>2. Pos(s[1], z) = a + 1 /\ a + 1 <= b /\ (s[1].type = "data" => s[1].n <= z)
    <3>1. \A k : ~Before(s, 1, k, z)
      BY DEF Before
    <3>2. ~(a + 1 \in (a + 1)..(Pos(s[1], z) - 1))
      BY <2>1, <3>1 DEF Link1
    <3>. QED
      BY <2>1, <3>2 DEF Link1
  <2>3. ASSUME NEW i \in 1..(Len(u) + 1), NEW k \in Int, k # a + 1, Before(s, i + 1, k, z)
        PROVE  Before(u, i, k, z)
    <3>1. PICK j \in 1..i : Item(s[j]) /\ Pos(s[j], z) = k
      BY <2>3 DEF Before
    <3>2. j # 1 /\ j - 1 \in 1..(i - 1) /\ u[j - 1] = s[j]
      BY <1>1, <2>2, <2>3, <3>1
    <3>. QED
      BY <3>1, <3>2 DEF Before
  <2>4. \A i \in 1..Len(u) : Item(u[i]) => Link1(u, i, a + 1, b, z)
    <3>. SUFFICES ASSUME NEW i \in 1..Len(u), Item(u[i])
                  PROVE  Link1(u, i, a + 1, b, z)
      OBVIOUS
    <3>1. i + 1 \in 1..Len(s) /\ u[i] = s[i + 1] /\ \A j \in 1..(i - 1) : u[j] = s[j + 1]
      BY <1>1
    <3>2. Link1(s, i + 1, a, b, z) /\ Pos(s[i + 1], z) \in Int
      BY <1>2, <3>1 DEF Chain
    <3>3. Pos(s[1], z) < Pos(s[i + 1], z)
      BY <2>1, <3>2 DEF Link1
    <3>4. \A j \in 1..(i - 1) : Item(u[j]) => Pos(u[j], z) < Pos(u[i], z)
      <4>. SUFFICES ASSUME NEW j \in 1..(i - 1), Item(u[j])
                    PROVE  Pos(u[j], z) < Pos(u[i], z)
        OBVIOUS
      <4>1. j + 1 \in 1..((i + 1) - 1) /\ u[j] = s[j + 1]
        BY <3>1
      <4>. QED
        BY <3>1, <3>2, <4>1 DEF Link1
    <3>5. \A k \in (a + 1 + 1)..(Pos(u[i], z) - 1) : Before(u, i, k, z)
      <4>. SUFFICES ASSUME NEW k \in (a + 1 + 1)..(Pos(u[i], z) - 1)
                    PROVE  Before(u, i, k, z)
        OBVIOUS
      <4>1. Before(s, i + 1, k, z) /\ k \in Int /\ k # a + 1
        BY <3>1, <3>2 DEF Link1
      <4>. QED
        BY <1>1, <2>3, <4>1
    <3>. QED
      BY <2>2, <3>1, <3>2, <3>3, <3>4, <3>5 DEF Link1
  <2>5. Full(s, a, b, z) => Full(u, a + 1, b, z)
    <3>. SUFFICES ASSUME Full(s, a, b, z), NEW k \in (a + 1 + 1)..b
                  PROVE  Before(u, Len(u) + 1, k, z)
      BY DEF Full
    <3>1. Before(s, (Len(u) + 1) + 1, k, z) /\ k \in Int /\ k # a + 1
      BY <1>1 DEF Full
    <3>. QED
      BY <1>1, <2>3, <3>1
  <2>. QED
    BY <1>1, <2>2, <2>4, <2>5 DEF Chain
<1>. QED
  BY <1>3, <1>4 DEF u

\* Moving a frame from the head of the wire to the end of the receive queue
\* leaves the two together as they are.
LEMMA MoveFrame ==
  ASSUME NEW r \in Seq(Frames), NEW w \in Seq(Frames), w # <<>>
  PROVE  Append(r, Head(w)) \o Tail(w) = r \o w
<1>1. Len(r) \in Nat /\ Len(w) \in Nat
  BY LenProperties
<1>2. /\ r \o w \in Seq(Frames) /\ Len(r \o w) = Len(r) + Len(w)
      /\ \A i \in 1..(Len(r) + Len(w)) : (r \o w)[i] = IF i <= Len(r) THEN r[i] ELSE w[i - Len(r)]
  BY ConcatProperties
<1>11. Head(w) \in Frames /\ Tail(w) \in Seq(Frames) /\ w = <<Head(w)>> \o Tail(w)
  <2>1. /\ Head(w) \in Frames /\ Tail(w) \in Seq(Frames) /\ Len(Tail(w)) = Len(w) - 1
        /\ \A i \in 1..Len(Tail(w)) : Tail(w)[i] = w[i + 1]
        /\ Head(w) = w[1] /\ Len(w) # 0
    BY EmptySeq, HeadTailProperties
  <2>2. <<Head(w)>> \in Seq(Frames) /\ Len(<<Head(w)>>) = 1 /\ <<Head(w)>>[1] = Head(w)
    BY <2>1
  <2>3. /\ <<Head(w)>> \o Tail(w) \in Seq(Frames)
        /\ Len(<<Head(w)>> \o Tail(w)) = 1 + Len(Tail(w))
        /\ \A i \in 1..(1 + Len(Tail(w))) : (<<Head(w)>> \o Tail(w))[i] =
             IF i <= 1 THEN <<Head(w)>>[i] ELSE Tail(w)[i - 1]
    BY <2>1, <2>2, ConcatProperties
  <2>4. \A i \in 1..Len(w) : w[i] = (<<Head(w)>> \o Tail(w))[i]
    BY <1>1, <2>1, <2>2, <2>3
  <2>5. Len(w) = Len(<<Head(w)>> \o Tail(w))
    BY <1>1, <2>1, <2>3
  <2>. QED
    BY <2>1, <2>3, <2>4, <2>5, SeqEqual
<1>12. Append(r, Head(w)) = r \o <<Head(w)>>
  BY <1>11, AppendIsConcat
<1>13. <<Head(w)>> \in Seq(Frames)
  BY <1>11
<1>14. (r \o <<Head(w)>>) \o Tail(w) = r \o (<<Head(w)>> \o Tail(w))
  BY <1>11, <1>13, ConcatAssociative
<1>. QED
  BY <1>11, <1>12, <1>14

\* Taking the first frame of the receive queue takes it from the two together.
LEMMA TakeFirst ==
  ASSUME NEW r \in Seq(Frames), NEW w \in Seq(Frames), r # <<>>
  PROVE  Head(r \o w) = Head(r) /\ Tail(r \o w) = Tail(r) \o w /\ r \o w # <<>>
<1>1. Len(r) \in Nat /\ Len(w) \in Nat
  BY LenProperties
<1>2. /\ r \o w \in Seq(Frames) /\ Len(r \o w) = Len(r) + Len(w)
      /\ \A i \in 1..(Len(r) + Len(w)) : (r \o w)[i] = IF i <= Len(r) THEN r[i] ELSE w[i - Len(r)]
  BY ConcatProperties
<1>11. /\ Tail(r) \in Seq(Frames) /\ Len(Tail(r)) = Len(r) - 1 /\ Len(r) # 0
      /\ \A i \in 1..Len(Tail(r)) : Tail(r)[i] = r[i + 1]
      /\ Head(r) = r[1]
  BY EmptySeq, HeadTailProperties
<1>12. r \o w # <<>>
  BY <1>1, <1>2, <1>11
<1>13. Head(r \o w) = Head(r)
  BY <1>1, <1>2, <1>11
<1>14. /\ Tail(r \o w) \in Seq(Frames) /\ Len(Tail(r \o w)) = Len(r \o w) - 1
      /\ \A i \in 1..Len(Tail(r \o w)) : Tail(r \o w)[i] = (r \o w)[i + 1]
  BY <1>2, <1>12, HeadTailProperties
<1>15. /\ Tail(r) \o w \in Seq(Frames) /\ Len(Tail(r) \o w) = Len(Tail(r)) + Len(w)
      /\ \A i \in 1..(Len(Tail(r)) + Len(w)) :
           (Tail(r) \o w)[i] = IF i <= Len(Tail(r)) THEN Tail(r)[i] ELSE w[i - Len(Tail(r))]
  BY <1>11, ConcatProperties
<1>16. Len(Tail(r \o w)) = Len(Tail(r) \o w)
  BY <1>1, <1>2, <1>11, <1>14, <1>15
<1>17. \A i \in 1..Len(Tail(r \o w)) : Tail(r \o w)[i] = (Tail(r) \o w)[i]
  <2>. SUFFICES ASSUME NEW i \in 1..Len(Tail(r \o w))
                PROVE  Tail(r \o w)[i] = (Tail(r) \o w)[i]
    OBVIOUS
  <2>1. i \in 1..(Len(Tail(r)) + Len(w)) /\ i + 1 \in 1..(Len(r) + Len(w))
    BY <1>1, <1>2, <1>11, <1>14
  <2>2. CASE i <= Len(Tail(r))
    <3>1. (Tail(r) \o w)[i] = r[i + 1] /\ (r \o w)[i + 1] = r[i + 1]
      BY <1>1, <1>2, <1>11, <1>15, <2>1, <2>2
    <3>. QED
      BY <1>14, <3>1
  <2>3. CASE i > Len(Tail(r))
    <3>1. (Tail(r) \o w)[i] = w[i - Len(Tail(r))] /\ (r \o w)[i + 1] = w[(i + 1) - Len(r)]
      BY <1>1, <1>2, <1>11, <1>15, <2>1, <2>3
    <3>2. i - Len(Tail(r)) = (i + 1) - Len(r)
      BY <1>1, <1>11
    <3>. QED
      BY <1>14, <3>1, <3>2
  <2>. QED
    BY <1>1, <1>11, <2>2, <2>3
<1>. QED
  BY <1>12, <1>13, <1>14, <1>15, <1>16, <1>17, SeqEqual

\* Writing a frame on the wire adds it to the two together.
LEMMA AddLast ==
  ASSUME NEW r \in Seq(Frames), NEW w \in Seq(Frames), NEW fr \in Frames
  PROVE  r \o Append(w, fr) = Append(r \o w, fr)
<1>2. r \o w \in Seq(Frames)
  BY ConcatProperties
<1>11. <<fr>> \in Seq(Frames)
  OBVIOUS
<1>12. Append(w, fr) = w \o <<fr>> /\ Append(r \o w, fr) = (r \o w) \o <<fr>>
  BY <1>2, AppendIsConcat
<1>13. (r \o w) \o <<fr>> = r \o (w \o <<fr>>)
  BY <1>11, ConcatAssociative
<1>. QED
  BY <1>12, <1>13

-----------------------------------------------------------------------------
USE DEF sessionVars, linkVars, relayVars

-----------------------------------------------------------------------------
(* One direction.                                                          *)

\* The measures of a direction are numbers, its queue a sequence of frames.
LEMMA DirTypes ==
  ASSUME TypeOK, NEW f \in Ends
  PROVE  /\ recv[f] \in Seq(Frames) /\ wire[Peer(f)] \in Seq(Frames) /\ Pipe(f) \in Seq(Frames)
         /\ Got(f) \in Int /\ Sent(Peer(f)) \in Int /\ nread[Peer(f)] \in Int
         /\ Flows(f) => Pipe(f) = recv[f] \o wire[Peer(f)]
         /\ ~Flows(f) => Pipe(f) = recv[f]
<1>1. Peer(f) \in Ends
  BY TwoEnds
<1>2. /\ recv[f] \in Seq(Frames) /\ wire[Peer(f)] \in Seq(Frames)
      /\ out[f] \in Seq(Nat) /\ nread[Peer(f)] \in Nat
  BY <1>1 DEF TypeOK
<1>3. Len(out[f]) \in Nat
  BY <1>2, LenProperties
<1>4. Got(f) \in Int /\ Sent(Peer(f)) \in Int
  BY <1>2, <1>3 DEF Got, Sent, B
<1>5. /\ Flows(f) => Pipe(f) = recv[f] \o wire[Peer(f)]
      /\ ~Flows(f) => Pipe(f) = recv[f] \o <<>>
  BY Zenon DEF Pipe
<1>6. recv[f] \o <<>> = recv[f] /\ recv[f] \o wire[Peer(f)] \in Seq(Frames)
  BY <1>2, ConcatEmptySeq, ConcatProperties
<1>. QED
  <2>1. nread[Peer(f)] \in Int
    BY <1>2
  <2>2. (Flows(f) => Pipe(f) = recv[f] \o wire[Peer(f)]) /\ (~Flows(f) => Pipe(f) = recv[f])
    BY <1>5, <1>6, Zenon
  <2>3. Pipe(f) \in Seq(Frames)
    BY <1>2, <1>6, <2>2, Zenon
  <2>. QED
    BY <1>2, <1>4, <2>1, <2>2, <2>3, Zenon

\* A step that does not touch direction Peer(f) -> f, except that it may
\* write a frame that is not an item, stop the reader or end the relay at f.
Other == {"window", "close", "error"}
QuietDir(f) ==
  /\ recv'[f] = recv[f] /\ out'[f] = out[f] /\ nread'[Peer(f)] = nread[Peer(f)]
  /\ remoteEOF'[f] <=> remoteEOF[f]
  /\ localEOF'[Peer(f)] <=> localEOF[Peer(f)]
  /\ linkOpen'[f] <=> linkOpen[f]
  /\ linkOpen'[Peer(f)] => linkOpen[Peer(f)]
  /\ sess'[f] = "removed" <=> sess[f] = "removed"
  /\ \/ main'[f] = main[f]
     \/ Ended(f)'
     \/ main[f] \in {"none", "dial", "select"} /\ main'[f] \in {"none", "dial", "select"}
  /\ rd'[Peer(f)] \in {"credit", "write"} => rd[Peer(f)] \in {"credit", "write"}
  /\ rd[Peer(f)] \in {"credit", "write"} =>
       \/ rd'[Peer(f)] \in {"credit", "write"}
       \/ rd'[Peer(f)] \in {"err", "gone"} /\ ~localEOF[Peer(f)]
  /\ rd[Peer(f)] \in {"err", "gone"} => rd'[Peer(f)] \in {"err", "gone"}
  /\ \/ wire'[Peer(f)] = wire[Peer(f)]
     \/ \E fr \in Frames : fr.type \in Other /\ wire'[Peer(f)] = Append(wire[Peer(f)], fr)

\* Such a step keeps the direction in order.
LEMMA QuietPipe ==
  ASSUME TypeOK, NEW f \in Ends, PipeOK(f), QuietDir(f)
  PROVE  PipeOK(f)'
<1> DEFINE e == Peer(f)
<1>1. e \in Ends
  BY TwoEnds
<1>2. /\ recv[f] \in Seq(Frames) /\ wire[e] \in Seq(Frames) /\ Pipe(f) \in Seq(Frames)
      /\ Got(f) \in Int /\ Sent(e) \in Int /\ nread[e] \in Int
      /\ Flows(f) => Pipe(f) = recv[f] \o wire[e]
      /\ ~Flows(f) => Pipe(f) = recv[f]
  BY DirTypes
<1>. SUFFICES ASSUME ~Ended(f)'
              PROVE  /\ Chain(Pipe(f)', Got(f)', Sent(e)', nread'[e])
                     /\ Writes(e)' => Full(Pipe(f)', Got(f)', Sent(e)', nread'[e])
  BY DEF PipeOK
<1>3. ~Ended(f) /\ (main'[f] = "writing" <=> main[f] = "writing")
  BY DEF QuietDir, Ended
<1>4. /\ Chain(Pipe(f), Got(f), Sent(e), nread[e])
      /\ Writes(e) => Full(Pipe(f), Got(f), Sent(e), nread[e])
  BY <1>3 DEF PipeOK
<1>5. Got(f)' = Got(f)
  <2>1. B(main'[f] = "writing") = B(main[f] = "writing") /\ B(remoteEOF'[f]) = B(remoteEOF[f])
    BY <1>3 DEF B, QuietDir
  <2>2. out'[f] = out[f]
    BY DEF QuietDir
  <2>. QED
    BY <2>1, <2>2 DEF Got
<1>6. nread'[e] = nread[e]
  BY DEF QuietDir
<1>7. nread[e] \in Nat
  BY <1>1 DEF TypeOK
<1>8. Sent(e)' \in Int /\ Sent(e) <= Sent(e)' /\ (Writes(e)' => Sent(e)' = Sent(e))
  <2>1. localEOF'[e] <=> localEOF[e]
    BY DEF QuietDir
  <2>2. /\ rd'[e] \in {"credit", "write"} => rd[e] \in {"credit", "write"}
        /\ rd[e] \in {"credit", "write"} =>
             \/ rd'[e] \in {"credit", "write"}
             \/ rd'[e] \in {"err", "gone"} /\ ~localEOF[e]
    BY DEF QuietDir
  <2>3. B(localEOF'[e]) = B(localEOF[e]) /\ B(localEOF[e]) \in Int
    BY <2>1 DEF B
  <2>4. CASE rd'[e] \in {"credit", "write"} <=> rd[e] \in {"credit", "write"}
    <3>1. B(rd'[e] \in {"credit", "write"}) = B(rd[e] \in {"credit", "write"})
      BY <2>4 DEF B
    <3>2. Sent(e)' = Sent(e)
      BY <1>6, <2>3, <3>1 DEF Sent
    <3>. QED
      BY <1>2, <3>2
  <2>5. CASE rd[e] \in {"credit", "write"} /\ rd'[e] \in {"err", "gone"} /\ ~localEOF[e]
    <3>1. B(rd'[e] \in {"credit", "write"}) = 0 /\ B(rd[e] \in {"credit", "write"}) = 1
      BY <2>5 DEF B
    <3>2. Sent(e)' = Sent(e) + 1
      BY <1>6, <1>7, <2>3, <3>1 DEF Sent
    <3>3. ~Writes(e)'
      BY <2>1, <2>5 DEF Writes
    <3>. QED
      BY <1>2, <3>2, <3>3
  <2>. QED
    BY <2>2, <2>4, <2>5
<1>9. Flows(f)' <=> Flows(f)
  BY DEF QuietDir, Flows
<1>10. Writes(e)' => Writes(e)
  <2>1. Peer(e) = f
    BY TwoEnds
  <2>. QED
    BY <1>9, <2>1 DEF QuietDir, Writes
<1>11. \/ Pipe(f)' = Pipe(f)
       \/ \E fr \in Frames : ~Item(fr) /\ Pipe(f)' = Append(Pipe(f), fr)
  <2>1. CASE ~Flows(f)
    BY <1>9, <2>1, Zenon DEF QuietDir, Pipe
  <2>2. CASE Flows(f) /\ wire'[e] = wire[e]
    BY <1>9, <2>2, Zenon DEF QuietDir, Pipe
  <2>3. ASSUME NEW fr \in Frames, Flows(f), ~Item(fr), wire'[e] = Append(wire[e], fr)
        PROVE  Pipe(f)' = Append(Pipe(f), fr)
    <3>1. Pipe(f)' = recv[f] \o Append(wire[e], fr)
      BY <1>9, <2>3, Zenon DEF QuietDir, Pipe
    <3>. QED
      <4>1. recv[f] \o Append(wire[e], fr) = Append(recv[f] \o wire[e], fr)
        BY <1>2, AddLast
      <4>2. Pipe(f) = recv[f] \o wire[e]
        BY <1>2, <2>3, Zenon
      <4>. QED
        BY <3>1, <4>1, <4>2, Zenon
  <2>4. \A fr \in Frames : fr.type \in Other => ~Item(fr)
    BY DEF Other, Item
  <2>. QED
    BY <2>1, <2>2, <2>3, <2>4 DEF QuietDir
<1>. HIDE DEF e
<1>12. /\ Chain(Pipe(f)', Got(f), Sent(e), nread[e])
       /\ Writes(e)' => Full(Pipe(f)', Got(f), Sent(e), nread[e])
  <2>1. CASE Pipe(f)' = Pipe(f)
    BY <1>4, <1>10, <2>1
  <2>2. ASSUME NEW fr \in Frames, ~Item(fr), Pipe(f)' = Append(Pipe(f), fr)
        PROVE  /\ Chain(Pipe(f)', Got(f), Sent(e), nread[e])
               /\ Writes(e)' => Full(Pipe(f)', Got(f), Sent(e), nread[e])
    BY <1>2, <1>4, <1>10, <2>2, ChainSkip
  <2>. QED
    BY <1>11, <2>1, <2>2
<1>13. Pipe(f)' \in Seq(Frames)
  BY <1>2, <1>11, AppendProperties
<1>14. Chain(Pipe(f)', Got(f), Sent(e)', nread[e])
  BY <1>2, <1>8, <1>12, <1>13, ChainWeaken
<1>. QED
  BY <1>5, <1>6, <1>8, <1>12, <1>14

\* The queue is cut off behind the receive queue.
LEMMA CutPipe ==
  ASSUME TypeOK, NEW f \in Ends, PipeOK(f), ~Flows(f)',
         recv'[f] = recv[f], out'[f] = out[f], main'[f] = main[f],
         remoteEOF' = remoteEOF, nread' = nread, rd' = rd, localEOF' = localEOF
  PROVE  PipeOK(f)'
<1> DEFINE e == Peer(f)
<1>1. e \in Ends /\ Peer(e) = f
  BY TwoEnds
<1>2. /\ recv[f] \in Seq(Frames) /\ wire[e] \in Seq(Frames)
      /\ Got(f) \in Int /\ Sent(e) \in Int /\ nread[e] \in Int
      /\ Flows(f) => Pipe(f) = recv[f] \o wire[e]
      /\ ~Flows(f) => Pipe(f) = recv[f]
  BY DirTypes
<1>3. Got(f)' = Got(f) /\ Sent(e)' = Sent(e) /\ nread'[e] = nread[e]
  BY DEF Got, Sent
<1>4. Pipe(f)' = recv[f]
  <2>1. Pipe(f)' = recv[f] \o <<>>
    BY Zenon DEF Pipe
  <2>. QED
    BY <1>2, <2>1, ConcatEmptySeq
<1>5. ~Writes(e)'
  BY <1>1 DEF Writes
<1>6. Ended(f)' <=> Ended(f)
  BY DEF Ended
<1>7. ~Ended(f) => Chain(recv[f], Got(f), Sent(e), nread[e])
  <2>1. CASE Flows(f)
    <3>1. ~Ended(f) => Chain(recv[f] \o wire[e], Got(f), Sent(e), nread[e])
      BY <1>2, <2>1 DEF PipeOK
    <3>. QED
      BY <1>2, <3>1, ChainPrefix
  <2>2. CASE ~Flows(f)
    BY <1>2, <2>2 DEF PipeOK
  <2>. QED
    BY <2>1, <2>2
<1>. QED
  BY <1>3, <1>4, <1>5, <1>6, <1>7 DEF PipeOK

\* The read loop takes a frame that is not an item.
LEMMA DropPipe ==
  ASSUME TypeOK, NEW f \in Ends, PipeOK(f),
         wire[Peer(f)] # <<>>, wire'[Peer(f)] = Tail(wire[Peer(f)]), ~Item(Head(wire[Peer(f)])),
         recv' = recv, out' = out, linkOpen' = linkOpen,
         remoteEOF' = remoteEOF, nread' = nread, rd' = rd, localEOF' = localEOF,
         sess'[f] = "removed" <=> sess[f] = "removed",
         main'[f] = main[f] \/ (main[f] = "none" /\ main'[f] = "dial")
  PROVE  PipeOK(f)'
<1> DEFINE e == Peer(f)
<1>1. e \in Ends /\ Peer(e) = f
  BY TwoEnds
<1>2. /\ recv[f] \in Seq(Frames) /\ wire[e] \in Seq(Frames)
      /\ Got(f) \in Int /\ Sent(e) \in Int /\ nread[e] \in Int
      /\ Flows(f) => Pipe(f) = recv[f] \o wire[e]
      /\ ~Flows(f) => Pipe(f) = recv[f]
  BY DirTypes
<1>3. Got(f)' = Got(f) /\ Sent(e)' = Sent(e) /\ nread'[e] = nread[e]
  <2>1. main'[f] = "writing" <=> main[f] = "writing"
    OBVIOUS
  <2>. QED
    BY <2>1 DEF Got, Sent
<1>4. (Flows(f)' <=> Flows(f)) /\ (Writes(e)' <=> Writes(e)) /\ (Ended(f)' <=> Ended(f))
  BY <1>1 DEF Flows, Writes, Ended
<1>5. CASE ~Flows(f)
  <2>1. Pipe(f)' = Pipe(f)
    BY <1>4, <1>5, Zenon DEF Pipe
  <2>. QED
    BY <1>3, <1>4, <2>1 DEF PipeOK
<1>6. CASE Flows(f)
  <2>1. Pipe(f)' = recv[f] \o Tail(wire[e])
    BY <1>4, <1>6, Zenon DEF Pipe
  <2>2. ASSUME Chain(Pipe(f), Got(f), Sent(e), nread[e])
        PROVE  /\ Chain(Pipe(f)', Got(f), Sent(e), nread[e])
               /\ Full(Pipe(f), Got(f), Sent(e), nread[e]) => Full(Pipe(f)', Got(f), Sent(e), nread[e])
    BY <1>2, <1>6, <2>1, <2>2, ChainDrop
  <2>. QED
    BY <1>3, <1>4, <2>2 DEF PipeOK
<1>. QED
  BY <1>5, <1>6

-----------------------------------------------------------------------------
(* The steps of the reader goroutine.                                      *)

\* One end's reader leaves the direction into that end alone.
LEMMA ReaderInto ==
  ASSUME TypeOK, NEW e \in Ends,
         Socket(e) \/ Reader(e) \/ ReadFails(e) \/ SkipCredit(e)
  PROVE  QuietDir(e)
<1>1. Peer(e) \in Ends /\ Peer(e) # e
  BY TwoEnds
<1>2. /\ recv' = recv /\ out' = out /\ remoteEOF' = remoteEOF /\ localEOF' = localEOF
      /\ linkOpen' = linkOpen /\ sess' = sess /\ main' = main
  BY DEF Socket, Reader, ReadFails, ReadChunk, ReadEOF, ReadClosed, ReadErr, TakeCredit,
         SendClosed, WriteData, SkipCredit
<1>3. nread'[Peer(e)] = nread[Peer(e)]
  BY <1>1 DEF TypeOK, Socket, Reader, ReadFails, ReadChunk, ReadEOF, ReadClosed, ReadErr,
              TakeCredit, SendClosed, WriteData, SkipCredit
<1>4. rd'[Peer(e)] = rd[Peer(e)]
  BY <1>1 DEF TypeOK, Socket, Reader, ReadFails, ReadChunk, ReadEOF, ReadClosed, ReadErr,
              TakeCredit, SendClosed, WriteData, SkipCredit
<1>5. wire'[Peer(e)] = wire[Peer(e)]
  <2>1. wire' = wire \/ wire' = Written(e, Frame("data", nread[e]))
    BY DEF Socket, Reader, ReadFails, ReadChunk, ReadEOF, ReadClosed, ReadErr, TakeCredit,
           SendClosed, WriteData, SkipCredit
  <2>2. Frame("data", nread[e]) \in Frames
    BY FrameType DEF TypeOK
  <2>. QED
    BY <2>1, <2>2, WrittenFrames
<1>. QED
  BY <1>2, <1>3, <1>4, <1>5 DEF QuietDir

\* Reading a chunk moves the end of the stream.
LEMMA ReadChunkPipe ==
  ASSUME TypeOK, NEW e \in Ends, PipeOK(Peer(e)), ReaderOK(e), ReadChunk(e)
  PROVE  PipeOK(Peer(e))'
<1> DEFINE p == Peer(e)
<1>1. p \in Ends /\ Peer(p) = e /\ p # e
  BY TwoEnds
<1>2. /\ rd[e] = "read" /\ rd'[e] = "credit" /\ nread'[e] = nread[e] + 1 /\ nread[e] \in Nat
      /\ recv' = recv /\ wire' = wire /\ linkOpen' = linkOpen /\ sess' = sess
      /\ main' = main /\ out' = out /\ remoteEOF' = remoteEOF /\ localEOF' = localEOF
  BY DEF ReadChunk, TypeOK
<1>3. ~localEOF[e]
  BY <1>2 DEF ReaderOK
<1>4. Sent(e) = nread[e] /\ Sent(e)' = nread[e]
  BY <1>2, <1>3 DEF Sent, B
<1>5. Got(p)' = Got(p) /\ Pipe(p)' = Pipe(p) /\ (Ended(p)' <=> Ended(p))
  BY <1>2, Zenon DEF Got, Pipe, Flows, Ended
<1>6. Writes(e)' => Writes(e)
  BY <1>2, <1>3 DEF Writes, Flows
<1>7. Pipe(p) \in Seq(Frames) /\ Got(p) \in Int /\ Sent(e) \in Int /\ nread[e] \in Int
  <2>1. Pipe(p) \in Seq(Frames) /\ Got(p) \in Int
    BY <1>1, DirTypes
  <2>. QED
    BY <1>2, <1>4, <2>1
<1>8. ASSUME Chain(Pipe(p), Got(p), Sent(e), nread[e])
      PROVE  /\ Chain(Pipe(p), Got(p), Sent(e), nread[e] + 1)
             /\ Full(Pipe(p), Got(p), Sent(e), nread[e]) => Full(Pipe(p), Got(p), Sent(e), nread[e] + 1)
  <2>1. Sent(e) <= nread[e]
    BY <1>2, <1>4
  <2>. QED
    BY <1>7, <1>8, <2>1, ChainMore
<1>9. Sent(e)' = Sent(e) /\ nread'[e] = nread[e] + 1
  BY <1>2, <1>4
<1>. QED
  BY <1>1, <1>5, <1>6, <1>8, <1>9, Zenon DEF PipeOK

\* Writing the next item.
LEMMA WritePipe ==
  ASSUME TypeOK, NEW e \in Ends, PipeOK(Peer(e)), NEW fr \in Frames, Writes(e) \/ ~linkOpen[Peer(e)] \/ sess[Peer(e)] = "removed",
         Item(fr), Pos(fr, nread[e]) = Sent(e) + 1, fr.type = "data" => fr.n <= nread[e],
         linkOpen[e], wire' = Written(e, fr), Sent(e)' = Sent(e) + 1, nread' = nread,
         recv' = recv, out' = out, remoteEOF' = remoteEOF, linkOpen' = linkOpen, sess' = sess,
         main'[Peer(e)] = main[Peer(e)]
  PROVE  PipeOK(Peer(e))'
<1> DEFINE p == Peer(e)
<1>1. p \in Ends /\ Peer(p) = e /\ p # e
  BY TwoEnds
<1>2. /\ Pipe(p) \in Seq(Frames) /\ Got(p) \in Int /\ Sent(e) \in Int /\ nread[e] \in Int
      /\ recv[p] \in Seq(Frames) /\ wire[e] \in Seq(Frames)
      /\ Flows(p) => Pipe(p) = recv[p] \o wire[e]
      /\ ~Flows(p) => Pipe(p) = recv[p]
  BY <1>1, DirTypes
<1>3. /\ Got(p)' = Got(p) /\ (Flows(p)' <=> Flows(p)) /\ (Ended(p)' <=> Ended(p))
      /\ nread'[e] = nread[e]
  BY DEF Got, Flows, Ended
<1>4. CASE Flows(p)
  <2>1. wire'[e] = Append(wire[e], fr)
    BY <1>4 DEF Written, Flows, TypeOK
  <2>2. Pipe(p)' = Append(Pipe(p), fr)
    <3>1. Pipe(p)' = recv[p] \o Append(wire[e], fr)
      BY <1>1, <1>3, <1>4, <2>1, Zenon DEF Pipe
    <3>2. recv[p] \o Append(wire[e], fr) = Append(recv[p] \o wire[e], fr)
      BY <1>2, AddLast
    <3>. QED
      BY <1>2, <1>4, <3>1, <3>2, Zenon
  <2>3. Writes(e)
    BY <1>4 DEF Flows
  <2>4. ASSUME ~Ended(p)
        PROVE  /\ Chain(Pipe(p)', Got(p), Sent(e) + 1, nread[e])
               /\ Full(Pipe(p)', Got(p), Sent(e) + 1, nread[e])
    <3>1. Chain(Pipe(p), Got(p), Sent(e), nread[e]) /\ Full(Pipe(p), Got(p), Sent(e), nread[e])
      BY <1>1, <2>3, <2>4, Zenon DEF PipeOK
    <3>. QED
      BY <1>2, <2>2, <3>1, ChainAppend
  <2>. QED
    BY <1>1, <1>3, <2>4, Zenon DEF PipeOK
<1>5. CASE ~Flows(p)
  <2>1. Pipe(p)' = Pipe(p)
    BY <1>3, <1>5, Zenon DEF Pipe
  <2>2. ~Writes(e)'
    BY <1>3, <1>5 DEF Writes
  <2>3. ASSUME ~Ended(p) PROVE Chain(Pipe(p), Got(p), Sent(e) + 1, nread[e])
    <3>1. Chain(Pipe(p), Got(p), Sent(e), nread[e])
      BY <1>1, <2>3, Zenon DEF PipeOK
    <3>2. Sent(e) + 1 \in Int /\ Sent(e) <= Sent(e) + 1
      BY <1>2
    <3>. QED
      BY <1>2, <3>1, <3>2, ChainWeaken
  <2>. QED
    BY <1>1, <1>3, <2>1, <2>2, <2>3, Zenon DEF PipeOK
<1>. QED
  BY <1>4, <1>5

\* SendData writes the chunk in hand.
LEMMA WriteDataPipe ==
  ASSUME TypeOK, NEW e \in Ends, PipeOK(Peer(e)), ReaderOK(e), WriteData(e)
  PROVE  PipeOK(Peer(e))'
<1> DEFINE p == Peer(e)
           fr == Frame("data", nread[e])
<1>1. p \in Ends /\ Peer(p) = e /\ p # e
  BY TwoEnds
<1>2. /\ rd[e] = "write" /\ nread' = nread /\ nread[e] \in Nat /\ recv' = recv
      /\ linkOpen' = linkOpen /\ sess' = sess /\ main' = main /\ out' = out
      /\ remoteEOF' = remoteEOF /\ localEOF' = localEOF
  BY DEF WriteData, TypeOK
<1>3. ~localEOF[e] /\ ~localEOF'[e]
  BY <1>2 DEF ReaderOK
<1>4. Sent(e) = nread[e] - 1
  BY <1>2, <1>3 DEF Sent, B
<1>5. CASE linkOpen[e] /\ wire' = Written(e, fr) /\ rd' = [rd EXCEPT ![e] = "read"]
  <2>1. rd'[e] = "read"
    BY <1>5 DEF TypeOK
  <2>2. Sent(e)' = nread[e]
    BY <1>2, <1>3, <2>1 DEF Sent, B
  <2>3. fr \in Frames /\ Item(fr) /\ fr.type = "data" /\ fr.n = nread[e] /\ Pos(fr, nread[e]) = nread[e]
    BY <1>2 DEF Frame, Frames, Item, Pos
  <2>. HIDE DEF fr
  <2>4. Pos(fr, nread[e]) = Sent(e) + 1 /\ Sent(e)' = Sent(e) + 1 /\ fr.n <= nread[e]
    BY <1>2, <1>4, <2>2, <2>3
  <2>5. Writes(e) \/ ~linkOpen[Peer(e)] \/ sess[Peer(e)] = "removed"
    BY <1>2, <1>5 DEF Writes, Flows
  <2>6. main'[Peer(e)] = main[Peer(e)] /\ wire' = Written(e, fr) /\ linkOpen[e]
    BY <1>2, <1>5
  <2>. QED
    BY <1>2, <2>3, <2>4, <2>5, <2>6, WritePipe
<1>6. CASE wire' = wire /\ rd' = [rd EXCEPT ![e] = "err"]
  <2>1. rd'[e] = "err"
    BY <1>6 DEF TypeOK
  <2>2. QuietDir(p)
    BY <1>1, <1>2, <1>3, <1>6, <2>1 DEF QuietDir
  <2>. QED
    BY <1>1, <2>2, QuietPipe
<1>. QED
  BY <1>5, <1>6 DEF WriteData

\* The reader goroutine keeps both directions in order.
LEMMA ReaderPipe ==
  ASSUME TypeOK, NEW e \in Ends, PipeOK(e), PipeOK(Peer(e)), ReaderOK(e),
         Socket(e) \/ Reader(e) \/ ReadFails(e) \/ SkipCredit(e)
  PROVE  PipeOK(e)' /\ PipeOK(Peer(e))'
<1>1. PipeOK(e)'
  BY ReaderInto, QuietPipe
<1>2. Peer(e) \in Ends /\ Peer(Peer(e)) = e
  BY TwoEnds
<1>3. CASE ReadEOF(e) \/ ReadClosed(e) \/ ReadFails(e) \/ TakeCredit(e) \/ SkipCredit(e) \/ SendClosed(e)
  <2>1. /\ recv' = recv /\ out' = out /\ remoteEOF' = remoteEOF /\ localEOF' = localEOF
        /\ linkOpen' = linkOpen /\ sess' = sess /\ main' = main /\ nread' = nread /\ wire' = wire
    BY <1>3 DEF ReadEOF, ReadClosed, ReadFails, ReadErr, TakeCredit, SkipCredit, SendClosed
  <2>2. \/ rd[e] = "read" /\ rd'[e] \in {"eof", "err"}
        \/ rd[e] = "credit" /\ rd'[e] \in {"write", "err"}
    BY <1>3 DEF ReadEOF, ReadClosed, ReadFails, ReadErr, TakeCredit, SkipCredit, SendClosed, TypeOK
  <2>3. ~localEOF[e]
    BY <2>2 DEF ReaderOK
  <2>4. QuietDir(Peer(e))
    BY <1>2, <2>1, <2>2, <2>3 DEF QuietDir
  <2>. QED
    BY <1>1, <1>2, <2>4, QuietPipe
<1>4. CASE ReadChunk(e)
  BY <1>1, <1>4, ReadChunkPipe
<1>5. CASE WriteData(e)
  BY <1>1, <1>5, WriteDataPipe
<1>. QED
  BY <1>3, <1>4, <1>5 DEF Socket, Reader

-----------------------------------------------------------------------------
(* The steps of the read loop.                                             *)

\* What the read loop of e does to the relays, and to the direction from e.
LEMMA ReadLoopFrom ==
  ASSUME TypeOK, NEW e \in Ends, OpenFirst(e), ReadLoop(e) \/ LinkFails(e)
  PROVE  /\ rd' = rd /\ nread' = nread /\ hold' = hold /\ localEOF' = localEOF
         /\ remoteEOF' = remoteEOF /\ conn' = conn /\ out' = out
         /\ main'[Peer(e)] = main[Peer(e)] /\ sess'[Peer(e)] = sess[Peer(e)]
         /\ recv'[Peer(e)] = recv[Peer(e)]
         /\ QuietDir(Peer(e))
<1> DEFINE p == Peer(e)
<1>1. p \in Ends /\ Peer(p) = e /\ p # e
  BY TwoEnds
<1>2. /\ rd' = rd /\ nread' = nread /\ hold' = hold /\ localEOF' = localEOF
      /\ remoteEOF' = remoteEOF /\ conn' = conn /\ out' = out
  BY DEF ReadLoop, AcceptOpen, DropFrame, AddSendCredit, Enqueue, Overrun, LinkNotice, LinkFails, LinkClose
<1>3. main'[p] = main[p]
  BY <1>1 DEF ReadLoop, AcceptOpen, DropFrame, AddSendCredit, Enqueue, Overrun, LinkNotice,
              LinkFails, LinkClose, TypeOK
<1>4. sess'[p] = sess[p]
  BY <1>1 DEF ReadLoop, AcceptOpen, DropFrame, AddSendCredit, Enqueue, Overrun, LinkNotice,
              LinkFails, LinkClose, TypeOK
<1>5. recv'[p] = recv[p]
  BY <1>1, Zenon DEF ReadLoop, AcceptOpen, DropFrame, AddSendCredit, Enqueue, Overrun, LinkNotice,
              LinkFails, LinkClose, TypeOK
<1>6. (linkOpen'[p] <=> linkOpen[p]) /\ (linkOpen'[e] => linkOpen[e])
  BY <1>1 DEF ReadLoop, AcceptOpen, DropFrame, AddSendCredit, Enqueue, Overrun, LinkNotice,
              LinkFails, LinkClose, TypeOK
<1>7. \/ wire'[e] = wire[e]
      \/ \E fr \in Frames : fr.type \in Other /\ wire'[e] = Append(wire[e], fr)
  <2>1. CASE AcceptOpen(e) \/ DropFrame(e) \/ AddSendCredit(e) \/ Enqueue(e)
    <3>1. wire' = Taken(e) /\ Arrives(e)
      BY <2>1 DEF AcceptOpen, DropFrame, AddSendCredit, Enqueue, Queueable
    <3>. QED
      BY <3>1, TakenFrames
  <2>2. CASE Overrun(e)
    <3>1. Taken(e) \in [Ends -> Seq(Frames)] /\ Taken(e)[e] = wire[e]
      <4>1. wire[p] \in Seq(Frames) /\ wire[p] # <<>>
        BY <1>1, <2>2 DEF TypeOK, Overrun, Queueable, Arrives
      <4>2. Tail(wire[p]) \in Seq(Frames)
        BY <4>1, HeadTailProperties
      <4>. QED
        BY <1>1, <4>2 DEF TypeOK, Taken
    <3>2. \/ wire' = Taken(e)
          \/ wire' = [Taken(e) EXCEPT ![e] = Append(Taken(e)[e], Frame("error", 0))]
      BY <2>2 DEF Overrun
    <3>3. wire'[e] = wire[e] \/ wire'[e] = Append(wire[e], Frame("error", 0))
      BY <3>1, <3>2, Zenon
    <3>4. Frame("error", 0) \in Frames /\ Frame("error", 0).type \in Other
      BY DEF Frame, Frames, Other, Ctl
    <3>. QED
      BY <3>3, <3>4
  <2>3. CASE LinkNotice(e) \/ LinkFails(e)
    BY <1>1, <2>3 DEF LinkNotice, LinkFails, LinkClose, TypeOK
  <2>. QED
    BY <2>1, <2>2, <2>3 DEF ReadLoop
<1>8. QuietDir(p)
  BY <1>1, <1>2, <1>3, <1>4, <1>5, <1>6, <1>7 DEF QuietDir
<1>. QED
  BY <1>2, <1>3, <1>4, <1>5, <1>8

\* The first frame on the wire when the session is not open.
LEMMA OpenHead ==
  ASSUME TypeOK, NEW e \in Ends, OpenFirst(e), Arrives(e)
  PROVE  /\ Incoming(e).type = "open" => main[e] = "none" /\ sess[e] = "none"
         /\ Incoming(e).type # "open" => sess[e] # "none"
<1>1. wire[Peer(e)] \in Seq(Frames) /\ wire[Peer(e)] # <<>> /\ linkOpen[e]
  BY TwoEnds DEF TypeOK, Arrives
<1>2. 1 \in 1..Len(wire[Peer(e)]) /\ Head(wire[Peer(e)]) = wire[Peer(e)][1]
  BY <1>1, EmptySeq, LenProperties
<1>. QED
  BY <1>1, <1>2 DEF OpenFirst, Incoming

\* The read loop moves frames into the receive queue in order.
LEMMA ReadLoopPipe ==
  ASSUME TypeOK, NEW e \in Ends, PipeOK(e), PipeOK(Peer(e)), OpenFirst(e),
         ReadLoop(e) \/ LinkFails(e)
  PROVE  PipeOK(e)' /\ PipeOK(Peer(e))'
<1> DEFINE p == Peer(e)
<1>1. p \in Ends /\ Peer(p) = e /\ p # e
  BY TwoEnds
<1>2. PipeOK(p)'
  BY <1>1, ReadLoopFrom, QuietPipe
<1>3. /\ rd' = rd /\ nread' = nread /\ localEOF' = localEOF /\ remoteEOF' = remoteEOF /\ out' = out
  BY ReadLoopFrom
<1>4. CASE AcceptOpen(e)
  <2>1. /\ Arrives(e) /\ Incoming(e).type = "open" /\ wire' = Taken(e)
        /\ sess'[e] = "open" /\ main'[e] = "dial" /\ recv' = recv /\ linkOpen' = linkOpen
    BY <1>4 DEF AcceptOpen, TypeOK
  <2>2. main[e] = "none" /\ sess[e] = "none"
    BY <2>1, OpenHead
  <2>3. /\ wire[p] # <<>> /\ wire'[p] = Tail(wire[p]) /\ ~Item(Head(wire[p]))
    BY <2>1, TakenFrames DEF Item
  <2>4. sess'[e] = "removed" <=> sess[e] = "removed"
    BY <2>1, <2>2
  <2>5. main'[e] = main[e] \/ (main[e] = "none" /\ main'[e] = "dial")
    BY <2>1, <2>2
  <2>. QED
    BY <1>2, <1>3, <2>1, <2>3, <2>4, <2>5, DropPipe
<1>5. CASE AddSendCredit(e)
  <2>1. /\ Arrives(e) /\ Incoming(e).type = "window" /\ wire' = Taken(e)
        /\ sess' = sess /\ main' = main /\ recv' = recv /\ linkOpen' = linkOpen
    BY <1>5 DEF AddSendCredit
  <2>2. /\ wire[p] # <<>> /\ wire'[p] = Tail(wire[p]) /\ ~Item(Head(wire[p]))
    BY <2>1, TakenFrames DEF Item
  <2>3. /\ sess'[e] = "removed" <=> sess[e] = "removed"
        /\ main'[e] = main[e] \/ (main[e] = "none" /\ main'[e] = "dial")
    BY <2>1
  <2>. QED
    BY <1>2, <1>3, <2>1, <2>2, <2>3, DropPipe
<1>6. CASE DropFrame(e)
  <2>1. sess[e] \in {"none", "open", "removed"}
    BY DEF TypeOK
  <2>2. sess[e] = "removed" /\ sess' = sess /\ recv' = recv /\ main' = main
    BY <1>6, <2>1, OpenHead DEF DropFrame
  <2>3. ~Flows(e)' /\ recv'[e] = recv[e] /\ out'[e] = out[e] /\ main'[e] = main[e]
    BY <1>3, <2>2 DEF Flows
  <2>. QED
    BY <1>2, <1>3, <2>3, CutPipe
<1>7. CASE Overrun(e)
  <2>1. sess'[e] = "removed" /\ recv' = recv /\ main' = main
    BY <1>7 DEF Overrun, TypeOK
  <2>2. ~Flows(e)' /\ recv'[e] = recv[e] /\ out'[e] = out[e] /\ main'[e] = main[e]
    BY <1>3, <2>1 DEF Flows
  <2>. QED
    BY <1>2, <1>3, <2>2, CutPipe
<1>8. CASE LinkNotice(e) \/ LinkFails(e)
  <2>1. ~linkOpen'[e] /\ recv' = recv /\ main' = main
    BY <1>8 DEF LinkNotice, LinkFails, LinkClose, TypeOK
  <2>2. ~Flows(e)' /\ recv'[e] = recv[e] /\ out'[e] = out[e] /\ main'[e] = main[e]
    BY <1>3, <2>1 DEF Flows
  <2>. QED
    BY <1>2, <1>3, <2>2, CutPipe
<1>9. CASE Enqueue(e)
  <2>1. /\ Arrives(e) /\ wire' = Taken(e) /\ sess[e] = "open" /\ sess' = sess /\ main' = main
        /\ recv' = [recv EXCEPT ![e] = Append(recv[e], Incoming(e))] /\ linkOpen' = linkOpen
    BY <1>9 DEF Enqueue, Queueable
  <2>2. /\ wire[p] # <<>> /\ wire'[p] = Tail(wire[p]) /\ Incoming(e) = Head(wire[p])
    BY <2>1, TakenFrames
  <2>3. recv'[e] = Append(recv[e], Head(wire[p]))
    BY <2>1, <2>2, Zenon DEF TypeOK
  <2>4. Flows(e) /\ Flows(e)'
    BY <2>1 DEF Flows, Arrives
  <2>5. recv[e] \in Seq(Frames) /\ wire[p] \in Seq(Frames)
    BY <1>1 DEF TypeOK
  <2>6. Pipe(e) = recv[e] \o wire[p] /\ Pipe(e)' = Append(recv[e], Head(wire[p])) \o Tail(wire[p])
    BY <2>2, <2>3, <2>4, Zenon DEF Pipe
  <2>7. Append(recv[e], Head(wire[p])) \o Tail(wire[p]) = recv[e] \o wire[p]
    BY <2>2, <2>5, MoveFrame
  <2>8. Pipe(e)' = Pipe(e)
    BY <2>6, <2>7, Zenon
  <2>9. /\ Got(e)' = Got(e) /\ Sent(p)' = Sent(p) /\ (Ended(e)' <=> Ended(e))
        /\ (Writes(p)' <=> Writes(p)) /\ nread'[p] = nread[p]
    BY <1>1, <1>3, <2>1, <2>4 DEF Got, Sent, Ended, Writes, Flows
  <2>. QED
    BY <1>2, <2>8, <2>9 DEF PipeOK
<1>. QED
  BY <1>4, <1>5, <1>6, <1>7, <1>8, <1>9 DEF ReadLoop

-----------------------------------------------------------------------------
(* The steps of the select loop.                                           *)

\* A relay that has ended takes nothing more.
LEMMA EndedPipe ==
  ASSUME NEW f \in Ends, Ended(f)'
  PROVE  PipeOK(f)'
BY DEF PipeOK

\* What e's relay writes besides data and EOF.
LEMMA OtherWrites ==
  ASSUME TypeOK, NEW e \in Ends, NEW t \in Other, NEW k \in Nat,
         wire' = wire \/ wire' = Written(e, Frame(t, k))
  PROVE  /\ wire'[Peer(e)] = wire[Peer(e)]
         /\ \/ wire'[e] = wire[e]
            \/ \E fr \in Frames : fr.type \in Other /\ wire'[e] = Append(wire[e], fr)
<1>1. Frame(t, k) \in Frames /\ Frame(t, k).type = t
  BY FrameType DEF Ctl, Other
<1>2. Frame(t, k).type \in Other
  BY <1>1
<1>3. CASE wire' = wire
  BY <1>3
<1>4. CASE wire' = Written(e, Frame(t, k))
  BY <1>1, <1>2, <1>4, WrittenFrames
<1>. QED
  BY <1>3, <1>4

\* Steps of e's select loop that take nothing and send no EOF leave the
\* direction from e alone.
LEMMA RelayFrom ==
  ASSUME TypeOK, NEW e \in Ends, ReaderOK(e),
         \/ DialOK(e) \/ DialFails(e) \/ SessionDone(e) \/ TakeReadErr(e)
         \/ TakeData(e) \/ TakeEOF(e) \/ TakeClose(e) \/ IdleFires(e)
         \/ SessionClose(e) \/ SessionRemove(e) \/ SocketWrite(e)
         \/ CtxDone(e) \/ IdleElapses(e)
  PROVE  QuietDir(Peer(e)) /\ wire'[Peer(e)] = wire[Peer(e)]
<1> DEFINE p == Peer(e)
<1>1. p \in Ends /\ Peer(p) = e /\ p # e
  BY TwoEnds
<1>2. /\ linkOpen' = linkOpen /\ nread' = nread /\ localEOF' = localEOF
  BY DEF DialOK, DialFails, SessionDone, TakeReadErr, TakeData, TakeEOF, TakeClose, IdleFires,
         SessionClose, SessionRemove, SocketWrite, ConnWriteOK, ConnWriteErr, CtxDone, IdleElapses, Leave
<1>3. sess'[p] = sess[p] /\ main'[p] = main[p]
  BY <1>1 DEF DialOK, DialFails, SessionDone, TakeReadErr, TakeData, TakeEOF, TakeClose, IdleFires,
         SessionClose, SessionRemove, SocketWrite, ConnWriteOK, ConnWriteErr, CtxDone, IdleElapses, Leave,
         TypeOK
<1>4. recv'[p] = recv[p] /\ out'[p] = out[p]
  BY <1>1, Zenon DEF DialOK, DialFails, SessionDone, TakeReadErr, TakeData, TakeEOF, TakeClose, IdleFires,
         SessionClose, SessionRemove, SocketWrite, ConnWriteOK, ConnWriteErr, CtxDone, IdleElapses,
         TypeOK, Received
<1>5. remoteEOF'[p] <=> remoteEOF[p]
  BY <1>1, Zenon DEF DialOK, DialFails, SessionDone, TakeReadErr, TakeData, TakeEOF, TakeClose, IdleFires,
         SessionClose, SessionRemove, SocketWrite, ConnWriteOK, ConnWriteErr, CtxDone, IdleElapses,
         TypeOK
<1>6. \/ rd'[e] = rd[e]
      \/ rd[e] = "none" /\ rd'[e] = "read"
      \/ rd[e] = "err" /\ rd'[e] = "gone"
  BY DEF DialOK, DialFails, SessionDone, TakeReadErr, TakeData, TakeEOF, TakeClose, IdleFires,
         SessionClose, SessionRemove, SocketWrite, ConnWriteOK, ConnWriteErr, CtxDone, IdleElapses,
         TypeOK, ReaderOK
<1>7. \E t \in Other, k \in Nat : wire' = wire \/ wire' = Written(e, Frame(t, k))
  <2>1. consumed[e] + 1 \in Nat /\ 0 \in Nat
    BY DEF TypeOK
  <2>2. \/ wire' = wire
        \/ wire' = Written(e, Frame("window", consumed[e] + 1))
        \/ wire' = Written(e, Frame("close", 0))
        \/ wire' = Written(e, Frame("error", 0))
    BY DEF DialOK, DialFails, SessionDone, TakeReadErr, TakeData, TakeEOF, TakeClose, IdleFires,
         SessionClose, SessionRemove, SocketWrite, ConnWriteOK, ConnWriteErr, CtxDone, IdleElapses
  <2>. QED
    BY <2>1, <2>2, Zenon DEF Other
<1>8. /\ wire'[p] = wire[p]
      /\ \/ wire'[e] = wire[e]
         \/ \E fr \in Frames : fr.type \in Other /\ wire'[e] = Append(wire[e], fr)
  BY <1>7, OtherWrites
<1>. QED
  BY <1>1, <1>2, <1>3, <1>4, <1>5, <1>6, <1>8 DEF QuietDir

\* Taking the first frame of the receive queue.
LEMMA ReceivePipe ==
  ASSUME TypeOK, NEW e \in Ends, PipeOK(e), ~Ended(e), recv[e] # <<>>, Received(e),
         wire' = wire, linkOpen' = linkOpen, sess' = sess,
         nread' = nread, rd' = rd, localEOF' = localEOF,
         Item(Next1(e)), Got(e)' = Got(e) + 1
  PROVE  /\ Pos(Next1(e), nread[Peer(e)]) = Got(e) + 1
         /\ Got(e) + 1 <= Sent(Peer(e))
         /\ Next1(e).type = "data" => Next1(e).n <= nread[Peer(e)]
         /\ PipeOK(e)'
<1> DEFINE p == Peer(e)
<1>1. p \in Ends /\ Peer(p) = e /\ p # e
  BY TwoEnds
<1>2. /\ Pipe(e) \in Seq(Frames) /\ Got(e) \in Int /\ Sent(p) \in Int /\ nread[p] \in Int
      /\ recv[e] \in Seq(Frames) /\ wire[p] \in Seq(Frames)
      /\ Flows(e) => Pipe(e) = recv[e] \o wire[p]
      /\ ~Flows(e) => Pipe(e) = recv[e]
  BY DirTypes
<1>3. recv'[e] = Tail(recv[e]) /\ Next1(e) = Head(recv[e])
  BY ReceivedFrame
<1>4. (Flows(e)' <=> Flows(e)) /\ (Writes(p)' <=> Writes(p)) /\ Sent(p)' = Sent(p) /\ nread'[p] = nread[p]
  BY DEF Flows, Writes, Sent
<1>5. Head(Pipe(e)) = Next1(e) /\ Tail(Pipe(e)) = Pipe(e)' /\ Pipe(e) # <<>>
  <2>1. CASE Flows(e)
    <3>1. Pipe(e)' = Tail(recv[e]) \o wire[p]
      BY <1>3, <1>4, <2>1, Zenon DEF Pipe
    <3>2. /\ Head(recv[e] \o wire[p]) = Head(recv[e])
          /\ Tail(recv[e] \o wire[p]) = Tail(recv[e]) \o wire[p] /\ recv[e] \o wire[p] # <<>>
      BY <1>2, TakeFirst
    <3>3. Pipe(e) = recv[e] \o wire[p]
      BY <1>2, <2>1, Zenon
    <3>. QED
      BY <1>3, <3>1, <3>2, <3>3, Zenon
  <2>2. CASE ~Flows(e)
    <3>1. Pipe(e)' = Tail(recv[e]) \o <<>>
      BY <1>3, <1>4, <2>2, Zenon DEF Pipe
    <3>2. Tail(recv[e]) \in Seq(Frames)
      BY <1>2, HeadTailProperties
    <3>3. Pipe(e)' = Tail(recv[e])
      BY <3>1, <3>2, ConcatEmptySeq
    <3>4. Pipe(e) = recv[e]
      BY <1>2, <2>2, Zenon
    <3>. QED
      BY <1>3, <3>3, <3>4, Zenon
  <2>. QED
    BY <2>1, <2>2
<1>6. /\ Chain(Pipe(e), Got(e), Sent(p), nread[p])
      /\ Writes(p) => Full(Pipe(e), Got(e), Sent(p), nread[p])
  BY DEF PipeOK
<1>7. /\ Pos(Next1(e), nread[p]) = Got(e) + 1 /\ Got(e) + 1 <= Sent(p)
      /\ Next1(e).type = "data" => Next1(e).n <= nread[p]
      /\ Chain(Tail(Pipe(e)), Got(e) + 1, Sent(p), nread[p])
      /\ Full(Pipe(e), Got(e), Sent(p), nread[p]) => Full(Tail(Pipe(e)), Got(e) + 1, Sent(p), nread[p])
  <2>1. Item(Head(Pipe(e)))
    BY <1>5
  <2>2. /\ Pos(Head(Pipe(e)), nread[p]) = Got(e) + 1 /\ Got(e) + 1 <= Sent(p)
        /\ Head(Pipe(e)).type = "data" => Head(Pipe(e)).n <= nread[p]
        /\ Chain(Tail(Pipe(e)), Got(e) + 1, Sent(p), nread[p])
        /\ Full(Pipe(e), Got(e), Sent(p), nread[p]) => Full(Tail(Pipe(e)), Got(e) + 1, Sent(p), nread[p])
    BY <1>2, <1>5, <1>6, <2>1, ChainTake
  <2>. QED
    BY <1>5, <2>2
<1>8. PipeOK(e)'
  BY <1>4, <1>5, <1>6, <1>7, Zenon DEF PipeOK
<1>. QED
  BY <1>7, <1>8

\* The select loop takes a chunk: the next one.
LEMMA TakeDataPipe ==
  ASSUME TypeOK, NEW e \in Ends, PipeOK(e), OutOK(e), TakeData(e)
  PROVE  /\ PipeOK(e)'
         /\ Next1(e).n = Len(out[e]) + 1 /\ Next1(e).n <= nread[Peer(e)]
         /\ ~remoteEOF[e]
<1>1. /\ main[e] = "select" /\ main'[e] = "writing" /\ recv[e] # <<>> /\ Next1(e).type = "data"
      /\ Received(e) /\ wire' = wire /\ linkOpen' = linkOpen /\ sess' = sess
      /\ nread' = nread /\ rd' = rd /\ localEOF' = localEOF /\ out' = out /\ remoteEOF' = remoteEOF
  BY DEF TakeData, TypeOK
<1>2. ~Ended(e) /\ Item(Next1(e)) /\ Pos(Next1(e), nread[Peer(e)]) = Next1(e).n
  BY <1>1 DEF Ended, Item, Pos
<1>3. Len(out[e]) \in Nat /\ nread[Peer(e)] \in Nat /\ B(remoteEOF[e]) \in {0, 1}
  <2>1. out[e] \in Seq(Nat) /\ nread[Peer(e)] \in Nat
    BY TwoEnds DEF TypeOK
  <2>. QED
    BY <2>1, LenProperties DEF B
<1>4. Got(e) = Len(out[e]) + B(remoteEOF[e]) /\ Got(e)' = Len(out[e]) + 1 + B(remoteEOF[e])
  <2>1. B(main[e] = "writing") = 0 /\ B(main'[e] = "writing") = 1
    BY <1>1 DEF B
  <2>. QED
    BY <1>1, <1>3, <2>1 DEF Got
<1>5. Got(e)' = Got(e) + 1
  BY <1>3, <1>4
<1>6. /\ Next1(e).n = Got(e) + 1 /\ Next1(e).n <= nread[Peer(e)] /\ PipeOK(e)'
  BY <1>1, <1>2, <1>5, ReceivePipe
<1>7. ~remoteEOF[e]
  <2>1. SUFFICES ASSUME remoteEOF[e] PROVE FALSE
    OBVIOUS
  <2>2. Len(out[e]) = nread[Peer(e)]
    BY <2>1 DEF OutOK
  <2>. QED
    BY <1>3, <1>4, <1>6, <2>2
<1>8. B(remoteEOF[e]) = 0
  BY <1>7 DEF B
<1>. QED
  BY <1>3, <1>4, <1>6, <1>7, <1>8

\* The select loop takes the peer's EOF: everything before it was taken.
LEMMA TakeEOFPipe ==
  ASSUME TypeOK, NEW e \in Ends, PipeOK(e), OutOK(e), TakeEOF(e)
  PROVE  /\ PipeOK(e)' 
         /\ Len(out[e]) = nread[Peer(e)] /\ localEOF[Peer(e)] /\ ~remoteEOF[e]
<1>1. /\ main[e] = "select" /\ recv[e] # <<>> /\ Next1(e).type = "eof"
      /\ Received(e) /\ wire' = wire /\ linkOpen' = linkOpen /\ sess' = sess
      /\ nread' = nread /\ rd' = rd /\ localEOF' = localEOF /\ out' = out /\ remoteEOF'[e]
      /\ main'[e] \in {"select", "close"}
  BY DEF TakeEOF, TypeOK, Leave
<1>2. ~Ended(e) /\ Item(Next1(e)) /\ Pos(Next1(e), nread[Peer(e)]) = nread[Peer(e)] + 1
  BY <1>1 DEF Ended, Item, Pos
<1>3. Len(out[e]) \in Nat /\ nread[Peer(e)] \in Nat
  <2>1. out[e] \in Seq(Nat) /\ nread[Peer(e)] \in Nat
    BY TwoEnds DEF TypeOK
  <2>. QED
    BY <2>1, LenProperties
<1>4. B(main[e] = "writing") = 0 /\ B(main'[e] = "writing") = 0 /\ B(remoteEOF'[e]) = 1
  BY <1>1 DEF B
<1>5. /\ (remoteEOF[e] => Got(e) = Len(out[e]) + 1) /\ (~remoteEOF[e] => Got(e) = Len(out[e]))
      /\ Got(e)' = Len(out[e]) + 1
  <2>1. (remoteEOF[e] => B(remoteEOF[e]) = 1) /\ (~remoteEOF[e] => B(remoteEOF[e]) = 0)
    BY DEF B
  <2>2. Got(e) = Len(out[e]) + 0 + B(remoteEOF[e])
    BY <1>4, Zenon DEF Got
  <2>3. Got(e)' = Len(out[e]) + 0 + 1
    BY <1>1, <1>4, Zenon DEF Got
  <2>. QED
    BY <1>3, <2>1, <2>2, <2>3
<1>6. remoteEOF[e] => Len(out[e]) = nread[Peer(e)]
  BY DEF OutOK
<1>7. CASE remoteEOF[e]
  \* a second EOF would lie past the end
  <2>1. ~Ended(e) /\ Got(e) = nread[Peer(e)] + 1
    BY <1>2, <1>5, <1>6, <1>7
  <2>2. Got(e) < Pos(Next1(e), nread[Peer(e)])
    <3>1. /\ Pipe(e) \in Seq(Frames) /\ recv[e] \in Seq(Frames) /\ wire[Peer(e)] \in Seq(Frames)
          /\ Flows(e) => Pipe(e) = recv[e] \o wire[Peer(e)]
          /\ ~Flows(e) => Pipe(e) = recv[e]
      BY DirTypes
    <3>2. Pipe(e) # <<>> /\ Head(Pipe(e)) = Next1(e)
      <4>1. /\ Head(recv[e] \o wire[Peer(e)]) = Head(recv[e])
            /\ recv[e] \o wire[Peer(e)] # <<>>
        BY <1>1, <3>1, TakeFirst
      <4>. QED
        BY <1>1, <3>1, <4>1, Zenon DEF Next1
    <3>3. 1 \in 1..Len(Pipe(e)) /\ Head(Pipe(e)) = Pipe(e)[1]
      BY <3>1, <3>2, EmptySeq, LenProperties
    <3>4. Chain(Pipe(e), Got(e), Sent(Peer(e)), nread[Peer(e)])
      BY <2>1 DEF PipeOK
    <3>. QED
      BY <1>2, <3>2, <3>3, <3>4 DEF Chain, Link1
  <2>. QED
    BY <1>2, <1>3, <2>1, <2>2
<1>8. CASE ~remoteEOF[e]
  <2>1. Got(e)' = Got(e) + 1
    BY <1>3, <1>5, <1>8
  <2>2. /\ Pos(Next1(e), nread[Peer(e)]) = Got(e) + 1 /\ Got(e) + 1 <= Sent(Peer(e)) /\ PipeOK(e)'
    BY <1>1, <1>2, <2>1, ReceivePipe
  <2>3. Len(out[e]) = nread[Peer(e)]
    BY <1>2, <1>3, <1>5, <1>8, <2>2
  <2>4. localEOF[Peer(e)]
    <3>1. SUFFICES ASSUME ~localEOF[Peer(e)] PROVE FALSE
      OBVIOUS
    <3>2. Sent(Peer(e)) <= nread[Peer(e)]
      BY <1>3, <3>1 DEF Sent, B
    <3>3. Sent(Peer(e)) \in Int /\ nread[Peer(e)] + 1 <= Sent(Peer(e))
      BY <1>2, <2>2, DirTypes
    <3>. QED
      BY <1>3, <3>2, <3>3
  <2>. QED
    BY <1>8, <2>2, <2>3, <2>4
<1>. QED
  BY <1>7, <1>8

\* Sending EOF writes the item after the last chunk.
LEMMA TakeReadEOFPipe ==
  ASSUME TypeOK, NEW e \in Ends, PipeOK(e), PipeOK(Peer(e)), ReaderOK(e), TakeReadEOF(e)
  PROVE  PipeOK(e)' /\ PipeOK(Peer(e))'
<1> DEFINE p == Peer(e)
           fr == Frame("eof", 0)
<1>1. p \in Ends /\ Peer(p) = e /\ p # e
  BY TwoEnds
<1>2. /\ main[e] = "select" /\ rd[e] = "eof" /\ rd'[e] = "gone" /\ rd'[p] = rd[p] /\ localEOF'[e]
      /\ localEOF'[p] = localEOF[p] /\ main'[p] = main[p]
      /\ main'[e] = main[e] \/ main'[e] = "close"
      /\ nread' = nread /\ recv' = recv /\ sess' = sess /\ linkOpen' = linkOpen /\ out' = out
      /\ remoteEOF' = remoteEOF
  BY <1>1 DEF TakeReadEOF, Leave, TypeOK
<1>3. fr \in Frames /\ Item(fr) /\ fr.type = "eof" /\ Pos(fr, nread[e]) = nread[e] + 1
  BY DEF Frame, Frames, Item, Pos, Ctl
<1>4. nread[e] \in Nat /\ ~localEOF[e]
  BY <1>2 DEF TypeOK, ReaderOK
<1>5. Sent(e) = nread[e] /\ Sent(e)' = nread[e] + 1
  BY <1>2, <1>4 DEF Sent, B
<1>. HIDE DEF fr
<1>6. (wire' = Written(e, fr) /\ linkOpen[e]) \/ (wire' = wire /\ WriteMayFail(e))
  BY DEF TakeReadEOF, fr
<1>7. wire'[p] = wire[p]
  BY <1>3, <1>6, WrittenFrames
<1>8. PipeOK(e)'
  <2>1. QuietDir(e)
    BY <1>1, <1>2, <1>7 DEF QuietDir, Ended
  <2>. QED
    BY <2>1, QuietPipe
<1>9. PipeOK(p)'
  <2>1. CASE wire' = Written(e, fr) /\ linkOpen[e]
    <3>1. Writes(e) \/ ~linkOpen[Peer(e)] \/ sess[Peer(e)] = "removed"
      BY <1>2, <2>1 DEF Writes, Flows
    <3>2. /\ Pos(fr, nread[e]) = Sent(e) + 1 /\ Sent(e)' = Sent(e) + 1
          /\ (fr.type = "data" => fr.n <= nread[e]) /\ main'[Peer(e)] = main[Peer(e)]
      BY <1>2, <1>3, <1>5
    <3>. QED
      BY <1>2, <1>3, <2>1, <3>1, <3>2, WritePipe
  <2>2. CASE wire' = wire /\ WriteMayFail(e)
    <3>1. Pipe(p)' = Pipe(p) /\ Got(p)' = Got(p) /\ (Ended(p)' <=> Ended(p)) /\ nread'[e] = nread[e]
      BY <1>2, <2>2 DEF Pipe, Flows, Got, Ended
    <3>2. ~Writes(e)'
      BY <1>1, <1>2, <2>2 DEF Writes, Flows, WriteMayFail
    <3>3. ASSUME ~Ended(p) PROVE Chain(Pipe(p), Got(p), Sent(e)', nread[e])
      <4>1. Chain(Pipe(p), Got(p), Sent(e), nread[e])
        BY <1>1, <3>3, Zenon DEF PipeOK
      <4>2. Pipe(p) \in Seq(Frames) /\ Got(p) \in Int
        BY <1>1, DirTypes
      <4>3. Sent(e) \in Int /\ Sent(e)' \in Int /\ nread[e] \in Int /\ Sent(e) <= Sent(e)'
        BY <1>4, <1>5
      <4>. QED
        BY <4>1, <4>2, <4>3, ChainWeaken
    <3>. QED
      BY <1>1, <3>1, <3>2, <3>3, Zenon DEF PipeOK
  <2>. QED
    BY <1>6, <2>1, <2>2
<1>. QED
  BY <1>8, <1>9

\* The select loop keeps both directions in order.
LEMMA RelayPipe ==
  ASSUME TypeOK, NEW e \in Ends, PipeOK(e), PipeOK(Peer(e)), ReaderOK(e), OutOK(e),
         Relay(e) \/ SocketWrite(e) \/ CtxDone(e) \/ IdleElapses(e)
  PROVE  PipeOK(e)' /\ PipeOK(Peer(e))'
<1> DEFINE p == Peer(e)
<1>1. p \in Ends /\ Peer(p) = e /\ p # e
  BY TwoEnds
<1>2. CASE TakeReadEOF(e)
  BY <1>2, TakeReadEOFPipe
<1>3. ASSUME ~TakeReadEOF(e) PROVE PipeOK(p)' /\ wire'[p] = wire[p]
  <2>1. QuietDir(p) /\ wire'[p] = wire[p]
    BY <1>3, RelayFrom DEF Relay
  <2>. QED
    BY <1>1, <2>1, QuietPipe
<1>4. CASE \/ DialFails(e) \/ SessionDone(e) \/ TakeReadErr(e) \/ TakeClose(e) \/ IdleFires(e)
           \/ SessionClose(e) \/ SessionRemove(e) \/ ConnWriteErr(e) \/ CtxDone(e)
  <2>1. Ended(e)' /\ ~TakeReadEOF(e)
    BY <1>4 DEF DialFails, SessionDone, TakeReadErr, TakeClose, IdleFires, SessionClose,
                SessionRemove, ConnWriteErr, CtxDone, Leave, Ended, TypeOK, TakeReadEOF
  <2>. QED
    BY <1>3, <2>1, EndedPipe
<1>5. CASE TakeData(e)
  <2>1. ~TakeReadEOF(e)
    BY <1>5 DEF TakeData, TakeReadEOF, TypeOK
  <2>. QED
    BY <1>3, <1>5, <2>1, TakeDataPipe
<1>6. CASE TakeEOF(e)
  <2>1. ~TakeReadEOF(e)
    BY <1>6 DEF TakeEOF, TakeReadEOF, TypeOK
  <2>. QED
    BY <1>3, <1>6, <2>1, TakeEOFPipe
<1>7. CASE DialOK(e) \/ IdleElapses(e)
  <2>1. ~TakeReadEOF(e)
    BY <1>7 DEF DialOK, IdleElapses, TakeReadEOF, TypeOK
  <2>2. /\ recv' = recv /\ out' = out /\ nread' = nread /\ remoteEOF' = remoteEOF
        /\ localEOF' = localEOF /\ linkOpen' = linkOpen /\ sess' = sess /\ wire' = wire
    BY <1>7 DEF DialOK, IdleElapses
  <2>3. rd'[p] = rd[p]
    BY <1>1, <1>7 DEF DialOK, IdleElapses, TypeOK
  <2>4. main'[e] = main[e] \/ (main[e] = "dial" /\ main'[e] = "select")
    BY <1>7 DEF DialOK, IdleElapses, TypeOK
  <2>5. QuietDir(e)
    BY <2>2, <2>3, <2>4 DEF QuietDir
  <2>. QED
    BY <1>3, <2>1, <2>5, QuietPipe
<1>8. CASE ConnWriteOK(e)
  <2>1. /\ main[e] = "writing" /\ main'[e] = "select" /\ recv' = recv /\ nread' = nread
        /\ remoteEOF' = remoteEOF /\ localEOF' = localEOF /\ linkOpen' = linkOpen /\ sess' = sess
        /\ rd' = rd
    BY <1>8 DEF ConnWriteOK, TypeOK
  <2>2. ~TakeReadEOF(e)
    BY <2>1 DEF TakeReadEOF
  <2>3. Len(out'[e]) = Len(out[e]) + 1 /\ Len(out[e]) \in Nat
    <3>1. out[e] \in Seq(Nat) /\ hold[e] \in Nat /\ out'[e] = Append(out[e], hold[e])
      BY <1>8, Zenon DEF ConnWriteOK, TypeOK
    <3>. QED
      BY <3>1, AppendProperties, LenProperties
  <2>4. Got(e)' = Got(e)
    <3>1. B(main[e] = "writing") = 1 /\ B(main'[e] = "writing") = 0 /\ B(remoteEOF[e]) \in {0, 1}
          /\ B(remoteEOF'[e]) = B(remoteEOF[e])
      BY <2>1 DEF B
    <3>. QED
      BY <2>3, <3>1 DEF Got
  <2>5. wire'[p] = wire[p]
    BY <1>3, <2>2
  <2>6. /\ Pipe(e)' = Pipe(e) /\ Sent(p)' = Sent(p) /\ nread'[p] = nread[p]
        /\ (Writes(p)' <=> Writes(p)) /\ ~Ended(e) /\ ~Ended(e)'
    BY <2>1, <2>5 DEF Pipe, Flows, Sent, Writes, Ended
  <2>. QED
    BY <1>3, <2>2, <2>4, <2>6 DEF PipeOK
<1>. QED
  BY <1>2, <1>4, <1>5, <1>6, <1>7, <1>8 DEF Relay, SocketWrite

-----------------------------------------------------------------------------
(* The open frame.                                                         *)

\* A step that writes no open frame, and reads none.
LEMMA OpenKeep ==
  ASSUME TypeOK, NEW f \in Ends, OpenFirst(f),
         main'[f] = "none" <=> main[f] = "none", sess'[f] = "none" <=> sess[f] = "none",
         linkOpen'[f] => linkOpen[f],
         \/ wire'[Peer(f)] = wire[Peer(f)]
         \/ \E fr \in Frames : fr.type # "open" /\ wire'[Peer(f)] = Append(wire[Peer(f)], fr)
  PROVE  OpenFirst(f)'
<1> DEFINE w == wire[Peer(f)]
           v == wire'[Peer(f)]
<1>1. w \in Seq(Frames) /\ Len(w) \in Nat
  <2>1. w \in Seq(Frames)
    BY TwoEnds DEF TypeOK
  <2>. QED
    BY <2>1, LenProperties
<1>2. /\ \A i \in 1..Len(v) : v[i].type = "open" => i \in 1..Len(w) /\ w[i] = v[i]
      /\ w # <<>> => v # <<>> /\ Head(v) = Head(w)
  <2>1. CASE v = w
    BY <2>1
  <2>2. ASSUME NEW fr \in Frames, fr.type # "open", v = Append(w, fr)
        PROVE  /\ \A i \in 1..Len(v) : v[i].type = "open" => i \in 1..Len(w) /\ w[i] = v[i]
               /\ w # <<>> => v # <<>> /\ Head(v) = Head(w)
    <3>. HIDE DEF v
    <3>1. /\ Len(v) = Len(w) + 1 /\ v[Len(w) + 1] = fr /\ \A i \in 1..Len(w) : v[i] = w[i]
          /\ v # <<>>
      BY <1>1, <2>2, AppendProperties
    <3>2. w # <<>> => Head(v) = Head(w)
      BY <1>1, <2>2, HeadTailAppend
    <3>. QED
      BY <1>1, <2>2, <3>1, <3>2
  <2>. QED
    BY <2>1, <2>2
<1>3. /\ main[f] = "none" <=> sess[f] = "none"
      /\ \A i \in 1..Len(w) : w[i].type = "open" => main[f] = "none" /\ i = 1
      /\ main[f] = "none" /\ linkOpen[f] => w # <<>> /\ Head(w).type = "open"
  BY DEF OpenFirst
<1>. HIDE DEF w, v
<1>4. /\ main'[f] = "none" <=> sess'[f] = "none"
      /\ \A i \in 1..Len(v) : v[i].type = "open" => main'[f] = "none" /\ i = 1
      /\ main'[f] = "none" /\ linkOpen'[f] => v # <<>> /\ Head(v).type = "open"
  BY <1>2, <1>3
<1>. QED
  BY <1>4 DEF OpenFirst, v

\* The first frame of the wire is read.
LEMMA OpenRead ==
  ASSUME TypeOK, NEW f \in Ends, OpenFirst(f), wire[Peer(f)] # <<>>,
         wire'[Peer(f)] = Tail(wire[Peer(f)]), main'[f] # "none", sess'[f] # "none"
  PROVE  OpenFirst(f)'
<1> DEFINE w == wire[Peer(f)]
<1>1. w \in Seq(Frames)
  BY TwoEnds DEF TypeOK
<1>2. /\ Len(w) \in Nat /\ Len(Tail(w)) = Len(w) - 1
      /\ \A i \in 1..Len(Tail(w)) : Tail(w)[i] = w[i + 1]
  BY <1>1, LenProperties, HeadTailProperties
<1>3. \A i \in 1..Len(w) : w[i].type = "open" => i = 1
  BY DEF OpenFirst
<1>. HIDE DEF w
<1>4. \A i \in 1..Len(Tail(w)) : Tail(w)[i].type # "open"
  BY <1>2, <1>3
<1>. QED
  BY <1>4 DEF OpenFirst, w

\* The open frame comes first, and once.
LEMMA OpenStep ==
  ASSUME TypeOK, NEW e \in Ends, OpenFirst(e), OpenFirst(Peer(e)), ReaderOK(e),
         \/ Socket(e) \/ Reader(e) \/ ReadLoop(e) \/ Relay(e)
         \/ SocketWrite(e) \/ Environment(e) \/ SkipCredit(e)
  PROVE  OpenFirst(e)' /\ OpenFirst(Peer(e))'
<1> DEFINE p == Peer(e)
<1>1. p \in Ends /\ Peer(p) = e /\ p # e
  BY TwoEnds
<1>2. CASE Socket(e) \/ Reader(e) \/ ReadFails(e) \/ SkipCredit(e)
  <2>1. sess' = sess /\ main' = main /\ linkOpen' = linkOpen
    BY <1>2 DEF Socket, Reader, ReadFails, ReadChunk, ReadEOF, ReadClosed, ReadErr, TakeCredit,
         SendClosed, WriteData, SkipCredit
  <2>2. wire' = wire \/ wire' = Written(e, Frame("data", nread[e]))
    BY <1>2 DEF Socket, Reader, ReadFails, ReadChunk, ReadEOF, ReadClosed, ReadErr, TakeCredit,
           SendClosed, WriteData, SkipCredit
  <2>3. Frame("data", nread[e]) \in Frames /\ Frame("data", nread[e]).type # "open"
    BY DEF Frame, Frames, TypeOK
  <2>4. /\ wire'[p] = wire[p]
        /\ \/ wire'[e] = wire[e]
           \/ \E fr \in Frames : fr.type # "open" /\ wire'[e] = Append(wire[e], fr)
    BY <2>2, <2>3, WrittenFrames
  <2>5. OpenFirst(e)'
    BY <2>1, <2>4, OpenKeep
  <2>6. OpenFirst(p)'
    BY <1>1, <2>1, <2>4, OpenKeep
  <2>. QED
    BY <2>5, <2>6
<1>3. CASE ReadLoop(e) \/ LinkFails(e)
  <2>1. /\ main'[p] = main[p] /\ sess'[p] = sess[p] /\ QuietDir(p)
    BY <1>3, ReadLoopFrom
  <2>2. OpenFirst(p)'
    <3>1. /\ linkOpen'[p] => linkOpen[p]
          /\ \/ wire'[e] = wire[e]
             \/ \E fr \in Frames : fr.type # "open" /\ wire'[e] = Append(wire[e], fr)
      BY <1>1, <2>1 DEF QuietDir, Other
    <3>. QED
      BY <1>1, <2>1, <3>1, OpenKeep
  <2>3. OpenFirst(e)'
    <3>1. CASE AcceptOpen(e) \/ DropFrame(e) \/ AddSendCredit(e) \/ Enqueue(e)
      <4>1. wire' = Taken(e) /\ Arrives(e)
        BY <3>1 DEF AcceptOpen, DropFrame, AddSendCredit, Enqueue, Queueable
      <4>2. wire[p] # <<>> /\ wire'[p] = Tail(wire[p])
        BY <4>1, TakenFrames
      <4>3. main'[e] # "none" /\ sess'[e] # "none"
        <5>1. CASE AcceptOpen(e)
          BY <5>1 DEF AcceptOpen, TypeOK
        <5>2. CASE DropFrame(e) \/ AddSendCredit(e) \/ Enqueue(e)
          <6>1. sess' = sess /\ main' = main /\ sess[e] # "none"
            BY <4>1, <5>2, OpenHead DEF DropFrame, AddSendCredit, Enqueue, Queueable
          <6>. QED
            BY <6>1 DEF OpenFirst
        <5>. QED
          BY <3>1, <5>1, <5>2
      <4>. QED
        BY <4>2, <4>3, OpenRead
    <3>2. CASE Overrun(e)
      <4>1. Arrives(e) /\ sess[e] = "open" /\ main' = main /\ sess'[e] = "removed"
        BY <3>2 DEF Overrun, Queueable, TypeOK
      <4>2. wire[p] # <<>> /\ wire'[p] = Tail(wire[p])
        <5>1. /\ wire[p] # <<>> /\ Taken(e)[p] = Tail(wire[p])
          BY <1>1, <4>1 DEF Arrives, Taken, TypeOK
        <5>2. wire' = Taken(e) \/ wire' = [Taken(e) EXCEPT ![e] = Append(Taken(e)[e], Frame("error", 0))]
          BY <3>2 DEF Overrun
        <5>3. DOMAIN Taken(e) = Ends
          BY DEF Taken, TypeOK
        <5>4. wire'[p] = Taken(e)[p]
          BY <1>1, <5>2, <5>3, Zenon
        <5>. QED
          BY <5>1, <5>4
      <4>3. main'[e] # "none" /\ sess'[e] # "none"
        BY <4>1 DEF OpenFirst
      <4>. QED
        BY <4>2, <4>3, OpenRead
    <3>3. CASE LinkNotice(e) \/ LinkFails(e)
      <4>1. ~linkOpen'[e] /\ wire'[p] = <<>> /\ main' = main /\ (sess'[e] = "none" <=> sess[e] = "none")
        BY <1>1, <3>3 DEF LinkNotice, LinkFails, LinkClose, TypeOK
      <4>. QED
        BY <4>1 DEF OpenFirst
    <3>. QED
      BY <1>3, <3>1, <3>2, <3>3 DEF ReadLoop
  <2>. QED
    BY <2>2, <2>3
<1>4. CASE Relay(e) \/ SocketWrite(e) \/ CtxDone(e) \/ IdleElapses(e)
  <2>1. linkOpen' = linkOpen /\ main'[p] = main[p] /\ sess'[p] = sess[p]
    BY <1>1, <1>4 DEF Relay, DialOK, DialFails, SessionDone, TakeReadErr, TakeReadEOF, TakeData, TakeEOF,
         TakeClose, IdleFires, SessionClose, SessionRemove, SocketWrite, ConnWriteOK, ConnWriteErr,
         CtxDone, IdleElapses, Leave, TypeOK
  <2>2. main'[e] = "none" <=> main[e] = "none"
    BY <1>4 DEF Relay, DialOK, DialFails, SessionDone, TakeReadErr, TakeReadEOF, TakeData, TakeEOF,
         TakeClose, IdleFires, SessionClose, SessionRemove, SocketWrite, ConnWriteOK, ConnWriteErr,
         CtxDone, IdleElapses, Leave, TypeOK
  <2>3. sess'[e] = "none" <=> sess[e] = "none"
    <3>1. sess' = sess \/ (main[e] = "remove" /\ sess'[e] = "removed")
      BY <1>4 DEF Relay, DialOK, DialFails, SessionDone, TakeReadErr, TakeReadEOF, TakeData, TakeEOF,
         TakeClose, IdleFires, SessionClose, SessionRemove, SocketWrite, ConnWriteOK, ConnWriteErr,
         CtxDone, IdleElapses, TypeOK
    <3>. QED
      BY <3>1 DEF OpenFirst
  <2>4. /\ wire'[p] = wire[p]
        /\ \/ wire'[e] = wire[e]
           \/ \E fr \in Frames : fr.type # "open" /\ wire'[e] = Append(wire[e], fr)
    <3>1. CASE TakeReadEOF(e)
      <4>1. wire' = wire \/ wire' = Written(e, Frame("eof", 0))
        BY <3>1 DEF TakeReadEOF
      <4>2. Frame("eof", 0) \in Frames /\ Frame("eof", 0).type # "open"
        BY DEF Frame, Frames, Ctl
      <4>. QED
        BY <4>1, <4>2, WrittenFrames
    <3>2. CASE ~TakeReadEOF(e)
      <4>1. QuietDir(p) /\ wire'[p] = wire[p]
        BY <1>4, <3>2, RelayFrom DEF Relay
      <4>. QED
        BY <1>1, <4>1 DEF QuietDir, Other
    <3>. QED
      BY <3>1, <3>2
  <2>5. OpenFirst(e)'
    BY <2>1, <2>2, <2>3, <2>4, OpenKeep
  <2>6. OpenFirst(p)'
    BY <1>1, <2>1, <2>4, OpenKeep
  <2>. QED
    BY <2>5, <2>6
<1>. QED
  BY <1>2, <1>3, <1>4 DEF Environment

-----------------------------------------------------------------------------
(* The reader, and what the sockets have been given.                       *)

\* The reader of a relay stops after the end of its stream.
LEMMA ReaderStep ==
  ASSUME TypeOK, NEW e \in Ends, ReaderOK(e), ReaderOK(Peer(e)), OpenFirst(e),
         \/ Socket(e) \/ Reader(e) \/ ReadLoop(e) \/ Relay(e)
         \/ SocketWrite(e) \/ Environment(e) \/ SkipCredit(e)
  PROVE  ReaderOK(e)' /\ ReaderOK(Peer(e))'
<1> DEFINE p == Peer(e)
<1>1. p \in Ends /\ Peer(p) = e /\ p # e
  BY TwoEnds
<1>0. nread[e] \in Nat
  BY DEF TypeOK
<1>2. CASE Socket(e) \/ Reader(e) \/ ReadFails(e) \/ SkipCredit(e)
  <2>1. main' = main /\ conn' = conn /\ localEOF' = localEOF
    BY <1>2 DEF Socket, Reader, ReadFails, ReadChunk, ReadEOF, ReadClosed, ReadErr, TakeCredit,
         SendClosed, WriteData, SkipCredit
  <2>2. rd'[p] = rd[p] /\ nread'[p] = nread[p]
    BY <1>1, <1>2 DEF TypeOK, Socket, Reader, ReadFails, ReadChunk, ReadEOF, ReadClosed, ReadErr,
         TakeCredit, SendClosed, WriteData, SkipCredit
  <2>3. /\ rd[e] \in {"read", "credit", "write"} /\ rd'[e] # "none"
        /\ \/ nread'[e] = nread[e] + 1
           \/ nread'[e] = nread[e] /\ (rd'[e] = "write" => rd[e] = "credit") /\ rd'[e] # "credit"
    BY <1>2 DEF TypeOK, Socket, Reader, ReadFails, ReadChunk, ReadEOF, ReadClosed, ReadErr,
         TakeCredit, SendClosed, WriteData, SkipCredit
  <2>4. ReaderOK(e)'
    BY <1>0, <2>1, <2>3 DEF ReaderOK, Ended
  <2>5. ReaderOK(p)'
    BY <2>1, <2>2 DEF ReaderOK, Ended
  <2>. QED
    BY <2>4, <2>5
<1>3. CASE ReadLoop(e) \/ LinkFails(e)
  <2>1. /\ rd' = rd /\ nread' = nread /\ localEOF' = localEOF /\ conn' = conn /\ main'[p] = main[p]
    BY <1>3, ReadLoopFrom
  <2>2. main'[e] = main[e] \/ (main[e] = "none" /\ main'[e] = "dial")
    <3>1. CASE AcceptOpen(e)
      BY <3>1, OpenHead DEF AcceptOpen, TypeOK
    <3>2. CASE ~AcceptOpen(e)
      BY <1>3, <3>2 DEF ReadLoop, DropFrame, AddSendCredit, Enqueue, Overrun, LinkNotice, LinkFails, LinkClose
    <3>. QED
      BY <3>1, <3>2
  <2>. QED
    BY <2>1, <2>2 DEF ReaderOK, Ended
<1>4. CASE Relay(e) \/ SocketWrite(e) \/ CtxDone(e) \/ IdleElapses(e)
  <2>1. /\ nread' = nread /\ rd'[p] = rd[p] /\ main'[p] = main[p]
        /\ conn'[p] = conn[p] /\ localEOF'[p] = localEOF[p]
    BY <1>1, <1>4 DEF Relay, DialOK, DialFails, SessionDone, TakeReadErr, TakeReadEOF, TakeData, TakeEOF,
         TakeClose, IdleFires, SessionClose, SessionRemove, SocketWrite, ConnWriteOK, ConnWriteErr,
         CtxDone, IdleElapses, Leave, TypeOK
  <2>2. ReaderOK(p)'
    BY <2>1 DEF ReaderOK, Ended
  <2>3. main'[e] \notin {"none", "dial"}
    BY <1>4 DEF Relay, DialOK, DialFails, SessionDone, TakeReadErr, TakeReadEOF, TakeData,
         TakeEOF, TakeClose, IdleFires, SessionClose, SessionRemove, SocketWrite, ConnWriteOK,
         ConnWriteErr, CtxDone, IdleElapses, Leave, TypeOK
  <2>4. Ended(e)' => conn'[e] = "closed"
    BY <1>4 DEF Relay, DialOK, DialFails, SessionDone, TakeReadErr, TakeReadEOF, TakeData,
         TakeEOF, TakeClose, IdleFires, SessionClose, SessionRemove, SocketWrite, ConnWriteOK,
         ConnWriteErr, CtxDone, IdleElapses, Leave, TypeOK, ReaderOK, Ended
  <2>5. rd'[e] = rd[e] \/ rd'[e] \in {"read", "gone"}
    BY <1>4 DEF Relay, DialOK, DialFails, SessionDone, TakeReadErr, TakeReadEOF, TakeData,
         TakeEOF, TakeClose, IdleFires, SessionClose, SessionRemove, SocketWrite, ConnWriteOK,
         ConnWriteErr, CtxDone, IdleElapses, Leave, TypeOK
  <2>6. localEOF'[e] => rd'[e] = "gone"
    BY <1>4 DEF Relay, DialOK, DialFails, SessionDone, TakeReadErr, TakeReadEOF, TakeData,
         TakeEOF, TakeClose, IdleFires, SessionClose, SessionRemove, SocketWrite, ConnWriteOK,
         ConnWriteErr, CtxDone, IdleElapses, Leave, TypeOK, ReaderOK
  <2>7. ReaderOK(e)'
    BY <2>1, <2>3, <2>4, <2>5, <2>6 DEF ReaderOK
  <2>. QED
    BY <2>2, <2>7
<1>. QED
  BY <1>2, <1>3, <1>4 DEF Environment

\* A step that gives the socket at f nothing.
LEMMA OutKeep ==
  ASSUME TypeOK, NEW f \in Ends, OutOK(f), ReaderOK(Peer(f)),
         out'[f] = out[f], remoteEOF'[f] <=> remoteEOF[f],
         main'[f] = "writing" => main[f] = "writing" /\ hold'[f] = hold[f],
         localEOF[Peer(f)] => localEOF'[Peer(f)],
         \/ nread'[Peer(f)] = nread[Peer(f)]
         \/ nread'[Peer(f)] = nread[Peer(f)] + 1 /\ rd[Peer(f)] = "read"
  PROVE  OutOK(f)'
<1>1. nread[Peer(f)] \in Nat /\ out[f] \in Seq(Nat) /\ hold[f] \in Nat
  BY TwoEnds DEF TypeOK
<1>2. Len(out[f]) \in Nat
  BY <1>1, LenProperties
<1>3. rd[Peer(f)] = "read" => ~localEOF[Peer(f)]
  BY DEF ReaderOK
<1>. QED
  BY <1>1, <1>2, <1>3 DEF OutOK

\* The sockets are given the chunks in order, and their end after the last.
LEMMA OutStep ==
  ASSUME TypeOK, NEW e \in Ends, OutOK(e), OutOK(Peer(e)), ReaderOK(e), ReaderOK(Peer(e)),
         OpenFirst(e), PipeOK(e),
         \/ Socket(e) \/ Reader(e) \/ ReadLoop(e) \/ Relay(e)
         \/ SocketWrite(e) \/ Environment(e) \/ SkipCredit(e)
  PROVE  OutOK(e)' /\ OutOK(Peer(e))'
<1> DEFINE p == Peer(e)
<1>1. p \in Ends /\ Peer(p) = e /\ p # e
  BY TwoEnds
<1>2. CASE Socket(e) \/ Reader(e) \/ ReadFails(e) \/ SkipCredit(e)
  <2>1. /\ main' = main /\ out' = out /\ localEOF' = localEOF /\ remoteEOF' = remoteEOF /\ hold' = hold
    BY <1>2 DEF Socket, Reader, ReadFails, ReadChunk, ReadEOF, ReadClosed, ReadErr, TakeCredit,
         SendClosed, WriteData, SkipCredit
  <2>2. nread'[p] = nread[p]
    BY <1>1, <1>2 DEF TypeOK, Socket, Reader, ReadFails, ReadChunk, ReadEOF, ReadClosed, ReadErr,
         TakeCredit, SendClosed, WriteData, SkipCredit
  <2>3. \/ nread'[e] = nread[e]
        \/ nread'[e] = nread[e] + 1 /\ rd[e] = "read"
    BY <1>2 DEF TypeOK, Socket, Reader, ReadFails, ReadChunk, ReadEOF, ReadClosed, ReadErr,
         TakeCredit, SendClosed, WriteData, SkipCredit
  <2>4. OutOK(e)'
    BY <2>1, <2>2, OutKeep
  <2>5. OutOK(p)'
    BY <1>1, <2>1, <2>3, OutKeep
  <2>. QED
    BY <2>4, <2>5
<1>3. CASE ReadLoop(e) \/ LinkFails(e)
  <2>1. /\ nread' = nread /\ localEOF' = localEOF /\ remoteEOF' = remoteEOF /\ out' = out
        /\ hold' = hold /\ main'[p] = main[p]
    BY <1>3, ReadLoopFrom
  <2>2. main'[e] = main[e] \/ main'[e] = "dial"
    BY <1>3 DEF ReadLoop, AcceptOpen, DropFrame, AddSendCredit, Enqueue, Overrun, LinkNotice,
                LinkFails, LinkClose, TypeOK
  <2>3. OutOK(e)'
    BY <2>1, <2>2, OutKeep
  <2>4. OutOK(p)'
    BY <1>1, <2>1, OutKeep
  <2>. QED
    BY <2>3, <2>4
<1>4. CASE Relay(e) \/ SocketWrite(e) \/ CtxDone(e) \/ IdleElapses(e)
  <2>1. nread' = nread
    BY <1>4 DEF Relay, DialOK, DialFails, SessionDone, TakeReadErr, TakeReadEOF, TakeData,
         TakeEOF, TakeClose, IdleFires, SessionClose, SessionRemove, SocketWrite, ConnWriteOK,
         ConnWriteErr, CtxDone, IdleElapses, Leave, TypeOK
  <2>2. main'[p] = main[p] /\ hold'[p] = hold[p]
    BY <1>1, <1>4 DEF Relay, DialOK, DialFails, SessionDone, TakeReadErr, TakeReadEOF, TakeData,
         TakeEOF, TakeClose, IdleFires, SessionClose, SessionRemove, SocketWrite, ConnWriteOK,
         ConnWriteErr, CtxDone, IdleElapses, Leave, TypeOK
  <2>3. localEOF'[p] = localEOF[p] /\ (localEOF[e] => localEOF'[e])
    BY <1>1, <1>4, Zenon DEF Relay, DialOK, DialFails, SessionDone, TakeReadErr, TakeReadEOF, TakeData,
         TakeEOF, TakeClose, IdleFires, SessionClose, SessionRemove, SocketWrite, ConnWriteOK,
         ConnWriteErr, CtxDone, IdleElapses, Leave, TypeOK
  <2>4. out'[p] = out[p] /\ (remoteEOF'[p] <=> remoteEOF[p])
    BY <1>1, <1>4, Zenon DEF Relay, DialOK, DialFails, SessionDone, TakeReadErr, TakeReadEOF, TakeData,
         TakeEOF, TakeClose, IdleFires, SessionClose, SessionRemove, SocketWrite, ConnWriteOK,
         ConnWriteErr, CtxDone, IdleElapses, Leave, TypeOK
  <2>5. OutOK(p)'
    BY <1>1, <2>1, <2>2, <2>3, <2>4, OutKeep
  <2>6. CASE TakeData(e)
    <3>1. Next1(e).n = Len(out[e]) + 1 /\ Next1(e).n <= nread[p] /\ ~remoteEOF[e]
      BY <2>6, TakeDataPipe
    <3>2. hold'[e] = Next1(e).n /\ out' = out /\ remoteEOF' = remoteEOF
      BY <2>6 DEF TakeData, TypeOK
    <3>. QED
      BY <2>1, <2>5, <3>1, <3>2 DEF OutOK
  <2>7. CASE TakeEOF(e)
    <3>1. Len(out[e]) = nread[p] /\ localEOF[p]
      BY <2>7, TakeEOFPipe
    <3>2. out' = out /\ main'[e] # "writing"
      BY <2>7 DEF TakeEOF, Leave, TypeOK
    <3>. QED
      BY <2>1, <2>3, <2>5, <3>1, <3>2 DEF OutOK
  <2>8. CASE ConnWriteOK(e)
    <3>1. /\ main[e] = "writing" /\ main'[e] = "select" /\ remoteEOF' = remoteEOF
          /\ out[e] \in Seq(Nat) /\ hold[e] \in Nat /\ nread[p] \in Nat
      BY <1>1, <2>8 DEF ConnWriteOK, TypeOK
    <3>2. out'[e] = Append(out[e], hold[e])
      BY <2>8, Zenon DEF ConnWriteOK, TypeOK
    <3>3. /\ Len(out[e]) \in Nat /\ Len(out'[e]) = Len(out[e]) + 1
          /\ out'[e][Len(out[e]) + 1] = hold[e]
          /\ \A i \in 1..Len(out[e]) : out'[e][i] = out[e][i]
      BY <3>1, <3>2, AppendProperties, LenProperties
    <3>4. hold[e] = Len(out[e]) + 1 /\ hold[e] <= nread[p]
      BY <3>1 DEF OutOK
    <3>5. \A i \in 1..Len(out[e]) : out[e][i] = i
      BY DEF OutOK
    <3>6. \A i \in 1..Len(out'[e]) : out'[e][i] = i
      BY <3>3, <3>4, <3>5
    <3>7. ~remoteEOF[e]
      BY <3>1, <3>3, <3>4 DEF OutOK
    <3>. QED
      BY <2>1, <2>5, <3>1, <3>3, <3>4, <3>6, <3>7 DEF OutOK
  <2>9. CASE ~TakeData(e) /\ ~TakeEOF(e) /\ ~ConnWriteOK(e)
    <3>1. out' = out /\ remoteEOF' = remoteEOF
      BY <1>4, <2>9 DEF Relay, DialOK, DialFails, SessionDone, TakeReadErr, TakeReadEOF, TakeClose,
         IdleFires, SessionClose, SessionRemove, SocketWrite, ConnWriteErr, CtxDone, IdleElapses
    <3>2. main'[e] = "writing" => main[e] = "writing" /\ hold'[e] = hold[e]
      BY <1>4, <2>9 DEF Relay, DialOK, DialFails, SessionDone, TakeReadErr, TakeReadEOF, TakeClose,
         IdleFires, SessionClose, SessionRemove, SocketWrite, ConnWriteErr, CtxDone, IdleElapses, Leave, TypeOK
    <3>3. OutOK(e)'
      BY <1>1, <2>1, <2>3, <3>1, <3>2, OutKeep
    <3>. QED
      BY <2>5, <3>3
  <2>. QED
    BY <2>6, <2>7, <2>8, <2>9
<1>. QED
  BY <1>2, <1>3, <1>4 DEF Environment

-----------------------------------------------------------------------------
(* The invariant.                                                          *)

\* A new session satisfies the invariant.
LEMMA StreamInit == Init => StreamInv
<1>. SUFFICES ASSUME Init PROVE StreamInv
  OBVIOUS
<1>1. TypeOK
  BY TypeInit
<1>. SUFFICES ASSUME NEW f \in Ends
              PROVE  OpenFirst(f) /\ ReaderOK(f) /\ OutOK(f) /\ PipeOK(f)
  BY <1>1 DEF StreamInv
<1>2. f = "edge" \/ f = "connector"
  BY DEF Ends
<1>3. /\ recv[f] = <<>> /\ nread[f] = 0 /\ nread[Peer(f)] = 0 /\ ~localEOF[f] /\ ~localEOF[Peer(f)]
      /\ ~remoteEOF[f] /\ out[f] = <<>> /\ rd[f] \in {"read", "none"}
      /\ rd[Peer(f)] \in {"read", "none"}
      /\ main[f] \in {"select", "none"}
      /\ main[f] = "none" => rd[f] = "none" /\ conn[f] = "closed"
  BY <1>2 DEF Init, Ends, Peer
<1>4. /\ f = "edge" => wire[Peer(f)] = <<>>
      /\ f = "connector" => wire[Peer(f)] = <<Frame("open", 0)>>
      /\ main[f] = "none" <=> f = "connector"
      /\ sess[f] = "none" <=> f = "connector"
  BY <1>2 DEF Init, Ends, Peer
<1>5. OpenFirst(f)
  <2>1. /\ Len(<<Frame("open", 0)>>) = 1 /\ <<Frame("open", 0)>>[1] = Frame("open", 0)
        /\ Head(<<Frame("open", 0)>>) = Frame("open", 0) /\ Frame("open", 0).type = "open"
        /\ <<Frame("open", 0)>> # <<>>
    BY DEF Frame
  <2>2. Len(<<>>) = 0
    OBVIOUS
  <2>. QED
    BY <1>2, <1>4, <2>1, <2>2 DEF OpenFirst
<1>6. ReaderOK(f)
  BY <1>3 DEF ReaderOK, Ended
<1>7. OutOK(f)
  BY <1>3 DEF OutOK
<1>8. PipeOK(f)
  <2>1. Got(f) = 0 /\ Sent(Peer(f)) = 0
    BY <1>3 DEF Got, Sent, B
  <2>2. /\ Pipe(f) \in Seq(Frames)
        /\ \A i \in 1..Len(Pipe(f)) : ~Item(Pipe(f)[i])
    <3>1. Pipe(f) = <<>> \/ Pipe(f) = wire[Peer(f)]
      BY <1>1, <1>3, DirTypes, ConcatEmptySeq
    <3>2. Pipe(f) \in Seq(Frames)
      BY <1>1, DirTypes
    <3>3. Pipe(f) = <<>> \/ Pipe(f) = <<Frame("open", 0)>>
      BY <1>2, <1>4, <3>1
    <3>4. ~Item(Frame("open", 0))
      BY DEF Item, Frame
    <3>. QED
      BY <3>2, <3>3, <3>4
  <2>3. Chain(Pipe(f), 0, 0, 0) /\ Full(Pipe(f), 0, 0, 0)
    BY <2>2 DEF Chain, Full
  <2>. QED
    BY <1>3, <2>1, <2>3 DEF PipeOK
<1>. QED
  BY <1>5, <1>6, <1>7, <1>8

\* Every step keeps it, of a peer that skips the window too.
LEMMA StreamStep ==
  ASSUME StreamInv, [RogueNext]_vars
  PROVE  StreamInv'
<1>0. TypeOK /\ "edge" \in Ends
  BY DEF StreamInv, Ends
<1>1. TypeOK'
  <2>1. CASE [Next]_vars
    BY <1>0, <2>1, TypeStep
  <2>2. CASE SkipCredit("edge")
    BY <1>0, <2>2 DEF TypeOK, SkipCredit
  <2>. QED
    BY <2>1, <2>2 DEF RogueNext
<1>2. CASE UNCHANGED vars \/ Finished
  <2>1. UNCHANGED vars
    BY <1>2 DEF Finished
  <2>. QED
    BY <1>1, <2>1 DEF StreamInv, OpenFirst, ReaderOK, OutOK, PipeOK, Pipe, Got, Sent, Writes, Flows, Ended, vars
<1>3. ASSUME NEW e \in Ends,
             \/ Socket(e) \/ Reader(e) \/ ReadLoop(e) \/ Relay(e)
             \/ SocketWrite(e) \/ Environment(e) \/ SkipCredit(e)
      PROVE  StreamInv'
  <2>1. Peer(e) \in Ends /\ \A g \in Ends : g = e \/ g = Peer(e)
    BY TwoEnds
  <2>2. /\ OpenFirst(e) /\ ReaderOK(e) /\ OutOK(e) /\ PipeOK(e)
        /\ OpenFirst(Peer(e)) /\ ReaderOK(Peer(e)) /\ OutOK(Peer(e)) /\ PipeOK(Peer(e))
    BY <2>1 DEF StreamInv
  <2>3. OpenFirst(e)' /\ OpenFirst(Peer(e))'
    BY <1>0, <1>3, <2>2, OpenStep
  <2>4. ReaderOK(e)' /\ ReaderOK(Peer(e))'
    BY <1>0, <1>3, <2>2, ReaderStep
  <2>5. OutOK(e)' /\ OutOK(Peer(e))'
    BY <1>0, <1>3, <2>2, OutStep
  <2>6. PipeOK(e)' /\ PipeOK(Peer(e))'
    BY <1>0, <1>3, <2>2, ReaderPipe, ReadLoopPipe, RelayPipe DEF Environment
  <2>7. \A f \in Ends : OpenFirst(f)' /\ ReaderOK(f)' /\ OutOK(f)' /\ PipeOK(f)'
    BY <2>1, <2>3, <2>4, <2>5, <2>6
  <2>. QED
    BY <1>1, <2>7 DEF StreamInv
<1>. QED
  BY <1>0, <1>2, <1>3 DEF RogueNext, Next

\* In every state of the two relays the frames in flight continue what the
\* sockets have been given.
LEMMA StreamAlways == Spec => []StreamInv
<1>1. StreamInv /\ [Next]_vars => StreamInv'
  BY StreamStep DEF RogueNext
<1>. QED
  BY <1>1, StreamInit, PTL DEF Spec

\* The invariant gives the order of the bytes.
LEMMA StreamInOrder == StreamInv => InOrder
BY DEF StreamInv, OutOK, InOrder

(***************************************************************************)
(* RelayConn never reorders, repeats or skips a chunk, whatever faults     *)
(* occur: the bytes written to a socket are a prefix of those read from    *)
(* the other one, for every window, queue and length of the streams.       *)
(***************************************************************************)
THEOREM StreamOrder == Spec => []InOrder
BY StreamAlways, StreamInOrder, PTL

(***************************************************************************)
(* The order survives a peer that ignores the window: dispatch may kill    *)
(* the session, never let it skip a frame.                                 *)
(***************************************************************************)
THEOREM RogueOrder == RogueSpec => []InOrder
<1>1. RogueSpec => []StreamInv
  BY StreamInit, StreamStep, PTL DEF RogueSpec
<1>. QED
  BY <1>1, StreamInOrder, PTL

-----------------------------------------------------------------------------
(* The relay implements the contract of DuplexStream.                      *)

\* The two streams' ends and the two relays' ends, as DuplexStream sees them.
FinAt(e) == rd[e] = "eof" \/ localEOF[e]
Fin  == [e \in Ends |-> rd[e] = "eof" \/ localEOF[e]]
Over == [e \in Ends |-> Ended(e)]

\* Steps that leave the ends of the streams, or of the relays, as they are.
LEMMA FinSame ==
  ASSUME \A g \in Ends : FinAt(g)' <=> FinAt(g)
  PROVE  Fin' = Fin
<1>1. \A g \in Ends : (rd'[g] = "eof" \/ localEOF'[g]) <=> (rd[g] = "eof" \/ localEOF[g])
  BY DEF FinAt
<1>2. \A g \in Ends : (rd'[g] = "eof" \/ localEOF'[g]) = (rd[g] = "eof" \/ localEOF[g])
  BY <1>1, Zenon
<1>. QED
  BY <1>2, Zenon DEF Fin

\* No relay ends.
LEMMA OverSame ==
  ASSUME \A g \in Ends : Ended(g)' <=> Ended(g)
  PROVE  Over' = Over
<1> DEFINE S == {"close", "remove", "done"}
<1>1. \A g \in Ends : main'[g] \in S <=> main[g] \in S
  BY Zenon DEF Ended
<1>. HIDE DEF S
<1>2. \A g \in Ends : (main'[g] \in S) = (main[g] \in S)
  BY <1>1
<1>3. Over = [g \in Ends |-> main[g] \in S] /\ Over' = [g \in Ends |-> main'[g] \in S]
  BY Zenon DEF Over, Ended, S
<1>. QED
  BY <1>2, <1>3, Zenon

\* The relay at e ends, or had ended, and the other is as it was.
LEMMA OverCut ==
  ASSUME NEW e \in Ends, Ended(e)', \A g \in Ends \ {e} : Ended(g)' <=> Ended(g)
  PROVE  Over' = [Over EXCEPT ![e] = TRUE]
<1> DEFINE S == {"close", "remove", "done"}
<1>1. main'[e] \in S /\ \A g \in Ends \ {e} : main'[g] \in S <=> main[g] \in S
  BY Zenon DEF Ended
<1>. HIDE DEF S
<1>2. /\ (main'[e] \in S) = TRUE
      /\ \A g \in Ends : g # e => (main'[g] \in S) = (main[g] \in S)
  BY <1>1
<1>3. Over = [g \in Ends |-> main[g] \in S] /\ Over' = [g \in Ends |-> main'[g] \in S]
  BY Zenon DEF Over, Ended, S
<1>. QED
  BY <1>2, <1>3, Zenon

\* The stream read at e ends.
LEMMA FinCut ==
  ASSUME NEW e \in Ends, FinAt(e)', \A g \in Ends \ {e} : FinAt(g)' <=> FinAt(g)
  PROVE  Fin' = [Fin EXCEPT ![e] = TRUE]
<1>1. \A g \in Ends : FinAt(g)' = IF g = e THEN TRUE ELSE FinAt(g)
  BY Zenon DEF FinAt
<1>. QED
  BY <1>1, Zenon DEF Fin, FinAt

\* A step DuplexStream does not see.
LEMMA StreamStutter ==
  ASSUME nread' = nread, out' = out, remoteEOF' = remoteEOF,
         \A g \in Ends : FinAt(g)' <=> FinAt(g),
         \A g \in Ends : Ended(g)' <=> Ended(g)
  PROVE  UNCHANGED Stream!vars
<1>1. Fin' = Fin /\ Over' = Over
  BY FinSame, OverSame
<1>. QED
  BY <1>1 DEF Stream!vars, Fin, Over

\* The relay at e ends: DuplexStream's Cut.
LEMMA StreamCut ==
  ASSUME NEW e \in Ends, nread' = nread, out' = out, remoteEOF' = remoteEOF,
         \A g \in Ends : FinAt(g)' <=> FinAt(g),
         ~Ended(e), Ended(e)', \A g \in Ends \ {e} : Ended(g)' <=> Ended(g)
  PROVE  Stream!Next
<1>1. Fin' = Fin /\ Over' = [Over EXCEPT ![e] = TRUE] /\ ~Over[e]
  BY FinSame, OverCut DEF Over
<1>2. Stream!Cut(e)
  BY <1>1 DEF Stream!Cut, Fin, Over
<1>. QED
  BY <1>2 DEF Stream!Next

\* The reader at e has read a chunk: DuplexStream's Accept.
LEMMA StreamAccept ==
  ASSUME NEW e \in Ends, ~FinAt(e), ~Ended(e),
         nread' = [nread EXCEPT ![e] = nread[e] + 1], out' = out, remoteEOF' = remoteEOF,
         \A g \in Ends : FinAt(g)' <=> FinAt(g),
         \A g \in Ends : Ended(g)' <=> Ended(g)
  PROVE  Stream!Next
<1>1. Fin' = Fin /\ Over' = Over /\ ~Fin[e] /\ ~Over[e]
  BY FinSame, OverSame DEF Fin, FinAt, Over
<1>2. Stream!Accept(e)
  BY <1>1 DEF Stream!Accept, Fin, Over
<1>. QED
  BY <1>2 DEF Stream!Next

\* The reader at e has read the end: DuplexStream's Finish.
LEMMA StreamFinish ==
  ASSUME NEW e \in Ends, ~FinAt(e), ~Ended(e), FinAt(e)',
         nread' = nread, out' = out, remoteEOF' = remoteEOF,
         \A g \in Ends \ {e} : FinAt(g)' <=> FinAt(g),
         \A g \in Ends : Ended(g)' <=> Ended(g)
  PROVE  Stream!Next
<1>1. Fin' = [Fin EXCEPT ![e] = TRUE] /\ Over' = Over /\ ~Fin[e] /\ ~Over[e]
  BY FinCut, OverSame DEF Fin, FinAt, Over
<1>2. Stream!Finish(e)
  BY <1>1 DEF Stream!Finish, Fin, Over
<1>. QED
  BY <1>2 DEF Stream!Next

\* A chunk is written to e's socket: DuplexStream's Deliver.
LEMMA StreamDeliver ==
  ASSUME NEW e \in Ends, ~remoteEOF[e], ~Ended(e), Len(out[e]) < nread[Peer(e)],
         out' = [out EXCEPT ![e] = Append(out[e], Len(out[e]) + 1)],
         nread' = nread, remoteEOF' = remoteEOF,
         \A g \in Ends : FinAt(g)' <=> FinAt(g),
         \A g \in Ends : Ended(g)' <=> Ended(g)
  PROVE  Stream!Next
<1>1. Fin' = Fin /\ Over' = Over /\ ~Over[e]
  BY FinSame, OverSame DEF Over
<1>2. Stream!Deliver(e)
  BY <1>1 DEF Stream!Deliver, Fin, Over
<1>. QED
  BY <1>2 DEF Stream!Next

\* The end is shown to e's socket: DuplexStream's ShowEnd.
LEMMA StreamShowEnd ==
  ASSUME NEW e \in Ends, ~remoteEOF[e], ~Ended(e), FinAt(Peer(e)), Len(out[e]) = nread[Peer(e)],
         remoteEOF' = [remoteEOF EXCEPT ![e] = TRUE],
         nread' = nread, out' = out,
         \A g \in Ends : FinAt(g)' <=> FinAt(g),
         \A g \in Ends \ {e} : Ended(g)' <=> Ended(g),
         Ended(e)' => FinAt(e)
  PROVE  Stream!Next
<1>1. Fin' = Fin /\ Fin[Peer(e)] /\ ~Over[e] /\ (Ended(e)' => Fin[e])
  BY FinSame, TwoEnds DEF Fin, FinAt, Over
<1>2. (Over' = Over) \/ (Fin[e] /\ Over' = [Over EXCEPT ![e] = TRUE])
  <2>1. CASE Ended(e)'
    BY <1>1, <2>1, OverCut
  <2>2. CASE ~Ended(e)'
    <3>1. \A g \in Ends : Ended(g)' <=> Ended(g)
      BY <2>2
    <3>. QED
      BY <3>1, OverSame
  <2>. QED
    BY <2>1, <2>2
<1>3. Stream!ShowEnd(e)
  BY <1>1, <1>2 DEF Stream!ShowEnd, Fin, Over
<1>. QED
  BY <1>3 DEF Stream!Next

\* A new session is a new stream in both directions.
LEMMA RefineInit == Init => Stream!Init
<1>. SUFFICES ASSUME Init PROVE Stream!Init
  OBVIOUS
<1>1. /\ nread = [e \in Ends |-> 0] /\ out = [e \in Ends |-> <<>>]
      /\ remoteEOF = [e \in Ends |-> FALSE]
  BY DEF Init
<1>2. \A e \in Ends : (rd[e] = "eof" \/ localEOF[e]) = FALSE
  BY DEF Init
<1>3. \A e \in Ends : Ended(e) = FALSE
  BY DEF Init, Ended
<1>. QED
  BY <1>1, <1>2, <1>3 DEF Stream!Init

\* The reader accepts a chunk or the end of a stream.
LEMMA RefineReader ==
  ASSUME StreamInv, NEW e \in Ends, Socket(e) \/ Reader(e) \/ ReadFails(e) \/ SkipCredit(e)
  PROVE  Stream!Next \/ UNCHANGED Stream!vars
<1>1. /\ main' = main /\ out' = out /\ localEOF' = localEOF /\ remoteEOF' = remoteEOF
  BY DEF Socket, Reader, ReadFails, ReadChunk, ReadEOF, ReadClosed, ReadErr, TakeCredit,
         SendClosed, WriteData, SkipCredit
<1>2. \A g \in Ends : Ended(g)' <=> Ended(g)
  BY <1>1 DEF Ended
<1>3. TypeOK /\ ReaderOK(e)
  BY DEF StreamInv
<1>4. \A g \in Ends \ {e} : FinAt(g)' <=> FinAt(g)
  <2>1. \A g \in Ends \ {e} : rd'[g] = rd[g]
    BY <1>3 DEF TypeOK, Socket, Reader, ReadFails, ReadChunk, ReadEOF, ReadClosed, ReadErr,
         TakeCredit, SendClosed, WriteData, SkipCredit
  <2>. QED
    BY <1>1, <2>1 DEF FinAt
<1>5. CASE ReadChunk(e)
  <2>1. /\ nread' = [nread EXCEPT ![e] = nread[e] + 1] /\ rd[e] = "read" /\ rd'[e] = "credit"
        /\ conn[e] # "closed"
    BY <1>3, <1>5 DEF ReadChunk, TypeOK
  <2>2. ~FinAt(e) /\ ~FinAt(e)' /\ ~Ended(e)
    BY <1>1, <1>3, <2>1 DEF FinAt, ReaderOK
  <2>3. \A g \in Ends : FinAt(g)' <=> FinAt(g)
    BY <1>4, <2>2
  <2>. QED
    BY <1>1, <1>2, <2>1, <2>2, <2>3, StreamAccept
<1>6. CASE ReadEOF(e)
  <2>1. nread' = nread /\ rd[e] = "read" /\ rd'[e] = "eof" /\ conn[e] # "closed"
    BY <1>3, <1>6 DEF ReadEOF, TypeOK
  <2>2. ~FinAt(e) /\ FinAt(e)' /\ ~Ended(e)
    BY <1>1, <1>3, <2>1 DEF FinAt, ReaderOK
  <2>. QED
    BY <1>1, <1>2, <1>4, <2>1, <2>2, StreamFinish
<1>7. CASE ReadClosed(e) \/ ReadFails(e) \/ TakeCredit(e) \/ SkipCredit(e) \/ SendClosed(e) \/ WriteData(e)
  <2>1. nread' = nread /\ rd[e] # "eof" /\ rd'[e] # "eof"
    BY <1>3, <1>7 DEF ReadClosed, ReadFails, ReadErr, TakeCredit, SkipCredit, SendClosed, WriteData, TypeOK
  <2>2. \A g \in Ends : FinAt(g)' <=> FinAt(g)
    BY <1>1, <1>4, <2>1 DEF FinAt
  <2>. QED
    BY <1>1, <1>2, <2>1, <2>2, StreamStutter
<1>. QED
  BY <1>5, <1>6, <1>7 DEF Socket, Reader

\* The read loop is invisible to the sockets.
LEMMA RefineReadLoop ==
  ASSUME StreamInv, NEW e \in Ends, ReadLoop(e) \/ LinkFails(e)
  PROVE  UNCHANGED Stream!vars
<1>1. TypeOK /\ OpenFirst(e)
  BY DEF StreamInv
<1>2. /\ rd' = rd /\ nread' = nread /\ localEOF' = localEOF /\ remoteEOF' = remoteEOF /\ out' = out
      /\ main'[Peer(e)] = main[Peer(e)]
  BY <1>1, ReadLoopFrom
<1>3. main'[e] = main[e] \/ (main[e] = "none" /\ main'[e] = "dial")
  <2>1. CASE AcceptOpen(e)
    BY <1>1, <2>1, OpenHead DEF AcceptOpen, TypeOK
  <2>2. CASE ~AcceptOpen(e)
    BY <2>2 DEF ReadLoop, DropFrame, AddSendCredit, Enqueue, Overrun, LinkNotice, LinkFails, LinkClose
  <2>. QED
    BY <2>1, <2>2
<1>4. \A g \in Ends : (Ended(g)' <=> Ended(g)) /\ (FinAt(g)' <=> FinAt(g))
  BY <1>2, <1>3, TwoEnds DEF Ended, FinAt
<1>. QED
  BY <1>2, <1>4, StreamStutter

\* The select loop delivers a chunk, shows the end, or cuts the relay.
LEMMA RefineRelay ==
  ASSUME StreamInv, NEW e \in Ends, Relay(e) \/ SocketWrite(e) \/ CtxDone(e) \/ IdleElapses(e)
  PROVE  Stream!Next \/ UNCHANGED Stream!vars
<1>1. /\ TypeOK /\ ReaderOK(e) /\ OutOK(e) /\ PipeOK(e)
      /\ Peer(e) \in Ends /\ Peer(e) # e /\ \A g \in Ends : g = e \/ g = Peer(e)
  BY TwoEnds DEF StreamInv
<1>2. nread' = nread /\ \A g \in Ends \ {e} : main'[g] = main[g] /\ rd'[g] = rd[g]
  BY <1>1 DEF Relay, DialOK, DialFails, SessionDone, TakeReadErr, TakeReadEOF, TakeData,
         TakeEOF, TakeClose, IdleFires, SessionClose, SessionRemove, SocketWrite, ConnWriteOK,
         ConnWriteErr, CtxDone, IdleElapses, Leave, TypeOK
<1>3. \A g \in Ends \ {e} : (Ended(g)' <=> Ended(g))
  BY <1>2 DEF Ended
<1>4. \A g \in Ends : FinAt(g)' <=> FinAt(g)
  <2>1. \/ localEOF' = localEOF /\ (rd'[e] = "eof" <=> rd[e] = "eof")
        \/ TakeReadEOF(e)
    BY <1>1 DEF Relay, DialOK, DialFails, SessionDone, TakeReadErr, TakeData,
         TakeEOF, TakeClose, IdleFires, SessionClose, SessionRemove, SocketWrite, ConnWriteOK,
         ConnWriteErr, CtxDone, IdleElapses, TypeOK, ReaderOK
  <2>2. CASE TakeReadEOF(e)
    <3>1. rd[e] = "eof" /\ localEOF'[e] /\ \A g \in Ends \ {e} : localEOF'[g] = localEOF[g]
      BY <1>1, <2>2 DEF TakeReadEOF, TypeOK
    <3>. QED
      BY <1>2, <3>1 DEF FinAt
  <2>3. CASE localEOF' = localEOF /\ (rd'[e] = "eof" <=> rd[e] = "eof")
    BY <1>2, <2>3 DEF FinAt
  <2>. QED
    BY <2>1, <2>2, <2>3
<1>5. CASE TakeEOF(e)
  <2>1. Len(out[e]) = nread[Peer(e)] /\ localEOF[Peer(e)] /\ ~remoteEOF[e]
    BY <1>1, <1>5, TakeEOFPipe
  <2>2. /\ main[e] = "select" /\ out' = out /\ remoteEOF' = [remoteEOF EXCEPT ![e] = TRUE]
        /\ main'[e] # "select" => localEOF[e]
    BY <1>1, <1>5 DEF TakeEOF, TypeOK
  <2>3. FinAt(Peer(e)) /\ ~Ended(e) /\ (Ended(e)' => FinAt(e))
    BY <2>1, <2>2 DEF FinAt, Ended
  <2>. QED
    BY <1>2, <1>3, <1>4, <2>1, <2>2, <2>3, StreamShowEnd
<1>6. CASE ConnWriteOK(e)
  <2>1. /\ main[e] = "writing" /\ main'[e] = "select" /\ remoteEOF' = remoteEOF
        /\ out' = [out EXCEPT ![e] = Append(out[e], hold[e])] /\ nread[Peer(e)] \in Nat
        /\ out[e] \in Seq(Nat)
    BY <1>1, <1>6 DEF ConnWriteOK, TypeOK
  <2>2. hold[e] = Len(out[e]) + 1 /\ hold[e] <= nread[Peer(e)] /\ Len(out[e]) \in Nat
    BY <1>1, <2>1, LenProperties DEF OutOK
  <2>3. Len(out[e]) < nread[Peer(e)] /\ ~remoteEOF[e]
    BY <1>1, <2>1, <2>2 DEF OutOK
  <2>4. \A g \in Ends : Ended(g)' <=> Ended(g)
    BY <1>3, <2>1 DEF Ended
  <2>5. ~Ended(e) /\ out' = [out EXCEPT ![e] = Append(out[e], Len(out[e]) + 1)]
    BY <2>1, <2>2, Zenon DEF Ended
  <2>. QED
    BY <1>2, <1>4, <2>1, <2>3, <2>4, <2>5, StreamDeliver
<1>7. CASE ~TakeEOF(e) /\ ~ConnWriteOK(e)
  <2>1. out' = out /\ remoteEOF' = remoteEOF
    BY <1>7 DEF Relay, DialOK, DialFails, SessionDone, TakeReadErr, TakeReadEOF, TakeData,
         TakeClose, IdleFires, SessionClose, SessionRemove, SocketWrite, ConnWriteErr, CtxDone, IdleElapses
  <2>2. Ended(e) => Ended(e)'
    BY <1>1, <1>7 DEF Relay, DialOK, DialFails, SessionDone, TakeReadErr, TakeReadEOF, TakeData,
         TakeClose, IdleFires, SessionClose, SessionRemove, SocketWrite, ConnWriteErr, CtxDone, IdleElapses,
         Leave, TypeOK, Ended
  <2>3. CASE ~Ended(e) /\ Ended(e)'
    BY <1>2, <1>3, <1>4, <2>1, <2>3, StreamCut
  <2>4. CASE Ended(e)' <=> Ended(e)
    <3>1. \A g \in Ends : Ended(g)' <=> Ended(g)
      BY <1>3, <2>4
    <3>. QED
      BY <1>2, <1>4, <2>1, <3>1, StreamStutter
  <2>. QED
    BY <2>2, <2>3, <2>4
<1>. QED
  BY <1>5, <1>6, <1>7

\* Every step of the relay is a step of DuplexStream or invisible to it.
LEMMA RefineStep ==
  ASSUME StreamInv, [RogueNext]_vars
  PROVE  [Stream!Next]_(Stream!vars)
<1>1. CASE UNCHANGED vars \/ Finished
  <2>1. UNCHANGED vars
    BY <1>1 DEF Finished
  <2>2. nread' = nread /\ out' = out /\ remoteEOF' = remoteEOF /\ main' = main /\ rd' = rd /\ localEOF' = localEOF
    BY <2>1 DEF vars
  <2>3. \A g \in Ends : (Ended(g)' <=> Ended(g)) /\ (FinAt(g)' <=> FinAt(g))
    BY <2>2 DEF Ended, FinAt
  <2>. QED
    BY <2>2, <2>3, StreamStutter
<1>2. ASSUME NEW e \in Ends,
             \/ Socket(e) \/ Reader(e) \/ ReadLoop(e) \/ Relay(e)
             \/ SocketWrite(e) \/ Environment(e) \/ SkipCredit(e)
      PROVE  [Stream!Next]_(Stream!vars)
  BY <1>2, RefineReader, RefineReadLoop, RefineRelay DEF Environment
<1>3. "edge" \in Ends
  BY DEF Ends
<1>. QED
  BY <1>1, <1>2, <1>3 DEF RogueNext, Next

(***************************************************************************)
(* RelayConn keeps its contract (the comment above it: half-closes are     *)
(* propagated, nothing is cut before the end is shown): with every fault,  *)
(* each behaviour of the two relays is a behaviour of DuplexStream.        *)
(***************************************************************************)
THEOREM Refinement == Spec => ImplementsStream
<1>1. StreamInv /\ [Next]_vars => [Stream!Next]_(Stream!vars)
  BY RefineStep DEF RogueNext
<1>. QED
  BY <1>1, StreamAlways, RefineInit, PTL DEF Spec, ImplementsStream, Stream!Spec

-----------------------------------------------------------------------------
(* Without faults.                                                         *)

\* Nothing but credit follows a close frame, and P holds once there is one.
Closed(s, P) == \A i \in 1..Len(s) : s[i].type \in {"close", "error"} =>
  P /\ \A j \in (i + 1)..Len(s) : ~Item(s[j])

\* A relay ends when both its streams have ended, and only its own end closes
\* its socket, its session and its reader.
Graceful(f) ==
  /\ linkOpen[f] /\ ~idleDue[f] /\ rd[f] # "err"
  /\ rd[f] = "gone" => localEOF[f]
  /\ sess[f] = "removed" => Ended(f)
  /\ conn[f] = "closed" => Ended(f) \/ main[f] \in {"none", "dial"}
  /\ Ended(f) => localEOF[f] /\ remoteEOF[f]
  /\ ~Ended(f) => Closed(Pipe(f), Ended(Peer(f)))

GraceInv == \A f \in Ends : Graceful(f)

\* Closed queues stay closed: a frame leaves the queue ...
LEMMA ClosedRemove ==
  ASSUME NEW s \in Seq(Frames), NEW u \in Seq(Frames), NEW m \in 1..Len(s), NEW P, Closed(s, P),
         Len(u) = Len(s) - 1,
         \A i \in 1..(m - 1) : u[i] = s[i],
         \A i \in m..Len(u) : u[i] = s[i + 1]
  PROVE  Closed(u, P)
<1>1. Len(s) \in Nat /\ Len(u) \in Nat
  BY LenProperties
<1>. SUFFICES ASSUME NEW i \in 1..Len(u), u[i].type \in {"close", "error"}
              PROVE  P /\ \A j \in (i + 1)..Len(u) : ~Item(u[j])
  BY DEF Closed
<1>2. CASE i < m
  <2>1. P /\ \A j \in (i + 1)..Len(s) : ~Item(s[j])
    BY <1>1, <1>2 DEF Closed
  <2>2. ASSUME NEW j \in (i + 1)..Len(u) PROVE ~Item(u[j])
    <3>1. CASE j < m
      BY <1>1, <2>1, <3>1
    <3>2. CASE j >= m
      <4>1. u[j] = s[j + 1] /\ j + 1 \in (i + 1)..Len(s)
        BY <1>1, <3>2
      <4>. QED
        BY <2>1, <4>1
    <3>. QED
      BY <1>1, <3>1, <3>2
  <2>. QED
    BY <2>1, <2>2
<1>3. CASE i >= m
  <2>1. i + 1 \in 1..Len(s) /\ u[i] = s[i + 1]
    BY <1>1, <1>3
  <2>2. P /\ \A j \in ((i + 1) + 1)..Len(s) : ~Item(s[j])
    BY <2>1 DEF Closed
  <2>3. ASSUME NEW j \in (i + 1)..Len(u) PROVE ~Item(u[j])
    <3>1. u[j] = s[j + 1] /\ j + 1 \in ((i + 1) + 1)..Len(s)
      BY <1>1, <1>3
    <3>. QED
      BY <2>2, <3>1
  <2>. QED
    BY <2>2, <2>3
<1>. QED
  BY <1>1, <1>2, <1>3

\* ... or one is added: an item before the close, the close when it is due.
LEMMA ClosedAppend ==
  ASSUME NEW s \in Seq(Frames), NEW fr \in Frames, NEW P, NEW Q, Closed(s, P), P => Q,
         Item(fr) => ~P, fr.type \in {"close", "error"} => Q
  PROVE  Closed(Append(s, fr), Q)
<1> DEFINE u == Append(s, fr)
<1>1. /\ Len(s) \in Nat /\ Len(u) = Len(s) + 1 /\ u[Len(s) + 1] = fr
      /\ \A i \in 1..Len(s) : u[i] = s[i]
  BY AppendProperties, LenProperties
<1>. HIDE DEF u
<1>. SUFFICES ASSUME NEW i \in 1..Len(u), u[i].type \in {"close", "error"}
              PROVE  Q /\ \A j \in (i + 1)..Len(u) : ~Item(u[j])
  BY DEF Closed, u
<1>2. CASE i = Len(s) + 1
  BY <1>1, <1>2
<1>3. CASE i \in 1..Len(s)
  <2>1. P /\ \A j \in (i + 1)..Len(s) : ~Item(s[j])
    BY <1>1, <1>3 DEF Closed
  <2>. QED
    BY <1>1, <1>3, <2>1
<1>. QED
  BY <1>1, <1>2, <1>3

\* Without faults a relay that has not ended receives from its link.
LEMMA GracePipes ==
  ASSUME StreamInv, GraceInv, NEW f \in Ends, ~Ended(f)
  PROVE  /\ Flows(f) /\ Pipe(f) = recv[f] \o wire[Peer(f)]
         /\ recv[f] \in Seq(Frames) /\ wire[Peer(f)] \in Seq(Frames) /\ Pipe(f) \in Seq(Frames)
         /\ Closed(Pipe(f), Ended(Peer(f)))
         /\ Full(Pipe(f), Got(f), Sent(Peer(f)), nread[Peer(f)])
<1> DEFINE e == Peer(f)
<1>1. e \in Ends /\ Peer(e) = f /\ TypeOK
  BY TwoEnds DEF StreamInv
<1>2. Graceful(f) /\ Graceful(e) /\ PipeOK(f)
  BY <1>1 DEF GraceInv, StreamInv
<1>3. Flows(f)
  BY <1>2 DEF Flows, Graceful
<1>4. Writes(e)
  <2>1. rd[e] \notin {"err", "gone"} \/ localEOF[e]
    BY <1>2 DEF Graceful
  <2>. QED
    BY <1>1, <1>2, <1>3, <2>1 DEF Writes, Graceful
<1>5. Closed(Pipe(f), Ended(e))
  BY <1>2 DEF Graceful
<1>6. Full(Pipe(f), Got(f), Sent(e), nread[e])
  BY <1>2, <1>4 DEF PipeOK
<1>. QED
  BY <1>1, <1>3, <1>5, <1>6, DirTypes

\* A step that writes towards f at most one frame.
LEMMA GraceWrite ==
  ASSUME StreamInv, GraceInv, NEW f \in Ends,
         Ended(f) => Ended(f)', ~Ended(f)' => (Flows(f)' <=> Flows(f)),
         Ended(Peer(f)) => Ended(Peer(f))', recv'[f] = recv[f],
         \/ wire'[Peer(f)] = wire[Peer(f)]
         \/ \E fr \in Frames : /\ wire'[Peer(f)] = Append(wire[Peer(f)], fr)
                               /\ Item(fr) => ~Ended(Peer(f))
                               /\ fr.type \in {"close", "error"} => Ended(Peer(f))'
  PROVE  ~Ended(f)' => Closed(Pipe(f)', Ended(Peer(f))')
<1> DEFINE e == Peer(f)
<1>. SUFFICES ASSUME ~Ended(f)' PROVE Closed(Pipe(f)', Ended(e)')
  OBVIOUS
<1>1. /\ Flows(f) /\ Pipe(f) = recv[f] \o wire[e] /\ recv[f] \in Seq(Frames)
      /\ wire[e] \in Seq(Frames) /\ Pipe(f) \in Seq(Frames) /\ Closed(Pipe(f), Ended(e))
  BY GracePipes
<1>2. Pipe(f)' = recv[f] \o wire'[e]
  BY <1>1, Zenon DEF Pipe
<1>3. CASE wire'[e] = wire[e]
  <2>1. Pipe(f)' = Pipe(f)
    BY <1>1, <1>2, <1>3, Zenon
  <2>2. Closed(Pipe(f), Ended(e)')
    BY <1>1, Zenon DEF Closed
  <2>. QED
    BY <2>1, <2>2, Zenon
<1>4. ASSUME NEW fr \in Frames, wire'[e] = Append(wire[e], fr),
             Item(fr) => ~Ended(e), fr.type \in {"close", "error"} => Ended(e)'
      PROVE  Closed(Pipe(f)', Ended(e)')
  <2>1. recv[f] \o Append(wire[e], fr) = Append(recv[f] \o wire[e], fr)
    BY <1>1, AddLast
  <2>2. Pipe(f)' = Append(Pipe(f), fr)
    BY <1>1, <1>2, <1>4, <2>1, Zenon
  <2> DEFINE P == Ended(e)
             Q == Ended(e)'
             s == Pipe(f)
  <2>3. s \in Seq(Frames) /\ Closed(s, P) /\ (P => Q) /\ (Item(fr) => ~P)
        /\ (fr.type \in {"close", "error"} => Q)
    BY <1>1, <1>4
  <2>. HIDE DEF P, Q, s
  <2>4. Closed(Append(s, fr), Q)
    BY <2>3, ClosedAppend
  <2>. QED
    BY <2>2, <2>4, Zenon DEF Q, s
<1>. QED
  BY <1>3, <1>4

\* A step of f's read loop or select loop that takes a frame.
LEMMA GraceTake ==
  ASSUME StreamInv, GraceInv, NEW f \in Ends, ~Ended(f), ~Ended(f)' => Flows(f)',
         Ended(Peer(f)) => Ended(Peer(f))',
         \/ /\ wire[Peer(f)] # <<>> /\ wire'[Peer(f)] = Tail(wire[Peer(f)])
            /\ recv'[f] = recv[f] \/ recv'[f] = Append(recv[f], Head(wire[Peer(f)]))
         \/ /\ recv[f] # <<>> /\ recv'[f] = Tail(recv[f])
            /\ wire'[Peer(f)] = wire[Peer(f)]
  PROVE  ~Ended(f)' => Closed(Pipe(f)', Ended(Peer(f))')
<1> DEFINE e == Peer(f)
           r == recv[f]
           w == wire[e]
           P == Ended(e)
<1>. SUFFICES ASSUME ~Ended(f)' PROVE Closed(Pipe(f)', Ended(e)')
  OBVIOUS
<1>1. /\ Pipe(f) = r \o w /\ r \in Seq(Frames) /\ w \in Seq(Frames) /\ Closed(r \o w, P)
  BY GracePipes
<1>2. Pipe(f)' = recv'[f] \o wire'[e]
  BY Zenon DEF Pipe
<1>. HIDE DEF P, r, w
<1>3. CASE w # <<>> /\ wire'[e] = Tail(w) /\ recv'[f] = r
  <2> DEFINE s == r \o w
             u == r \o Tail(w)
             m == Len(r) + 1
  <2>1. /\ s \in Seq(Frames) /\ u \in Seq(Frames) /\ m \in 1..Len(s)
        /\ Len(u) = Len(s) - 1
        /\ \A i \in 1..(m - 1) : u[i] = s[i]
        /\ \A i \in m..Len(u) : u[i] = s[i + 1]
    BY <1>1, <1>3, DropPlaces
  <2>2. Closed(s, P)
    BY <1>1
  <2>. HIDE DEF s, u, m
  <2>3. Closed(u, P)
    BY <2>1, <2>2, ClosedRemove
  <2>4. Pipe(f)' = u
    BY <1>2, <1>3, Zenon DEF u
  <2>. QED
    BY <2>3, <2>4, Zenon DEF P, Closed
<1>4. CASE w # <<>> /\ wire'[e] = Tail(w) /\ recv'[f] = Append(r, Head(w))
  <2>1. Append(r, Head(w)) \o Tail(w) = r \o w
    BY <1>1, <1>4, MoveFrame
  <2>2. Pipe(f)' = r \o w
    BY <1>2, <1>4, <2>1, Zenon
  <2>. QED
    BY <1>1, <2>2, Zenon DEF P, Closed
<1>5. CASE r # <<>> /\ recv'[f] = Tail(r) /\ wire'[e] = w
  <2> DEFINE s == r \o w
             u == Tail(r \o w)
  <2>1. Tail(r \o w) = Tail(r) \o w /\ r \o w # <<>>
    BY <1>1, <1>5, TakeFirst
  <2>2. s \in Seq(Frames) /\ s # <<>>
    BY <1>1, <2>1, ConcatProperties
  <2>3. /\ Len(s) \in Nat \ {0} /\ u \in Seq(Frames) /\ Len(u) = Len(s) - 1
        /\ \A i \in 1..Len(u) : u[i] = s[i + 1]
    BY <2>2, EmptySeq, HeadTailProperties
  <2>4. Closed(s, P)
    BY <1>1
  <2>5. Pipe(f)' = u
    BY <1>2, <1>5, <2>1, Zenon
  <2>. HIDE DEF s, u
  <2>6. 1 \in 1..Len(s) /\ \A i \in 1..(1 - 1) : u[i] = s[i]
    BY <2>3
  <2>7. Closed(u, P)
    BY <2>2, <2>3, <2>4, <2>6, ClosedRemove
  <2>. QED
    BY <2>5, <2>7, Zenon DEF P, Closed
<1>. QED
  BY <1>3, <1>4, <1>5 DEF r, w


\* The state of a relay, without the queue towards it.
GraceState(f) ==
  /\ linkOpen[f] /\ ~idleDue[f] /\ rd[f] # "err"
  /\ rd[f] = "gone" => localEOF[f]
  /\ sess[f] = "removed" => Ended(f)
  /\ conn[f] = "closed" => Ended(f) \/ main[f] \in {"none", "dial"}
  /\ Ended(f) => localEOF[f] /\ remoteEOF[f]

\* Without faults a link stays open, so a frame that is written is sent.
LEMMA GraceWritten ==
  ASSUME StreamInv, GraceInv, NEW e \in Ends, NEW fr \in Frames
  PROVE  /\ Written(e, fr) = [wire EXCEPT ![e] = Append(@, fr)] /\ ~WriteMayFail(e)
         /\ Written(e, fr)[e] = Append(wire[e], fr) /\ Written(e, fr)[Peer(e)] = wire[Peer(e)]
<1>1. linkOpen[e] /\ linkOpen[Peer(e)]
  BY TwoEnds DEF GraceInv, Graceful
<1>2. Written(e, fr) = [wire EXCEPT ![e] = Append(@, fr)] /\ ~WriteMayFail(e)
  BY <1>1, Zenon DEF Written, WriteMayFail
<1>3. TypeOK /\ Peer(e) \in Ends /\ Peer(e) # e
  BY TwoEnds DEF StreamInv
<1>. QED
  BY <1>2, <1>3 DEF TypeOK

\* Without faults the reader goroutine reads and sends until its stream ends.
LEMMA GraceReader ==
  ASSUME StreamInv, GraceInv, Faults = {}, NEW e \in Ends, Socket(e) \/ Reader(e)
  PROVE  Graceful(e)' /\ Graceful(Peer(e))'
<1> DEFINE p == Peer(e)
<1>1. p \in Ends /\ Peer(p) = e /\ p # e
  BY TwoEnds
<1>2. TypeOK /\ ReaderOK(e) /\ Graceful(e) /\ Graceful(p)
  BY <1>1 DEF StreamInv, GraceInv
<1>3. rd[e] \in {"read", "credit", "write"}
  BY DEF Socket, Reader, ReadChunk, ReadEOF, ReadClosed, ReadErr, TakeCredit, SendClosed, WriteData
<1>4. ~Ended(e) /\ conn[e] # "closed" /\ sess[e] # "removed"
  BY <1>2, <1>3 DEF ReaderOK, Graceful
<1>5. nread[e] \in Nat /\ Frame("data", nread[e]) \in Frames /\ Frame("data", nread[e]).type = "data"
  BY <1>2, FrameType DEF TypeOK, Frame
<1>6. /\ Written(e, Frame("data", nread[e]))[e] = Append(wire[e], Frame("data", nread[e]))
      /\ Written(e, Frame("data", nread[e]))[p] = wire[p] /\ ~WriteMayFail(e)
  BY <1>5, GraceWritten
<1>7. \/ ReadChunk(e) \/ ReadEOF(e) \/ TakeCredit(e) \/ WriteData(e)
  BY <1>4 DEF Socket, Reader, ReadClosed, SendClosed
<1>8. /\ main' = main /\ conn' = conn /\ sess' = sess /\ linkOpen' = linkOpen /\ recv' = recv
      /\ localEOF' = localEOF /\ remoteEOF' = remoteEOF
  BY <1>7 DEF ReadChunk, ReadEOF, TakeCredit, WriteData
<1>9. /\ rd'[e] \in {"credit", "eof", "write", "read"} /\ rd'[p] = rd[p]
      /\ ~idleDue'[e] /\ ~idleDue'[p]
  <2>1. CASE ReadChunk(e) \/ ReadEOF(e) \/ TakeCredit(e)
    BY <1>1, <1>2, <2>1 DEF ReadChunk, ReadEOF, TakeCredit, TypeOK, Graceful
  <2>2. CASE WriteData(e)
    <3>1. rd' = [rd EXCEPT ![e] = "read"] /\ idleDue' = [idleDue EXCEPT ![e] = FALSE]
      BY <1>6, <2>2 DEF WriteData
    <3>. QED
      BY <1>1, <1>2, <3>1 DEF TypeOK, Graceful
  <2>. QED
    BY <1>7, <2>1, <2>2
<1>10. wire' = wire \/ wire' = Written(e, Frame("data", nread[e]))
  BY <1>6, <1>7 DEF ReadChunk, ReadEOF, TakeCredit, WriteData
<1>11. wire'[p] = wire[p] /\ (wire'[e] = wire[e] \/ wire'[e] = Append(wire[e], Frame("data", nread[e])))
  BY <1>6, <1>10
<1>12. \A f \in Ends : (Ended(f)' <=> Ended(f)) /\ (Flows(f)' <=> Flows(f))
  BY <1>8 DEF Ended, Flows
<1>13. GraceState(e)' /\ GraceState(p)'
  <2>1. GraceState(e)'
    BY <1>2, <1>4, <1>8, <1>9, <1>12 DEF Graceful, GraceState
  <2>2. (Ended(p)' <=> Ended(p)) /\ rd'[p] = rd[p] /\ ~idleDue'[p]
    BY <1>1, <1>9, <1>12
  <2>3. GraceState(p)'
    BY <1>2, <1>8, <2>2 DEF Graceful, GraceState
  <2>. QED
    BY <2>1, <2>3
<1>14. ~Ended(e)' => Closed(Pipe(e)', Ended(p)')
  <2>1. recv'[e] = recv[e] /\ wire'[Peer(e)] = wire[Peer(e)]
    BY <1>8, <1>11
  <2>. QED
    BY <1>1, <1>12, <2>1, GraceWrite
<1>15. ~Ended(p)' => Closed(Pipe(p)', Ended(Peer(p))')
  <2>1. recv'[p] = recv[p] /\ (Ended(p) => Ended(p)') /\ (~Ended(p)' => (Flows(p)' <=> Flows(p)))
    BY <1>1, <1>8, <1>12
  <2>2. Ended(Peer(p)) => Ended(Peer(p))'
    BY <1>1, <1>12
  <2>3. \/ wire'[Peer(p)] = wire[Peer(p)]
        \/ \E fr \in Frames : /\ wire'[Peer(p)] = Append(wire[Peer(p)], fr)
                              /\ Item(fr) => ~Ended(Peer(p))
                              /\ fr.type \in {"close", "error"} => Ended(Peer(p))'
    BY <1>1, <1>4, <1>5, <1>11
  <2>. QED
    BY <1>1, <2>1, <2>2, <2>3, GraceWrite
<1>. QED
  BY <1>13, <1>14, <1>15 DEF GraceState, Graceful

\* Without faults the read loop hands every frame to the relay.
LEMMA GraceReadLoop ==
  ASSUME FlowInv, StreamInv, GraceInv, NEW e \in Ends, ReadLoop(e)
  PROVE  Graceful(e)' /\ Graceful(Peer(e))'
<1> DEFINE p == Peer(e)
<1>1. p \in Ends /\ Peer(p) = e /\ p # e
  BY TwoEnds
<1>2. TypeOK /\ OpenFirst(e) /\ Graceful(e) /\ Graceful(p)
  BY <1>1 DEF StreamInv, GraceInv
<1>3. ~LinkNotice(e)
  BY <1>2 DEF LinkNotice, Graceful
<1>4. ~Overrun(e)
  <2>1. recv[e] \in Seq(Frames)
    BY <1>2 DEF TypeOK
  <2>2. Len(recv[e]) \in Nat
    BY <2>1, LenProperties
  <2>3. Queueable(e) => Len(recv[e]) < RecvCapacity
    BY FlowNoOverrun DEF NoOverrun
  <2>. QED
    BY <2>2, <2>3, WindowAssumption, SlackAssumption DEF Overrun, RecvCapacity
<1>5. AcceptOpen(e) \/ DropFrame(e) \/ AddSendCredit(e) \/ Enqueue(e)
  BY <1>3, <1>4 DEF ReadLoop
<1>6. /\ wire[p] # <<>> /\ wire'[p] = Tail(wire[p]) /\ wire'[e] = wire[e] /\ linkOpen' = linkOpen
      /\ rd' = rd /\ localEOF' = localEOF /\ remoteEOF' = remoteEOF /\ conn' = conn /\ idleDue' = idleDue
  BY <1>1, <1>2, <1>5 DEF AcceptOpen, DropFrame, AddSendCredit, Enqueue, Queueable, Arrives, Taken, TypeOK
<1>7. main'[p] = main[p] /\ sess'[p] = sess[p] /\ recv'[p] = recv[p]
  BY <1>1, <1>2, <1>5 DEF AcceptOpen, DropFrame, AddSendCredit, Enqueue, TypeOK
<1>8. recv'[e] = recv[e] \/ recv'[e] = Append(recv[e], Head(wire[p]))
  BY <1>2, <1>5 DEF AcceptOpen, DropFrame, AddSendCredit, Enqueue, Incoming, TypeOK
<1>9. /\ main'[e] = main[e] \/ (main[e] = "none" /\ main'[e] = "dial")
      /\ sess'[e] = sess[e] \/ sess'[e] = "open"
  <2>1. CASE AcceptOpen(e)
    BY <1>2, <2>1, OpenHead DEF AcceptOpen, TypeOK
  <2>2. CASE ~AcceptOpen(e)
    BY <1>5, <2>2 DEF DropFrame, AddSendCredit, Enqueue
  <2>. QED
    BY <2>1, <2>2
<1>10. (Ended(e)' <=> Ended(e)) /\ (Ended(p)' <=> Ended(p)) /\ (Flows(p)' <=> Flows(p))
  BY <1>6, <1>7, <1>9 DEF Ended, Flows
<1>11. GraceState(e)' /\ GraceState(p)'
  BY <1>2, <1>6, <1>7, <1>9, <1>10 DEF Graceful, GraceState
<1>12. ~Ended(e)' => Flows(e)'
  BY <1>11 DEF GraceState, Flows
<1>13. ~Ended(e)' => Closed(Pipe(e)', Ended(p)')
  <2>1. CASE Ended(e)
    BY <1>10, <2>1
  <2>2. CASE ~Ended(e)
    BY <1>6, <1>8, <1>10, <1>12, <2>2, GraceTake
  <2>. QED
    BY <2>1, <2>2
<1>14. ~Ended(p)' => Closed(Pipe(p)', Ended(Peer(p))')
  <2>1. wire'[Peer(p)] = wire[Peer(p)] /\ (Ended(Peer(p)) => Ended(Peer(p))')
    BY <1>1, <1>6, <1>10
  <2>. QED
    BY <1>1, <1>7, <1>10, <2>1, GraceWrite
<1>. QED
  BY <1>11, <1>13, <1>14 DEF GraceState, Graceful

\* A close frame at the head of the queue is the last word of a peer whose
\* streams have both ended, and everything it sent has been taken.
LEMMA CloseIsLast ==
  ASSUME StreamInv, GraceInv, NEW e \in Ends, main[e] = "select", recv[e] # <<>>,
         Head(recv[e]).type \in {"close", "error"}
  PROVE  localEOF[e] /\ remoteEOF[e]
<1> DEFINE p == Peer(e)
           s == Pipe(e)
<1>1. p \in Ends /\ Peer(p) = e /\ TypeOK /\ ~Ended(e)
  BY TwoEnds DEF StreamInv, Ended
<1>2. /\ Graceful(p) /\ ReaderOK(p) /\ OutOK(e) /\ OutOK(p)
  BY <1>1 DEF StreamInv, GraceInv
<1>3. /\ s = recv[e] \o wire[p] /\ recv[e] \in Seq(Frames) /\ wire[p] \in Seq(Frames)
      /\ s \in Seq(Frames) /\ Closed(s, Ended(p)) /\ Full(s, Got(e), Sent(p), nread[p])
  BY <1>1, GracePipes
<1>. HIDE DEF s
<1>4. Head(s) = Head(recv[e]) /\ s # <<>>
  <2>1. Head(recv[e] \o wire[p]) = Head(recv[e]) /\ recv[e] \o wire[p] # <<>>
    BY <1>3, TakeFirst
  <2>. QED
    BY <1>3, <2>1, Zenon
<1>5. Len(s) \in Nat \ {0} /\ s[1] = Head(s)
  <2>1. s \in Seq(Frames) /\ s # <<>>
    BY <1>3, <1>4
  <2>2. Len(s) \in Nat /\ Len(s) # 0
    BY <2>1, EmptySeq, LenProperties
  <2>. QED
    BY <2>1, <2>2, HeadTailProperties
<1>6. s[1].type \in {"close", "error"} /\ 1 \in 1..Len(s)
  BY <1>4, <1>5
<1>7. Ended(p) /\ \A j \in (1 + 1)..Len(s) : ~Item(s[j])
  BY <1>3, <1>6, Zenon DEF Closed
<1>8. \A k : ~Before(s, Len(s) + 1, k, nread[p])
  <2>1. ~Item(s[1])
    BY <1>6 DEF Item
  <2>2. \A j \in 1..Len(s) : ~Item(s[j])
    <3>. SUFFICES ASSUME NEW j \in 1..Len(s) PROVE ~Item(s[j])
      OBVIOUS
    <3>1. j = 1 \/ j \in (1 + 1)..Len(s)
      BY <1>5
    <3>. QED
      BY <1>7, <2>1, <3>1
  <2>3. (Len(s) + 1) - 1 = Len(s)
    BY <1>5
  <2>. QED
    BY <2>2, <2>3 DEF Before
<1>9. Got(e) \in Int /\ Sent(p) \in Int
  BY <1>1, DirTypes
<1>10. Got(e) >= Sent(p)
  <2>1. ~(Got(e) + 1 \in (Got(e) + 1)..Sent(p))
    BY <1>3, <1>8 DEF Full
  <2>. QED
    BY <1>9, <2>1
<1>11. localEOF[p] /\ remoteEOF[p] /\ rd[p] = "gone"
  BY <1>2, <1>7 DEF Graceful, ReaderOK
<1>12. localEOF[e]
  BY <1>1, <1>2, <1>11 DEF OutOK
<1>13. nread[p] \in Nat /\ Len(out[e]) \in Nat /\ Len(out[e]) <= nread[p]
  <2>1. out[e] \in Seq(Nat) /\ nread[p] \in Nat
    BY <1>1 DEF TypeOK
  <2>. QED
    BY <1>2, <2>1, LenProperties DEF OutOK
<1>14. Sent(p) = nread[p] + 1
  <2>1. B(rd[p] \in {"credit", "write"}) = 0 /\ B(localEOF[p]) = 1
    BY <1>11 DEF B
  <2>. QED
    BY <1>13, <2>1 DEF Sent
<1>15. Got(e) = Len(out[e]) + B(remoteEOF[e])
  <2>1. B(main[e] = "writing") = 0 /\ B(remoteEOF[e]) \in Int
    BY DEF B
  <2>. QED
    BY <1>13, <2>1 DEF Got
<1>16. remoteEOF[e]
  <2>. SUFFICES ASSUME ~remoteEOF[e] PROVE FALSE
    OBVIOUS
  <2>1. B(remoteEOF[e]) = 0
    BY DEF B
  <2>. QED
    BY <1>10, <1>13, <1>14, <1>15, <2>1
<1>. QED
  BY <1>12, <1>16

\* Steps of the select loop that take nothing from the receive queue.
LEMMA GraceSend ==
  ASSUME StreamInv, GraceInv, NEW e \in Ends,
         \/ DialOK(e) \/ TakeReadEOF(e) \/ SessionClose(e) \/ SessionRemove(e) \/ ConnWriteOK(e)
  PROVE  Graceful(e)' /\ Graceful(Peer(e))'
<1> DEFINE p == Peer(e)
<1>1. p \in Ends /\ Peer(p) = e /\ p # e
  BY TwoEnds
<1>2. TypeOK /\ ReaderOK(e) /\ Graceful(e) /\ Graceful(p)
  BY <1>1 DEF StreamInv, GraceInv
<1>3. /\ main'[p] = main[p] /\ sess'[p] = sess[p] /\ rd'[p] = rd[p] /\ conn'[p] = conn[p]
      /\ localEOF'[p] = localEOF[p] /\ remoteEOF' = remoteEOF /\ idleDue'[p] = idleDue[p]
      /\ linkOpen' = linkOpen /\ recv' = recv
  BY <1>1, <1>2 DEF TypeOK, DialOK, TakeReadEOF, SessionClose, SessionRemove, ConnWriteOK, Leave
<1>4. \A t \in {"eof", "close", "window"}, n \in Nat :
         /\ Frame(t, n) \in Frames /\ Frame(t, n).type = t
         /\ Written(e, Frame(t, n))[e] = Append(wire[e], Frame(t, n))
         /\ Written(e, Frame(t, n))[p] = wire[p]
  <2>. SUFFICES ASSUME NEW t \in {"eof", "close", "window"}, NEW n \in Nat
                PROVE  /\ Frame(t, n) \in Frames /\ Frame(t, n).type = t
                       /\ Written(e, Frame(t, n))[e] = Append(wire[e], Frame(t, n))
                       /\ Written(e, Frame(t, n))[p] = wire[p]
    OBVIOUS
  <2>1. Frame(t, n) \in Frames /\ Frame(t, n).type = t
    BY DEF Frame, Frames, Ctl
  <2>. QED
    BY <2>1, GraceWritten
<1>5. ~WriteMayFail(e)
  BY <1>2 DEF WriteMayFail, Graceful
<1>6. /\ wire'[p] = wire[p]
      /\ \/ wire'[e] = wire[e]
         \/ \E fr \in Frames : /\ wire'[e] = Append(wire[e], fr)
                               /\ Item(fr) => ~Ended(e)
                               /\ fr.type \in {"close", "error"} => Ended(e)'
  <2>1. CASE DialOK(e) \/ SessionRemove(e)
    BY <2>1 DEF DialOK, SessionRemove
  <2>2. CASE TakeReadEOF(e)
    <3>1. wire' = Written(e, Frame("eof", 0)) /\ main[e] = "select"
      BY <1>5, <2>2 DEF TakeReadEOF
    <3>. QED
      BY <1>4, <3>1 DEF Ended
  <2>3. CASE SessionClose(e)
    <3>1. wire' = Written(e, Frame("close", 0)) /\ main'[e] = "remove"
      BY <1>2, <2>3 DEF SessionClose, TypeOK
    <3>. QED
      BY <1>4, <3>1 DEF Ended, Item
  <2>4. CASE ConnWriteOK(e)
    <3>1. consumed[e] + 1 \in Nat /\ (wire' = wire \/ wire' = Written(e, Frame("window", consumed[e] + 1)))
      BY <1>2, <2>4 DEF ConnWriteOK, TypeOK
    <3>2. CASE wire' = wire
      BY <3>2
    <3>3. CASE wire' = Written(e, Frame("window", consumed[e] + 1))
      BY <1>4, <3>1, <3>3 DEF Item
    <3>. QED
      BY <3>1, <3>2, <3>3
  <2>. QED
    BY <2>1, <2>2, <2>3, <2>4
<1>7. Ended(e) => Ended(e)'
  BY <1>2 DEF Ended, TypeOK, DialOK, TakeReadEOF, SessionClose, SessionRemove, ConnWriteOK, Leave
<1>8. (Ended(p)' <=> Ended(p)) /\ (Flows(p)' <=> Flows(p))
  BY <1>1, <1>3 DEF Ended, Flows
<1>9. GraceState(p)'
  BY <1>1, <1>2, <1>3, <1>8 DEF Graceful, GraceState
<1>10. GraceState(e)'
  <2>1. CASE DialOK(e)
    BY <1>2, <2>1 DEF DialOK, TypeOK, Graceful, GraceState, Ended
  <2>2. CASE TakeReadEOF(e)
    <3>1. /\ main[e] = "select" /\ rd'[e] = "gone" /\ localEOF'[e] /\ idleDue' = idleDue /\ sess' = sess
          /\ IF remoteEOF[e] THEN Leave(e) ELSE UNCHANGED <<main, conn>>
      BY <1>2, <1>5, <2>2 DEF TakeReadEOF, TypeOK
    <3>2. CASE remoteEOF[e]
      <4>1. main'[e] = "close" /\ conn'[e] = "closed"
        BY <1>2, <3>1, <3>2 DEF Leave, TypeOK
      <4>. QED
        BY <1>2, <1>3, <3>1, <3>2, <4>1 DEF Graceful, GraceState, Ended
    <3>3. CASE ~remoteEOF[e]
      BY <1>2, <1>3, <3>1, <3>3 DEF Graceful, GraceState, Ended
    <3>. QED
      BY <3>2, <3>3
  <2>3. CASE SessionClose(e) \/ SessionRemove(e)
    <3>1. /\ Ended(e) /\ Ended(e)' /\ rd' = rd /\ localEOF' = localEOF /\ idleDue' = idleDue
      BY <1>2, <2>3 DEF SessionClose, SessionRemove, TypeOK, Ended
    <3>. QED
      BY <1>2, <1>3, <3>1 DEF Graceful, GraceState
  <2>4. CASE ConnWriteOK(e)
    <3>1. /\ main[e] = "writing" /\ main'[e] = "select" /\ rd' = rd /\ localEOF' = localEOF
          /\ ~idleDue'[e] /\ sess' = sess /\ conn' = conn
      BY <1>2, <2>4 DEF ConnWriteOK, TypeOK
    <3>. QED
      BY <1>2, <1>3, <3>1 DEF Graceful, GraceState, Ended
  <2>. QED
    BY <2>1, <2>2, <2>3, <2>4
<1>11. ~Ended(e)' => (Flows(e)' <=> Flows(e))
  BY <1>2, <1>7, <1>10 DEF GraceState, Graceful, Flows
<1>12. ~Ended(e)' => Closed(Pipe(e)', Ended(p)')
  <2>1. recv'[e] = recv[e] /\ wire'[Peer(e)] = wire[Peer(e)]
    BY <1>3, <1>6
  <2>. QED
    BY <1>7, <1>8, <1>11, <2>1, GraceWrite
<1>13. ~Ended(p)' => Closed(Pipe(p)', Ended(Peer(p))')
  <2>1. recv'[p] = recv[p] /\ (Ended(p) => Ended(p)') /\ (~Ended(p)' => (Flows(p)' <=> Flows(p)))
    BY <1>3, <1>8
  <2>2. Ended(Peer(p)) => Ended(Peer(p))'
    BY <1>1, <1>7
  <2>3. \/ wire'[Peer(p)] = wire[Peer(p)]
        \/ \E fr \in Frames : /\ wire'[Peer(p)] = Append(wire[Peer(p)], fr)
                              /\ Item(fr) => ~Ended(Peer(p))
                              /\ fr.type \in {"close", "error"} => Ended(Peer(p))'
    BY <1>1, <1>6
  <2>. QED
    BY <1>1, <2>1, <2>2, <2>3, GraceWrite
<1>. QED
  BY <1>9, <1>10, <1>12, <1>13 DEF GraceState, Graceful

\* Steps of the select loop that take a frame.
LEMMA GraceReceive ==
  ASSUME StreamInv, GraceInv, NEW e \in Ends, TakeData(e) \/ TakeEOF(e) \/ TakeClose(e)
  PROVE  Graceful(e)' /\ Graceful(Peer(e))'
<1> DEFINE p == Peer(e)
<1>1. p \in Ends /\ Peer(p) = e /\ p # e
  BY TwoEnds
<1>2. TypeOK /\ Graceful(e) /\ Graceful(p)
  BY <1>1 DEF StreamInv, GraceInv
<1>3. /\ main[e] = "select" /\ recv[e] # <<>> /\ recv'[e] = Tail(recv[e]) /\ recv'[p] = recv[p]
      /\ main'[p] = main[p] /\ conn'[p] = conn[p] /\ remoteEOF'[p] = remoteEOF[p]
      /\ sess' = sess /\ rd' = rd /\ localEOF' = localEOF /\ idleDue' = idleDue
      /\ linkOpen' = linkOpen /\ wire' = wire
  BY <1>1, <1>2 DEF TypeOK, TakeData, TakeEOF, TakeClose, Received, Leave
<1>4. ~Ended(e) /\ (Ended(p)' <=> Ended(p)) /\ (Flows(p)' <=> Flows(p))
  BY <1>3 DEF Ended, Flows
<1>5. GraceState(p)'
  BY <1>1, <1>2, <1>3, <1>4 DEF Graceful, GraceState
<1>6. GraceState(e)'
  <2>1. CASE TakeData(e)
    <3>1. main'[e] = "writing" /\ conn' = conn /\ remoteEOF' = remoteEOF
      BY <1>2, <2>1 DEF TakeData, TypeOK
    <3>. QED
      BY <1>2, <1>3, <3>1 DEF Graceful, GraceState, Ended
  <2>2. CASE TakeEOF(e) /\ localEOF[e]
    <3>1. main'[e] = "close" /\ remoteEOF'[e]
      BY <1>2, <2>2 DEF TakeEOF, Leave, TypeOK
    <3>. QED
      BY <1>2, <1>3, <2>2, <3>1 DEF Graceful, GraceState, Ended
  <2>3. CASE TakeEOF(e) /\ ~localEOF[e]
    <3>1. main' = main /\ conn'[e] = "half"
      BY <1>2, <2>3 DEF TakeEOF, TypeOK
    <3>. QED
      BY <1>2, <1>3, <3>1 DEF Graceful, GraceState, Ended
  <2>4. CASE TakeClose(e)
    <3>1. localEOF[e] /\ remoteEOF[e]
      BY <2>4, CloseIsLast DEF TakeClose, Next1
    <3>2. main'[e] = "close" /\ remoteEOF' = remoteEOF
      BY <1>2, <2>4 DEF TakeClose, Leave, TypeOK
    <3>. QED
      BY <1>2, <1>3, <3>1, <3>2 DEF Graceful, GraceState, Ended
  <2>. QED
    BY <2>1, <2>2, <2>3, <2>4
<1>7. ~Ended(e)' => Flows(e)'
  BY <1>6 DEF GraceState, Flows
<1>8. ~Ended(e)' => Closed(Pipe(e)', Ended(p)')
  <2>1. wire'[Peer(e)] = wire[Peer(e)] /\ (Ended(Peer(e)) => Ended(Peer(e))')
    BY <1>3, <1>4
  <2>. QED
    BY <1>3, <1>4, <1>7, <2>1, GraceTake
<1>9. ~Ended(p)' => Closed(Pipe(p)', Ended(Peer(p))')
  <2>1. wire'[Peer(p)] = wire[Peer(p)] /\ (Ended(Peer(p)) => Ended(Peer(p))')
    BY <1>1, <1>3, <1>4
  <2>. QED
    BY <1>1, <1>3, <1>4, <2>1, GraceWrite
<1>. QED
  BY <1>5, <1>6, <1>8, <1>9 DEF GraceState, Graceful

\* A new session has nothing behind it.
LEMMA GraceInit == Init => GraceInv
<1>. SUFFICES ASSUME Init, NEW f \in Ends PROVE Graceful(f)
  BY DEF GraceInv
<1>1. /\ recv[f] = <<>> /\ linkOpen[f] /\ sess[f] # "removed" /\ ~Ended(f)
      /\ ~idleDue[f] /\ rd[f] \in {"read", "none"}
      /\ conn[f] = "closed" => main[f] \in {"none", "dial"}
  BY DEF Init, Ended
<1>2. \A i \in 1..Len(wire[Peer(f)]) : wire[Peer(f)][i].type = "open"
  BY TwoEnds DEF Init, Frame
<1>3. TypeOK /\ Flows(f)
  BY <1>1, TypeInit DEF Flows
<1>4. wire[Peer(f)] \in Seq(Frames) /\ Pipe(f) = recv[f] \o wire[Peer(f)]
  BY <1>3, DirTypes
<1>5. Pipe(f) = wire[Peer(f)]
  BY <1>1, <1>4, ConcatEmptySeq
<1>6. Closed(Pipe(f), Ended(Peer(f)))
  BY <1>2, <1>5 DEF Closed
<1>. QED
  BY <1>1, <1>6 DEF Graceful

\* Without faults every step keeps both relays graceful.
LEMMA GraceStep ==
  ASSUME FlowInv, StreamInv, GraceInv, Faults = {}, [Next]_vars
  PROVE  GraceInv'
<1>1. CASE UNCHANGED vars \/ Finished
  <2>1. UNCHANGED vars
    BY <1>1 DEF Finished
  <2>2. \A f \in Ends : (Ended(f)' <=> Ended(f)) /\ (Flows(f)' <=> Flows(f)) /\ Pipe(f)' = Pipe(f)
    BY <2>1, Zenon DEF vars, Ended, Flows, Pipe
  <2>3. \A f \in Ends : Closed(Pipe(f), Ended(Peer(f))) => Closed(Pipe(f)', Ended(Peer(f))')
    BY <2>2, TwoEnds, Zenon DEF Closed
  <2>4. /\ linkOpen' = linkOpen /\ idleDue' = idleDue /\ rd' = rd /\ localEOF' = localEOF
        /\ sess' = sess /\ conn' = conn /\ main' = main /\ remoteEOF' = remoteEOF
    BY <2>1 DEF vars
  <2>. QED
    BY <2>2, <2>3, <2>4 DEF GraceInv, Graceful
<1>2. ASSUME NEW e \in Ends,
             \/ Socket(e) \/ Reader(e) \/ ReadLoop(e) \/ Relay(e)
             \/ SocketWrite(e) \/ Environment(e)
      PROVE  GraceInv'
  <2>1. Graceful(e) /\ TypeOK
    BY DEF GraceInv, StreamInv
  <2>2. ~Environment(e) /\ ~ConnWriteErr(e) /\ ~DialFails(e)
    BY DEF Environment, ReadFails, LinkFails, CtxDone, IdleElapses, ConnWriteErr, DialFails
  <2>3. ~SessionDone(e) /\ ~TakeReadErr(e) /\ ~IdleFires(e)
    BY <2>1 DEF SessionDone, TakeReadErr, IdleFires, Graceful, Ended
  <2>4. Graceful(e)' /\ Graceful(Peer(e))'
    BY <1>2, <2>2, <2>3, GraceReader, GraceReadLoop, GraceSend, GraceReceive DEF Relay, SocketWrite
  <2>. QED
    BY <2>4, TwoEnds DEF GraceInv
<1>. QED
  BY <1>1, <1>2 DEF Next

\* A relay that ended gracefully has given its socket every chunk.
LEMMA GraceComplete ==
  ASSUME StreamInv, GraceInv
  PROVE  GracefulComplete
BY DEF StreamInv, GraceInv, Graceful, OutOK, GracefulComplete

(***************************************************************************)
(* When nothing fails, RelayConn ends at an end only after both streams    *)
(* have ended, and by then its socket has received every chunk the other   *)
(* socket produced: half-closing one direction and closing the session     *)
(* cut nothing off, for every window, queue and length of the streams.     *)
(***************************************************************************)
THEOREM GracefulEnd == Spec => []GracefulComplete
<1>1. CASE Faults = {}
  <2>1. FlowInv /\ StreamInv /\ GraceInv /\ [Next]_vars => GraceInv'
    BY <1>1, GraceStep
  <2>2. StreamInv /\ GraceInv => GracefulComplete
    BY GraceComplete
  <2>. QED
    BY <2>1, <2>2, FlowControl, StreamAlways, GraceInit, PTL DEF Spec
<1>2. CASE Faults # {}
  <2>1. GracefulComplete
    BY <1>2 DEF GracefulComplete
  <2>. QED
    BY <2>1, PTL
<1>. QED
  BY <1>1, <1>2
=============================================================================
