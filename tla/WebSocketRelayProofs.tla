------------------------ MODULE WebSocketRelayProofs ------------------------
(***************************************************************************)
(* Messages and close statuses of a relayed WebSocket, for every window,   *)
(* any messages and statuses of the two applications, and any faults.      *)
(***************************************************************************)
EXTENDS WebSocketRelay, SequenceTheorems, TLAPS

-----------------------------------------------------------------------------
(* What the frames under way from e look like.  b messages have left the   *)
(* channel s (less one while the open frame leads it), n have been read    *)
(* from e's socket, r and c are its reader's state and status.             *)

Types  == {"open", "data", "close", "error"}
Frames == [type : Types, m : MessageSet, code : Statuses \cup {0}]

Plain(s, n) == \A j \in 1..n : s[j].type \in {"open", "data"}
OpenLeads(s, l) == \A i \in 1..Len(s) : s[i].type = "open" <=> i <= l
\* Up to the first close or error frame, messages continue those taken out.
Numbered(s, b, e, n) == \A i \in 1..Len(s) : s[i].type = "data" /\ Plain(s, i) =>
  b + i \in 1..n /\ s[i].m = Message(b + i, Messages[e][b + i])
\* A status is that of the CloseError, and comes after the last message.
Statused(s, b, n, r, c) == \A i \in 1..Len(s) : s[i].type = "close" /\ s[i].code # 0 =>
  /\ r = "closed" /\ s[i].code = c
  /\ Plain(s, i - 1) => b + (i - 1) = n
Closes(s, n) == \E j \in 1..n : s[j].type = "close"
\* A plain close frame is never the first one.
StatusFirst(s) == \A i \in 1..Len(s) :
  s[i].type = "close" /\ s[i].code = 0 => Closes(s, i - 1)

(***************************************************************************)
(* The invariant of the direction from e to its peer.                      *)
(***************************************************************************)
Lead(e) == IF e = "edge" /\ end["connector"].main = "none" THEN 1 ELSE 0
Sent(p) == Len(p.out) + (IF p.main = "writing" THEN 1 ELSE 0)
Base(e) == Sent(end[Peer(e)]) - Lead(e)

\* Frames that e writes get through.
Live(e) == Delivers(e) /\ ~Ended(Peer(e))

Channel(e) ==
  /\ OpenLeads(chan[e], Lead(e))
  /\ Numbered(chan[e], Base(e), e, end[e].nread)
  /\ Statused(chan[e], Base(e), end[e].nread, end[e].rd, end[e].status)
  /\ Closes(chan[e], Len(chan[e])) => Ended(e)
  /\ end[e].left = "status" => /\ StatusFirst(chan[e])
                               /\ Live(e) => Closes(chan[e], Len(chan[e]))

\* As long as frames get through, the last message is the last one read.
Pending(r) == IF r \in {"credit", "write"} THEN 1 ELSE 0
UpToDate(e) ==
  Live(e) /\ Plain(chan[e], Len(chan[e])) /\ end[e].rd \in {"read", "credit", "write", "closed"} =>
    Base(e) + Len(chan[e]) = end[e].nread - Pending(end[e].rd)

\* The messages written, and the one being written.
Right(p, e, n) ==
  /\ Sent(p) <= n
  /\ \A i \in 1..Len(p.out) : p.out[i] = Message(i, Messages[e][i])
  /\ p.main = "writing" => p.hold = Message(Len(p.out) + 1, Messages[e][Len(p.out) + 1])

\* Before its reader runs, an end has sent nothing.
Silent(e) ==
  /\ end[e].main \in {"none", "opening", "dial"} => end[e].rd = "none" /\ chan[e] = <<>>
  /\ end[e].rd = "none" => /\ end[e].nread = 0 /\ Sent(end[Peer(e)]) = 0
                           /\ end[e].main \notin {"select", "writing", "close"}
  /\ Lead(e) = 1 /\ Live(e) /\ end[e].rd # "none" => chan[e] # <<>>

\* How an end ends: the socket's status is noted when reading stops, and the
\* application is told of a status once.
Ending(e) ==
  /\ end[e].status # 0 <=> end[e].rd = "closed"
  /\ end[e].left = "status" => end[e].rd = "closed"
  /\ ~Ended(e) => end[e].left = "no" /\ (end[e].status = 0 => end[e].seen = 0)
Passed(e) ==
  /\ end[Peer(e)].left = "close" => Ended(e)
  /\ Told(Peer(e)) => /\ end[e].rd = "closed" /\ end[Peer(e)].seen = end[e].status
                      /\ Len(end[Peer(e)].out) = end[e].nread
  /\ end[e].left = "status" /\ end[Peer(e)].left = "close" /\ end[Peer(e)].status = 0 =>
       end[Peer(e)].seen = end[e].status

DirInv(e) ==
  /\ Channel(e) /\ UpToDate(e) /\ Right(end[Peer(e)], e, end[e].nread)
  /\ Silent(e) /\ Ending(e) /\ Passed(e)
Starting == end["edge"].main = "opening" => end["connector"].main = "none"
\* The messages read are messages of the application.
Reads == \A e \in Ends :
  /\ end[e].nread <= Len(Messages[e])
  /\ end[e].rd \in {"credit", "write"} => end[e].nread > 0
RelayInv == TypeOK /\ Starting /\ Reads /\ \A e \in Ends : DirInv(e)

-----------------------------------------------------------------------------
(* Channels: what appending, taking and losing frames does to them.        *)

LEMMA Appended ==
  ASSUME NEW s \in Seq(Frames), NEW f \in Frames
  PROVE  /\ Append(s, f) \in Seq(Frames) /\ Len(Append(s, f)) = Len(s) + 1
         /\ \A i \in 1..Len(s) : Append(s, f)[i] = s[i]
         /\ Append(s, f)[Len(s) + 1] = f
         /\ \A n \in 0..Len(s) : Plain(Append(s, f), n) <=> Plain(s, n)
         /\ \A n \in 0..Len(s) : Closes(Append(s, f), n) <=> Closes(s, n)
         /\ Plain(Append(s, f), Len(s) + 1) <=> Plain(s, Len(s)) /\ f.type \in {"open", "data"}
         /\ Closes(Append(s, f), Len(s) + 1) <=> Closes(s, Len(s)) \/ f.type = "close"
<1>. DEFINE t == Append(s, f)
<1>0. Len(s) \in Nat
  OBVIOUS
<1>1. /\ t \in Seq(Frames) /\ Len(t) = Len(s) + 1
      /\ \A i \in 1..Len(s) : t[i] = s[i]
      /\ t[Len(s) + 1] = f
  OBVIOUS
<1>. HIDE DEF t
<1>2. \A n \in 0..Len(s) : \A j \in 1..n : t[j] = s[j]
  BY <1>0, <1>1
<1>3. /\ \A n \in 0..Len(s) : Plain(t, n) <=> Plain(s, n)
      /\ \A n \in 0..Len(s) : Closes(t, n) <=> Closes(s, n)
  BY <1>2 DEF Plain, Closes
<1>4. \A j \in 1..(Len(s) + 1) : j \in 1..Len(s) \/ j = Len(s) + 1
  BY <1>0
<1>5. \A j \in 1..Len(s) : j \in 1..(Len(s) + 1)
  BY <1>0
<1>6. Len(s) + 1 \in 1..(Len(s) + 1)
  BY <1>0
<1>7. Plain(t, Len(s) + 1) <=> Plain(s, Len(s)) /\ f.type \in {"open", "data"}
  BY <1>1, <1>4, <1>5, <1>6 DEF Plain
<1>8. Closes(t, Len(s) + 1) <=> Closes(s, Len(s)) \/ f.type = "close"
  BY <1>1, <1>4, <1>5, <1>6 DEF Closes
<1>. QED
  BY <1>1, <1>3, <1>7, <1>8 DEF t

LEMMA AppendShape ==
  ASSUME NEW s \in Seq(Frames), NEW f \in Frames, NEW e \in Ends, NEW l \in Nat,
         NEW b \in Int, NEW n \in Nat, NEW r, NEW c
  PROVE  /\ OpenLeads(s, l) /\ (f.type = "open" <=> Len(s) + 1 <= l) =>
              OpenLeads(Append(s, f), l)
         /\ Numbered(s, b, e, n)
              /\ (f.type = "data" /\ Plain(s, Len(s)) =>
                    b + (Len(s) + 1) \in 1..n
                      /\ f.m = Message(b + (Len(s) + 1), Messages[e][b + (Len(s) + 1)])) =>
              Numbered(Append(s, f), b, e, n)
         /\ Statused(s, b, n, r, c)
              /\ (f.type = "close" /\ f.code # 0 =>
                    r = "closed" /\ f.code = c /\ (Plain(s, Len(s)) => b + Len(s) = n)) =>
              Statused(Append(s, f), b, n, r, c)
         /\ StatusFirst(s) /\ (f.type = "close" /\ f.code = 0 => Closes(s, Len(s))) =>
              StatusFirst(Append(s, f))
<1>. DEFINE t == Append(s, f)
<1>0. Len(s) \in Nat
  OBVIOUS
<1>1. /\ Len(t) = Len(s) + 1 /\ \A i \in 1..Len(s) : t[i] = s[i]
      /\ t[Len(s) + 1] = f
      /\ \A k \in 0..Len(s) : Plain(t, k) <=> Plain(s, k)
      /\ \A k \in 0..Len(s) : Closes(t, k) <=> Closes(s, k)
      /\ Plain(t, Len(s) + 1) <=> Plain(s, Len(s)) /\ f.type \in {"open", "data"}
  BY Appended
<1>. HIDE DEF t
<1>2. \A i \in 1..Len(t) : i = Len(s) + 1
                           \/ (i \in 1..Len(s) /\ i \in 0..Len(s) /\ i - 1 \in 0..Len(s))
  BY <1>0, <1>1
<1>3. (Len(s) + 1) - 1 = Len(s) /\ Len(s) \in 0..Len(s)
  BY <1>0
<1>4. OpenLeads(s, l) /\ (f.type = "open" <=> Len(s) + 1 <= l) => OpenLeads(t, l)
  BY <1>1, <1>2 DEF OpenLeads
<1>5. Numbered(s, b, e, n)
        /\ (f.type = "data" /\ Plain(s, Len(s)) =>
              b + (Len(s) + 1) \in 1..n
                /\ f.m = Message(b + (Len(s) + 1), Messages[e][b + (Len(s) + 1)])) =>
        Numbered(t, b, e, n)
  BY <1>1, <1>2 DEF Numbered
<1>6. Statused(s, b, n, r, c)
        /\ (f.type = "close" /\ f.code # 0 =>
              r = "closed" /\ f.code = c /\ (Plain(s, Len(s)) => b + Len(s) = n)) =>
        Statused(t, b, n, r, c)
  BY <1>1, <1>2, <1>3 DEF Statused
<1>7. StatusFirst(s) /\ (f.type = "close" /\ f.code = 0 => Closes(s, Len(s))) => StatusFirst(t)
  BY <1>1, <1>2, <1>3 DEF StatusFirst
<1>. QED
  BY <1>4, <1>5, <1>6, <1>7 DEF t

\* A lost link leaves a prefix of what was under way.
LEMMA PrefixShape ==
  ASSUME NEW s \in Seq(Frames), NEW k \in 0..Len(s), NEW e \in Ends, NEW l \in Nat,
         NEW b \in Int, NEW n \in Nat, NEW r, NEW c
  PROVE  LET t == SubSeq(s, 1, k) IN
         /\ t \in Seq(Frames)
         /\ OpenLeads(s, l) => OpenLeads(t, l)
         /\ Numbered(s, b, e, n) => Numbered(t, b, e, n)
         /\ Statused(s, b, n, r, c) => Statused(t, b, n, r, c)
         /\ StatusFirst(s) => StatusFirst(t)
         /\ Closes(t, Len(t)) => Closes(s, Len(s))
<1>. DEFINE t == SubSeq(s, 1, k)
<1>0. Len(s) \in Nat /\ k \in Nat /\ k <= Len(s)
  OBVIOUS
<1>1. t \in Seq(Frames) /\ Len(t) = k /\ \A i \in 1..k : t[i] = s[i]
  BY <1>0
<1>. HIDE DEF t
<1>2. \A i \in 1..k : i \in 1..Len(s) /\ i \in 0..k /\ i - 1 \in 0..k
  BY <1>0
<1>3. \A i \in 0..k : \A j \in 1..i : j \in 1..k
  BY <1>0
<1>4. \A i \in 0..k : (Plain(t, i) <=> Plain(s, i)) /\ (Closes(t, i) <=> Closes(s, i))
  BY <1>1, <1>3 DEF Plain, Closes
<1>5. OpenLeads(s, l) => OpenLeads(t, l)
  BY <1>1, <1>2 DEF OpenLeads
<1>6. Numbered(s, b, e, n) => Numbered(t, b, e, n)
  BY <1>1, <1>2, <1>4 DEF Numbered
<1>7. Statused(s, b, n, r, c) => Statused(t, b, n, r, c)
  BY <1>1, <1>2, <1>4 DEF Statused
<1>8. StatusFirst(s) => StatusFirst(t)
  BY <1>1, <1>2, <1>4 DEF StatusFirst
<1>9. Closes(t, Len(t)) => Closes(s, Len(s))
  BY <1>1, <1>2 DEF Closes
<1>. QED
  BY <1>1, <1>5, <1>6, <1>7, <1>8, <1>9 DEF t

\* The receiver takes an open frame or a message.
LEMMA TailShape ==
  ASSUME NEW s \in Seq(Frames), s # <<>>, s[1].type \in {"open", "data"},
         NEW e \in Ends, NEW l \in {0, 1}, s[1].type = "open" <=> l = 1,
         NEW b \in Int, NEW n \in Nat, NEW r, NEW c
  PROVE  LET t == Tail(s) IN
         /\ t \in Seq(Frames) /\ Len(t) = Len(s) - 1
         /\ OpenLeads(s, l) => OpenLeads(t, 0)
         /\ Numbered(s, b, e, n) => Numbered(t, b + 1, e, n)
         /\ Statused(s, b, n, r, c) => Statused(t, b + 1, n, r, c)
         /\ StatusFirst(s) => StatusFirst(t)
         /\ Closes(t, Len(t)) <=> Closes(s, Len(s))
         /\ Plain(t, Len(t)) => Plain(s, Len(s))
<1>. DEFINE t == Tail(s)
<1>0. Len(s) \in Nat \ {0}
  BY EmptySeq
<1>1. t \in Seq(Frames) /\ Len(t) = Len(s) - 1 /\ \A i \in 1..(Len(s) - 1) : t[i] = s[i + 1]
  BY HeadTailProperties
<1>. HIDE DEF t
<1>2. \A i \in 1..Len(t) : /\ t[i] = s[i + 1] /\ i + 1 \in 1..Len(s) /\ i \in 0..Len(t)
                          /\ i - 1 \in 0..Len(t) /\ (i - 1) + 1 = i /\ (i + 1) - 1 = i
  BY <1>0, <1>1
<1>3. \A k \in 0..Len(t) : \A j \in 1..(k + 1) : j = 1 \/ (j - 1 \in 1..k /\ s[j] = t[j - 1])
  <2>. TAKE k \in 0..Len(t)
  <2>. TAKE j \in 1..(k + 1)
  <2>1. k \in Nat /\ k <= Len(s) - 1
    BY <1>0, <1>1
  <2>2. j # 1 => j - 1 \in 1..k /\ j - 1 \in 1..(Len(s) - 1) /\ (j - 1) + 1 = j
    BY <1>0, <2>1
  <2>. QED
    BY <1>1, <2>2
<1>4. \A k \in 0..Len(t) : \A j \in 1..k : /\ j + 1 \in 1..(k + 1) /\ t[j] = s[j + 1]
                                        /\ j \in 1..Len(t)
  BY <1>0, <1>1
<1>5. \A k \in 0..Len(t) : Plain(t, k) => Plain(s, k + 1)
  BY <1>3 DEF Plain
<1>6. \A k \in 0..Len(t) : Closes(s, k + 1) => Closes(t, k)
  BY <1>3 DEF Closes
<1>7. OpenLeads(s, l) => OpenLeads(t, 0)
  <2>. SUFFICES ASSUME OpenLeads(s, l), NEW i \in 1..Len(t) PROVE t[i].type = "open" <=> i <= 0
    BY DEF OpenLeads
  <2>1. s[i + 1].type = "open" <=> i + 1 <= l
    BY <1>2 DEF OpenLeads
  <2>. QED
    BY <1>2, <2>1
<1>8. Numbered(s, b, e, n) => Numbered(t, b + 1, e, n)
  <2>. SUFFICES ASSUME Numbered(s, b, e, n), NEW i \in 1..Len(t), t[i].type = "data", Plain(t, i)
                PROVE  (b + 1) + i \in 1..n
                         /\ t[i].m = Message((b + 1) + i, Messages[e][(b + 1) + i])
    BY DEF Numbered
  <2>1. (b + 1) + i = b + (i + 1)
    OBVIOUS
  <2>2. Plain(s, i + 1) /\ s[i + 1].type = "data" /\ i + 1 \in 1..Len(s)
    BY <1>2, <1>5
  <2>. QED
    BY <1>2, <2>1, <2>2 DEF Numbered
<1>9. Statused(s, b, n, r, c) => Statused(t, b + 1, n, r, c)
  <2>. SUFFICES ASSUME Statused(s, b, n, r, c), NEW i \in 1..Len(t),
                       t[i].type = "close", t[i].code # 0
                PROVE  /\ r = "closed" /\ t[i].code = c
                       /\ Plain(t, i - 1) => (b + 1) + (i - 1) = n
    BY DEF Statused
  <2>1. (b + 1) + (i - 1) = b + ((i + 1) - 1)
    OBVIOUS
  <2>2. Plain(t, i - 1) => Plain(s, (i + 1) - 1)
    BY <1>2, <1>5
  <2>3. s[i + 1].type = "close" /\ s[i + 1].code # 0 /\ i + 1 \in 1..Len(s)
    BY <1>2
  <2>. QED
    BY <1>2, <2>1, <2>2, <2>3 DEF Statused
<1>10. StatusFirst(s) => StatusFirst(t)
  <2>. SUFFICES ASSUME StatusFirst(s), NEW i \in 1..Len(t), t[i].type = "close", t[i].code = 0
                PROVE  Closes(t, i - 1)
    BY DEF StatusFirst
  <2>1. Closes(s, (i + 1) - 1)
    BY <1>2 DEF StatusFirst
  <2>. QED
    BY <1>2, <1>6, <2>1
<1>11. Closes(t, Len(t)) <=> Closes(s, Len(s))
  <2>1. Len(t) \in 0..Len(t) /\ Len(t) + 1 = Len(s)
    BY <1>0, <1>1
  <2>2. Closes(t, Len(t)) => Closes(s, Len(s))
    BY <1>2 DEF Closes
  <2>. QED
    BY <1>6, <2>1, <2>2
<1>12. Plain(t, Len(t)) => Plain(s, Len(s))
  <2>1. Len(t) \in 0..Len(t) /\ Len(t) + 1 = Len(s)
    BY <1>0, <1>1
  <2>. QED
    BY <1>5, <2>1
<1>. QED
  BY <1>1, <1>7, <1>8, <1>9, <1>10, <1>11, <1>12 DEF t

LEMMA TailPlain ==
  ASSUME NEW s \in Seq(Frames), s # <<>>, s[1].type \in {"open", "data"}
  PROVE  Len(Tail(s)) = Len(s) - 1 /\ (Plain(Tail(s), Len(Tail(s))) => Plain(s, Len(s)))
<1>. DEFINE l == IF s[1].type = "open" THEN 1 ELSE 0
<1>1. l \in {0, 1} /\ (s[1].type = "open" <=> l = 1)
  OBVIOUS
<1>2. "edge" \in Ends /\ 0 \in Int /\ 0 \in Nat
  BY DEF Ends
<1>. HIDE DEF l
<1>. QED
  BY <1>1, <1>2, TailShape

-----------------------------------------------------------------------------
(* Types.                                                                  *)

Mains == {"none", "opening", "dial", "select", "writing", "close", "remove", "done"}
Lefts == {"no", "refused", "dial", "cut", "done", "read", "status", "close", "error", "write"}
Rds   == {"none", "read", "credit", "write", "closed", "err"}
Relays == [main : Mains, left : Lefts, hold : MessageSet, rd : Rds,
           sess : {"none", "open", "removed"}, credit : 0..SendWindow, consumed : 0..SendWindow,
           up : BOOLEAN, ws : {"open", "sent", "closed"}, nread : Nat,
           status : Statuses \cup {0}, out : Seq(MessageSet), seen : Statuses \cup {0}]

LEMMA TwoEnds ==
  ASSUME NEW e \in Ends
  PROVE  /\ Peer(e) \in Ends /\ Peer(e) # e /\ Peer(Peer(e)) = e
         /\ \A g \in Ends : g = e \/ g = Peer(e)
BY DEF Ends, Peer

LEMMA TypesAre ==
  TypeOK <=> end \in [Ends -> Relays] /\ chan \in [Ends -> Seq(Frames)]
BY DEF TypeOK, Relays, Frames, Mains, Lefts, Rds, Types

\* Setting one field of a relay.
LEMMA FieldSet ==
  ASSUME NEW r \in Relays
  PROVE  /\ \A x \in Mains : [r EXCEPT !.main = x] \in Relays
         /\ \A x \in Lefts : [r EXCEPT !.left = x] \in Relays
         /\ \A x \in MessageSet : [r EXCEPT !.hold = x] \in Relays
         /\ \A x \in Rds : [r EXCEPT !.rd = x] \in Relays
         /\ \A x \in {"none", "open", "removed"} : [r EXCEPT !.sess = x] \in Relays
         /\ \A x \in 0..SendWindow : [r EXCEPT !.credit = x] \in Relays
         /\ \A x \in 0..SendWindow : [r EXCEPT !.consumed = x] \in Relays
         /\ \A x \in BOOLEAN : [r EXCEPT !.up = x] \in Relays
         /\ \A x \in {"open", "sent", "closed"} : [r EXCEPT !.ws = x] \in Relays
         /\ \A x \in Nat : [r EXCEPT !.nread = x] \in Relays
         /\ \A x \in Statuses \cup {0} : [r EXCEPT !.status = x] \in Relays
         /\ \A x \in Seq(MessageSet) : [r EXCEPT !.out = x] \in Relays
         /\ \A x \in Statuses \cup {0} : [r EXCEPT !.seen = x] \in Relays
<1>1. \A x \in Mains : [r EXCEPT !.main = x] \in Relays
  BY DEF Relays
<1>2. \A x \in Lefts : [r EXCEPT !.left = x] \in Relays
  BY DEF Relays
<1>3. \A x \in MessageSet : [r EXCEPT !.hold = x] \in Relays
  BY DEF Relays
<1>4. \A x \in Rds : [r EXCEPT !.rd = x] \in Relays
  BY DEF Relays
<1>5. \A x \in {"none", "open", "removed"} : [r EXCEPT !.sess = x] \in Relays
  BY DEF Relays
<1>6. \A x \in 0..SendWindow : [r EXCEPT !.credit = x] \in Relays
  BY DEF Relays
<1>7. \A x \in 0..SendWindow : [r EXCEPT !.consumed = x] \in Relays
  BY DEF Relays
<1>8. \A x \in BOOLEAN : [r EXCEPT !.up = x] \in Relays
  BY DEF Relays
<1>9. \A x \in {"open", "sent", "closed"} : [r EXCEPT !.ws = x] \in Relays
  BY DEF Relays
<1>10. \A x \in Nat : [r EXCEPT !.nread = x] \in Relays
  BY DEF Relays
<1>11. \A x \in Statuses \cup {0} : [r EXCEPT !.status = x] \in Relays
  BY DEF Relays
<1>12. \A x \in Seq(MessageSet) : [r EXCEPT !.out = x] \in Relays
  BY DEF Relays
<1>13. \A x \in Statuses \cup {0} : [r EXCEPT !.seen = x] \in Relays
  BY DEF Relays
<1>. QED
  BY <1>1, <1>2, <1>3, <1>4, <1>5, <1>6, <1>7, <1>8, <1>9, <1>10, <1>11, <1>12, <1>13

\* A step that replaces the record of one end.
LEMMA Replaced ==
  ASSUME end \in [Ends -> Relays], NEW e \in Ends, NEW r \in Relays,
         end' = [end EXCEPT ![e] = r]
  PROVE  /\ end' \in [Ends -> Relays]
         /\ end'[e] = r /\ end'[Peer(e)] = end[Peer(e)]
BY TwoEnds, Zenon


\* The fields of a relay.
LEMMA Fields ==
  ASSUME end \in [Ends -> Relays], NEW e \in Ends
  PROVE  /\ end[e] \in Relays
         /\ end[e].main \in Mains /\ end[e].left \in Lefts /\ end[e].rd \in Rds
         /\ end[e].hold \in MessageSet /\ end[e].nread \in Nat /\ end[e].credit \in 0..SendWindow
         /\ end[e].consumed \in 0..SendWindow /\ end[e].sess \in {"none", "open", "removed"}
         /\ end[e].up \in BOOLEAN /\ end[e].out \in Seq(MessageSet)
         /\ end[e].status \in Statuses \cup {0} /\ end[e].seen \in Statuses \cup {0}
BY DEF Relays

LEMMA FramesAre ==
  /\ \A m \in MessageSet : /\ Data(m) \in Frames /\ Data(m).type = "data" /\ Data(m).m = m
  /\ \A c \in Statuses \cup {0} : /\ Close(c) \in Frames /\ Close(c).type = "close" /\ Close(c).code = c
  /\ Error \in Frames /\ Error.type = "error"
  /\ Open \in Frames /\ Open.type = "open"
BY DEF Data, Close, Error, Open, Frame, Frames, Types, NoMessage, Message, MessageSet, Kinds

\* Link.WriteFrame: a frame is added while the direction is live.
LEMMA WrittenChan ==
  ASSUME chan \in [Ends -> Seq(Frames)], NEW e \in Ends, NEW f \in Frames, chan' = Written(e, f)
  PROVE  /\ chan' \in [Ends -> Seq(Frames)]
         /\ chan'[Peer(e)] = chan[Peer(e)]
         /\ Live(e) => chan'[e] = Append(chan[e], f)
         /\ ~Live(e) => chan'[e] = chan[e]
<1>1. Append(chan[e], f) \in Seq(Frames)
  OBVIOUS
<1>2. CASE Live(e)
  <2>1. chan' = [chan EXCEPT ![e] = Append(chan[e], f)]
    BY <1>2 DEF Live, Written
  <2>. QED
    BY <1>1, <1>2, <2>1, TwoEnds, Zenon
<1>3. CASE ~Live(e)
  <2>1. chan' = chan
    BY <1>3 DEF Live, Written
  <2>. QED
    BY <1>3, <2>1
<1>. QED
  BY <1>2, <1>3

\* What a step leaves alone when it only moves the reader goroutine of e.
ReaderOf(e) ==
  /\ end' \in [Ends -> Relays] /\ chan' \in [Ends -> Seq(Frames)]
  /\ end'[Peer(e)] = end[Peer(e)] /\ chan'[Peer(e)] = chan[Peer(e)]
  /\ end'[e].main = end[e].main /\ end'[e].left = end[e].left /\ end'[e].hold = end[e].hold
  /\ end'[e].out = end[e].out /\ end'[e].up = end[e].up

LEMMA ReadMessageDoes ==
  ASSUME end \in [Ends -> Relays], chan \in [Ends -> Seq(Frames)], NEW e \in Ends, ReadMessage(e)
  PROVE  /\ ReaderOf(e) /\ chan'[e] = chan[e]
         /\ end[e].rd = "read" /\ end'[e].rd = "credit" /\ end'[e].nread = end[e].nread + 1
         /\ end[e].nread < Len(Messages[e])
         /\ end'[e].status = end[e].status /\ end'[e].seen = end[e].seen
<1>. DEFINE r == [end[e] EXCEPT !.nread = end[e].nread + 1, !.rd = "credit"]
<1>1. end' = [end EXCEPT ![e] = r] /\ chan' = chan
  BY DEF ReadMessage
<1>2. r \in Relays
  <2>1. end[e] \in Relays /\ end[e].nread + 1 \in Nat /\ "credit" \in Rds
    BY Fields DEF Rds
  <2>2. [end[e] EXCEPT !.nread = end[e].nread + 1] \in Relays
    BY <2>1, FieldSet, Zenon
  <2>. QED
    BY <2>1, <2>2, FieldSet
<1>3. end' \in [Ends -> Relays] /\ end'[e] = r /\ end'[Peer(e)] = end[Peer(e)]
  BY <1>1, <1>2, Replaced
<1>4. end[e] \in Relays
  BY Fields
<1>. QED
  BY <1>1, <1>3, <1>4 DEF ReadMessage, Reading, ReaderOf, Relays

LEMMA ReadEnds ==
  ASSUME end \in [Ends -> Relays], chan \in [Ends -> Seq(Frames)], NEW e \in Ends,
         ReadClose(e) \/ ReadDrop(e)
  PROVE  /\ ReaderOf(e) /\ chan'[e] = chan[e]
         /\ end[e].rd = "read" /\ end'[e].rd = "closed" /\ end'[e].nread = end[e].nread
         /\ end'[e].status # 0
<1>1. PICK c \in (Codes \cup {NoStatus, Abnormal}), w \in {"open", "sent", "closed"} :
        end' = [end EXCEPT ![e] = [end[e] EXCEPT !.status = c, !.seen = c, !.ws = w, !.rd = "closed"]]
  <2>1. CASE ReadClose(e)
    <3>1. PICK c \in Codes \cup {NoStatus} :
            end' = [end EXCEPT ![e].status = c, ![e].seen = c, ![e].ws = "sent", ![e].rd = "closed"]
      BY <2>1 DEF ReadClose
    <3>2. end' = [end EXCEPT ![e] = [end[e] EXCEPT !.status = c, !.seen = c, !.ws = "sent",
                                                   !.rd = "closed"]]
      BY <3>1
    <3>. QED
      BY <3>2
  <2>2. CASE ReadDrop(e)
    <3>1. /\ end' = [end EXCEPT ![e] = [end[e] EXCEPT !.status = Abnormal, !.seen = Abnormal,
                                                      !.ws = "open", !.rd = "closed"]]
      BY <2>2 DEF ReadDrop, Reading, Relays
    <3>. QED
      BY <3>1
  <2>. QED
    BY <2>1, <2>2
<1>2. chan' = chan /\ end[e].rd = "read"
  BY DEF ReadClose, ReadDrop, Reading
<1>. DEFINE r == [end[e] EXCEPT !.status = c, !.seen = c, !.ws = w, !.rd = "closed"]
<1>3. c \in Statuses /\ c # 0
  BY CodesAssumption DEF Statuses, NoStatus, Abnormal
<1>4. r \in Relays
  BY <1>3, Fields, FieldSet DEF Rds
<1>5. end' \in [Ends -> Relays] /\ end'[e] = r /\ end'[Peer(e)] = end[Peer(e)]
  BY <1>1, <1>4, Replaced
<1>6. end[e] \in Relays
  BY Fields
<1>. QED
  BY <1>2, <1>3, <1>5, <1>6 DEF ReaderOf, Relays

LEMMA ReaderFails ==
  ASSUME end \in [Ends -> Relays], chan \in [Ends -> Seq(Frames)], NEW e \in Ends,
         \/ ReadErr(e) \/ SendClosed(e)
         \/ WriteData(e) /\ end' = [end EXCEPT ![e].rd = "err"] /\ UNCHANGED chan
  PROVE  /\ ReaderOf(e) /\ chan'[e] = chan[e]
         /\ end[e].rd \in {"read", "credit", "write"} /\ end'[e].rd = "err"
         /\ end'[e].nread = end[e].nread
         /\ end'[e].status = end[e].status /\ end'[e].seen = end[e].seen
<1>. DEFINE r == [end[e] EXCEPT !.rd = "err"]
<1>1. /\ end' = [end EXCEPT ![e] = r] /\ chan' = chan
      /\ end[e].rd \in {"read", "credit", "write"}
  BY DEF ReadErr, SendClosed, WriteData
<1>2. r \in Relays
  BY Fields, FieldSet DEF Rds
<1>3. end' \in [Ends -> Relays] /\ end'[e] = r /\ end'[Peer(e)] = end[Peer(e)]
  BY <1>1, <1>2, Replaced
<1>4. end[e] \in Relays
  BY Fields
<1>. QED
  BY <1>1, <1>3, <1>4 DEF ReaderOf, Relays

LEMMA TakeCreditDoes ==
  ASSUME end \in [Ends -> Relays], chan \in [Ends -> Seq(Frames)], NEW e \in Ends, TakeCredit(e)
  PROVE  /\ ReaderOf(e) /\ chan'[e] = chan[e]
         /\ end[e].rd = "credit" /\ end'[e].rd = "write" /\ end'[e].nread = end[e].nread
         /\ end'[e].status = end[e].status /\ end'[e].seen = end[e].seen
<1>. DEFINE r == [end[e] EXCEPT !.credit = end[e].credit - 1, !.rd = "write"]
<1>1. end' = [end EXCEPT ![e] = r] /\ chan' = chan
  BY DEF TakeCredit
<1>2. end[e].credit - 1 \in 0..SendWindow
  BY Fields, WindowAssumption DEF TakeCredit
<1>3. r \in Relays
  BY <1>2, Fields, FieldSet DEF Rds
<1>4. end' \in [Ends -> Relays] /\ end'[e] = r /\ end'[Peer(e)] = end[Peer(e)]
  BY <1>1, <1>3, Replaced
<1>5. end[e] \in Relays
  BY Fields
<1>. QED
  BY <1>1, <1>4, <1>5 DEF TakeCredit, ReaderOf, Relays

\* The message that e's reader is sending.
Current(e) == Message(end[e].nread, Messages[e][end[e].nread])

LEMMA WriteDataDoes ==
  ASSUME end \in [Ends -> Relays], chan \in [Ends -> Seq(Frames)], Reads, NEW e \in Ends,
         WriteData(e), ~(end' = [end EXCEPT ![e].rd = "err"] /\ UNCHANGED chan)
  PROVE  /\ ReaderOf(e)
         /\ Live(e) => chan'[e] = Append(chan[e], Data(Current(e)))
         /\ ~Live(e) => chan'[e] = chan[e]
         /\ Current(e) \in MessageSet
         /\ end[e].rd = "write" /\ end'[e].rd = "read" /\ end'[e].nread = end[e].nread
         /\ end'[e].status = end[e].status /\ end'[e].seen = end[e].seen
<1>. DEFINE r == [end[e] EXCEPT !.rd = "read"]
<1>1. /\ end' = [end EXCEPT ![e] = r] /\ chan' = Written(e, Data(Current(e)))
      /\ end[e].rd = "write"
  BY DEF WriteData, Current
<1>2. Current(e) \in MessageSet
  <2>1. end[e].nread \in 1..Len(Messages[e])
    BY <1>1, Fields DEF Reads
  <2>2. Messages[e][end[e].nread] \in Kinds
    BY <2>1, MessagesAssumption
  <2>. QED
    BY <2>1, <2>2 DEF Current, Message, MessageSet
<1>3. r \in Relays
  BY Fields, FieldSet DEF Rds
<1>4. end' \in [Ends -> Relays] /\ end'[e] = r /\ end'[Peer(e)] = end[Peer(e)]
  BY <1>1, <1>3, Replaced
<1>5. end[e] \in Relays
  BY Fields
<1>6. Data(Current(e)) \in Frames
  BY <1>2, FramesAre
<1>7. /\ chan' \in [Ends -> Seq(Frames)]
      /\ chan'[Peer(e)] = chan[Peer(e)]
      /\ Live(e) => chan'[e] = Append(chan[e], Data(Current(e)))
      /\ ~Live(e) => chan'[e] = chan[e]
  BY <1>1, <1>6, WrittenChan
<1>. QED
  BY <1>1, <1>2, <1>4, <1>5, <1>7 DEF ReaderOf, Relays

\* A step of the select loop of e leaves e's reader and the other end alone,
\* but for the credit that AckData returns.
SameRelay(g) ==
  /\ end'[g].main = end[g].main /\ end'[g].left = end[g].left /\ end'[g].hold = end[g].hold
  /\ end'[g].rd = end[g].rd /\ end'[g].nread = end[g].nread /\ end'[g].status = end[g].status
  /\ end'[g].out = end[g].out /\ end'[g].seen = end[g].seen /\ end'[g].up = end[g].up
LoopOf(e) ==
  /\ end' \in [Ends -> Relays] /\ chan' \in [Ends -> Seq(Frames)]
  /\ SameRelay(Peer(e))
  /\ end'[e].rd = end[e].rd /\ end'[e].nread = end[e].nread /\ end'[e].status = end[e].status

LEMMA ExitType ==
  ASSUME NEW r \in Relays, NEW why \in Lefts, NEW told \in Statuses
  PROVE  /\ Exit(r, why, told) \in Relays
         /\ Exit(r, why, told).main = "close" /\ Exit(r, why, told).left = why
         /\ Exit(r, why, told).seen = (IF r.seen = 0 THEN told ELSE r.seen)
         /\ Exit(r, why, told).hold = r.hold /\ Exit(r, why, told).rd = r.rd
         /\ Exit(r, why, told).nread = r.nread /\ Exit(r, why, told).status = r.status
         /\ Exit(r, why, told).out = r.out /\ Exit(r, why, told).up = r.up
BY DEF Exit, Relays, Mains

LEMMA LeaveDoes ==
  ASSUME end \in [Ends -> Relays], chan \in [Ends -> Seq(Frames)], NEW e \in Ends,
         NEW why \in Lefts, NEW told \in Statuses, Leave(e, why, told)
  PROVE  /\ LoopOf(e) /\ chan'[Peer(e)] = <<>> /\ chan'[e] = chan[e]
         /\ end'[e].main = "close" /\ end'[e].left = why
         /\ end'[e].seen = (IF end[e].seen = 0 THEN told ELSE end[e].seen)
         /\ end'[e].hold = end[e].hold /\ end'[e].out = end[e].out /\ end'[e].up = end[e].up
<1>. DEFINE r == Exit(end[e], why, told)
<1>1. /\ end' = [end EXCEPT ![e] = r] /\ chan' = [chan EXCEPT ![Peer(e)] = <<>>]
  BY DEF Leave
<1>2. end[e] \in Relays
  BY Fields
<1>3. r \in Relays
  BY <1>2, ExitType
<1>4. end' \in [Ends -> Relays] /\ end'[e] = r /\ end'[Peer(e)] = end[Peer(e)]
  BY <1>1, <1>3, Replaced
<1>5. <<>> \in Seq(Frames)
  OBVIOUS
<1>6. chan' \in [Ends -> Seq(Frames)] /\ chan'[Peer(e)] = <<>> /\ chan'[e] = chan[e]
  BY <1>1, <1>5, TwoEnds, Zenon
<1>. QED
  BY <1>2, <1>4, <1>6, ExitType DEF LoopOf, SameRelay

LEMMA TakeCloseErrDoes ==
  ASSUME end \in [Ends -> Relays], chan \in [Ends -> Seq(Frames)], NEW e \in Ends, TakeCloseErr(e)
  PROVE  /\ LoopOf(e) /\ end[e].main = "select" /\ end[e].rd = "closed"
         /\ chan'[Peer(e)] = <<>>
         /\ Live(e) => chan'[e] = Append(chan[e], Close(end[e].status))
         /\ ~Live(e) => chan'[e] = chan[e]
         /\ end'[e].main = "close" /\ end'[e].left = "status"
         /\ end'[e].seen = (IF end[e].seen = 0 THEN Abnormal ELSE end[e].seen)
         /\ end'[e].hold = end[e].hold /\ end'[e].out = end[e].out /\ end'[e].up = end[e].up
<1>. DEFINE x == Exit(end[e], "status", Abnormal)
            r == [x EXCEPT !.sess = "removed"]
            f == Close(end[e].status)
<1>1. /\ end' = [end EXCEPT ![e] = r] /\ chan' = [Written(e, f) EXCEPT ![Peer(e)] = <<>>]
      /\ end[e].main = "select" /\ end[e].rd = "closed"
  BY DEF TakeCloseErr, Selecting
<1>2. end[e] \in Relays /\ f \in Frames
  BY Fields, FramesAre
<1>3. /\ x \in Relays /\ x.main = "close" /\ x.left = "status"
      /\ x.seen = (IF end[e].seen = 0 THEN Abnormal ELSE end[e].seen)
      /\ x.hold = end[e].hold /\ x.rd = end[e].rd
      /\ x.nread = end[e].nread /\ x.status = end[e].status
      /\ x.out = end[e].out /\ x.up = end[e].up
  BY <1>2, ExitType DEF Statuses, Lefts
<1>. HIDE DEF x
<1>4. /\ r \in Relays /\ r.main = x.main /\ r.left = x.left /\ r.seen = x.seen
      /\ r.hold = x.hold /\ r.rd = x.rd /\ r.nread = x.nread /\ r.status = x.status
      /\ r.out = x.out /\ r.up = x.up
  BY <1>3 DEF Relays
<1>5. end' \in [Ends -> Relays] /\ end'[e] = r /\ end'[Peer(e)] = end[Peer(e)]
  BY <1>1, <1>4, Replaced
<1>. DEFINE w == Written(e, f)
<1>6. /\ w \in [Ends -> Seq(Frames)]
      /\ Live(e) => w[e] = Append(chan[e], f)
      /\ ~Live(e) => w[e] = chan[e]
  <2>1. Append(chan[e], f) \in Seq(Frames)
    BY <1>2
  <2>2. CASE Live(e)
    <3>1. w = [chan EXCEPT ![e] = Append(chan[e], f)]
      BY <2>2 DEF Live, Written
    <3>. QED
      BY <2>1, <2>2, <3>1, Zenon
  <2>3. CASE ~Live(e)
    BY <2>3 DEF Live, Written
  <2>. QED
    BY <2>2, <2>3
<1>. HIDE DEF w
<1>7. chan' = [w EXCEPT ![Peer(e)] = <<>>]
  BY <1>1 DEF w
<1>8. <<>> \in Seq(Frames)
  OBVIOUS
<1>9. chan' \in [Ends -> Seq(Frames)] /\ chan'[Peer(e)] = <<>> /\ chan'[e] = w[e]
  BY <1>6, <1>7, <1>8, TwoEnds, Zenon
<1>. HIDE DEF f, r
<1>10. LoopOf(e)
  BY <1>3, <1>4, <1>5, <1>9 DEF LoopOf, SameRelay
<1>. QED
  BY <1>1, <1>3, <1>4, <1>5, <1>6, <1>9, <1>10 DEF f

LEMMA TakeDataDoes ==
  ASSUME end \in [Ends -> Relays], chan \in [Ends -> Seq(Frames)], NEW e \in Ends, TakeData(e)
  PROVE  /\ LoopOf(e) /\ chan'[e] = chan[e]
         /\ chan[Peer(e)] # <<>> /\ chan[Peer(e)][1].type = "data"
         /\ chan'[Peer(e)] = Tail(chan[Peer(e)])
         /\ end[e].main = "select" /\ end'[e].main = "writing"
         /\ end'[e].hold = chan[Peer(e)][1].m
         /\ end'[e].left = end[e].left /\ end'[e].seen = end[e].seen
         /\ end'[e].out = end[e].out /\ end'[e].up = end[e].up
<1>. DEFINE q == chan[Peer(e)]
            r == [end[e] EXCEPT !.hold = Head(q).m, !.main = "writing"]
<1>1. /\ end' = [end EXCEPT ![e] = r] /\ chan' = [chan EXCEPT ![Peer(e)] = Tail(q)]
      /\ end[e].main = "select" /\ q # <<>> /\ Head(q).type = "data"
  BY DEF TakeData, Receives, Selecting, Arrived
<1>2. q \in Seq(Frames)
  BY TwoEnds
<1>3. Head(q) = q[1] /\ Head(q) \in Frames /\ Tail(q) \in Seq(Frames)
  BY <1>1, <1>2, HeadTailProperties
<1>4. end[e] \in Relays /\ Head(q).m \in MessageSet /\ "writing" \in Mains
  BY <1>3, Fields DEF Frames, Mains
<1>5. [end[e] EXCEPT !.hold = Head(q).m] \in Relays
  BY <1>4, FieldSet, Zenon
<1>6. r \in Relays
  BY <1>4, <1>5, FieldSet
<1>7. end' \in [Ends -> Relays] /\ end'[e] = r /\ end'[Peer(e)] = end[Peer(e)]
  BY <1>1, <1>6, Replaced
<1>8. chan' \in [Ends -> Seq(Frames)] /\ chan'[Peer(e)] = Tail(q) /\ chan'[e] = chan[e]
  BY <1>1, <1>3, TwoEnds, Zenon
<1>9. /\ r.main = "writing" /\ r.hold = Head(q).m /\ r.rd = end[e].rd /\ r.nread = end[e].nread
      /\ r.status = end[e].status /\ r.left = end[e].left /\ r.seen = end[e].seen
      /\ r.out = end[e].out /\ r.up = end[e].up
  BY <1>4 DEF Relays
<1>. HIDE DEF r
<1>. QED
  BY <1>1, <1>3, <1>7, <1>8, <1>9 DEF LoopOf, SameRelay

\* AckData changes the two counters of flow control and keeps them in bounds.
LEMMA AckDataDoes ==
  ASSUME end \in [Ends -> Relays], NEW e \in Ends
  PROVE  \E k, c \in 0..SendWindow :
           /\ AckData(e)[e] = [end[e] EXCEPT !.consumed = k]
           /\ AckData(e)[Peer(e)] = [end[Peer(e)] EXCEPT !.credit = c]
           /\ AckData(e) \in [Ends -> Relays]
<1>. DEFINE p == Peer(e)
            n == end[e].consumed + 1
<1>0. /\ end[e] \in Relays /\ end[p] \in Relays /\ p \in Ends /\ p # e
      /\ end[e].consumed \in 0..SendWindow /\ end[p].credit \in 0..SendWindow
  BY TwoEnds, Fields
<1>1. AckThreshold \in 1..SendWindow
  BY WindowAssumption DEF AckThreshold
<1>2. CASE n >= AckThreshold
  <2>1. 0 \in 0..SendWindow /\ Credited(e, n) \in 0..SendWindow
    BY <1>0, WindowAssumption DEF Credited
  <2>2. AckData(e) = [end EXCEPT ![e].consumed = 0, ![p].credit = Credited(e, n)]
    BY <1>2 DEF AckData
  <2>3. /\ AckData(e)[e] = [end[e] EXCEPT !.consumed = 0]
        /\ AckData(e)[p] = [end[p] EXCEPT !.credit = Credited(e, n)]
    BY <1>0, <2>2
  <2>4. /\ [end[e] EXCEPT !.consumed = 0] \in Relays
        /\ [end[p] EXCEPT !.credit = Credited(e, n)] \in Relays
    BY <1>0, <2>1, FieldSet
  <2>5. AckData(e) \in [Ends -> Relays]
    <3>1. AckData(e) = [g \in Ends |-> AckData(e)[g]]
      BY <2>2
    <3>2. \A g \in Ends : AckData(e)[g] \in Relays
      BY <2>3, <2>4, TwoEnds
    <3>. QED
      BY <3>1, <3>2, Zenon
  <2>. QED
    BY <2>1, <2>3, <2>5
<1>3. CASE ~(n >= AckThreshold)
  <2>1. n \in 0..SendWindow /\ AckData(e) = [end EXCEPT ![e].consumed = n]
    BY <1>0, <1>1, <1>3, WindowAssumption DEF AckData
  <2>2. /\ AckData(e)[e] = [end[e] EXCEPT !.consumed = n]
        /\ AckData(e)[p] = end[p]
    BY <1>0, <2>1
  <2>3. end[p] = [end[p] EXCEPT !.credit = end[p].credit]
    BY <1>0 DEF Relays
  <2>4. [end[e] EXCEPT !.consumed = n] \in Relays
    BY <1>0, <2>1, FieldSet
  <2>5. AckData(e) \in [Ends -> Relays]
    <3>1. AckData(e) = [g \in Ends |-> AckData(e)[g]]
      BY <2>1
    <3>2. \A g \in Ends : AckData(e)[g] \in Relays
      BY <1>0, <2>2, <2>4, TwoEnds
    <3>. QED
      BY <3>1, <3>2, Zenon
  <2>. QED
    BY <1>0, <2>1, <2>2, <2>3, <2>5
<1>. QED
  BY <1>2, <1>3

LEMMA WriteMessageDoes ==
  ASSUME end \in [Ends -> Relays], chan \in [Ends -> Seq(Frames)], NEW e \in Ends, WriteMessage(e)
  PROVE  /\ LoopOf(e) /\ chan' = chan
         /\ end[e].main = "writing" /\ end'[e].main = "select"
         /\ end'[e].out = Append(end[e].out, end[e].hold)
         /\ end'[e].left = end[e].left /\ end'[e].seen = end[e].seen /\ end'[e].up = end[e].up
<1>. DEFINE p == Peer(e)
            a == AckData(e)
<1>1. /\ end' = [a EXCEPT ![e].out = Append(@, end[e].hold), ![e].hold = NoMessage,
                          ![e].main = "select"]
      /\ chan' = chan /\ end[e].main = "writing"
  BY DEF WriteMessage, Wrote
<1>2. PICK k, c \in 0..SendWindow :
        /\ a[e] = [end[e] EXCEPT !.consumed = k] /\ a[p] = [end[p] EXCEPT !.credit = c]
        /\ a \in [Ends -> Relays]
  BY AckDataDoes
<1>. HIDE DEF a
<1>3. /\ end[e] \in Relays /\ end[p] \in Relays /\ p \in Ends /\ p # e
      /\ end[e].out \in Seq(MessageSet) /\ end[e].hold \in MessageSet
  BY TwoEnds, Fields
<1>4. /\ a[e].rd = end[e].rd /\ a[e].nread = end[e].nread /\ a[e].status = end[e].status
      /\ a[e].left = end[e].left /\ a[e].seen = end[e].seen /\ a[e].up = end[e].up
      /\ a[e].out = end[e].out
  BY <1>2, <1>3 DEF Relays
<1>5. /\ a[p].rd = end[p].rd /\ a[p].nread = end[p].nread /\ a[p].status = end[p].status
      /\ a[p].left = end[p].left /\ a[p].seen = end[p].seen /\ a[p].up = end[p].up
      /\ a[p].out = end[p].out /\ a[p].main = end[p].main /\ a[p].hold = end[p].hold
  BY <1>2, <1>3 DEF Relays
<1>. DEFINE r == [a[e] EXCEPT !.out = Append(end[e].out, end[e].hold), !.hold = NoMessage,
                              !.main = "select"]
<1>6. end' = [a EXCEPT ![e] = r]
  BY <1>1, <1>2, <1>4
<1>7. Append(end[e].out, end[e].hold) \in Seq(MessageSet) /\ NoMessage \in MessageSet
      /\ "select" \in Mains /\ a[e] \in Relays
  <2>1. Append(end[e].out, end[e].hold) \in Seq(MessageSet)
    BY <1>3
  <2>2. NoMessage \in MessageSet /\ "select" \in Mains
    BY DEF NoMessage, Message, MessageSet, Kinds, Mains
  <2>3. a[e] \in Relays
    BY <1>2
  <2>. QED
    BY <2>1, <2>2, <2>3
<1>8. r \in Relays
  <2>1. [a[e] EXCEPT !.out = Append(end[e].out, end[e].hold)] \in Relays
    BY <1>7, FieldSet, Zenon
  <2>2. [a[e] EXCEPT !.out = Append(end[e].out, end[e].hold), !.hold = NoMessage] \in Relays
    BY <1>7, <2>1, FieldSet
  <2>. QED
    BY <1>7, <2>2, FieldSet
<1>9. end' \in [Ends -> Relays] /\ end'[e] = r /\ end'[p] = a[p]
  BY <1>2, <1>3, <1>6, <1>8, Zenon
<1>10. /\ r.rd = a[e].rd /\ r.nread = a[e].nread /\ r.status = a[e].status
       /\ r.left = a[e].left /\ r.seen = a[e].seen /\ r.up = a[e].up
       /\ r.out = Append(end[e].out, end[e].hold) /\ r.main = "select"
  BY <1>7 DEF Relays
<1>. HIDE DEF r
<1>. QED
  BY <1>1, <1>4, <1>5, <1>9, <1>10 DEF LoopOf, SameRelay

\* session.Close writes its close frame, then removes the session.
LEMMA SessionCloseDoes ==
  ASSUME end \in [Ends -> Relays], chan \in [Ends -> Seq(Frames)], NEW e \in Ends,
         SessionClose(e) \/ SessionRemove(e)
  PROVE  /\ LoopOf(e) /\ chan'[Peer(e)] = chan[Peer(e)]
         /\ chan'[e] = chan[e] \/ (Live(e) /\ chan'[e] = Append(chan[e], Close(0)))
         /\ end[e].main \in {"close", "remove"} /\ end'[e].main \in {"remove", "done"}
         /\ end'[e].out = end[e].out /\ end'[e].hold = end[e].hold
         /\ end'[e].left = end[e].left /\ end'[e].seen = end[e].seen /\ end'[e].up = end[e].up
         /\ end[e].main = "close" /\ Live(e) => chan'[e] = Append(chan[e], Close(0))
<1>0. end[e] \in Relays /\ Close(0) \in Frames
  BY Fields, FramesAre
<1>1. CASE SessionClose(e)
  <2>. DEFINE r == [end[e] EXCEPT !.main = "remove"]
  <2>1. /\ end' = [end EXCEPT ![e] = r] /\ chan' = Written(e, Close(0)) /\ end[e].main = "close"
    BY <1>1 DEF SessionClose
  <2>2. r \in Relays
    BY <1>0, FieldSet DEF Mains
  <2>3. end' \in [Ends -> Relays] /\ end'[e] = r /\ end'[Peer(e)] = end[Peer(e)]
    BY <2>1, <2>2, Replaced
  <2>4. /\ chan' \in [Ends -> Seq(Frames)] /\ chan'[Peer(e)] = chan[Peer(e)]
        /\ Live(e) => chan'[e] = Append(chan[e], Close(0))
        /\ ~Live(e) => chan'[e] = chan[e]
    BY <1>0, <2>1, WrittenChan
  <2>5. LoopOf(e)
    BY <1>0, <2>3, <2>4 DEF LoopOf, SameRelay, Relays
  <2>. QED
    BY <1>0, <2>1, <2>3, <2>4, <2>5 DEF Relays
<1>2. CASE SessionRemove(e)
  <2>. DEFINE r == [end[e] EXCEPT !.main = "done", !.sess = "removed"]
  <2>1. /\ end' = [end EXCEPT ![e] = r] /\ chan' = chan /\ end[e].main = "remove"
    BY <1>2 DEF SessionRemove
  <2>2. r \in Relays
    BY <1>0, FieldSet DEF Mains
  <2>3. end' \in [Ends -> Relays] /\ end'[e] = r /\ end'[Peer(e)] = end[Peer(e)]
    BY <2>1, <2>2, Replaced
  <2>5. LoopOf(e)
    BY <1>0, <2>1, <2>3 DEF LoopOf, SameRelay, Relays
  <2>. QED
    BY <1>0, <2>1, <2>3, <2>5 DEF Relays
<1>. QED
  BY <1>1, <1>2

\* Link.Close: of the frames under way a prefix stays.
LEMMA LinkCloseDoes ==
  ASSUME end \in [Ends -> Relays], chan \in [Ends -> Seq(Frames)], NEW e \in Ends, LinkClose(e)
  PROVE  /\ LoopOf(e) /\ chan'[e] = chan[e]
         /\ \E k \in 0..Len(chan[Peer(e)]) : chan'[Peer(e)] = SubSeq(chan[Peer(e)], 1, k)
         /\ ~end'[e].up
         /\ end'[e].main = end[e].main /\ end'[e].left = end[e].left
         /\ end'[e].out = end[e].out /\ end'[e].hold = end[e].hold /\ end'[e].seen = end[e].seen
<1>. DEFINE q == chan[Peer(e)]
            x == IF end[e].sess = "open" THEN "removed" ELSE end[e].sess
            r == [end[e] EXCEPT !.up = FALSE, !.sess = x]
<1>0. end[e] \in Relays /\ x \in {"none", "open", "removed"} /\ q \in Seq(Frames)
  BY Fields, TwoEnds
<1>1. PICK k \in 0..Len(q) : chan' = [chan EXCEPT ![Peer(e)] = SubSeq(q, 1, k)]
  BY DEF LinkClose
<1>2. end' = [end EXCEPT ![e] = r]
  BY DEF LinkClose
<1>3. SubSeq(q, 1, k) \in Seq(Frames)
  BY <1>0
<1>. HIDE DEF x
<1>4. r \in Relays
  BY <1>0, FieldSet
<1>5. end' \in [Ends -> Relays] /\ end'[e] = r /\ end'[Peer(e)] = end[Peer(e)]
  BY <1>2, <1>4, Replaced
<1>6. /\ chan' \in [Ends -> Seq(Frames)] /\ chan'[e] = chan[e]
      /\ chan'[Peer(e)] = SubSeq(q, 1, k)
  BY <1>1, <1>3, TwoEnds, Zenon
<1>7. /\ ~r.up /\ r.main = end[e].main /\ r.left = end[e].left /\ r.out = end[e].out
      /\ r.hold = end[e].hold /\ r.seen = end[e].seen
      /\ r.rd = end[e].rd /\ r.nread = end[e].nread /\ r.status = end[e].status
  BY <1>0 DEF Relays
<1>. HIDE DEF r
<1>8. LoopOf(e)
  BY <1>5, <1>6, <1>7 DEF LoopOf, SameRelay
<1>. QED
  BY <1>5, <1>6, <1>7, <1>8

\* Setting up.
LEMMA OpenSessionDoes ==
  ASSUME end \in [Ends -> Relays], chan \in [Ends -> Seq(Frames)], OpenSession
  PROVE  /\ end' \in [Ends -> Relays] /\ chan' \in [Ends -> Seq(Frames)]
         /\ end'["connector"] = end["connector"] /\ chan'["connector"] = chan["connector"]
         /\ Live("edge") => chan'["edge"] = Append(chan["edge"], Open)
         /\ ~Live("edge") => chan'["edge"] = chan["edge"]
         /\ end["edge"].main = "opening" /\ end'["edge"].main = "select"
         /\ end'["edge"].rd = "read"
         /\ end'["edge"].left = end["edge"].left /\ end'["edge"].seen = end["edge"].seen
         /\ end'["edge"].up = end["edge"].up /\ end'["edge"].nread = end["edge"].nread
         /\ end'["edge"].out = end["edge"].out /\ end'["edge"].hold = end["edge"].hold
         /\ end'["edge"].status = end["edge"].status
<1>. DEFINE r == [end["edge"] EXCEPT !.sess = "open", !.main = "select", !.rd = "read"]
<1>0. "edge" \in Ends /\ Peer("edge") = "connector" /\ Open \in Frames
  BY FramesAre DEF Ends, Peer
<1>1. /\ end' = [end EXCEPT !["edge"] = r] /\ chan' = Written("edge", Open)
      /\ end["edge"].main = "opening"
  BY DEF OpenSession
<1>2. end["edge"] \in Relays
  BY <1>0, Fields
<1>3. r \in Relays
  BY <1>2 DEF Relays, Mains, Rds
<1>4. end' \in [Ends -> Relays] /\ end'["edge"] = r /\ end'["connector"] = end["connector"]
  BY <1>0, <1>1, <1>3, Replaced
<1>5. /\ chan' \in [Ends -> Seq(Frames)] /\ chan'["connector"] = chan["connector"]
      /\ Live("edge") => chan'["edge"] = Append(chan["edge"], Open)
      /\ ~Live("edge") => chan'["edge"] = chan["edge"]
  BY <1>0, <1>1, WrittenChan
<1>6. /\ r.main = "select" /\ r.rd = "read" /\ r.left = end["edge"].left
      /\ r.seen = end["edge"].seen /\ r.up = end["edge"].up /\ r.nread = end["edge"].nread
      /\ r.out = end["edge"].out /\ r.hold = end["edge"].hold /\ r.status = end["edge"].status
  BY <1>2 DEF Relays
<1>. HIDE DEF r
<1>. QED
  BY <1>1, <1>4, <1>5, <1>6

LEMMA OpenRefusedDoes ==
  ASSUME end \in [Ends -> Relays], chan \in [Ends -> Seq(Frames)], OpenRefused
  PROVE  /\ LoopOf("edge") /\ chan' = chan
         /\ end["edge"].main = "opening" /\ end'["edge"].main = "done"
         /\ end'["edge"].left = "refused" /\ end'["edge"].up = end["edge"].up
         /\ end'["edge"].out = end["edge"].out /\ end'["edge"].hold = end["edge"].hold
<1>0. "edge" \in Ends /\ Peer("edge") = "connector"
  BY DEF Ends, Peer
<1>1. PICK c \in {Internal, TryAgainLater} :
        end' = [end EXCEPT !["edge"].seen = c, !["edge"].ws = "closed",
                           !["edge"].main = "done", !["edge"].left = "refused"]
  BY DEF OpenRefused
<1>. DEFINE r == [end["edge"] EXCEPT !.seen = c, !.ws = "closed", !.main = "done",
                                     !.left = "refused"]
<1>2. end["edge"] \in Relays /\ c \in Statuses /\ chan' = chan /\ end["edge"].main = "opening"
  <2>1. c \in Statuses
    BY DEF Statuses
  <2>2. end["edge"] \in Relays
    BY <1>0, Fields
  <2>. QED
    BY <2>1, <2>2 DEF OpenRefused
<1>3. r \in Relays
  <2>1. [end["edge"] EXCEPT !.seen = c] \in Relays
    BY <1>2, FieldSet, Zenon
  <2>2. [end["edge"] EXCEPT !.seen = c, !.ws = "closed"] \in Relays
    BY <2>1, FieldSet
  <2>3. [end["edge"] EXCEPT !.seen = c, !.ws = "closed", !.main = "done"] \in Relays
    BY <2>2, FieldSet DEF Mains
  <2>. QED
    BY <2>3, FieldSet DEF Lefts
<1>4. end' = [end EXCEPT !["edge"] = r]
  BY <1>1
<1>5. end' \in [Ends -> Relays] /\ end'["edge"] = r /\ end'["connector"] = end["connector"]
  BY <1>0, <1>3, <1>4, Replaced
<1>6. /\ r.main = "done" /\ r.left = "refused" /\ r.up = end["edge"].up /\ r.out = end["edge"].out
      /\ r.hold = end["edge"].hold /\ r.rd = end["edge"].rd /\ r.nread = end["edge"].nread
      /\ r.status = end["edge"].status
  BY <1>2 DEF Relays
<1>. HIDE DEF r
<1>. QED
  BY <1>0, <1>2, <1>5, <1>6 DEF LoopOf, SameRelay

LEMMA AcceptOpenDoes ==
  ASSUME end \in [Ends -> Relays], chan \in [Ends -> Seq(Frames)], AcceptOpen
  PROVE  /\ LoopOf("connector") /\ chan'["connector"] = chan["connector"]
         /\ chan["edge"] # <<>> /\ chan'["edge"] = Tail(chan["edge"])
         /\ end["connector"].main = "none" /\ end'["connector"].main = "dial"
         /\ end'["connector"].left = end["connector"].left
         /\ end'["connector"].seen = end["connector"].seen
         /\ end'["connector"].up = end["connector"].up
         /\ end'["connector"].out = end["connector"].out
         /\ end'["connector"].hold = end["connector"].hold
<1>. DEFINE e == "connector"
            r == [end[e] EXCEPT !.sess = "open", !.main = "dial"]
<1>0. e \in Ends /\ Peer(e) = "edge" /\ "edge" \in Ends
  BY DEF Ends, Peer
<1>1. /\ end' = [end EXCEPT ![e] = r] /\ chan' = [chan EXCEPT !["edge"] = Tail(chan["edge"])]
      /\ end[e].main = "none" /\ chan["edge"] # <<>>
  BY DEF AcceptOpen
<1>2. end[e] \in Relays
  BY <1>0, Fields
<1>3. r \in Relays
  BY <1>2 DEF Relays, Mains
<1>4. end' \in [Ends -> Relays] /\ end'[e] = r /\ end'["edge"] = end["edge"]
  BY <1>0, <1>1, <1>3, Replaced
<1>5. Tail(chan["edge"]) \in Seq(Frames)
  BY <1>0, <1>1, HeadTailProperties
<1>6. chan' \in [Ends -> Seq(Frames)] /\ chan'["edge"] = Tail(chan["edge"]) /\ chan'[e] = chan[e]
  BY <1>0, <1>1, <1>5
<1>7. /\ r.main = "dial" /\ r.left = end[e].left /\ r.seen = end[e].seen /\ r.up = end[e].up
      /\ r.out = end[e].out /\ r.hold = end[e].hold /\ r.rd = end[e].rd
      /\ r.nread = end[e].nread /\ r.status = end[e].status
  BY <1>2 DEF Relays
<1>. HIDE DEF r
<1>. QED
  BY <1>0, <1>1, <1>4, <1>6, <1>7 DEF LoopOf, SameRelay

LEMMA DialOKDoes ==
  ASSUME end \in [Ends -> Relays], chan \in [Ends -> Seq(Frames)], DialOK
  PROVE  /\ end' \in [Ends -> Relays] /\ chan' = chan
         /\ end'["edge"] = end["edge"]
         /\ end["connector"].main = "dial" /\ end'["connector"].main = "select"
         /\ end'["connector"].rd = "read"
         /\ end'["connector"].left = end["connector"].left
         /\ end'["connector"].seen = end["connector"].seen
         /\ end'["connector"].up = end["connector"].up
         /\ end'["connector"].nread = end["connector"].nread
         /\ end'["connector"].out = end["connector"].out
         /\ end'["connector"].hold = end["connector"].hold
         /\ end'["connector"].status = end["connector"].status
<1>. DEFINE e == "connector"
            r == [end[e] EXCEPT !.main = "select", !.rd = "read", !.ws = "open"]
<1>0. e \in Ends /\ Peer(e) = "edge"
  BY DEF Ends, Peer
<1>1. end' = [end EXCEPT ![e] = r] /\ chan' = chan /\ end[e].main = "dial"
  BY DEF DialOK
<1>2. end[e] \in Relays
  BY <1>0, Fields
<1>3. r \in Relays
  BY <1>2 DEF Relays, Mains, Rds
<1>4. end' \in [Ends -> Relays] /\ end'[e] = r /\ end'["edge"] = end["edge"]
  BY <1>0, <1>1, <1>3, Replaced
<1>. QED
  BY <1>1, <1>2, <1>4 DEF Relays

LEMMA DialFailsDoes ==
  ASSUME end \in [Ends -> Relays], chan \in [Ends -> Seq(Frames)], DialFails
  PROVE  /\ LoopOf("connector") /\ chan'["edge"] = <<>>
         /\ Live("connector") => chan'["connector"] = Append(chan["connector"], Error)
         /\ ~Live("connector") => chan'["connector"] = chan["connector"]
         /\ end["connector"].main = "dial" /\ end'["connector"].main = "remove"
         /\ end'["connector"].left = "dial"
         /\ end'["connector"].seen = end["connector"].seen
         /\ end'["connector"].up = end["connector"].up
         /\ end'["connector"].out = end["connector"].out
         /\ end'["connector"].hold = end["connector"].hold
<1>. DEFINE e == "connector"
            r == [end[e] EXCEPT !.main = "remove", !.left = "dial"]
            w == Written(e, Error)
<1>0. e \in Ends /\ Peer(e) = "edge" /\ "edge" \in Ends /\ Error \in Frames
  BY FramesAre DEF Ends, Peer
<1>1. end' = [end EXCEPT ![e] = r] /\ chan' = [w EXCEPT !["edge"] = <<>>] /\ end[e].main = "dial"
  BY DEF DialFails
<1>2. end[e] \in Relays
  BY <1>0, Fields
<1>3. r \in Relays
  BY <1>2 DEF Relays, Mains, Lefts
<1>4. end' \in [Ends -> Relays] /\ end'[e] = r /\ end'["edge"] = end["edge"]
  BY <1>0, <1>1, <1>3, Replaced
<1>5. /\ w \in [Ends -> Seq(Frames)]
      /\ Live(e) => w[e] = Append(chan[e], Error)
      /\ ~Live(e) => w[e] = chan[e]
  <2>1. Append(chan[e], Error) \in Seq(Frames)
    BY <1>0
  <2>2. CASE Live(e)
    <3>1. w = [chan EXCEPT ![e] = Append(chan[e], Error)]
      BY <2>2 DEF Live, Written
    <3>. QED
      BY <1>0, <2>1, <2>2, <3>1, Zenon
  <2>3. CASE ~Live(e)
    BY <2>3 DEF Live, Written
  <2>. QED
    BY <2>2, <2>3
<1>. HIDE DEF w
<1>6. chan' \in [Ends -> Seq(Frames)] /\ chan'["edge"] = <<>> /\ chan'[e] = w[e]
  BY <1>0, <1>1, <1>5
<1>7. /\ r.main = "remove" /\ r.left = "dial" /\ r.seen = end[e].seen /\ r.up = end[e].up
      /\ r.out = end[e].out /\ r.hold = end[e].hold /\ r.rd = end[e].rd
      /\ r.nread = end[e].nread /\ r.status = end[e].status
  BY <1>2 DEF Relays
<1>. HIDE DEF r
<1>8. LoopOf(e)
  BY <1>0, <1>4, <1>6, <1>7 DEF LoopOf, SameRelay
<1>. QED
  BY <1>0, <1>1, <1>4, <1>5, <1>6, <1>7, <1>8


-----------------------------------------------------------------------------
(* One direction, from d to its peer.                                      *)

LEMMA Numbers ==
  ASSUME end \in [Ends -> Relays], chan \in [Ends -> Seq(Frames)], NEW d \in Ends
  PROVE  /\ Sent(end[d]) \in Nat /\ Sent(end[d]) >= Len(end[d].out) /\ Len(end[d].out) \in Nat
         /\ Lead(d) \in {0, 1} /\ Base(d) \in Int
         /\ Len(chan[d]) \in Nat /\ end[d].nread \in Nat
<1>1. \A g \in Ends : /\ Len(end[g].out) \in Nat /\ Sent(end[g]) \in Nat
                      /\ Sent(end[g]) >= Len(end[g].out) /\ end[g].nread \in Nat
  <2>. TAKE g \in Ends
  <2>1. end[g].out \in Seq(MessageSet) /\ end[g].nread \in Nat
    BY Fields
  <2>2. Len(end[g].out) \in Nat
    BY <2>1
  <2>. DEFINE h == end[g]
  <2>. HIDE DEF h
  <2>3. Sent(h) = Len(h.out) + 0 \/ Sent(h) = Len(h.out) + 1
    BY DEF Sent
  <2>. QED
    BY <2>1, <2>2, <2>3 DEF h
<1>2. Lead(d) \in {0, 1}
  BY DEF Lead
<1>3. Base(d) \in Int
  BY <1>1, <1>2, TwoEnds DEF Base
<1>. QED
  BY <1>1, <1>2, <1>3

\* What no step takes back at the sender of a direction.
Forward(d) ==
  /\ end'[d].nread >= end[d].nread
  /\ end[d].rd = "closed" => /\ end'[d].rd = "closed" /\ end'[d].nread = end[d].nread
                             /\ end'[d].status = end[d].status
  /\ Ended(d) => Ended(d)' /\ end'[d].left = end[d].left
  /\ Live(d)' => Live(d)

LEMMA Grown ==
  ASSUME NEW s, NEW b \in Int, NEW d, NEW n \in Nat, NEW k \in Nat, n <= k, Numbered(s, b, d, n)
  PROVE  Numbered(s, b, d, k)
BY DEF Numbered

\* Before e has ended there is no close frame.
LEMMA NoCloseYet ==
  ASSUME NEW s \in Seq(Frames), ~Closes(s, Len(s))
  PROVE  StatusFirst(s)
BY DEF StatusFirst, Closes

\* The channel stays, or a prefix of it does.
LEMMA ChannelKept ==
  ASSUME end \in [Ends -> Relays], chan \in [Ends -> Seq(Frames)],
         end' \in [Ends -> Relays], chan' \in [Ends -> Seq(Frames)],
         NEW d \in Ends, Channel(d), Forward(d), Lead(d)' = Lead(d), Base(d)' = Base(d),
         \/ chan'[d] = chan[d]
         \/ /\ \E k \in 0..Len(chan[d]) : chan'[d] = SubSeq(chan[d], 1, k)
            /\ ~Live(d)',
         ~Ended(d) /\ Live(d)' => end'[d].left # "status"
  PROVE  Channel(d)'
<1>. DEFINE s == chan[d]
            t == chan'[d]
            b == Base(d)
            n == end[d].nread
            k == end'[d].nread
<1>0. /\ s \in Seq(Frames) /\ t \in Seq(Frames) /\ b \in Int /\ n \in Nat /\ k \in Nat /\ n <= k
      /\ Lead(d) \in Nat
  <2>1. k \in Nat
    BY DEF Relays
  <2>2. n <= k
    BY <2>1, Fields DEF Forward
  <2>3. b \in Int /\ Lead(d) \in {0, 1} /\ Len(s) \in Nat /\ n \in Nat
    BY Numbers
  <2>. QED
    BY <2>1, <2>2, <2>3
<1>1. /\ OpenLeads(s, Lead(d)) /\ Numbered(s, b, d, n)
      /\ Statused(s, b, n, end[d].rd, end[d].status)
      /\ Closes(s, Len(s)) => Ended(d)
      /\ end[d].left = "status" => StatusFirst(s) /\ (Live(d) => Closes(s, Len(s)))
  BY DEF Channel
<1>2. Numbered(s, b, d, k)
  BY <1>0, <1>1, Grown
<1>3. Statused(s, b, k, end'[d].rd, end'[d].status)
  BY <1>1 DEF Statused, Forward
<1>4. Closes(s, Len(s)) => Ended(d)'
  BY <1>1 DEF Forward
<1>5. end'[d].left = "status" => StatusFirst(s) /\ (Live(d)' => Closes(s, Len(s)))
  <2>1. CASE Ended(d)
    BY <1>1, <2>1 DEF Forward
  <2>2. CASE ~Ended(d)
    BY <1>0, <1>1, <2>2, NoCloseYet
  <2>. QED
    BY <2>1, <2>2
<1>6. CASE chan'[d] = chan[d]
  BY <1>1, <1>2, <1>3, <1>4, <1>5, <1>6 DEF Channel
<1>7. CASE (\E i \in 0..Len(chan[d]) : chan'[d] = SubSeq(chan[d], 1, i)) /\ ~Live(d)'
  <2>1. PICK i \in 0..Len(s) : t = SubSeq(s, 1, i)
    BY <1>7
  <2>2. /\ OpenLeads(t, Lead(d)) /\ Numbered(t, b, d, k)
        /\ Statused(t, b, k, end'[d].rd, end'[d].status)
        /\ StatusFirst(s) => StatusFirst(t)
        /\ Closes(t, Len(t)) => Closes(s, Len(s))
    BY <1>0, <1>1, <1>2, <1>3, <2>1, PrefixShape
  <2>. QED
    BY <1>4, <1>5, <1>7, <2>2 DEF Channel
<1>. QED
  BY <1>6, <1>7

\* Nothing is left of it.
LEMMA ChannelEmptied ==
  ASSUME NEW d \in Ends, chan'[d] = <<>>, ~Live(d)'
  PROVE  Channel(d)'
<1>1. 1..Len(<<>>) = {}
  OBVIOUS
<1>. QED
  BY <1>1 DEF Channel, OpenLeads, Numbered, Statused, Closes, StatusFirst

\* A frame is added to it.
LEMMA ChannelExtended ==
  ASSUME end \in [Ends -> Relays], chan \in [Ends -> Seq(Frames)],
         end' \in [Ends -> Relays], chan' \in [Ends -> Seq(Frames)],
         NEW d \in Ends, Channel(d), Forward(d), Lead(d)' = Lead(d), Base(d)' = Base(d),
         NEW f \in Frames, chan'[d] = Append(chan[d], f),
         f.type = "open" <=> Len(chan[d]) + 1 <= Lead(d),
         f.type = "data" /\ Plain(chan[d], Len(chan[d])) =>
           /\ Base(d) + (Len(chan[d]) + 1) = end'[d].nread /\ end'[d].nread > 0
           /\ f.m = Message(end'[d].nread, Messages[d][end'[d].nread]),
         f.type = "close" =>
           /\ Ended(d)'
           /\ f.code # 0 => /\ end'[d].rd = "closed" /\ f.code = end'[d].status
                            /\ Plain(chan[d], Len(chan[d])) => Base(d) + Len(chan[d]) = end'[d].nread
           /\ f.code = 0 /\ end'[d].left = "status" => Closes(chan[d], Len(chan[d])),
         ~Ended(d) /\ end'[d].left = "status" => f.type = "close"
  PROVE  Channel(d)'
<1>. DEFINE s == chan[d]
            t == chan'[d]
            b == Base(d)
            n == end[d].nread
            k == end'[d].nread
<1>0. /\ s \in Seq(Frames) /\ b \in Int /\ n \in Nat /\ k \in Nat /\ n <= k
      /\ Lead(d) \in Nat /\ Len(s) \in Nat
  <2>1. k \in Nat
    BY DEF Relays
  <2>2. n <= k
    BY <2>1, Fields DEF Forward
  <2>3. b \in Int /\ Lead(d) \in {0, 1} /\ Len(s) \in Nat /\ n \in Nat
    BY Numbers
  <2>. QED
    BY <2>1, <2>2, <2>3
<1>1. /\ OpenLeads(s, Lead(d)) /\ Numbered(s, b, d, n)
      /\ Statused(s, b, n, end[d].rd, end[d].status)
      /\ Closes(s, Len(s)) => Ended(d)
      /\ end[d].left = "status" => StatusFirst(s) /\ (Live(d) => Closes(s, Len(s)))
  BY DEF Channel
<1>2. Numbered(s, b, d, k)
  BY <1>0, <1>1, Grown
<1>3. Statused(s, b, k, end'[d].rd, end'[d].status)
  BY <1>1 DEF Statused, Forward
<1>4. OpenLeads(t, Lead(d))
  BY <1>0, <1>1, AppendShape
<1>5. Numbered(t, b, d, k)
  <2>1. k > 0 => k \in 1..k
    BY <1>0
  <2>. QED
    BY <1>0, <1>2, <2>1, AppendShape
<1>6. Statused(t, b, k, end'[d].rd, end'[d].status)
  <2>1. \A x, c : Statused(s, b, k, x, c)
                    /\ (f.type = "close" /\ f.code # 0 =>
                          x = "closed" /\ f.code = c /\ (Plain(s, Len(s)) => b + Len(s) = k)) =>
                    Statused(Append(s, f), b, k, x, c)
    BY <1>0, AppendShape
  <2>. QED
    BY <1>3, <2>1
<1>7. Closes(t, Len(t)) <=> Closes(s, Len(s)) \/ f.type = "close"
  BY <1>0, Appended
<1>8. Closes(t, Len(t)) => Ended(d)'
  BY <1>1, <1>7 DEF Forward
<1>9. end'[d].left = "status" => StatusFirst(t) /\ (Live(d)' => Closes(t, Len(t)))
  <2>. SUFFICES ASSUME end'[d].left = "status"
                PROVE  StatusFirst(t) /\ (Live(d)' => Closes(t, Len(t)))
    OBVIOUS
  <2>1. StatusFirst(s)
    BY <1>0, <1>1, NoCloseYet DEF Forward
  <2>2. StatusFirst(t)
    BY <1>0, <2>1, AppendShape
  <2>3. Live(d)' => Closes(t, Len(t))
    BY <1>1, <1>7 DEF Forward
  <2>. QED
    BY <2>2, <2>3
<1>. QED
  BY <1>4, <1>5, <1>6, <1>8, <1>9 DEF Channel

\* Its first frame is taken.
LEMMA ChannelTaken ==
  ASSUME end \in [Ends -> Relays], chan \in [Ends -> Seq(Frames)],
         NEW d \in Ends, Channel(d), SameRelay(d), Live(d)' => Live(d),
         chan[d] # <<>>, chan[d][1].type \in {"open", "data"},
         chan[d][1].type = "open" <=> Lead(d) = 1, chan'[d] = Tail(chan[d]),
         Lead(d)' = 0, Base(d)' = Base(d) + 1
  PROVE  Channel(d)'
<1>. DEFINE s == chan[d]
            t == Tail(s)
            b == Base(d)
            n == end[d].nread
            R == end[d].rd
            C == end[d].status
<1>0. s \in Seq(Frames) /\ b \in Int /\ n \in Nat /\ Lead(d) \in {0, 1}
  BY Numbers
<1>1. /\ OpenLeads(s, Lead(d)) /\ Numbered(s, b, d, n) /\ Statused(s, b, n, R, C)
      /\ Closes(s, Len(s)) => Ended(d)
      /\ end[d].left = "status" => StatusFirst(s) /\ (Live(d) => Closes(s, Len(s)))
  BY DEF Channel
<1>2. /\ OpenLeads(t, 0) /\ Numbered(t, b + 1, d, n) /\ Statused(t, b + 1, n, R, C)
      /\ StatusFirst(s) => StatusFirst(t)
      /\ Closes(t, Len(t)) <=> Closes(s, Len(s))
  BY <1>0, <1>1, TailShape
<1>3. /\ chan'[d] = t /\ end'[d].nread = n /\ end'[d].rd = R /\ end'[d].status = C
      /\ end'[d].left = end[d].left /\ (Ended(d)' <=> Ended(d))
  BY DEF SameRelay, Ended
<1>. HIDE DEF s, t, b, n, R, C
<1>4. /\ OpenLeads(chan'[d], Lead(d)') /\ Numbered(chan'[d], Base(d)', d, end'[d].nread)
      /\ Statused(chan'[d], Base(d)', end'[d].nread, end'[d].rd, end'[d].status)
  BY <1>2, <1>3 DEF b
<1>5. /\ Closes(chan'[d], Len(chan'[d])) => Ended(d)'
      /\ end'[d].left = "status" => /\ StatusFirst(chan'[d])
                                    /\ Live(d)' => Closes(chan'[d], Len(chan'[d]))
  BY <1>1, <1>2, <1>3
<1>. QED
  BY <1>4, <1>5 DEF Channel

-----------------------------------------------------------------------------
(* Steps of a reader goroutine.                                            *)

\* What depends on the two select loops and links alone.
LEMMA SameView ==
  ASSUME NEW d \in Ends,
         \A g \in Ends : /\ end'[g].main = end[g].main /\ end'[g].out = end[g].out
                         /\ end'[g].up = end[g].up
  PROVE  /\ Lead(d)' = Lead(d) /\ Base(d)' = Base(d) /\ (Live(d)' <=> Live(d))
         /\ Sent(end[d])' = Sent(end[d]) /\ (Ended(d)' <=> Ended(d))
<1>1. "connector" \in Ends /\ Peer(d) \in Ends
  BY TwoEnds DEF Ends
<1>2. Lead(d)' = Lead(d)
  BY <1>1 DEF Lead
<1>3. Sent(end[d])' = Sent(end[d]) /\ Sent(end[Peer(d)])' = Sent(end[Peer(d)])
  BY <1>1 DEF Sent
<1>4. Ended(d)' <=> Ended(d)
  BY DEF Ended
<1>5. Live(d)' <=> Live(d)
  BY <1>1 DEF Live, Delivers, Ended
<1>6. Base(d)' = Base(d)
  BY <1>2, <1>3 DEF Base
<1>. QED
  BY <1>2, <1>3, <1>4, <1>5, <1>6

LEMMA Unpack ==
  ASSUME RelayInv
  PROVE  /\ end \in [Ends -> Relays] /\ chan \in [Ends -> Seq(Frames)] /\ Reads /\ Starting
         /\ \A d \in Ends : /\ Channel(d) /\ UpToDate(d) /\ Silent(d) /\ Ending(d) /\ Passed(d)
                            /\ Right(end[Peer(d)], d, end[d].nread)
BY TypesAre DEF RelayInv, DirInv

\* The direction that the reader has nothing to do with.
LEMMA ReaderReceives ==
  ASSUME RelayInv, NEW e \in Ends, ReaderOf(e),
         \/ end'[e].status = end[e].status /\ end'[e].seen = end[e].seen
         \/ end'[e].status # 0
  PROVE  DirInv(Peer(e))'
<1>. DEFINE p == Peer(e)
<1>0. p \in Ends /\ Peer(p) = e /\ \A g \in Ends : g = e \/ g = p
  BY TwoEnds
<1>1. /\ end \in [Ends -> Relays] /\ chan \in [Ends -> Seq(Frames)]
      /\ Channel(p) /\ UpToDate(p) /\ Silent(p) /\ Ending(p) /\ Passed(p)
      /\ Right(end[e], p, end[p].nread)
  BY <1>0, Unpack
<1>2. /\ end' \in [Ends -> Relays] /\ chan' \in [Ends -> Seq(Frames)]
      /\ end'[p] = end[p] /\ chan'[p] = chan[p]
      /\ end'[e].main = end[e].main /\ end'[e].left = end[e].left /\ end'[e].hold = end[e].hold
      /\ end'[e].out = end[e].out /\ end'[e].up = end[e].up
  BY DEF ReaderOf
<1>3. /\ Lead(p)' = Lead(p) /\ Base(p)' = Base(p) /\ (Live(p)' <=> Live(p))
      /\ Sent(end[e])' = Sent(end[e]) /\ (Ended(p)' <=> Ended(p))
  <2>1. \A g \in Ends : /\ end'[g].main = end[g].main /\ end'[g].out = end[g].out
                        /\ end'[g].up = end[g].up
    BY <1>0, <1>2
  <2>. QED
    BY <1>0, <2>1, SameView
<1>. HIDE DEF p
<1>4. Forward(p)
  <2>1. end[p].nread \in Nat
    BY <1>0, <1>1, Fields
  <2>. QED
    BY <1>2, <1>3, <2>1 DEF Forward
<1>5. Channel(p)'
  <2>1. ~Ended(p) => end[p].left = "no"
    BY <1>1 DEF Ending
  <2>. QED
    BY <1>0, <1>1, <1>2, <1>3, <1>4, <2>1, ChannelKept
<1>6. UpToDate(p)'
  BY <1>1, <1>2, <1>3 DEF UpToDate, Plain, Pending
<1>7. Right(end[e], p, end[p].nread)'
  BY <1>1, <1>2, <1>3 DEF Right
<1>8. Silent(p)'
  BY <1>0, <1>1, <1>2, <1>3 DEF Silent
<1>9. Ending(p)'
  BY <1>1, <1>2, <1>3 DEF Ending
<1>10. Passed(p)'
  BY <1>0, <1>1, <1>2, <1>3 DEF Passed, Told
<1>11. Right(end[Peer(p)], p, end[p].nread)'
  BY <1>0, <1>7
<1>12. DirInv(p)'
  BY <1>5, <1>6, <1>8, <1>9, <1>10, <1>11 DEF DirInv
<1>. QED
  BY <1>12 DEF p

\* What the reader does: read, read a close frame, fail, get a token, send.
ReaderDoes(e) ==
  \/ /\ end[e].rd = "read" /\ end'[e].rd = "credit" /\ end'[e].nread = end[e].nread + 1
     /\ end'[e].status = end[e].status /\ end'[e].seen = end[e].seen /\ chan'[e] = chan[e]
  \/ /\ end[e].rd = "read" /\ end'[e].rd = "closed" /\ end'[e].nread = end[e].nread
     /\ end'[e].status # 0 /\ chan'[e] = chan[e]
  \/ /\ end[e].rd \in {"read", "credit", "write"} /\ end'[e].rd = "err"
     /\ end'[e].nread = end[e].nread
     /\ end'[e].status = end[e].status /\ end'[e].seen = end[e].seen /\ chan'[e] = chan[e]
  \/ /\ end[e].rd = "credit" /\ end'[e].rd = "write" /\ end'[e].nread = end[e].nread
     /\ end'[e].status = end[e].status /\ end'[e].seen = end[e].seen /\ chan'[e] = chan[e]
  \/ /\ end[e].rd = "write" /\ end'[e].rd = "read" /\ end'[e].nread = end[e].nread
     /\ end'[e].status = end[e].status /\ end'[e].seen = end[e].seen
     /\ Current(e) \in MessageSet
     /\ Live(e) => chan'[e] = Append(chan[e], Data(Current(e)))
     /\ ~Live(e) => chan'[e] = chan[e]

LEMMA ReaderSends ==
  ASSUME RelayInv, NEW e \in Ends, ReaderOf(e), ReaderDoes(e)
  PROVE  DirInv(e)'
<1>. DEFINE p == Peer(e)
<1>0. p \in Ends /\ Peer(p) = e /\ \A g \in Ends : g = e \/ g = p
  BY TwoEnds
<1>1. /\ end \in [Ends -> Relays] /\ chan \in [Ends -> Seq(Frames)] /\ Reads
      /\ Channel(e) /\ UpToDate(e) /\ Silent(e) /\ Ending(e) /\ Passed(e)
      /\ Right(end[p], e, end[e].nread)
  BY Unpack
<1>2. /\ end' \in [Ends -> Relays] /\ chan' \in [Ends -> Seq(Frames)]
      /\ end'[p] = end[p]
      /\ end'[e].main = end[e].main /\ end'[e].left = end[e].left
      /\ end'[e].out = end[e].out /\ end'[e].up = end[e].up
  BY DEF ReaderOf
<1>3. /\ Lead(e)' = Lead(e) /\ Base(e)' = Base(e) /\ (Live(e)' <=> Live(e))
      /\ (Ended(e)' <=> Ended(e)) /\ Sent(end[p])' = Sent(end[p])
  <2>1. \A g \in Ends : /\ end'[g].main = end[g].main /\ end'[g].out = end[g].out
                        /\ end'[g].up = end[g].up
    BY <1>0, <1>2
  <2>. QED
    BY <1>0, <2>1, SameView
<1>4. /\ end[e].nread \in Nat /\ Sent(end[p]) \in Nat /\ Len(chan[e]) \in Nat
      /\ Base(e) \in Int /\ Lead(e) \in {0, 1} /\ chan[e] \in Seq(Frames)
  BY <1>0, <1>1, Numbers
<1>5. /\ end[e].rd \in {"read", "credit", "write"} /\ end'[e].rd # "none"
      /\ end'[e].nread >= end[e].nread /\ end'[e].nread \in Nat
  BY <1>4 DEF ReaderDoes
<1>6. end[e].left # "status" /\ ~Told(p) /\ end[e].status = 0
  BY <1>1, <1>5 DEF Ending, Passed
<1>. DEFINE sends == end[e].rd = "write" /\ end'[e].rd = "read" /\ Live(e)
<1>7. ASSUME ~sends
      PROVE  Channel(e)' /\ UpToDate(e)' /\ (Lead(e) = 1 /\ Live(e) => chan'[e] # <<>>)
  <2>1. chan'[e] = chan[e]
    BY <1>7 DEF ReaderDoes
  <2>2. Forward(e)
    BY <1>2, <1>3, <1>5 DEF Forward
  <2>3. Channel(e)'
    BY <1>1, <1>2, <1>3, <1>6, <2>1, <2>2, ChannelKept
  <2>4. UpToDate(e)'
    <3>. SUFFICES ASSUME Live(e), Plain(chan[e], Len(chan[e])),
                         end'[e].rd \in {"read", "credit", "write", "closed"}
                  PROVE  Base(e) + Len(chan[e]) = end'[e].nread - Pending(end'[e].rd)
      BY <1>3, <2>1 DEF UpToDate, Plain, Pending
    <3>1. Base(e) + Len(chan[e]) = end[e].nread - Pending(end[e].rd)
      BY <1>1, <1>5 DEF UpToDate
    <3>2. \/ /\ end[e].rd = "read" /\ end'[e].rd = "credit" /\ end'[e].nread = end[e].nread + 1
          \/ /\ end[e].rd = "read" /\ end'[e].rd = "closed" /\ end'[e].nread = end[e].nread
          \/ /\ end[e].rd = "credit" /\ end'[e].rd = "write" /\ end'[e].nread = end[e].nread
      BY <1>7 DEF ReaderDoes
    <3>. QED
      BY <1>4, <3>1, <3>2 DEF Pending
  <2>5. Lead(e) = 1 /\ Live(e) => chan'[e] # <<>>
    BY <1>1, <1>5, <2>1 DEF Silent
  <2>. QED
    BY <2>3, <2>4, <2>5
<1>8. ASSUME sends
      PROVE  Channel(e)' /\ UpToDate(e)' /\ (Lead(e) = 1 /\ Live(e) => chan'[e] # <<>>)
  <2>. DEFINE f == Data(Current(e))
  <2>1. /\ chan'[e] = Append(chan[e], f) /\ end'[e].nread = end[e].nread
        /\ end'[e].status = end[e].status /\ Current(e) \in MessageSet
        /\ f \in Frames /\ f.type = "data" /\ f.m = Current(e)
    BY <1>8, FramesAre DEF ReaderDoes
  <2>. HIDE DEF f
  <2>2. Forward(e)
    BY <1>2, <1>3, <1>5 DEF Forward
  <2>3. Len(chan'[e]) = Len(chan[e]) + 1 /\ chan'[e] # <<>>
        /\ (Plain(chan'[e], Len(chan[e]) + 1) => Plain(chan[e], Len(chan[e])))
    <3>1. Len(chan'[e]) = Len(chan[e]) + 1
          /\ (Plain(chan'[e], Len(chan[e]) + 1) => Plain(chan[e], Len(chan[e])))
      BY <1>4, <2>1, Appended
    <3>. QED
      BY <1>4, <3>1
  <2>4. Plain(chan[e], Len(chan[e])) => Base(e) + Len(chan[e]) = end[e].nread - 1
    BY <1>1, <1>8 DEF UpToDate, Pending
  <2>5. Channel(e)'
    <3>1. end[e].nread > 0
      BY <1>1, <1>8 DEF Reads
    <3>2. ~(Len(chan[e]) + 1 <= Lead(e))
      <4>1. Lead(e) = 1 => chan[e] # <<>>
        BY <1>1, <1>8 DEF Silent
      <4>2. chan[e] # <<>> => Len(chan[e]) > 0
        BY <1>4, EmptySeq
      <4>. QED
        BY <1>4, <4>1, <4>2
    <3>3. Plain(chan[e], Len(chan[e])) => Base(e) + (Len(chan[e]) + 1) = end[e].nread
      BY <1>4, <2>4
    <3>4. f.m = Message(end'[e].nread, Messages[e][end'[e].nread])
      BY <2>1 DEF Current
    <3>. QED
      BY <1>1, <1>2, <1>3, <1>6, <2>1, <2>2, <3>1, <3>2, <3>3, <3>4, ChannelExtended
  <2>6. UpToDate(e)'
    <3>1. Pending(end'[e].rd) = 0
      BY <1>8 DEF Pending
    <3>2. Plain(chan'[e], Len(chan[e]) + 1) => Base(e) + (Len(chan[e]) + 1) = end[e].nread - 0
      <4>1. Base(e) + Len(chan[e]) = end[e].nread - 1 =>
              Base(e) + (Len(chan[e]) + 1) = end[e].nread - 0
        BY <1>4
      <4>. QED
        BY <2>3, <2>4, <4>1, Zenon
    <3>3. Plain(chan'[e], Len(chan'[e])) =>
            Base(e)' + Len(chan'[e]) = end'[e].nread - Pending(end'[e].rd)
      BY <1>3, <2>1, <2>3, <3>1, <3>2
    <3>. QED
      BY <3>3 DEF UpToDate
  <2>. QED
    BY <2>3, <2>5, <2>6
<1>9. Channel(e)' /\ UpToDate(e)' /\ (Lead(e) = 1 /\ Live(e) => chan'[e] # <<>>)
  BY <1>7, <1>8
<1>10. Right(end[Peer(e)], e, end[e].nread)'
  BY <1>1, <1>2, <1>3, <1>4, <1>5 DEF Right
<1>11. Silent(e)'
  BY <1>1, <1>2, <1>3, <1>5, <1>9 DEF Silent
<1>12. Ending(e)'
  <2>1. ~Ended(e) => end[e].left = "no" /\ end[e].seen = 0
    BY <1>1, <1>6 DEF Ending
  <2>2. /\ end'[e].status # 0 <=> end'[e].rd = "closed"
        /\ end'[e].status = 0 => end'[e].seen = end[e].seen
    BY <1>6 DEF ReaderDoes
  <2>. QED
    BY <1>2, <1>3, <1>6, <2>1, <2>2 DEF Ending
<1>13. Passed(e)'
  <2>1. ~Told(p)'
    BY <1>2, <1>6 DEF Told
  <2>2. end[p].left = "close" => Ended(e)
    BY <1>1 DEF Passed
  <2>. QED
    BY <1>2, <1>3, <1>6, <2>1, <2>2 DEF Passed
<1>. QED
  BY <1>9, <1>10, <1>11, <1>12, <1>13 DEF DirInv

-----------------------------------------------------------------------------
(* Steps of a select loop: the direction in which its end sends.           *)

\* How the select loop of e may move: forward, and out of the loop once.
Early == {"none", "opening", "dial"}
Busy  == {"select", "writing", "close"}
Moves(e) ==
  /\ Ended(e) => Ended(e)' /\ end'[e].left = end[e].left
  /\ ~Ended(e)' => end'[e].left = end[e].left /\ end'[e].seen = end[e].seen
  /\ end'[e].left = "status" => end[e].rd = "closed"
  /\ end'[e].main \in Early => end[e].main \in Early
  /\ end'[e].main \in Busy => end[e].main \in Busy
  /\ end'[e].up => end[e].up
  /\ Lead(e)' = Lead(e)

LEMMA MovesView ==
  ASSUME RelayInv, NEW e \in Ends, LoopOf(e), Moves(e)
  PROVE  /\ Base(e)' = Base(e) /\ Sent(end[Peer(e)])' = Sent(end[Peer(e)])
         /\ (Live(e)' => Live(e)) /\ Forward(e)
<1>1. /\ end \in [Ends -> Relays] /\ Peer(e) \in Ends
  BY Unpack, TwoEnds
<1>2. SameRelay(Peer(e))
  BY DEF LoopOf
<1>3. Sent(end[Peer(e)])' = Sent(end[Peer(e)])
  BY <1>2 DEF SameRelay, Sent
<1>4. Base(e)' = Base(e)
  BY <1>3 DEF Moves, Base
<1>5. Live(e)' => Live(e)
  BY <1>2 DEF Moves, Live, Delivers, Ended, SameRelay
<1>6. end[e].nread \in Nat
  BY <1>1, Fields
<1>7. Forward(e)
  BY <1>5, <1>6 DEF Forward, Moves, LoopOf
<1>. QED
  BY <1>3, <1>4, <1>5, <1>7

LEMMA SenderRest ==
  ASSUME RelayInv, NEW e \in Ends, LoopOf(e), Moves(e), Channel(e)', UpToDate(e)',
         chan'[e] = chan[e] \/ (chan'[e] # <<>> /\ end'[e].main \notin Early)
  PROVE  DirInv(e)'
<1>. DEFINE p == Peer(e)
<1>1. /\ Silent(e) /\ Ending(e) /\ Passed(e) /\ Right(end[p], e, end[e].nread)
      /\ end \in [Ends -> Relays]
  BY Unpack
<1>2. Sent(end[p])' = Sent(end[p]) /\ (Live(e)' => Live(e))
  BY MovesView
<1>3. /\ SameRelay(p) /\ end'[e].rd = end[e].rd /\ end'[e].nread = end[e].nread
      /\ end'[e].status = end[e].status
  BY DEF LoopOf
<1>. HIDE DEF p
<1>4. Right(end[p], e, end[e].nread)'
  BY <1>1, <1>2, <1>3 DEF Right, SameRelay
<1>5. /\ end'[e].main \in Early => end'[e].rd = "none" /\ chan'[e] = <<>>
      /\ end'[e].rd = "none" => end'[e].nread = 0 /\ end'[e].main \notin Busy
      /\ end'[e].rd = "none" => Sent(end[p])' = 0
      /\ Lead(e)' = 1 /\ Live(e)' /\ end'[e].rd # "none" => chan'[e] # <<>>
  BY <1>1, <1>2, <1>3 DEF Silent, Moves, Early, Busy, p
<1>6. Silent(e)'
  BY <1>5 DEF Silent, Early, Busy, p
<1>7. Ending(e)'
  BY <1>1, <1>3 DEF Ending, Moves
<1>8. Passed(e)'
  <2>1. end'[p].left = "close" => Ended(e) /\ Ended(e)' /\ end'[e].left = end[e].left
    BY <1>1, <1>3 DEF Passed, SameRelay, Moves, p
  <2>2. Told(p)' <=> Told(p)
    BY <1>3 DEF Told, SameRelay
  <2>3. /\ Told(p) => /\ end[e].rd = "closed" /\ end[p].seen = end[e].status
                      /\ Len(end[p].out) = end[e].nread
        /\ end[e].left = "status" /\ end[p].left = "close" /\ end[p].status = 0 =>
             end[p].seen = end[e].status
    BY <1>1 DEF Passed, p
  <2>. QED
    BY <1>3, <2>1, <2>2, <2>3 DEF Passed, SameRelay, p
<1>9. Right(end[Peer(e)], e, end[e].nread)'
  BY <1>4 DEF p
<1>. QED
  BY <1>6, <1>7, <1>8, <1>9 DEF DirInv

\* No frame is written, or none gets through.
LEMMA LoopQuiet ==
  ASSUME RelayInv, NEW e \in Ends, LoopOf(e), Moves(e), chan'[e] = chan[e],
         ~Ended(e) /\ Live(e)' => end'[e].left # "status"
  PROVE  DirInv(e)'
<1>1. /\ end \in [Ends -> Relays] /\ chan \in [Ends -> Seq(Frames)]
      /\ Channel(e) /\ UpToDate(e)
  BY Unpack
<1>2. Base(e)' = Base(e) /\ (Live(e)' => Live(e)) /\ Forward(e)
  BY MovesView
<1>3. Channel(e)'
  BY <1>1, <1>2, ChannelKept DEF LoopOf, Moves
<1>4. UpToDate(e)'
  BY <1>1, <1>2 DEF UpToDate, Plain, Pending, LoopOf
<1>. QED
  BY <1>3, <1>4, SenderRest

\* A close or error frame is written.
LEMMA LoopWrites ==
  ASSUME RelayInv, NEW e \in Ends, LoopOf(e), Moves(e), Ended(e)', Live(e),
         NEW f \in Frames, chan'[e] = Append(chan[e], f), f.type \in {"close", "error"},
         Lead(e) = 1 => end[e].rd # "none",
         f.type = "close" /\ f.code # 0 => end[e].rd = "closed" /\ f.code = end[e].status,
         end'[e].left = "status" =>
           f.type = "close" /\ (f.code = 0 => Ended(e) /\ end[e].left = "status")
  PROVE  DirInv(e)'
<1>1. /\ end \in [Ends -> Relays] /\ chan \in [Ends -> Seq(Frames)]
      /\ Channel(e) /\ UpToDate(e) /\ Silent(e)
  BY Unpack
<1>2. Base(e)' = Base(e) /\ (Live(e)' => Live(e)) /\ Forward(e)
  BY MovesView
<1>3. /\ end[e].nread \in Nat /\ Len(chan[e]) \in Nat /\ Base(e) \in Int /\ Lead(e) \in {0, 1}
      /\ chan[e] \in Seq(Frames)
  BY <1>1, Numbers
<1>4. /\ Len(chan'[e]) = Len(chan[e]) + 1 /\ ~Plain(chan'[e], Len(chan[e]) + 1)
  BY <1>3, Appended
<1>5. chan'[e] # <<>>
  BY <1>3, <1>4
<1>6. ~(Len(chan[e]) + 1 <= Lead(e))
  <2>1. Lead(e) = 1 => chan[e] # <<>>
    BY <1>1 DEF Silent
  <2>2. chan[e] # <<>> => Len(chan[e]) > 0
    BY <1>3, EmptySeq
  <2>. QED
    BY <1>3, <2>1, <2>2
<1>7. end[e].rd = "closed" /\ Plain(chan[e], Len(chan[e])) =>
        Base(e) + Len(chan[e]) = end[e].nread
  BY <1>1, <1>3 DEF UpToDate, Pending
<1>8. end[e].left = "status" => Closes(chan[e], Len(chan[e]))
  BY <1>1 DEF Channel
<1>9. /\ end'[e].rd = end[e].rd /\ end'[e].nread = end[e].nread /\ end'[e].status = end[e].status
      /\ end' \in [Ends -> Relays] /\ chan' \in [Ends -> Seq(Frames)]
      /\ Lead(e)' = Lead(e)
  BY DEF LoopOf, Moves
<1>10. f.type = "close" =>
         /\ Ended(e)'
         /\ f.code # 0 => /\ end'[e].rd = "closed" /\ f.code = end'[e].status
                          /\ Plain(chan[e], Len(chan[e])) => Base(e) + Len(chan[e]) = end'[e].nread
         /\ f.code = 0 /\ end'[e].left = "status" => Closes(chan[e], Len(chan[e]))
  BY <1>7, <1>8, <1>9
<1>11. Channel(e)'
  BY <1>1, <1>2, <1>6, <1>9, <1>10, ChannelExtended
<1>12. UpToDate(e)'
  <2>1. ~Plain(chan'[e], Len(chan'[e]))
    BY <1>4, Zenon
  <2>. QED
    BY <2>1 DEF UpToDate
<1>13. end'[e].main \notin Early
  BY DEF Ended, Early
<1>. QED
  BY <1>5, <1>11, <1>12, <1>13, SenderRest

-----------------------------------------------------------------------------
(* Steps of the end e, its reader aside: the direction in which it         *)
(* receives.                                                               *)

LEMMA ReceiverRest ==
  ASSUME RelayInv, NEW e \in Ends, NEW p \in Ends, p = Peer(e), SameRelay(p),
         Channel(p)', UpToDate(p)', Right(end[e], p, end[p].nread)', Passed(p)',
         Live(p)' => Live(p), Lead(p)' = 1 => Lead(p) = 1,
         end[p].rd = "none" => Sent(end[e])' = Sent(end[e]),
         chan[p] = <<>> => chan'[p] = <<>>,
         chan'[p] = <<>> /\ Live(p)' /\ Lead(p)' = 1 => chan[p] = <<>>
  PROVE  DirInv(p)'
<1>0. Peer(p) = e
  BY TwoEnds
<1>1. Silent(p) /\ Ending(p)
  BY Unpack
<1>2. Silent(p)'
  BY <1>0, <1>1 DEF Silent, SameRelay
<1>3. Ending(p)'
  BY <1>1 DEF Ending, Ended, SameRelay
<1>4. Right(end[Peer(p)], p, end[p].nread)'
  BY <1>0
<1>. QED
  BY <1>2, <1>3, <1>4 DEF DirInv

\* What was passed on stays so, or nothing is passed on.
LEMMA PassedKept ==
  ASSUME RelayInv, NEW e \in Ends, NEW p \in Ends, p = Peer(e), SameRelay(p),
         \/ /\ end'[e].left = end[e].left /\ end'[e].seen = end[e].seen
            /\ end'[e].status = end[e].status /\ end'[e].out = end[e].out
         \/ end'[e].left # "close" /\ ~Told(e)'
  PROVE  Passed(p)'
<1>0. Peer(p) = e
  BY TwoEnds
<1>1. Passed(p)
  BY Unpack
<1>2. CASE end'[e].left # "close" /\ ~Told(e)'
  BY <1>0, <1>2 DEF Passed
<1>3. CASE /\ end'[e].left = end[e].left /\ end'[e].seen = end[e].seen
           /\ end'[e].status = end[e].status /\ end'[e].out = end[e].out
  <2>1. Told(e)' <=> Told(e)
    BY <1>3 DEF Told
  <2>2. Ended(p)' <=> Ended(p)
    BY DEF Ended, SameRelay
  <2>. QED
    BY <1>0, <1>1, <1>3, <2>1, <2>2 DEF Passed, SameRelay
<1>. QED
  BY <1>2, <1>3

\* The loop takes no frame, or leaves.
LEMMA LoopReceives ==
  ASSUME RelayInv, end' \in [Ends -> Relays], chan' \in [Ends -> Seq(Frames)],
         NEW e \in Ends, NEW p \in Ends, p = Peer(e), SameRelay(p), Passed(p)',
         end'[e].out = end[e].out, end'[e].hold = end[e].hold,
         end'[e].main = "writing" => end[e].main = "writing",
         Live(p)' => Live(p),
         \/ /\ Lead(p)' = Lead(p) /\ (end[e].main = "writing" => end'[e].main = "writing")
            /\ \/ chan'[p] = chan[p]
               \/ (\E k \in 0..Len(chan[p]) : chan'[p] = SubSeq(chan[p], 1, k)) /\ ~Live(p)'
         \/ chan'[p] = <<>> /\ ~Live(p)'
  PROVE  DirInv(p)'
<1>0. Peer(p) = e
  BY TwoEnds
<1>1. /\ end \in [Ends -> Relays] /\ chan \in [Ends -> Seq(Frames)]
      /\ Channel(p) /\ UpToDate(p) /\ Silent(p) /\ Ending(p) /\ Right(end[e], p, end[p].nread)
  BY <1>0, Unpack
<1>2. /\ Sent(end[e]) \in Nat /\ Len(end[e].out) \in Nat /\ end[p].nread \in Nat
      /\ Base(p) \in Int /\ Lead(p) \in {0, 1} /\ chan[p] \in Seq(Frames) /\ Len(chan[p]) \in Nat
  BY <1>1, Numbers
<1>3. /\ Sent(end[e])' <= Sent(end[e])
      /\ Sent(end[e]) = 0 => Sent(end[e])' = 0
      /\ (end[e].main = "writing" => end'[e].main = "writing") => Sent(end[e])' = Sent(end[e])
      /\ Sent(end[e])' \in Nat
  <2>1. /\ end[e].main = "writing" => Sent(end[e]) = Len(end[e].out) + 1
        /\ end[e].main # "writing" => Sent(end[e]) = Len(end[e].out) + 0
    BY DEF Sent
  <2>2. /\ end'[e].main = "writing" => Sent(end[e])' = Len(end[e].out) + 1
        /\ end'[e].main # "writing" => Sent(end[e])' = Len(end[e].out) + 0
    BY DEF Sent
  <2>. QED
    BY <1>2, <2>1, <2>2
<1>4. Right(end[e], p, end[p].nread)'
  <2>1. Sent(end[e])' <= end[p].nread
    BY <1>1, <1>2, <1>3 DEF Right
  <2>. QED
    BY <1>1, <2>1 DEF Right, SameRelay
<1>5. Forward(p)
  BY <1>2 DEF Forward, SameRelay, Ended
<1>6. ~Ended(p) => end'[p].left # "status"
  BY <1>1 DEF Ending, SameRelay
<1>7. end[p].rd = "none" => Sent(end[e])' = Sent(end[e])
  BY <1>0, <1>1, <1>3 DEF Silent
<1>8. CASE chan'[p] = <<>> /\ ~Live(p)'
  <2>1. Channel(p)'
    BY <1>8, ChannelEmptied
  <2>2. UpToDate(p)'
    BY <1>8 DEF UpToDate
  <2>3. Lead(p)' = 1 => Lead(p) = 1 \/ ~Live(p)'
    BY <1>8
  <2>4. Silent(p)'
    BY <1>0, <1>1, <1>7, <1>8 DEF Silent, SameRelay
  <2>5. Ending(p)'
    BY <1>1 DEF Ending, Ended, SameRelay
  <2>6. Right(end[Peer(p)], p, end[p].nread)'
    BY <1>0, <1>4
  <2>. QED
    BY <2>1, <2>2, <2>4, <2>5, <2>6 DEF DirInv
<1>9. CASE /\ Lead(p)' = Lead(p) /\ (end[e].main = "writing" => end'[e].main = "writing")
           /\ \/ chan'[p] = chan[p]
              \/ (\E k \in 0..Len(chan[p]) : chan'[p] = SubSeq(chan[p], 1, k)) /\ ~Live(p)'
  <2>1. Base(p)' = Base(p)
    BY <1>0, <1>3, <1>9 DEF Base
  <2>2. Channel(p)'
    BY <1>1, <1>5, <1>6, <1>9, <2>1, ChannelKept
  <2>3. UpToDate(p)'
    BY <1>1, <1>9, <2>1 DEF UpToDate, Plain, Pending, SameRelay
  <2>4. chan[p] = <<>> => chan'[p] = <<>>
    <3>1. \A k \in 0..Len(<<>>) : SubSeq(<<>>, 1, k) = <<>>
      OBVIOUS
    <3>. QED
      BY <1>9, <3>1
  <2>5. chan'[p] = <<>> /\ Live(p)' /\ Lead(p)' = 1 => chan[p] = <<>>
    BY <1>9
  <2>. QED
    BY <1>4, <1>7, <1>9, <2>2, <2>3, <2>4, <2>5, ReceiverRest
<1>. QED
  BY <1>8, <1>9

\* The close frame at the head of the channel carries the sender's status,
\* after all its messages.
LEMMA PassedClose ==
  ASSUME RelayInv, NEW e \in Ends, NEW p \in Ends, p = Peer(e), SameRelay(p),
         end[e].main = "select", chan[p] # <<>>, chan[p][1].type = "close",
         end'[e].left = "close", end'[e].status = end[e].status, end'[e].out = end[e].out,
         end'[e].seen = (IF end[e].seen = 0
                         THEN IF chan[p][1].code # 0 THEN chan[p][1].code ELSE Abnormal
                         ELSE end[e].seen)
  PROVE  Passed(p)'
<1>. DEFINE s == chan[p]
<1>0. Peer(p) = e
  BY TwoEnds
<1>1. /\ end \in [Ends -> Relays] /\ chan \in [Ends -> Seq(Frames)] /\ Channel(p) /\ Ending(e)
  BY Unpack
<1>2. /\ Len(end[e].out) \in Nat /\ s \in Seq(Frames) /\ Len(s) \in Nat /\ Len(s) > 0
  BY <1>1, Numbers, EmptySeq
<1>3. Base(p) + (1 - 1) = Len(end[e].out)
  <2>1. Lead(p) = 0
    BY <1>0 DEF Lead, Peer
  <2>2. Sent(end[e]) = Len(end[e].out) + 0
    BY DEF Sent
  <2>. QED
    BY <1>0, <1>2, <2>1, <2>2 DEF Base
<1>4. 1 \in 1..Len(s) /\ Plain(s, 1 - 1) /\ ~Closes(s, 1 - 1)
  BY <1>2 DEF Plain, Closes
<1>5. Ended(p)'
  <2>1. Closes(s, Len(s))
    BY <1>4 DEF Closes
  <2>2. Ended(p)
    BY <1>1, <2>1 DEF Channel
  <2>. QED
    BY <2>2 DEF Ended, SameRelay
<1>6. s[1].code # 0 => /\ end[p].rd = "closed" /\ s[1].code = end[p].status
                       /\ Len(end[e].out) = end[p].nread
  <2>1. Statused(s, Base(p), end[p].nread, end[p].rd, end[p].status)
    BY <1>1 DEF Channel
  <2>. QED
    BY <1>3, <1>4, <2>1 DEF Statused
<1>7. end[p].left = "status" => s[1].code # 0
  BY <1>1, <1>4 DEF Channel, StatusFirst
<1>8. end[e].status = 0 => end[e].seen = 0
  BY <1>1 DEF Ending, Ended
<1>9. Told(e)' => /\ end[p].rd = "closed" /\ end'[e].seen = end[p].status
                  /\ Len(end[e].out) = end[p].nread
  BY <1>6, <1>8 DEF Told
<1>10. end[p].left = "status" /\ end'[e].status = 0 => end'[e].seen = end[p].status
  BY <1>6, <1>7, <1>8
<1>. QED
  BY <1>0, <1>5, <1>9, <1>10 DEF Passed, SameRelay

\* A message is taken out of the channel.
LEMMA TakeDataReceives ==
  ASSUME RelayInv, NEW e \in Ends, NEW p \in Ends, p = Peer(e), TakeData(e)
  PROVE  DirInv(p)'
<1>. DEFINE s == chan[p]
            t == Tail(s)
<1>0. Peer(p) = e
  BY TwoEnds
<1>1. /\ end \in [Ends -> Relays] /\ chan \in [Ends -> Seq(Frames)]
      /\ Channel(p) /\ UpToDate(p) /\ Silent(p) /\ Ending(p) /\ Right(end[e], p, end[p].nread)
  BY <1>0, Unpack
<1>2. /\ LoopOf(e) /\ s # <<>> /\ s[1].type = "data" /\ chan'[p] = t
      /\ end[e].main = "select" /\ end'[e].main = "writing" /\ end'[e].hold = s[1].m
      /\ end'[e].left = end[e].left /\ end'[e].seen = end[e].seen
      /\ end'[e].out = end[e].out /\ end'[e].up = end[e].up
  BY <1>1, TakeDataDoes
<1>3. SameRelay(p) /\ end'[e].status = end[e].status
  BY <1>2 DEF LoopOf
<1>4. /\ Len(end[e].out) \in Nat /\ end[p].nread \in Nat /\ s \in Seq(Frames)
      /\ Len(s) \in Nat /\ Len(s) > 0
  BY <1>1, <1>2, Numbers, EmptySeq
<1>5. Lead(p) = 0 /\ Lead(p)' = 0
  BY <1>0, <1>2 DEF Lead, Peer
<1>6. Sent(end[e]) = Len(end[e].out) + 0 /\ Sent(end[e])' = Len(end[e].out) + 1
  BY <1>2 DEF Sent
<1>7. Base(p) = Len(end[e].out) /\ Base(p)' = Base(p) + 1
  BY <1>0, <1>4, <1>5, <1>6 DEF Base
<1>8. Live(p)' => Live(p)
  BY <1>0, <1>2, <1>3 DEF Live, Delivers, Ended, SameRelay
<1>9. Channel(p)'
  <2>1. s[1].type \in {"open", "data"} /\ (s[1].type = "open" <=> Lead(p) = 1)
    BY <1>2, <1>5
  <2>. QED
    BY <1>1, <1>2, <1>3, <1>5, <1>7, <1>8, <2>1, ChannelTaken
<1>10. Len(t) = Len(s) - 1 /\ (Plain(t, Len(t)) => Plain(s, Len(s)))
  BY <1>2, <1>4, TailPlain
<1>. HIDE DEF t
<1>12. UpToDate(p)'
  <2>1. Base(p)' + Len(t) = Base(p) + Len(s)
    <3>. HIDE DEF s
    <3>. QED
      BY <1>4, <1>7, <1>10
  <2>2. /\ end'[p].rd = end[p].rd /\ end'[p].nread = end[p].nread
    BY <1>3 DEF SameRelay
  <2>3. Live(p) /\ Plain(s, Len(s)) /\ end[p].rd \in {"read", "credit", "write", "closed"} =>
          Base(p) + Len(s) = end[p].nread - Pending(end[p].rd)
    BY <1>1 DEF UpToDate
  <2>. QED
    BY <1>2, <1>8, <1>10, <2>1, <2>2, <2>3 DEF UpToDate
<1>13. /\ Len(end[e].out) + 1 \in 1..end[p].nread
       /\ s[1].m = Message(Len(end[e].out) + 1, Messages[p][Len(end[e].out) + 1])
  <2>1. Numbered(s, Base(p), p, end[p].nread)
    BY <1>1 DEF Channel
  <2>2. 1 \in 1..Len(s) /\ Plain(s, 1)
    BY <1>2, <1>4 DEF Plain
  <2>. QED
    BY <1>2, <1>7, <2>1, <2>2 DEF Numbered
<1>14. Right(end[e], p, end[p].nread)'
  BY <1>1, <1>2, <1>3, <1>4, <1>6, <1>13 DEF Right, SameRelay
<1>15. end[p].rd # "none"
  BY <1>1, <1>4, <1>13 DEF Silent
<1>16. Passed(p)'
  BY <1>2, <1>3, PassedKept
<1>. QED
  BY <1>2, <1>3, <1>5, <1>8, <1>9, <1>12, <1>14, <1>15, <1>16, ReceiverRest

\* The message held is written.
LEMMA WriteMessageReceives ==
  ASSUME RelayInv, NEW e \in Ends, NEW p \in Ends, p = Peer(e), WriteMessage(e)
  PROVE  DirInv(p)'
<1>. DEFINE o == end[e].out
<1>0. Peer(p) = e
  BY TwoEnds
<1>1. /\ end \in [Ends -> Relays] /\ chan \in [Ends -> Seq(Frames)]
      /\ Channel(p) /\ UpToDate(p) /\ Silent(p) /\ Ending(p) /\ Ending(e)
      /\ Right(end[e], p, end[p].nread)
  BY <1>0, Unpack
<1>2. /\ LoopOf(e) /\ chan' = chan /\ end[e].main = "writing" /\ end'[e].main = "select"
      /\ end'[e].out = Append(o, end[e].hold)
      /\ end'[e].left = end[e].left /\ end'[e].seen = end[e].seen /\ end'[e].up = end[e].up
  BY <1>1, WriteMessageDoes
<1>3. /\ SameRelay(p) /\ end'[e].status = end[e].status
      /\ end' \in [Ends -> Relays] /\ chan' \in [Ends -> Seq(Frames)]
  BY <1>2 DEF LoopOf
<1>4. /\ Len(o) \in Nat /\ end[p].nread \in Nat
      /\ o \in Seq(MessageSet) /\ end[e].hold \in MessageSet
  BY <1>1, Fields
<1>5. /\ Len(end'[e].out) = Len(o) + 1
      /\ \A i \in 1..Len(o) : end'[e].out[i] = o[i]
      /\ end'[e].out[Len(o) + 1] = end[e].hold
  BY <1>2, <1>4
<1>6. Lead(p)' = Lead(p)
  BY <1>0, <1>2 DEF Lead, Peer
<1>7. Sent(end[e])' = Sent(end[e]) /\ Sent(end[e]) = Len(o) + 1
  <2>1. Sent(end[e])' = Len(end'[e].out) + 0
    BY <1>2 DEF Sent
  <2>2. Sent(end[e]) = Len(o) + 1
    BY <1>2 DEF Sent
  <2>. QED
    BY <1>4, <1>5, <2>1, <2>2
<1>8. Base(p)' = Base(p)
  BY <1>0, <1>6, <1>7 DEF Base
<1>9. Live(p)' => Live(p)
  BY <1>0, <1>2, <1>3 DEF Live, Delivers, Ended, SameRelay
<1>10. Forward(p)
  BY <1>3, <1>4, <1>9 DEF Forward, SameRelay, Ended
<1>11. ~Ended(p) => end'[p].left # "status"
  BY <1>1, <1>3 DEF Ending, SameRelay
<1>12. Channel(p)'
  BY <1>1, <1>2, <1>3, <1>6, <1>8, <1>10, <1>11, ChannelKept
<1>13. UpToDate(p)'
  BY <1>1, <1>2, <1>3, <1>8, <1>9 DEF UpToDate, Plain, Pending, SameRelay
<1>14. Right(end[e], p, end[p].nread)'
  <2>1. \A i \in 1..Len(o) : o[i] = Message(i, Messages[p][i])
    BY <1>1 DEF Right
  <2>2. end[e].hold = Message(Len(o) + 1, Messages[p][Len(o) + 1])
    BY <1>1, <1>2 DEF Right
  <2>3. \A i \in 1..(Len(o) + 1) : i \in 1..Len(o) \/ i = Len(o) + 1
    BY <1>4
  <2>4. \A i \in 1..Len(end'[e].out) : end'[e].out[i] = Message(i, Messages[p][i])
    BY <1>5, <2>1, <2>2, <2>3
  <2>5. Sent(end[e])' <= end'[p].nread
    BY <1>1, <1>3, <1>7 DEF Right, SameRelay
  <2>. QED
    BY <1>2, <2>4, <2>5 DEF Right
<1>15. Passed(p)'
  <2>1. end[e].left = "no" /\ (end[e].status = 0 => end[e].seen = 0)
    BY <1>1, <1>2 DEF Ending, Ended
  <2>2. end'[e].left # "close" /\ ~Told(e)'
    BY <1>2, <1>3, <2>1 DEF Told
  <2>. QED
    BY <1>3, <2>2, PassedKept
<1>. QED
  BY <1>2, <1>3, <1>6, <1>7, <1>9, <1>12, <1>13, <1>14, <1>15, ReceiverRest

-----------------------------------------------------------------------------
(* Setting up.                                                             *)

\* handleOpen takes the open frame.
LEMMA AcceptOpenReceives ==
  ASSUME RelayInv, AcceptOpen
  PROVE  DirInv("edge")'
<1>. DEFINE e == "connector"
            p == "edge"
            s == chan[p]
            t == Tail(s)
<1>0. e \in Ends /\ p \in Ends /\ Peer(p) = e /\ p = Peer(e)
  BY DEF Ends, Peer
<1>1. /\ end \in [Ends -> Relays] /\ chan \in [Ends -> Seq(Frames)]
      /\ Channel(p) /\ UpToDate(p) /\ Silent(p) /\ Right(end[e], p, end[p].nread)
  BY <1>0, Unpack
<1>2. /\ LoopOf(e) /\ s # <<>> /\ chan'[p] = t
      /\ end[e].main = "none" /\ end'[e].main = "dial"
      /\ end'[e].left = end[e].left /\ end'[e].seen = end[e].seen
      /\ end'[e].out = end[e].out /\ end'[e].hold = end[e].hold /\ end'[e].up = end[e].up
  BY <1>1, AcceptOpenDoes
<1>3. SameRelay(p) /\ end'[e].status = end[e].status
  BY <1>0, <1>2 DEF LoopOf
<1>4. /\ Len(end[e].out) \in Nat /\ end[p].nread \in Nat /\ s \in Seq(Frames)
      /\ Len(s) \in Nat /\ Len(s) > 0
  BY <1>0, <1>1, <1>2, Numbers, EmptySeq
<1>5. Lead(p) = 1 /\ Lead(p)' = 0
  BY <1>2 DEF Lead
<1>6. Sent(end[e]) = Len(end[e].out) + 0 /\ Sent(end[e])' = Len(end[e].out) + 0
  BY <1>2 DEF Sent
<1>7. Base(p) \in Int /\ Base(p)' = Base(p) + 1 /\ Sent(end[e])' = Sent(end[e])
  BY <1>0, <1>4, <1>5, <1>6 DEF Base
<1>8. Live(p)' => Live(p)
  BY <1>0, <1>2, <1>3 DEF Live, Delivers, Ended, SameRelay
<1>9. s[1].type = "open"
  <2>1. OpenLeads(s, 1) /\ 1 \in 1..Len(s)
    BY <1>1, <1>4, <1>5 DEF Channel
  <2>. QED
    BY <2>1 DEF OpenLeads
<1>10. Channel(p)'
  <2>1. s[1].type \in {"open", "data"} /\ (s[1].type = "open" <=> Lead(p) = 1)
    BY <1>5, <1>9
  <2>. QED
    BY <1>0, <1>1, <1>2, <1>3, <1>5, <1>7, <1>8, <2>1, ChannelTaken
<1>11. Len(t) = Len(s) - 1 /\ (Plain(t, Len(t)) => Plain(s, Len(s)))
  BY <1>2, <1>4, <1>9, TailPlain
<1>. HIDE DEF t
<1>12. UpToDate(p)'
  <2>1. Base(p)' + Len(t) = Base(p) + Len(s)
    <3>. HIDE DEF s
    <3>. QED
      BY <1>4, <1>7, <1>11
  <2>2. /\ end'[p].rd = end[p].rd /\ end'[p].nread = end[p].nread
    BY <1>3 DEF SameRelay
  <2>3. Live(p) /\ Plain(s, Len(s)) /\ end[p].rd \in {"read", "credit", "write", "closed"} =>
          Base(p) + Len(s) = end[p].nread - Pending(end[p].rd)
    BY <1>1 DEF UpToDate
  <2>. QED
    BY <1>2, <1>8, <1>11, <2>1, <2>2, <2>3 DEF UpToDate
<1>13. Right(end[e], p, end[p].nread)'
  BY <1>1, <1>2, <1>3, <1>7 DEF Right, SameRelay
<1>14. Passed(p)'
  BY <1>0, <1>2, <1>3, PassedKept
<1>. QED
  BY <1>0, <1>2, <1>3, <1>5, <1>7, <1>8, <1>10, <1>12, <1>13, <1>14, ReceiverRest

\* RelayWebSocket begins: the reader starts, and the edge has sent its open
\* frame.
LEMMA RelayStarts ==
  ASSUME RelayInv, end' \in [Ends -> Relays], chan' \in [Ends -> Seq(Frames)],
         NEW e \in Ends, end'[Peer(e)] = end[Peer(e)],
         end[e].main \in {"opening", "dial"}, end'[e].main = "select", end'[e].rd = "read",
         end'[e].left = end[e].left, end'[e].seen = end[e].seen, end'[e].up = end[e].up,
         end'[e].nread = end[e].nread, end'[e].status = end[e].status,
         Lead(e)' = Lead(e),
         Lead(e) = 1 /\ Live(e) => chan'[e] = Append(chan[e], Open),
         ~(Lead(e) = 1 /\ Live(e)) => chan'[e] = chan[e]
  PROVE  DirInv(e)'
<1>. DEFINE p == Peer(e)
<1>0. p \in Ends /\ Peer(p) = e
  BY TwoEnds
<1>1. /\ end \in [Ends -> Relays] /\ chan \in [Ends -> Seq(Frames)]
      /\ Channel(e) /\ Silent(e) /\ Ending(e) /\ Passed(e) /\ Right(end[p], e, end[e].nread)
  BY <1>0, Unpack
<1>2. /\ end[e].rd = "none" /\ chan[e] = <<>> /\ end[e].nread = 0 /\ Sent(end[p]) = 0
      /\ end[e].status = 0 /\ ~Ended(e) /\ end[e].left = "no" /\ end[e].seen = 0
  BY <1>1 DEF Silent, Ending, Ended
<1>3. Lead(e) \in {0, 1} /\ Base(e) = 0 - Lead(e)
  <2>1. Lead(e) \in {0, 1}
    BY DEF Lead
  <2>. QED
    BY <1>2, <2>1 DEF Base
<1>4. Sent(end[p])' = Sent(end[p])
  BY DEF Sent
<1>5. Base(e)' = Base(e)
  BY <1>4 DEF Base
<1>6. ~Ended(e)' /\ (Live(e)' <=> Live(e))
  BY DEF Ended, Live, Delivers
<1>7. Forward(e)
  BY <1>2, <1>6 DEF Forward
<1>8. end[p].left # "close" /\ ~Told(p)
  BY <1>1, <1>2 DEF Passed
<1>9. /\ Channel(e)' /\ UpToDate(e)'
      /\ Lead(e) = 1 /\ Live(e) => chan'[e] # <<>>
  <2>1. CASE Lead(e) = 1 /\ Live(e)
    <3>1. Open \in Frames /\ Open.type = "open"
      BY FramesAre
    <3>2. Len(chan[e]) = 0 /\ chan[e] \in Seq(Frames)
      BY <1>2
    <3>3. chan'[e] = Append(chan[e], Open)
      BY <2>1
    <3>4. Channel(e)'
      <4>1. Open.type = "open" <=> Len(chan[e]) + 1 <= Lead(e)
        BY <2>1, <3>1, <3>2
      <4>. QED
        BY <1>1, <1>2, <1>5, <1>7, <3>1, <3>3, <4>1, ChannelExtended
    <3>5. Len(chan'[e]) = 1
      BY <3>1, <3>2, <3>3, Appended
    <3>6. UpToDate(e)'
      <4>1. Pending(end'[e].rd) = 0 /\ Base(e)' = 0 - 1 /\ end'[e].nread = 0
        BY <1>2, <1>3, <1>5, <2>1 DEF Pending
      <4>2. (0 - 1) + 1 = 0 - 0
        OBVIOUS
      <4>3. Base(e)' + Len(chan'[e]) = end'[e].nread - Pending(end'[e].rd)
        BY <3>5, <4>1, <4>2, Zenon
      <4>. QED
        BY <4>3 DEF UpToDate
    <3>7. chan'[e] # <<>>
      <4>1. Len(<<>>) = 0 /\ 0 # 1
        OBVIOUS
      <4>. QED
        BY <3>5, <4>1, Zenon
    <3>. QED
      BY <3>4, <3>6, <3>7
  <2>2. CASE ~(Lead(e) = 1 /\ Live(e))
    <3>1. chan'[e] = chan[e] /\ Len(chan'[e]) = 0
      BY <1>2, <2>2
    <3>2. Channel(e)'
      BY <1>1, <1>2, <1>5, <1>7, <3>1, ChannelKept
    <3>3. UpToDate(e)'
      BY <1>2, <1>3, <1>5, <1>6, <2>2, <3>1 DEF UpToDate, Pending
    <3>. QED
      BY <2>2, <3>2, <3>3
  <2>. QED
    BY <2>1, <2>2
<1>10. Right(end[Peer(e)], e, end[e].nread)'
  BY <1>1, <1>4 DEF Right
<1>11. Silent(e)'
  BY <1>6, <1>9 DEF Silent
<1>12. Ending(e)'
  BY <1>2 DEF Ending
<1>13. Passed(e)'
  BY <1>2, <1>8 DEF Passed, Told
<1>. QED
  BY <1>9, <1>10, <1>11, <1>12, <1>13 DEF DirInv

-----------------------------------------------------------------------------
(* The invariant, step by step.                                            *)

LEMMA Assembled ==
  ASSUME end' \in [Ends -> Relays], chan' \in [Ends -> Seq(Frames)], Starting', Reads',
         NEW e \in Ends, DirInv(e)', DirInv(Peer(e))'
  PROVE  RelayInv'
<1>1. TypeOK'
  BY DEF TypeOK, Relays, Frames, Mains, Lefts, Rds, Types
<1>2. \A d \in Ends : DirInv(d)'
  BY TwoEnds
<1>. QED
  BY <1>1, <1>2 DEF RelayInv

LEMMA ReaderStep ==
  ASSUME RelayInv, NEW e \in Ends, Socket(e) \/ Reader(e)
  PROVE  RelayInv'
<1>0. /\ end \in [Ends -> Relays] /\ chan \in [Ends -> Seq(Frames)] /\ Reads /\ Starting
  BY Unpack
<1>1. /\ ReaderOf(e) /\ ReaderDoes(e)
      /\ end'[e].nread = end[e].nread \/ end[e].nread < Len(Messages[e])
  <2>1. CASE ReadMessage(e)
    BY <1>0, <2>1, ReadMessageDoes DEF ReaderDoes
  <2>2. CASE ReadClose(e) \/ ReadDrop(e)
    BY <1>0, <2>2, ReadEnds DEF ReaderDoes
  <2>3. CASE \/ ReadErr(e) \/ SendClosed(e)
             \/ WriteData(e) /\ end' = [end EXCEPT ![e].rd = "err"] /\ UNCHANGED chan
    BY <1>0, <2>3, ReaderFails DEF ReaderDoes
  <2>4. CASE TakeCredit(e)
    BY <1>0, <2>4, TakeCreditDoes DEF ReaderDoes
  <2>5. CASE WriteData(e) /\ ~(end' = [end EXCEPT ![e].rd = "err"] /\ UNCHANGED chan)
    BY <1>0, <2>5, WriteDataDoes DEF ReaderDoes
  <2>. QED
    BY <2>1, <2>2, <2>3, <2>4, <2>5 DEF Socket, Reader
<1>2. DirInv(e)'
  BY <1>1, ReaderSends
<1>3. DirInv(Peer(e))'
  <2>1. \/ end'[e].status = end[e].status /\ end'[e].seen = end[e].seen
        \/ end'[e].status # 0
    BY <1>1 DEF ReaderDoes
  <2>. QED
    BY <1>1, <2>1, ReaderReceives
<1>4. /\ end' \in [Ends -> Relays] /\ chan' \in [Ends -> Seq(Frames)]
      /\ end'[Peer(e)] = end[Peer(e)] /\ end'[e].main = end[e].main
  BY <1>1 DEF ReaderOf
<1>5. Starting'
  <2>1. \A g \in Ends : end'[g].main = end[g].main
    BY <1>4, TwoEnds
  <2>. QED
    BY <1>0, <2>1 DEF Starting, Ends
<1>6. Reads'
  <2>1. end[e].nread \in Nat /\ Len(Messages[e]) \in Nat
    BY <1>0, Fields, MessagesAssumption
  <2>2. /\ end'[e].nread <= Len(Messages[e])
        /\ end'[e].rd \in {"credit", "write"} => end'[e].nread > 0
    BY <1>0, <1>1, <2>1 DEF Reads, ReaderDoes
  <2>3. \A g \in Ends : /\ end'[g].nread <= Len(Messages[g])
                        /\ end'[g].rd \in {"credit", "write"} => end'[g].nread > 0
    BY <1>0, <1>4, <2>2, TwoEnds DEF Reads
  <2>. QED
    BY <2>3 DEF Reads
<1>. QED
  BY <1>2, <1>3, <1>4, <1>5, <1>6, Assembled

\* What the other steps leave alone.
LEMMA LoopKeeps ==
  ASSUME RelayInv, NEW e \in Ends, LoopOf(e),
         end'[e].main = "opening" => end[e].main = "opening",
         end[e].main = "none" => end'[e].main = "none" \/ chan[Peer(e)] # <<>>
  PROVE  Reads' /\ Starting' /\ end' \in [Ends -> Relays] /\ chan' \in [Ends -> Seq(Frames)]
<1>0. /\ Reads /\ Starting /\ Silent("edge") /\ Peer(e) \in Ends /\ \A g \in Ends : g = e \/ g = Peer(e)
      /\ "edge" \in Ends /\ "connector" \in Ends /\ Peer("edge") = "connector"
      /\ Peer("connector") = "edge"
  BY Unpack, TwoEnds DEF Ends, Peer
<1>1. \A g \in Ends : end'[g].nread = end[g].nread /\ end'[g].rd = end[g].rd
  BY <1>0 DEF LoopOf, SameRelay
<1>2. Reads'
  BY <1>0, <1>1 DEF Reads
<1>3. end'[Peer(e)].main = end[Peer(e)].main
  BY DEF LoopOf, SameRelay
<1>4. Starting'
  <2>. SUFFICES ASSUME end'["edge"].main = "opening" PROVE end'["connector"].main = "none"
    BY DEF Starting
  <2>1. end["edge"].main = "opening"
    BY <1>0, <1>3
  <2>2. end["connector"].main = "none" /\ chan["edge"] = <<>>
    BY <1>0, <2>1 DEF Starting, Silent
  <2>. QED
    BY <1>0, <1>3, <2>2
<1>. QED
  BY <1>2, <1>4 DEF LoopOf

\* Leaving the select loop without a frame.
LEMMA LeaveStep ==
  ASSUME RelayInv, NEW e \in Ends, end[e].main \in {"select", "writing"},
         NEW why \in Lefts, NEW told \in Statuses, Leave(e, why, told),
         why \notin {"no", "status"},
         why # "close" => told = Abnormal,
         why = "close" =>
           /\ end[e].main = "select" /\ chan[Peer(e)] # <<>> /\ chan[Peer(e)][1].type = "close"
           /\ told = (IF chan[Peer(e)][1].code # 0 THEN chan[Peer(e)][1].code ELSE Abnormal)
  PROVE  RelayInv'
<1>. DEFINE p == Peer(e)
<1>0. /\ p \in Ends /\ Peer(p) = e
      /\ end \in [Ends -> Relays] /\ chan \in [Ends -> Seq(Frames)] /\ Ending(e)
  BY Unpack, TwoEnds
<1>1. /\ LoopOf(e) /\ chan'[p] = <<>> /\ chan'[e] = chan[e]
      /\ end'[e].main = "close" /\ end'[e].left = why
      /\ end'[e].seen = (IF end[e].seen = 0 THEN told ELSE end[e].seen)
      /\ end'[e].hold = end[e].hold /\ end'[e].out = end[e].out /\ end'[e].up = end[e].up
  BY <1>0, LeaveDoes
<1>2. /\ SameRelay(p) /\ end'[e].status = end[e].status
      /\ end' \in [Ends -> Relays] /\ chan' \in [Ends -> Seq(Frames)]
  BY <1>1 DEF LoopOf
<1>3. ~Ended(e) /\ Ended(e)' /\ ~Live(p)'
  BY <1>0, <1>1 DEF Ended, Live
<1>. HIDE DEF p
<1>4. Moves(e)
  <2>1. Lead(e)' = Lead(e)
    BY <1>0, <1>2 DEF Lead, Peer, SameRelay, p
  <2>. QED
    BY <1>1, <1>3, <2>1 DEF Moves, Early, Busy
<1>5. DirInv(e)'
  BY <1>1, <1>4, LoopQuiet
<1>6. Passed(p)'
  <2>1. CASE why # "close"
    <3>1. end[e].status = 0 => end[e].seen = 0
      BY <1>0, <1>3 DEF Ending
    <3>2. ~Told(e)'
      BY <1>1, <1>2, <2>1, <3>1 DEF Told
    <3>. QED
      BY <1>0, <1>1, <1>2, <2>1, <3>2, PassedKept DEF p
  <2>2. CASE why = "close"
    <3>1. /\ end[e].main = "select" /\ chan[p] # <<>> /\ chan[p][1].type = "close"
          /\ told = (IF chan[p][1].code # 0 THEN chan[p][1].code ELSE Abnormal)
      BY <2>2 DEF p
    <3>. QED
      BY <1>0, <1>1, <1>2, <2>2, <3>1, PassedClose DEF p
  <2>. QED
    BY <2>1, <2>2
<1>7. DirInv(p)'
  BY <1>0, <1>1, <1>2, <1>3, <1>6, LoopReceives DEF p
<1>8. Reads' /\ Starting'
  BY <1>1, LoopKeeps
<1>. QED
  BY <1>2, <1>5, <1>7, <1>8, Assembled DEF p

\* CloseWithCode: the status goes out as the loop is left.
LEMMA TakeCloseErrStep ==
  ASSUME RelayInv, NEW e \in Ends, TakeCloseErr(e)
  PROVE  RelayInv'
<1>. DEFINE p == Peer(e)
            f == Close(end[e].status)
<1>0. /\ p \in Ends /\ Peer(p) = e
      /\ end \in [Ends -> Relays] /\ chan \in [Ends -> Seq(Frames)] /\ Ending(e)
  BY Unpack, TwoEnds
<1>1. /\ LoopOf(e) /\ end[e].main = "select" /\ end[e].rd = "closed" /\ chan'[p] = <<>>
      /\ Live(e) => chan'[e] = Append(chan[e], f)
      /\ ~Live(e) => chan'[e] = chan[e]
      /\ end'[e].main = "close" /\ end'[e].left = "status"
      /\ end'[e].hold = end[e].hold /\ end'[e].out = end[e].out /\ end'[e].up = end[e].up
  BY <1>0, TakeCloseErrDoes
<1>2. /\ SameRelay(p) /\ end'[e].status = end[e].status
      /\ end' \in [Ends -> Relays] /\ chan' \in [Ends -> Seq(Frames)]
  BY <1>1 DEF LoopOf
<1>3. ~Ended(e) /\ Ended(e)' /\ ~Live(p)'
  BY <1>0, <1>1 DEF Ended, Live
<1>4. f \in Frames /\ f.type = "close" /\ f.code = end[e].status /\ end[e].status # 0
  <2>1. end[e].status \in Statuses \cup {0}
    BY <1>0, Fields
  <2>. QED
    BY <1>0, <1>1, <2>1, FramesAre DEF Ending
<1>. HIDE DEF p, f
<1>5. Moves(e)
  <2>1. Lead(e)' = Lead(e)
    BY <1>0, <1>2 DEF Lead, Peer, SameRelay, p
  <2>. QED
    BY <1>1, <1>3, <2>1 DEF Moves, Early, Busy
<1>6. DirInv(e)'
  <2>1. CASE Live(e)
    BY <1>1, <1>3, <1>4, <1>5, <2>1, LoopWrites
  <2>2. CASE ~Live(e)
    <3>1. ~Live(e)'
      BY <1>1, <1>5, <2>2, MovesView
    <3>. QED
      BY <1>1, <1>5, <2>2, <3>1, LoopQuiet
  <2>. QED
    BY <2>1, <2>2
<1>7. Passed(p)'
  <2>1. ~Told(e)'
    BY <1>2, <1>4 DEF Told
  <2>. QED
    BY <1>0, <1>1, <1>2, <2>1, PassedKept DEF p
<1>8. DirInv(p)'
  BY <1>0, <1>1, <1>2, <1>3, <1>7, LoopReceives DEF p
<1>9. Reads' /\ Starting'
  BY <1>1, LoopKeeps
<1>. QED
  BY <1>2, <1>6, <1>8, <1>9, Assembled DEF p

\* A message is taken, then written.
LEMMA MessageStep ==
  ASSUME RelayInv, NEW e \in Ends, TakeData(e) \/ WriteMessage(e)
  PROVE  RelayInv'
<1>0. /\ Peer(e) \in Ends /\ end \in [Ends -> Relays] /\ chan \in [Ends -> Seq(Frames)]
  BY Unpack, TwoEnds
<1>1. /\ LoopOf(e) /\ chan'[e] = chan[e]
      /\ end[e].main \in {"select", "writing"} /\ end'[e].main \in {"select", "writing"}
      /\ end'[e].left = end[e].left /\ end'[e].seen = end[e].seen /\ end'[e].up = end[e].up
  <2>1. CASE TakeData(e)
    BY <1>0, <2>1, TakeDataDoes
  <2>2. CASE WriteMessage(e)
    BY <1>0, <2>2, WriteMessageDoes
  <2>. QED
    BY <2>1, <2>2
<1>2. ~Ended(e) /\ ~Ended(e)' /\ end[e].left = "no"
  <2>1. Ending(e)
    BY Unpack
  <2>. QED
    BY <1>1, <2>1 DEF Ended, Ending
<1>3. Moves(e)
  <2>1. Lead(e)' = Lead(e)
    BY <1>1 DEF Lead, Peer, LoopOf, SameRelay
  <2>. QED
    BY <1>1, <1>2, <2>1 DEF Moves, Early, Busy
<1>4. DirInv(e)'
  BY <1>1, <1>2, <1>3, LoopQuiet
<1>5. DirInv(Peer(e))'
  BY <1>0, TakeDataReceives, WriteMessageReceives
<1>6. Reads' /\ Starting' /\ end' \in [Ends -> Relays] /\ chan' \in [Ends -> Seq(Frames)]
  BY <1>1, LoopKeeps
<1>. QED
  BY <1>4, <1>5, <1>6, Assembled

\* The deferred session.Close.
LEMMA SessionCloseStep ==
  ASSUME RelayInv, NEW e \in Ends, SessionClose(e) \/ SessionRemove(e)
  PROVE  RelayInv'
<1>. DEFINE p == Peer(e)
            f == Close(0)
<1>0. /\ p \in Ends /\ Peer(p) = e
      /\ end \in [Ends -> Relays] /\ chan \in [Ends -> Seq(Frames)] /\ Silent(e)
  BY Unpack, TwoEnds
<1>1. /\ LoopOf(e) /\ chan'[p] = chan[p]
      /\ chan'[e] = chan[e] \/ (Live(e) /\ chan'[e] = Append(chan[e], f))
      /\ end[e].main \in {"close", "remove"} /\ end'[e].main \in {"remove", "done"}
      /\ end'[e].out = end[e].out /\ end'[e].hold = end[e].hold
      /\ end'[e].left = end[e].left /\ end'[e].seen = end[e].seen /\ end'[e].up = end[e].up
  BY <1>0, SessionCloseDoes
<1>2. /\ SameRelay(p) /\ end'[e].status = end[e].status
      /\ end' \in [Ends -> Relays] /\ chan' \in [Ends -> Seq(Frames)]
  BY <1>1 DEF LoopOf
<1>3. Ended(e) /\ Ended(e)' /\ ~Live(p)' /\ ~Live(p)
  BY <1>0, <1>1 DEF Ended, Live
<1>4. f \in Frames /\ f.type = "close" /\ f.code = 0
  BY FramesAre
<1>. HIDE DEF p, f
<1>5. Moves(e)
  <2>1. Lead(e)' = Lead(e)
    BY <1>0, <1>1, <1>2 DEF Lead, Peer, SameRelay, p
  <2>2. end[e].left = "status" => end[e].rd = "closed"
    BY Unpack DEF Ending
  <2>. QED
    BY <1>1, <1>3, <2>1, <2>2 DEF Moves, Early, Busy
<1>6. DirInv(e)'
  <2>1. CASE chan'[e] = chan[e]
    BY <1>1, <1>3, <1>5, <2>1, LoopQuiet
  <2>2. CASE chan'[e] # chan[e]
    <3>1. SessionClose(e)
      BY <2>2 DEF SessionRemove
    <3>2. end[e].main = "close" /\ end[e].rd # "none"
      BY <1>0, <3>1 DEF SessionClose, Silent
    <3>. QED
      BY <1>1, <1>3, <1>4, <1>5, <2>2, <3>2, LoopWrites
  <2>. QED
    BY <2>1, <2>2
<1>7. Passed(p)'
  BY <1>0, <1>1, <1>2, PassedKept DEF p
<1>8. DirInv(p)'
  <2>1. Lead(p)' = Lead(p)
    BY <1>0, <1>1, <1>2 DEF Lead, Peer, SameRelay, p
  <2>. QED
    BY <1>0, <1>1, <1>2, <1>3, <1>7, <2>1, LoopReceives DEF p
<1>9. Reads' /\ Starting'
  BY <1>1, LoopKeeps
<1>. QED
  BY <1>2, <1>6, <1>8, <1>9, Assembled DEF p

\* The link closes at e.
LEMMA LinkCloseStep ==
  ASSUME RelayInv, NEW e \in Ends, LinkClose(e)
  PROVE  RelayInv'
<1>. DEFINE p == Peer(e)
<1>0. /\ p \in Ends /\ Peer(p) = e
      /\ end \in [Ends -> Relays] /\ chan \in [Ends -> Seq(Frames)]
  BY Unpack, TwoEnds
<1>1. /\ LoopOf(e) /\ chan'[e] = chan[e]
      /\ \E k \in 0..Len(chan[p]) : chan'[p] = SubSeq(chan[p], 1, k)
      /\ ~end'[e].up
      /\ end'[e].main = end[e].main /\ end'[e].left = end[e].left
      /\ end'[e].out = end[e].out /\ end'[e].hold = end[e].hold /\ end'[e].seen = end[e].seen
  BY <1>0, LinkCloseDoes
<1>2. /\ SameRelay(p) /\ end'[e].status = end[e].status
      /\ end' \in [Ends -> Relays] /\ chan' \in [Ends -> Seq(Frames)]
  BY <1>1 DEF LoopOf
<1>3. ~Live(e)' /\ ~Live(p)'
  BY <1>0, <1>1 DEF Live, Delivers
<1>. HIDE DEF p
<1>4. Lead(e)' = Lead(e) /\ Lead(p)' = Lead(p)
  BY <1>0, <1>1, <1>2 DEF Lead, Peer, SameRelay, p
<1>5. Moves(e)
  <2>1. end[e].left = "status" => end[e].rd = "closed"
    BY Unpack DEF Ending
  <2>. QED
    BY <1>1, <1>4, <2>1 DEF Moves, Ended
<1>6. DirInv(e)'
  BY <1>1, <1>3, <1>5, LoopQuiet
<1>7. Passed(p)'
  BY <1>0, <1>1, <1>2, PassedKept DEF p
<1>8. DirInv(p)'
  BY <1>0, <1>1, <1>2, <1>3, <1>4, <1>7, LoopReceives DEF p
<1>9. Reads' /\ Starting'
  BY <1>1, LoopKeeps
<1>. QED
  BY <1>2, <1>6, <1>8, <1>9, Assembled DEF p

LEMMA SetUpNames ==
  /\ "edge" \in Ends /\ "connector" \in Ends
  /\ Peer("edge") = "connector" /\ Peer("connector") = "edge"
  /\ Lead("connector") = 0 /\ Lead("connector")' = 0
BY DEF Ends, Peer, Lead

LEMMA OpenSessionStep ==
  ASSUME RelayInv, OpenSession
  PROVE  RelayInv'
<1>. DEFINE e == "edge"
            p == "connector"
<1>0. /\ end \in [Ends -> Relays] /\ chan \in [Ends -> Seq(Frames)] /\ Starting /\ Reads
  BY Unpack
<1>1. /\ end' \in [Ends -> Relays] /\ chan' \in [Ends -> Seq(Frames)]
      /\ end'[p] = end[p] /\ chan'[p] = chan[p]
      /\ Live(e) => chan'[e] = Append(chan[e], Open)
      /\ ~Live(e) => chan'[e] = chan[e]
      /\ end[e].main = "opening" /\ end'[e].main = "select" /\ end'[e].rd = "read"
      /\ end'[e].left = end[e].left /\ end'[e].seen = end[e].seen
      /\ end'[e].up = end[e].up /\ end'[e].nread = end[e].nread
      /\ end'[e].out = end[e].out /\ end'[e].hold = end[e].hold
      /\ end'[e].status = end[e].status
  BY <1>0, OpenSessionDoes
<1>2. Lead(e) = 1 /\ Lead(e)' = 1
  BY <1>0, <1>1 DEF Lead, Starting
<1>3. DirInv(e)'
  BY <1>1, <1>2, SetUpNames, RelayStarts
<1>4. SameRelay(p)
  BY <1>1 DEF SameRelay
<1>5. Passed(p)'
  BY <1>1, <1>4, SetUpNames, PassedKept
<1>6. Live(p)' => Live(p)
  BY <1>1, SetUpNames DEF Live, Delivers, Ended
<1>7. DirInv(p)'
  BY <1>1, <1>4, <1>5, <1>6, SetUpNames, LoopReceives
<1>8. Starting'
  BY <1>1 DEF Starting
<1>9. Reads'
  BY <1>0, <1>1 DEF Reads, Ends
<1>. QED
  BY <1>1, <1>3, <1>7, <1>8, <1>9, SetUpNames, Assembled

LEMMA OpenRefusedStep ==
  ASSUME RelayInv, OpenRefused
  PROVE  RelayInv'
<1>. DEFINE e == "edge"
            p == "connector"
<1>0. /\ end \in [Ends -> Relays] /\ chan \in [Ends -> Seq(Frames)]
  BY Unpack
<1>1. /\ LoopOf(e) /\ chan' = chan
      /\ end[e].main = "opening" /\ end'[e].main = "done"
      /\ end'[e].left = "refused" /\ end'[e].up = end[e].up
      /\ end'[e].out = end[e].out /\ end'[e].hold = end[e].hold
  BY <1>0, OpenRefusedDoes
<1>2. /\ SameRelay(p) /\ end' \in [Ends -> Relays] /\ chan' \in [Ends -> Seq(Frames)]
  BY <1>1, SetUpNames DEF LoopOf
<1>3. Moves(e)
  <2>1. Lead(e)' = Lead(e)
    BY <1>2 DEF Lead, SameRelay
  <2>. QED
    BY <1>1, <2>1 DEF Moves, Ended, Early, Busy
<1>4. DirInv(e)'
  BY <1>1, <1>3, SetUpNames, LoopQuiet
<1>5. Passed(p)'
  <2>1. ~Told(e)'
    BY <1>1 DEF Told
  <2>. QED
    BY <1>1, <1>2, <2>1, SetUpNames, PassedKept
<1>6. Live(p)' => Live(p)
  BY <1>1, SetUpNames DEF Live, Ended
<1>7. DirInv(p)'
  BY <1>1, <1>2, <1>5, <1>6, SetUpNames, LoopReceives
<1>8. Reads' /\ Starting'
  BY <1>1, SetUpNames, LoopKeeps
<1>. QED
  BY <1>2, <1>4, <1>7, <1>8, SetUpNames, Assembled

LEMMA AcceptOpenStep ==
  ASSUME RelayInv, AcceptOpen
  PROVE  RelayInv'
<1>. DEFINE e == "connector"
<1>0. /\ end \in [Ends -> Relays] /\ chan \in [Ends -> Seq(Frames)] /\ Ending(e)
  BY Unpack, SetUpNames
<1>1. /\ LoopOf(e) /\ chan'[e] = chan[e] /\ chan["edge"] # <<>>
      /\ end[e].main = "none" /\ end'[e].main = "dial"
      /\ end'[e].left = end[e].left /\ end'[e].seen = end[e].seen /\ end'[e].up = end[e].up
  BY <1>0, AcceptOpenDoes
<1>2. ~Ended(e) /\ ~Ended(e)' /\ end[e].left = "no"
  BY <1>0, <1>1 DEF Ended, Ending
<1>3. Moves(e)
  BY <1>1, <1>2, SetUpNames DEF Moves, Early, Busy
<1>4. DirInv(e)'
  BY <1>1, <1>2, <1>3, SetUpNames, LoopQuiet
<1>5. DirInv("edge")'
  BY AcceptOpenReceives
<1>6. Reads' /\ Starting' /\ end' \in [Ends -> Relays] /\ chan' \in [Ends -> Seq(Frames)]
  BY <1>1, SetUpNames, LoopKeeps
<1>. QED
  BY <1>4, <1>5, <1>6, SetUpNames, Assembled

LEMMA DialOKStep ==
  ASSUME RelayInv, DialOK
  PROVE  RelayInv'
<1>. DEFINE e == "connector"
            p == "edge"
<1>0. /\ end \in [Ends -> Relays] /\ chan \in [Ends -> Seq(Frames)] /\ Starting /\ Reads
  BY Unpack
<1>1. /\ end' \in [Ends -> Relays] /\ chan' = chan /\ end'[p] = end[p]
      /\ end[e].main = "dial" /\ end'[e].main = "select" /\ end'[e].rd = "read"
      /\ end'[e].left = end[e].left /\ end'[e].seen = end[e].seen
      /\ end'[e].up = end[e].up /\ end'[e].nread = end[e].nread
      /\ end'[e].out = end[e].out /\ end'[e].hold = end[e].hold
      /\ end'[e].status = end[e].status
  BY <1>0, DialOKDoes
<1>2. chan' \in [Ends -> Seq(Frames)]
  BY <1>0, <1>1
<1>3. DirInv(e)'
  BY <1>1, <1>2, SetUpNames, RelayStarts
<1>4. SameRelay(p)
  BY <1>1 DEF SameRelay
<1>5. Passed(p)'
  BY <1>1, <1>4, SetUpNames, PassedKept
<1>6. (Live(p)' => Live(p)) /\ Lead(p)' = Lead(p)
  BY <1>1, SetUpNames DEF Live, Delivers, Ended, Lead
<1>7. DirInv(p)'
  BY <1>1, <1>2, <1>4, <1>5, <1>6, SetUpNames, LoopReceives
<1>8. Starting'
  BY <1>0, <1>1 DEF Starting
<1>9. Reads'
  BY <1>0, <1>1 DEF Reads, Ends
<1>. QED
  BY <1>1, <1>2, <1>3, <1>7, <1>8, <1>9, SetUpNames, Assembled

LEMMA DialFailsStep ==
  ASSUME RelayInv, DialFails
  PROVE  RelayInv'
<1>. DEFINE e == "connector"
            p == "edge"
<1>0. /\ end \in [Ends -> Relays] /\ chan \in [Ends -> Seq(Frames)] /\ Ending(e) /\ Silent(e)
  BY Unpack, SetUpNames
<1>1. /\ LoopOf(e) /\ chan'[p] = <<>>
      /\ Live(e) => chan'[e] = Append(chan[e], Error)
      /\ ~Live(e) => chan'[e] = chan[e]
      /\ end[e].main = "dial" /\ end'[e].main = "remove" /\ end'[e].left = "dial"
      /\ end'[e].seen = end[e].seen /\ end'[e].up = end[e].up
      /\ end'[e].out = end[e].out /\ end'[e].hold = end[e].hold
  BY <1>0, DialFailsDoes
<1>2. /\ SameRelay(p) /\ end'[e].status = end[e].status
      /\ end' \in [Ends -> Relays] /\ chan' \in [Ends -> Seq(Frames)]
  BY <1>1, SetUpNames DEF LoopOf
<1>3. ~Ended(e) /\ Ended(e)' /\ ~Live(p)'
  BY <1>1, SetUpNames DEF Ended, Live
<1>4. Moves(e)
  BY <1>1, <1>3, SetUpNames DEF Moves, Early, Busy
<1>5. DirInv(e)'
  <2>1. CASE Live(e)
    <3>1. Error \in Frames /\ Error.type = "error"
      BY FramesAre
    <3>. QED
      BY <1>1, <1>3, <1>4, <2>1, <3>1, SetUpNames, LoopWrites
  <2>2. CASE ~Live(e)
    BY <1>1, <1>4, <2>2, SetUpNames, LoopQuiet
  <2>. QED
    BY <2>1, <2>2
<1>6. Passed(p)'
  <2>1. end[e].status = 0 => end[e].seen = 0
    BY <1>0, <1>3 DEF Ending
  <2>2. ~Told(e)'
    BY <1>1, <1>2, <2>1 DEF Told
  <2>. QED
    BY <1>1, <1>2, <2>2, SetUpNames, PassedKept
<1>7. DirInv(p)'
  BY <1>1, <1>2, <1>3, <1>6, SetUpNames, LoopReceives
<1>8. Reads' /\ Starting'
  BY <1>1, SetUpNames, LoopKeeps
<1>. QED
  BY <1>2, <1>5, <1>7, <1>8, SetUpNames, Assembled

LEMMA InitInv == Init => RelayInv
<1>. SUFFICES ASSUME Init PROVE RelayInv
  OBVIOUS
<1>0. /\ "edge" \in Ends /\ "connector" \in Ends /\ Peer("edge") = "connector"
      /\ Peer("connector") = "edge" /\ \A e \in Ends : Peer(e) \in Ends
  BY DEF Ends, Peer
<1>. DEFINE At(m, w) == [main |-> m, left |-> "no", hold |-> NoMessage, rd |-> "none",
                         sess |-> "none", credit |-> SendWindow, consumed |-> 0, up |-> TRUE,
                         ws |-> w, nread |-> 0, status |-> 0, out |-> <<>>, seen |-> 0]
<1>1. /\ end["edge"] = At("opening", "open") /\ end["connector"] = At("none", "closed")
      /\ \A e \in Ends : chan[e] = <<>>
  BY <1>0 DEF Init
<1>2. /\ end["edge"].main = "opening" /\ end["connector"].main = "none"
      /\ \A e \in Ends :
           /\ end[e].main \in {"opening", "none"} /\ end[e].left = "no" /\ end[e].rd = "none"
           /\ end[e].nread = 0 /\ end[e].status = 0 /\ end[e].out = <<>> /\ end[e].seen = 0
  <2>1. /\ end["edge"].main = "opening" /\ end["edge"].left = "no" /\ end["edge"].rd = "none"
        /\ end["edge"].nread = 0 /\ end["edge"].status = 0 /\ end["edge"].out = <<>>
        /\ end["edge"].seen = 0
    BY <1>1
  <2>2. /\ end["connector"].main = "none" /\ end["connector"].left = "no"
        /\ end["connector"].rd = "none" /\ end["connector"].nread = 0
        /\ end["connector"].status = 0 /\ end["connector"].out = <<>>
        /\ end["connector"].seen = 0
    BY <1>1
  <2>. QED
    BY <2>1, <2>2 DEF Ends
<1>3. TypeOK
  <2>1. NoMessage \in MessageSet /\ SendWindow \in 0..SendWindow /\ 0 \in 0..SendWindow
        /\ <<>> \in Seq(MessageSet) /\ <<>> \in Seq(Frames)
    BY WindowAssumption DEF NoMessage, Message, MessageSet, Kinds
  <2>2. \A m \in Mains : \A w \in {"open", "sent", "closed"} : At(m, w) \in Relays
    BY <2>1 DEF Relays, Lefts, Rds
  <2>3. end["edge"] \in Relays /\ end["connector"] \in Relays
    BY <1>1, <2>2 DEF Mains
  <2>4. \A e \in Ends : end[e] \in Relays
    BY <2>3 DEF Ends
  <2>5. end = [e \in Ends |-> end[e]] /\ chan = [e \in Ends |-> chan[e]]
    BY DEF Init
  <2>6. end \in [Ends -> Relays] /\ chan \in [Ends -> Seq(Frames)]
    BY <1>1, <2>1, <2>4, <2>5, Zenon
  <2>. QED
    BY <2>6, TypesAre
<1>. HIDE DEF At
<1>4. Starting
  BY <1>2 DEF Starting
<1>5. Reads
  BY <1>2, MessagesAssumption DEF Reads
<1>6. ASSUME NEW e \in Ends PROVE DirInv(e)
  <2>1. /\ chan[e] = <<>> /\ Len(chan[e]) = 0 /\ 1..Len(chan[e]) = {}
    BY <1>1
  <2>2. ~Ended(e) /\ ~Ended(Peer(e))
    BY <1>0, <1>2 DEF Ended
  <2>3. Channel(e)
    <3>1. end[e].left # "status"
      BY <1>2
    <3>. QED
      BY <2>1, <3>1 DEF Channel, OpenLeads, Numbered, Statused, Closes
  <2>4. UpToDate(e)
    BY <1>2 DEF UpToDate
  <2>5. Sent(end[Peer(e)]) = 0 /\ Len(end[Peer(e)].out) = 0 /\ 1..Len(end[Peer(e)].out) = {}
    <3>1. end[Peer(e)].out = <<>> /\ end[Peer(e)].main # "writing"
      BY <1>0, <1>2
    <3>2. Len(end[Peer(e)].out) = 0
      BY <3>1
    <3>3. Sent(end[Peer(e)]) = Len(end[Peer(e)].out) + 0
      BY <3>1 DEF Sent
    <3>. QED
      BY <3>2, <3>3
  <2>6. Right(end[Peer(e)], e, end[e].nread)
    BY <1>0, <1>2, <2>5 DEF Right
  <2>7. Silent(e)
    BY <1>2, <2>1, <2>5 DEF Silent
  <2>8. Ending(e)
    BY <1>2 DEF Ending
  <2>9. Passed(e)
    BY <1>0, <1>2 DEF Passed, Told
  <2>. QED
    BY <2>3, <2>4, <2>6, <2>7, <2>8, <2>9 DEF DirInv
<1>. QED
  BY <1>3, <1>4, <1>5, <1>6 DEF RelayInv

LEMMA LoopStep ==
  ASSUME RelayInv, NEW e \in Ends, Relay(e) \/ SocketWrite(e) \/ Cut(e)
  PROVE  RelayInv'
<1>0. Abnormal \in Statuses /\ {"cut", "done", "read", "error", "write", "close"} \subseteq Lefts
  BY DEF Statuses, Lefts
<1>1. CASE TakeCloseErr(e)
  BY <1>1, TakeCloseErrStep
<1>2. CASE TakeData(e) \/ WriteMessage(e)
  BY <1>2, MessageStep
<1>3. CASE SessionClose(e) \/ SessionRemove(e)
  BY <1>3, SessionCloseStep
<1>4. CASE TakeClose(e)
  <2>. DEFINE q == chan[Peer(e)]
              told == IF q[1].code # 0 THEN q[1].code ELSE Abnormal
  <2>1. q \in Seq(Frames) /\ q # <<>> /\ end[e].main = "select" /\ Head(q).type = "close"
    BY <1>4, Unpack, TwoEnds DEF TakeClose, Receives, Selecting, Arrived
  <2>2. Head(q) = q[1] /\ q[1] \in Frames
    BY <2>1, HeadTailProperties
  <2>3. told \in Statuses
    BY <1>0, <2>2 DEF Frames
  <2>4. Leave(e, "close", told)
    BY <1>4, <2>2 DEF TakeClose, Arrived
  <2>. HIDE DEF told
  <2>. QED
    BY <1>0, <2>1, <2>2, <2>3, <2>4, LeaveStep DEF told
<1>5. CASE SessionDone(e) \/ TakeReadErr(e) \/ TakeError(e) \/ WriteFails(e) \/ Cut(e)
  <2>1. PICK why \in {"cut", "done", "read", "error", "write"} :
          Leave(e, why, Abnormal) /\ end[e].main \in {"select", "writing"}
    BY <1>5 DEF SessionDone, TakeReadErr, TakeError, WriteFails, Cut, Receives, Selecting
  <2>. QED
    BY <1>0, <2>1, LeaveStep
<1>. QED
  BY <1>1, <1>2, <1>3, <1>4, <1>5 DEF Relay, SocketWrite

LEMMA InvStep == RelayInv /\ [Next]_vars => RelayInv'
<1>. SUFFICES ASSUME RelayInv, [Next]_vars PROVE RelayInv'
  OBVIOUS
<1>1. CASE Opening
  BY <1>1, OpenSessionStep, OpenRefusedStep DEF Opening
<1>2. CASE Connect
  BY <1>2, AcceptOpenStep, DialOKStep, DialFailsStep DEF Connect
<1>3. ASSUME NEW e \in Ends, Socket(e) \/ Reader(e) PROVE RelayInv'
  BY <1>3, ReaderStep
<1>4. ASSUME NEW e \in Ends, Relay(e) \/ SocketWrite(e) \/ Cut(e) PROVE RelayInv'
  BY <1>4, LoopStep
<1>5. ASSUME NEW e \in Ends, LinkFails(e) \/ LinkNotice(e) PROVE RelayInv'
  BY <1>5, LinkCloseStep DEF LinkFails, LinkNotice
<1>6. CASE UNCHANGED vars
  <2>1. end' = end /\ chan' = chan
    BY <1>6 DEF vars
  <2>2. TypeOK'
    BY <2>1 DEF TypeOK, RelayInv
  <2>3. Starting' /\ Reads'
    BY <2>1 DEF Starting, Reads, RelayInv
  <2>4. ASSUME NEW d \in Ends PROVE DirInv(d)'
    <3>1. DirInv(d)
      BY DEF RelayInv
    <3>. QED
      BY <2>1, <3>1 DEF DirInv, Channel, UpToDate, Silent, Ending, Passed, Lead, Base, Live,
           Delivers, Ended, Told
  <2>. QED
    BY <2>2, <2>3, <2>4 DEF RelayInv
<1>. QED
  BY <1>1, <1>2, <1>3, <1>4, <1>5, <1>6 DEF Next, Finished

-----------------------------------------------------------------------------
(* The theorems.                                                           *)

(***************************************************************************)
(* The inductive invariant: in each direction the frames under way are the *)
(* messages read and not yet taken out, in order, then the status.         *)
(***************************************************************************)
THEOREM RelayInvariant == Spec => []RelayInv
BY InitInv, InvStep, PTL DEF Spec

(***************************************************************************)
(* The two relays of RelayWebSocket keep to their types; the credit and    *)
(* the count of consumed messages stay within the window.                  *)
(***************************************************************************)
THEOREM RelayTypeCorrect == Spec => []TypeOK
<1>1. RelayInv => TypeOK
  BY DEF RelayInv
<1>. QED
  BY <1>1, RelayInvariant, PTL

(***************************************************************************)
(* What RelayWebSocket writes to a socket is what the other one read, in   *)
(* order and of the same kind, whatever ends the relay.                    *)
(***************************************************************************)
THEOREM MessagesInOrder == Spec => []MessagesKept
<1>1. RelayInv => MessagesKept
  <2>. SUFFICES ASSUME RelayInv, NEW e \in Ends
                PROVE  /\ Len(end[e].out) <= end[Peer(e)].nread
                       /\ \A i \in 1..Len(end[e].out) :
                            end[e].out[i] = Message(i, Messages[Peer(e)][i])
    BY DEF MessagesKept
  <2>1. /\ Peer(e) \in Ends /\ Peer(Peer(e)) = e
        /\ end \in [Ends -> Relays] /\ chan \in [Ends -> Seq(Frames)]
    BY TwoEnds, Unpack
  <2>2. Right(end[Peer(Peer(e))], Peer(e), end[Peer(e)].nread)
    BY <2>1, Unpack
  <2>3. /\ Sent(end[e]) \in Nat /\ Sent(end[e]) >= Len(end[e].out) /\ Len(end[e].out) \in Nat
        /\ end[Peer(e)].nread \in Nat
    BY <2>1, Numbers
  <2>. QED
    BY <2>1, <2>2, <2>3 DEF Right
<1>. QED
  BY <1>1, RelayInvariant, PTL

(***************************************************************************)
(* A status that RelayWebSocket gives to an application is the one the     *)
(* other application closed with, and comes after all of its messages.     *)
(***************************************************************************)
THEOREM StatusLast == Spec => []StatusAfterMessages
<1>1. RelayInv => StatusAfterMessages
  <2>. SUFFICES ASSUME RelayInv, NEW e \in Ends, Told(e)
                PROVE  /\ end[e].seen = end[Peer(e)].status
                       /\ Len(end[e].out) = end[Peer(e)].nread
    BY DEF StatusAfterMessages
  <2>1. Peer(e) \in Ends /\ Peer(Peer(e)) = e
    BY TwoEnds
  <2>2. Passed(Peer(e))
    BY <2>1, Unpack
  <2>. QED
    BY <2>1, <2>2 DEF Passed
<1>. QED
  BY <1>1, RelayInvariant, PTL

(***************************************************************************)
(* The plain close frame of the deferred session.Close never overtakes the *)
(* status that CloseWithCode sent before it.                               *)
(***************************************************************************)
THEOREM StatusNeverLost == Spec => []StatusCarried
<1>1. RelayInv => StatusCarried
  <2>. SUFFICES ASSUME RelayInv, NEW e \in Ends, end[Peer(e)].left = "status",
                       end[e].left = "close", end[e].status = 0
                PROVE  end[e].seen = end[Peer(e)].status
    BY DEF StatusCarried
  <2>1. Peer(e) \in Ends /\ Peer(Peer(e)) = e
    BY TwoEnds
  <2>2. Passed(Peer(e))
    BY <2>1, Unpack
  <2>. QED
    BY <2>1, <2>2 DEF Passed
<1>. QED
  BY <1>1, RelayInvariant, PTL
=============================================================================
