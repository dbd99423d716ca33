---------------------------- MODULE DuplexStream ----------------------------
(***************************************************************************)
(* What a relayed TCP session promises to the two sockets it joins         *)
(* (the contract in the comment of RelayConn): each direction is a stream  *)
(* delivered in order without gaps or duplicates; the end of a stream is   *)
(* shown to the other socket only after everything sent before it; and a   *)
(* relay may be cut at any moment, after which it delivers nothing more.   *)
(***************************************************************************)
EXTENDS Naturals, Sequences

CONSTANT Ends, Peer(_)

VARIABLES
  sent,     \* chunks accepted from the socket at each end
  fin,      \* the socket at this end has ended its stream
  got,      \* chunk numbers delivered to the socket at this end
  seenEnd,  \* the socket at this end has been half-closed
  over      \* the relay at this end has stopped

vars == <<sent, fin, got, seenEnd, over>>

Init ==
  /\ sent    = [e \in Ends |-> 0]
  /\ fin     = [e \in Ends |-> FALSE]
  /\ got     = [e \in Ends |-> <<>>]
  /\ seenEnd = [e \in Ends |-> FALSE]
  /\ over    = [e \in Ends |-> FALSE]

Accept(e) ==
  /\ ~fin[e] /\ ~over[e]
  /\ sent' = [sent EXCEPT ![e] = @ + 1]
  /\ UNCHANGED <<fin, got, seenEnd, over>>

Finish(e) ==
  /\ ~fin[e] /\ ~over[e]
  /\ fin' = [fin EXCEPT ![e] = TRUE]
  /\ UNCHANGED <<sent, got, seenEnd, over>>

Deliver(e) ==
  /\ ~seenEnd[e] /\ ~over[e]
  /\ Len(got[e]) < sent[Peer(e)]
  /\ got' = [got EXCEPT ![e] = Append(@, Len(@) + 1)]
  /\ UNCHANGED <<sent, fin, seenEnd, over>>

\* The relay may stop in the same step when the other direction has ended.
ShowEnd(e) ==
  /\ ~seenEnd[e] /\ ~over[e]
  /\ fin[Peer(e)] /\ Len(got[e]) = sent[Peer(e)]
  /\ seenEnd' = [seenEnd EXCEPT ![e] = TRUE]
  /\ \/ UNCHANGED over
     \/ fin[e] /\ over' = [over EXCEPT ![e] = TRUE]
  /\ UNCHANGED <<sent, fin, got>>

Cut(e) ==
  /\ ~over[e]
  /\ over' = [over EXCEPT ![e] = TRUE]
  /\ UNCHANGED <<sent, fin, got, seenEnd>>

Next == \E e \in Ends : Accept(e) \/ Finish(e) \/ Deliver(e) \/ ShowEnd(e) \/ Cut(e)

Spec == Init /\ [][Next]_vars
=============================================================================
