-------------------------- MODULE TunnelLinksProofs --------------------------
(***************************************************************************)
(* The registry and the session tables, for any number of connectors,      *)
(* links, breaks and sessions.                                             *)
(***************************************************************************)
EXTENDS TunnelLinks, TLAPS

USE NoneAssumption, BackoffAssumption, BreaksAssumption

\* run's backoff stays zero or between its bounds (nextBackoff).
LEMMA BackoffBounded ==
  ASSUME NEW b \in {0} \cup (BackoffMin .. BackoffMax)
  PROVE  NextBackoff(b) \in {0} \cup (BackoffMin .. BackoffMax)
BY DEF NextBackoff

LEMMA InitInv == Init => LinkInv
BY DEF Init, LinkInv, TypeOK, RegistryLive, RefsKnown, ClosedFirst, Held

-----------------------------------------------------------------------------
(* Types.                                                                  *)

LEMMA ClientTypes ==
  ASSUME TypeOK, NEW c \in Connectors, Client(c) \/ DialOK(c) \/ DialFails(c)
  PROVE  TypeOK'
<1>. USE DEF TypeOK, openVars, regVars, linkVars, clientVars
<1>1. CASE BackoffElapses(c)
  BY <1>1 DEF BackoffElapses
<1>2. CASE SetLink(c)
  BY <1>2 DEF SetLink
<1>3. CASE RunReturns(c)
  BY <1>3 DEF RunReturns
<1>4. CASE DropLink(c)
  BY <1>4, BackoffBounded DEF DropLink
<1>5. CASE DialOK(c)
  BY <1>5 DEF DialOK
<1>6. CASE DialFails(c)
  BY <1>6, BackoffBounded DEF DialFails
<1>. QED
  BY <1>1, <1>2, <1>3, <1>4, <1>5, <1>6 DEF Client

\* Link.Close leaves a table of sessions and a done flag for each session.
LEMMA SweepTypes ==
  ASSUME table \in [Links -> SUBSET Sessions], NEW l, Sweep(l)
  PROVE  table' \in [Links -> SUBSET Sessions] /\ done' \in [Sessions -> BOOLEAN]
<1>1. table' \in [Links -> SUBSET Sessions]
  BY DEF Sweep
<1>2. \A s \in Sessions : (done[s] \/ s \in table[l]) \in BOOLEAN
  BY Zenon
<1>3. done' \in [Sessions -> BOOLEAN]
  BY <1>2, Zenon DEF Sweep
<1>. QED
  BY <1>1, <1>3

LEMMA HandlerTypes ==
  ASSUME TypeOK, RefsKnown, NEW l \in Links, Handler(l) \/ Break(l)
  PROVE  TypeOK'
<1>. USE DEF TypeOK, openVars, regVars, linkVars, clientVars
<1>1. CASE Register(l)
  BY <1>1 DEF Register, RefsKnown
<1>2. CASE ReplaceOld(l)
  BY <1>2 DEF ReplaceOld, CloseConn
<1>3. CASE SweepOld(l)
  <2>1. /\ Sweep(old[l]) /\ handler' = [handler EXCEPT ![l] = "run"]
        /\ UNCHANGED <<clientVars, linkVars, old, links, edge, toClose, openVars>>
    BY <1>3 DEF SweepOld
  <2>2. table' \in [Links -> SUBSET Sessions] /\ done' \in [Sessions -> BOOLEAN]
    BY <2>1, SweepTypes
  <2>. QED
    BY <2>1, <2>2
<1>4. CASE ReadFails(l)
  BY <1>4 DEF ReadFails, CloseConn
<1>5. CASE RunCloses(l)
  BY <1>5, SweepTypes DEF RunCloses
<1>6. CASE Unregister(l)
  BY <1>6 DEF Unregister
<1>7. CASE Break(l)
  BY <1>7 DEF Break
<1>. QED
  BY <1>1, <1>2, <1>3, <1>4, <1>5, <1>6, <1>7 DEF Handler

LEMMA ShutdownTypes == TypeOK /\ (CloseAll \/ CloseOne) => TypeOK'
<1>. USE DEF TypeOK, openVars, regVars, linkVars, clientVars
<1>1. ASSUME TypeOK, CloseAll PROVE TypeOK'
  BY <1>1 DEF CloseAll
<1>2. ASSUME TypeOK, CloseOne PROVE TypeOK'
  <2>1. CASE toClose = {} /\ UNCHANGED <<alive, eClosed, table, toClose, done>>
    BY <1>2, <2>1 DEF CloseOne
  <2>2. ASSUME NEW l \in toClose, CloseConn(l), Sweep(l), toClose' = toClose \ {l}
        PROVE  TypeOK'
    <3>1. table' \in [Links -> SUBSET Sessions] /\ done' \in [Sessions -> BOOLEAN]
      BY <1>2, <2>2, SweepTypes
    <3>. QED
      BY <1>2, <2>2, <3>1 DEF CloseOne, CloseConn
  <2>. QED
    BY <1>2, <2>1, <2>2 DEF CloseOne
<1>. QED
  BY <1>1, <1>2

LEMMA OpenTypes ==
  ASSUME TypeOK, RefsKnown, NEW s \in Sessions,
         \/ Opener(s) \/ Start(s) \/ Answered(s) \/ NoResponders(s)
         \/ TimeoutElapses(s) \/ Retry(s) \/ CloseSession(s)
  PROVE  TypeOK'
<1>. USE DEF TypeOK, openVars, regVars, linkVars, clientVars
<1>1. CASE Start(s) \/ NoResponders(s) \/ Retry(s) \/ GiveUp(s)
  BY <1>1 DEF Start, NoResponders, Retry, GiveUp
<1>8. CASE TimeoutElapses(s)
  BY <1>8 DEF TimeoutElapses
<1>2. CASE Answered(s)
  BY <1>2 DEF Answered, HandleOpenMessage
<1>3. CASE GetLink(s)
  BY <1>3 DEF GetLink, RefsKnown
<1>4. CASE AddSession(s)
  BY <1>4 DEF AddSession
<1>5. CASE WriteOpenOK(s)
  BY <1>5 DEF WriteOpenOK
<1>6. CASE WriteOpenFails(s)
  BY <1>6 DEF WriteOpenFails
<1>7. CASE CloseSession(s)
  BY <1>7 DEF CloseSession
<1>. QED
  BY <1>1, <1>2, <1>3, <1>4, <1>5, <1>6, <1>7, <1>8 DEF Opener

-----------------------------------------------------------------------------
(* The rest of the invariant, one kind of step at a time.                  *)

Rest == RegistryLive /\ RefsKnown /\ ClosedFirst /\ Held

LEMMA ClientKeeps ==
  ASSUME LinkInv, NEW c \in Connectors, Client(c) \/ DialOK(c) \/ DialFails(c)
  PROVE  Rest'
<1>. USE DEF LinkInv, TypeOK, openVars, regVars, linkVars, clientVars
<1>1. CASE Client(c) \/ DialFails(c)
  BY <1>1 DEF Client, DialFails, BackoffElapses, SetLink, RunReturns, DropLink,
              Rest, RegistryLive, RefsKnown, ClosedFirst, Held
<1>2. CASE DialOK(c)
  <2>1. PICK l \in Links : /\ owner[l] = None
                           /\ owner' = [owner EXCEPT ![l] = c]
                           /\ handler' = [handler EXCEPT ![l] = "upgraded"]
    BY <1>2 DEF DialOK
  <2>2. handler[l] = "none"
    BY <2>1 DEF RefsKnown
  <2>3. UNCHANGED <<eClosed, table, old, links, openVars, done>>
    BY <1>2 DEF DialOK
  <2>4. RegistryLive'
    BY <2>1, <2>2, <2>3 DEF RegistryLive
  <2>5. RefsKnown' /\ ClosedFirst'
    BY <2>1, <2>2, <2>3 DEF RefsKnown, ClosedFirst
  <2>6. Held'
    BY <2>1, <2>2, <2>3 DEF Held, RefsKnown
  <2>. QED
    BY <2>4, <2>5, <2>6 DEF Rest
<1>. QED
  BY <1>1, <1>2

LEMMA HandlerKeeps ==
  ASSUME LinkInv, NEW l \in Links, Handler(l) \/ Break(l)
  PROVE  Rest'
<1>. USE DEF LinkInv, TypeOK, openVars, regVars, linkVars, clientVars
<1>1. CASE Register(l)
  <2>1. owner[l] \in Connectors
    BY <1>1 DEF Register, RefsKnown
  <2>2. RegistryLive'
    BY <1>1, <2>1 DEF Register, RegistryLive
  <2>3. RefsKnown'
    BY <1>1, <2>1 DEF Register, RefsKnown
  <2>4. ClosedFirst' /\ Held'
    BY <1>1 DEF Register, ClosedFirst, Held, RefsKnown
  <2>. QED
    BY <2>2, <2>3, <2>4 DEF Rest
<1>2. CASE ReplaceOld(l)
  BY <1>2 DEF ReplaceOld, CloseConn, Rest, RegistryLive, RefsKnown, ClosedFirst, Held
<1>3. CASE SweepOld(l)
  <2>1. RegistryLive' /\ RefsKnown' /\ ClosedFirst'
    BY <1>3 DEF SweepOld, RegistryLive, RefsKnown, ClosedFirst
  <2>2. Held'
    BY <1>3 DEF SweepOld, Sweep, RefsKnown, Held
  <2>. QED
    BY <2>1, <2>2 DEF Rest
<1>4. CASE ReadFails(l)
  BY <1>4 DEF ReadFails, CloseConn, Rest, RegistryLive, RefsKnown, ClosedFirst, Held
<1>5. CASE RunCloses(l)
  <2>1. RegistryLive' /\ RefsKnown' /\ ClosedFirst'
    BY <1>5 DEF RunCloses, RegistryLive, RefsKnown, ClosedFirst
  <2>2. Held'
    BY <1>5 DEF RunCloses, Sweep, RefsKnown, Held
  <2>. QED
    BY <2>1, <2>2 DEF Rest
<1>6. CASE Unregister(l)
  <2>1. RegistryLive'
    BY <1>6 DEF Unregister, RegistryLive, RefsKnown
  <2>2. RefsKnown' /\ ClosedFirst' /\ Held'
    BY <1>6 DEF Unregister, RefsKnown, ClosedFirst, Held
  <2>. QED
    BY <2>1, <2>2 DEF Rest
<1>7. CASE Break(l)
  BY <1>7 DEF Break, Rest, RegistryLive, RefsKnown, ClosedFirst, Held
<1>. QED
  BY <1>1, <1>2, <1>3, <1>4, <1>5, <1>6, <1>7 DEF Handler

LEMMA ShutdownKeeps == LinkInv /\ (CloseAll \/ CloseOne) => Rest'
<1>. USE DEF LinkInv, TypeOK, openVars, regVars, linkVars, clientVars
<1>1. ASSUME LinkInv, CloseAll PROVE Rest'
  BY <1>1 DEF CloseAll, Rest, RegistryLive, RefsKnown, ClosedFirst, Held
<1>2. ASSUME LinkInv, CloseOne PROVE Rest'
  <2>1. RegistryLive' /\ RefsKnown'
    BY <1>2 DEF CloseOne, RegistryLive, RefsKnown
  <2>2. ClosedFirst'
    BY <1>2 DEF CloseOne, CloseConn, ClosedFirst
  <2>3. Held'
    BY <1>2 DEF CloseOne, Sweep, RefsKnown, Held
  <2>. QED
    BY <2>1, <2>2, <2>3 DEF Rest
<1>. QED
  BY <1>1, <1>2

LEMMA OpenKeeps ==
  ASSUME LinkInv, NEW s \in Sessions,
         \/ Opener(s) \/ Start(s) \/ Answered(s) \/ NoResponders(s)
         \/ TimeoutElapses(s) \/ Retry(s) \/ CloseSession(s)
  PROVE  Rest'
<1>. USE DEF LinkInv, TypeOK, openVars, regVars, linkVars, clientVars
<1>1. UNCHANGED <<owner, eClosed, handler, old, links>>
  BY DEF Opener, Start, Answered, HandleOpenMessage, NoResponders, TimeoutElapses, Retry,
         CloseSession, GiveUp, GetLink, AddSession, WriteOpenOK, WriteOpenFails
<1>2. RegistryLive' /\ ClosedFirst'
  BY <1>1 DEF RegistryLive, ClosedFirst
<1>3. RefsKnown' /\ Held'
  <2>1. CASE Start(s) \/ NoResponders(s) \/ TimeoutElapses(s) \/ Retry(s) \/ GiveUp(s)
    BY <1>1, <2>1 DEF Start, NoResponders, TimeoutElapses, Retry, GiveUp, RefsKnown, Held
  <2>2. CASE Answered(s)
    BY <1>1, <2>2 DEF Answered, HandleOpenMessage, RefsKnown, Held
  <2>3. CASE GetLink(s)
    BY <1>1, <2>3 DEF GetLink, RefsKnown, Held
  <2>4. CASE AddSession(s)
    BY <1>1, <2>4 DEF AddSession, RefsKnown, Held
  <2>5. CASE WriteOpenOK(s)
    BY <1>1, <2>5 DEF WriteOpenOK, RefsKnown, ClosedFirst, Held
  <2>6. CASE WriteOpenFails(s)
    BY <1>1, <2>6 DEF WriteOpenFails, RefsKnown, Held
  <2>7. CASE CloseSession(s)
    BY <1>1, <2>7 DEF CloseSession, RefsKnown, Held
  <2>. QED
    BY <2>1, <2>2, <2>3, <2>4, <2>5, <2>6, <2>7 DEF Opener
<1>. QED
  BY <1>2, <1>3 DEF Rest

LEMMA StepKeeps == LinkInv /\ [Next]_vars => LinkInv'
<1>. SUFFICES ASSUME LinkInv, [Next]_vars PROVE LinkInv'
  OBVIOUS
<1>1. CASE \E c \in Connectors : Client(c) \/ DialOK(c) \/ DialFails(c)
  BY <1>1, ClientTypes, ClientKeeps DEF LinkInv, Rest
<1>2. CASE \E l \in Links : Handler(l) \/ Break(l)
  BY <1>2, HandlerTypes, HandlerKeeps DEF LinkInv, Rest
<1>3. CASE \E s \in Sessions :
             \/ Opener(s) \/ Start(s) \/ Answered(s) \/ NoResponders(s)
             \/ TimeoutElapses(s) \/ Retry(s) \/ CloseSession(s)
  BY <1>3, OpenTypes, OpenKeeps DEF LinkInv, Rest
<1>4. CASE CloseAll \/ CloseOne
  BY <1>4, ShutdownTypes, ShutdownKeeps DEF LinkInv, Rest
<1>5. CASE UNCHANGED vars
  BY <1>5 DEF LinkInv, TypeOK, RegistryLive, RefsKnown, ClosedFirst, Held,
              vars, clientVars, linkVars, regVars, openVars
<1>. QED
  BY <1>1, <1>2, <1>3, <1>4, <1>5 DEF Next, Settled

-----------------------------------------------------------------------------
\* The bookkeeping of reconnects, registrations and opens (tunnelClient.run,
\* tunnelRegistry, Link.Open, Link.Close) keeps its invariant.
THEOREM LinksInvariant == Spec => []LinkInv
<1>. QED
  BY InitInv, StepKeeps, PTL DEF Spec

\* Reconnects, registrations and opens keep their types; the backoff of
\* tunnelClient.run stays between its bounds (nextBackoff).
THEOREM LinksTypeCorrect == Spec => []TypeOK
<1>1. LinkInv => TypeOK
  BY DEF LinkInv
<1>. QED
  BY LinksInvariant, <1>1, PTL

\* However the handlers of a connector's links interleave, the registry never
\* keeps a link whose handler has returned (register, unregister, closeAll).
THEOREM RegistryNeverStale == Spec => []RegistryLive
<1>1. LinkInv => RegistryLive
  BY DEF LinkInv
<1>. QED
  BY LinksInvariant, <1>1, PTL

\* A session handed to a relay is marked done before the handler of its link
\* returns, also when Link.Open races Link.Close.
THEOREM NoSessionOrphaned == Spec => []NoOrphan
<1>1. LinkInv => NoOrphan
  BY DEF LinkInv, Held, NoOrphan
<1>. QED
  BY LinksInvariant, <1>1, PTL
=============================================================================
