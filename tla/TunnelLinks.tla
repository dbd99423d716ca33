----------------------------- MODULE TunnelLinks -----------------------------
(***************************************************************************)
(* Who holds a data tunnel to whom: each connector's tunnelClient, which   *)
(* dials the edge and redials with backoff; the edge's dataHandler and     *)
(* tunnelRegistry, which map a connector to its link; the edge's           *)
(* openDataSession, which finds a connector over NATS and opens a session  *)
(* on its link; and the link's table of sessions at the edge.              *)
(*                                                                         *)
(* Every dial that succeeds makes a fresh link.  A link is alive until     *)
(* either end closes its connection or the network breaks it.              *)
(***************************************************************************)
EXTENDS Integers, FiniteSets

CONSTANTS
  Connectors,     \* connector IDs, all in the route's queue group
  Links,          \* bound: the links that may be dialled
  Sessions,       \* public connections to be relayed
  BackoffMin, BackoffMax,
  MaxBreaks,      \* bound: how often the network breaks a link
  Faults,         \* what else may go wrong in this instance
  None            \* nil

ASSUME SetsAssumption    == IsFiniteSet(Connectors) /\ IsFiniteSet(Links) /\ IsFiniteSet(Sessions)
ASSUME NoneAssumption    == None \notin Connectors \cup Links
ASSUME BackoffAssumption == BackoffMin \in Nat \ {0} /\ BackoffMax \in Nat /\ BackoffMin <= BackoffMax
ASSUME BreaksAssumption  == MaxBreaks \in Nat
ASSUME FaultsAssumption  == Faults \subseteq {"dial", "nats", "shutdown"}

VARIABLES
  \* the connectors' tunnelClients
  client,     \* run: "wait", "dial", "set", "run", "drop"
  backoff,    \* run's backoff
  dialled,    \* run's local variable link
  link,       \* tunnelClient.link
  \* the links
  alive,
  breaks,     \* breaks so far
  owner,      \* the connector_id the link was dialled with, None: not dialled yet
  eClosed,    \* the edge has closed its connection of the link
  table,      \* Link.sessions at the edge
  \* the edge's dataHandler goroutines and registry
  handler,    \* of a link: "none", "upgraded", "replace", "sweep", "run", "close",
              \* "unregister", "gone"
  old,        \* register's local variable
  links,      \* tunnelRegistry.links
  edge,       \* "up", "closing" (in closeAll), "down"
  toClose,    \* closeAll's local variable: the links it has not closed yet
  \* the edge's openDataSession calls
  open,       \* "idle", "ask", "retry", "accepted", "add", "write", "opened", "failed"
  via,        \* the connector that accepted
  on,         \* the link the session is opened on
  timeout,    \* openCtx is done
  done        \* Session.done is closed

clientVars == <<client, backoff, dialled, link>>
linkVars   == <<alive, breaks, owner, eClosed>>
regVars    == <<handler, old, links, edge, toClose>>
openVars   == <<open, via, on, timeout>>
vars == <<clientVars, linkVars, table, regVars, openVars, done>>

Init ==
  /\ client  = [c \in Connectors |-> "dial"]
  /\ backoff = [c \in Connectors |-> 0]
  /\ dialled = [c \in Connectors |-> None]
  /\ link    = [c \in Connectors |-> None]
  /\ alive   = [l \in Links |-> FALSE]
  /\ breaks  = 0
  /\ owner   = [l \in Links |-> None]
  /\ eClosed = [l \in Links |-> FALSE]
  /\ table   = [l \in Links |-> {}]
  /\ handler = [l \in Links |-> "none"]
  /\ old     = [l \in Links |-> None]
  /\ links   = [c \in Connectors |-> None]
  /\ edge    = "up"
  /\ toClose = {}
  /\ open    = [s \in Sessions |-> "idle"]
  /\ via     = [s \in Sessions |-> None]
  /\ on      = [s \in Sessions |-> None]
  /\ timeout = [s \in Sessions |-> FALSE]
  /\ done    = [s \in Sessions |-> FALSE]

-----------------------------------------------------------------------------
(* The connector: tunnelClient.run.                                        *)

\* Mutant: the doubling has no cap.
NextBackoffUncapped(b) == IF b = 0 THEN BackoffMin ELSE 2 * b

NextBackoff(b) ==
  IF b = 0 THEN BackoffMin ELSE IF 2 * b > BackoffMax THEN BackoffMax ELSE 2 * b

BackoffElapses(c) ==
  /\ client[c] = "wait"
  /\ client' = [client EXCEPT ![c] = "dial"]
  /\ UNCHANGED <<backoff, dialled, link, linkVars, table, regVars, openVars, done>>

\* The dial returns when the edge has upgraded the connection; the edge's
\* handler goes on from there by itself.  Fresh links are alike: one is chosen.
DialOK(c) ==
  /\ client[c] = "dial" /\ edge = "up"
  /\ \E l \in Links :
       /\ owner[l] = None /\ l = (CHOOSE k \in Links : owner[k] = None)
       /\ owner' = [owner EXCEPT ![l] = c]
       /\ alive' = [alive EXCEPT ![l] = TRUE]
       /\ handler' = [handler EXCEPT ![l] = "upgraded"]
       /\ dialled' = [dialled EXCEPT ![c] = l]
  /\ client' = [client EXCEPT ![c] = "set"]
  /\ UNCHANGED <<backoff, link, breaks, eClosed, table, old, links, edge, toClose, openVars, done>>

DialFails(c) ==
  /\ client[c] = "dial" /\ ("dial" \in Faults \/ edge # "up")
  /\ client' = [client EXCEPT ![c] = "wait"]
  /\ backoff' = [backoff EXCEPT ![c] = NextBackoff(@)]
  /\ UNCHANGED <<dialled, link, linkVars, table, regVars, openVars, done>>

SetLink(c) ==
  /\ client[c] = "set"
  /\ link' = [link EXCEPT ![c] = dialled[c]]
  /\ client' = [client EXCEPT ![c] = "run"]
  /\ UNCHANGED <<backoff, dialled, linkVars, table, regVars, openVars, done>>

\* link.Run returns when a read fails.
RunReturns(c) ==
  /\ client[c] = "run" /\ ~alive[dialled[c]]
  /\ client' = [client EXCEPT ![c] = "drop"]
  /\ UNCHANGED <<backoff, dialled, link, linkVars, table, regVars, openVars, done>>

\* setLink(nil); a link that was up for reconnectStableAfter resets the backoff.
DropLink(c) ==
  /\ client[c] = "drop"
  /\ link' = [link EXCEPT ![c] = None]
  /\ dialled' = [dialled EXCEPT ![c] = None]
  /\ \/ /\ backoff' = [backoff EXCEPT ![c] = 0]
        /\ client' = [client EXCEPT ![c] = "dial"]
     \/ /\ backoff' = [backoff EXCEPT ![c] = NextBackoff(@)]
        /\ client' = [client EXCEPT ![c] = "wait"]
  /\ UNCHANGED <<linkVars, table, regVars, openVars, done>>

-----------------------------------------------------------------------------
(* Link.Close at the edge is two steps: conn.Close, and then the swap of   *)
(* the table with markDone for every session that was in it.               *)

CloseConn(l) ==
  /\ eClosed' = [eClosed EXCEPT ![l] = TRUE]
  /\ alive' = [alive EXCEPT ![l] = FALSE]

Sweep(l) ==
  /\ done' = [s \in Sessions |-> done[s] \/ s \in table[l]]
  /\ table' = [table EXCEPT ![l] = {}]

\* Mutant: unregister deletes the connector's entry, whatever link it holds.
UnregisterAny(l) ==
  /\ handler[l] = "unregister"
  /\ links' = [links EXCEPT ![owner[l]] = None]
  /\ handler' = [handler EXCEPT ![l] = "gone"]
  /\ UNCHANGED <<clientVars, linkVars, table, old, edge, toClose, openVars, done>>

(* The edge: dataHandler.ServeHTTP after the upgrade.                      *)

\* register, under the lock.
Register(l) ==
  /\ handler[l] = "upgraded"
  /\ links' = [links EXCEPT ![owner[l]] = l]
  /\ old' = [old EXCEPT ![l] = links[owner[l]]]
  /\ handler' = [handler EXCEPT ![l] = IF links[owner[l]] = None THEN "run" ELSE "replace"]
  /\ UNCHANGED <<clientVars, linkVars, table, edge, toClose, openVars, done>>

\* old.Close().
ReplaceOld(l) ==
  /\ handler[l] = "replace"
  /\ CloseConn(old[l])
  /\ handler' = [handler EXCEPT ![l] = "sweep"]
  /\ UNCHANGED <<clientVars, breaks, owner, table, old, links, edge, toClose, openVars, done>>

SweepOld(l) ==
  /\ handler[l] = "sweep"
  /\ Sweep(old[l])
  /\ handler' = [handler EXCEPT ![l] = "run"]
  /\ UNCHANGED <<clientVars, linkVars, old, links, edge, toClose, openVars>>

\* Run: a read fails, and the deferred Close begins.
ReadFails(l) ==
  /\ handler[l] = "run" /\ ~alive[l]
  /\ CloseConn(l)
  /\ handler' = [handler EXCEPT ![l] = "close"]
  /\ UNCHANGED <<clientVars, breaks, owner, table, old, links, edge, toClose, openVars, done>>

\* Mutant: Run returns without closing the link.
RunClosesConnOnly(l) ==
  /\ handler[l] = "close"
  /\ handler' = [handler EXCEPT ![l] = "unregister"]
  /\ UNCHANGED <<clientVars, linkVars, table, old, links, edge, toClose, openVars, done>>

RunCloses(l) ==
  /\ handler[l] = "close"
  /\ Sweep(l)
  /\ handler' = [handler EXCEPT ![l] = "unregister"]
  /\ UNCHANGED <<clientVars, linkVars, old, links, edge, toClose, openVars>>

\* Mutant: a handler whose link was closed by the edge leaves its entry.
UnregisterNever(l) ==
  /\ handler[l] = "unregister"
  /\ handler' = [handler EXCEPT ![l] = "gone"]
  /\ UNCHANGED <<clientVars, linkVars, table, old, links, edge, toClose, openVars, done>>

Unregister(l) ==
  /\ handler[l] = "unregister"
  /\ links' = [links EXCEPT ![owner[l]] = IF @ = l THEN None ELSE @]
  /\ handler' = [handler EXCEPT ![l] = "gone"]
  /\ UNCHANGED <<clientVars, linkVars, table, old, edge, toClose, openVars, done>>

\* closeAll at shutdown: empty the map, then close what was in it.
CloseAll ==
  /\ edge = "up" /\ "shutdown" \in Faults
  /\ edge' = "closing"
  /\ toClose' = {links[c] : c \in Connectors} \ {None}
  /\ links' = [c \in Connectors |-> None]
  /\ UNCHANGED <<clientVars, linkVars, table, handler, old, openVars, done>>

CloseOne ==
  /\ edge = "closing"
  /\ \/ /\ toClose = {} /\ edge' = "down"
        /\ UNCHANGED <<alive, eClosed, table, toClose, done>>
     \/ \E l \in toClose : /\ CloseConn(l) /\ Sweep(l)
                           /\ toClose' = toClose \ {l}
                           /\ UNCHANGED edge
  /\ UNCHANGED <<clientVars, breaks, owner, handler, old, links, openVars>>

Break(l) ==
  /\ alive[l] /\ breaks < MaxBreaks
  /\ alive' = [alive EXCEPT ![l] = FALSE]
  /\ breaks' = breaks + 1
  /\ UNCHANGED <<clientVars, owner, eClosed, table, regVars, openVars, done>>

-----------------------------------------------------------------------------
(* The edge: openDataSession and attemptOpenDataSession.                   *)

Start(s) ==
  /\ open[s] = "idle"
  /\ open' = [open EXCEPT ![s] = "ask"]
  /\ UNCHANGED <<clientVars, linkVars, table, regVars, via, on, timeout, done>>

\* nats.Request draws a connector; its handleOpenMessage accepts if it has a link.
HandleOpenMessage(s, c) ==
  /\ open[s] = "ask"
  /\ \/ /\ link[c] # None
        /\ open' = [open EXCEPT ![s] = "accepted"]
        /\ via' = [via EXCEPT ![s] = c]
     \/ /\ link[c] = None
        /\ open' = [open EXCEPT ![s] = "retry"]
        /\ UNCHANGED via
  /\ UNCHANGED <<clientVars, linkVars, table, regVars, on, timeout, done>>

\* No connector subscribes: the open fails at once.
NoResponders(s) ==
  /\ open[s] = "ask" /\ "nats" \in Faults
  /\ open' = [open EXCEPT ![s] = "failed"]
  /\ UNCHANGED <<clientVars, linkVars, table, regVars, via, on, timeout, done>>

TimeoutElapses(s) ==
  /\ open[s] \in {"ask", "retry"} /\ ~timeout[s]
  /\ timeout' = [timeout EXCEPT ![s] = TRUE]
  /\ UNCHANGED <<clientVars, linkVars, table, regVars, open, via, on, done>>

\* Mutant: only the wait between attempts looks at openCtx.
GiveUpInWait(s) ==
  /\ open[s] = "retry" /\ timeout[s]
  /\ open' = [open EXCEPT ![s] = "failed"]
  /\ UNCHANGED <<clientVars, linkVars, table, regVars, via, on, timeout, done>>

\* Request or the wait between attempts sees openCtx done.
GiveUp(s) ==
  /\ open[s] \in {"ask", "retry"} /\ timeout[s]
  /\ open' = [open EXCEPT ![s] = "failed"]
  /\ UNCHANGED <<clientVars, linkVars, table, regVars, via, on, timeout, done>>

\* 50 ms later: the next attempt.
Retry(s) ==
  /\ open[s] = "retry"
  /\ open' = [open EXCEPT ![s] = "ask"]
  /\ UNCHANGED <<clientVars, linkVars, table, regVars, via, on, timeout, done>>

\* registry.get: no link is errTunnelUnavailable.
GetLink(s) ==
  /\ open[s] = "accepted"
  /\ on' = [on EXCEPT ![s] = links[via[s]]]
  /\ open' = [open EXCEPT ![s] = IF links[via[s]] = None THEN "retry" ELSE "add"]
  /\ UNCHANGED <<clientVars, linkVars, table, regVars, via, timeout, done>>

\* Link.Open: addSession, then WriteFrame.
AddSession(s) ==
  /\ open[s] = "add"
  /\ table' = [table EXCEPT ![on[s]] = @ \cup {s}]
  /\ open' = [open EXCEPT ![s] = "write"]
  /\ UNCHANGED <<clientVars, linkVars, regVars, via, on, timeout, done>>

\* A write may succeed until this end has closed the connection.
WriteOpenOK(s) ==
  /\ open[s] = "write" /\ ~eClosed[on[s]]
  /\ open' = [open EXCEPT ![s] = "opened"]
  /\ UNCHANGED <<clientVars, linkVars, table, regVars, via, on, timeout, done>>

\* removeSession; the error is not errTunnelUnavailable.
WriteOpenFails(s) ==
  /\ open[s] = "write" /\ ~alive[on[s]]
  /\ open' = [open EXCEPT ![s] = "failed"]
  /\ done' = [done EXCEPT ![s] = @ \/ s \in table[on[s]]]
  /\ table' = [table EXCEPT ![on[s]] = @ \ {s}]
  /\ UNCHANGED <<clientVars, linkVars, regVars, via, on, timeout>>

\* The relay ends by itself: session.Close removes the session.
CloseSession(s) ==
  /\ open[s] = "opened" /\ s \in table[on[s]]
  /\ table' = [table EXCEPT ![on[s]] = @ \ {s}]
  /\ done' = [done EXCEPT ![s] = TRUE]
  /\ UNCHANGED <<clientVars, linkVars, regVars, openVars>>

-----------------------------------------------------------------------------
Client(c)  == BackoffElapses(c) \/ SetLink(c) \/ RunReturns(c) \/ DropLink(c)
Handler(l) == \/ Register(l) \/ ReplaceOld(l) \/ SweepOld(l)
              \/ ReadFails(l) \/ RunCloses(l) \/ Unregister(l)
Answered(s) == \E c \in Connectors : HandleOpenMessage(s, c)
Opener(s)  == \/ GiveUp(s) \/ GetLink(s) \/ AddSession(s)
              \/ WriteOpenOK(s) \/ WriteOpenFails(s)

\* Every connector holds its registered link and every open has been decided.
Settled ==
  /\ \A c \in Connectors : client[c] = "run" /\ links[c] = link[c]
  /\ \A s \in Sessions : open[s] \in {"opened", "failed"}
  /\ UNCHANGED vars

Next ==
  \/ \E c \in Connectors : Client(c) \/ DialOK(c) \/ DialFails(c)
  \/ \E l \in Links : Handler(l) \/ Break(l)
  \/ \E s \in Sessions : \/ Opener(s) \/ Start(s) \/ Answered(s) \/ NoResponders(s)
                         \/ TimeoutElapses(s) \/ Retry(s) \/ CloseSession(s)
  \/ CloseAll \/ CloseOne \/ Settled

Spec == Init /\ [][Next]_vars

\* Goroutines and timers run, and an edge that is up is reached by one of the
\* dials in the end; NATS need not answer and sessions need not be asked for.
FairSpec ==
  /\ Spec
  /\ \A c \in Connectors : WF_vars(Client(c)) /\ SF_vars(DialOK(c))
  /\ \A l \in Links : WF_vars(Handler(l))
  /\ \A s \in Sessions : WF_vars(Opener(s)) /\ WF_vars(TimeoutElapses(s))
  /\ WF_vars(CloseOne)

-----------------------------------------------------------------------------
(* Properties.                                                             *)

\* Every variable stays in the range the code gives it; the backoff is zero or
\* between its two bounds.
TypeOK ==
  /\ client \in [Connectors -> {"wait", "dial", "set", "run", "drop"}]
  /\ backoff \in [Connectors -> {0} \cup (BackoffMin .. BackoffMax)]
  /\ dialled \in [Connectors -> Links \cup {None}]
  /\ link \in [Connectors -> Links \cup {None}]
  /\ alive \in [Links -> BOOLEAN] /\ eClosed \in [Links -> BOOLEAN]
  /\ breaks \in 0..MaxBreaks
  /\ owner \in [Links -> Connectors \cup {None}]
  /\ table \in [Links -> SUBSET Sessions]
  /\ handler \in [Links -> {"none", "upgraded", "replace", "sweep", "run", "close",
                            "unregister", "gone"}]
  /\ old \in [Links -> Links \cup {None}]
  /\ links \in [Connectors -> Links \cup {None}]
  /\ edge \in {"up", "closing", "down"}
  /\ toClose \subseteq Links
  /\ open \in [Sessions -> {"idle", "ask", "retry", "accepted", "add", "write",
                            "opened", "failed"}]
  /\ via \in [Sessions -> Connectors \cup {None}]
  /\ on \in [Sessions -> Links \cup {None}]
  /\ timeout \in [Sessions -> BOOLEAN]
  /\ done \in [Sessions -> BOOLEAN]

\* The registry never keeps a link whose handler has returned: whatever the
\* order of a connector's reconnects and of the handlers of its old links, the
\* entry belongs to a handler that will still unregister it.
RegistryLive ==
  \A c \in Connectors : links[c] # None =>
    /\ owner[links[c]] = c
    /\ handler[links[c]] \in {"replace", "sweep", "run", "close", "unregister"}

\* A session that openDataSession handed to a relay is told when its link is
\* torn down, also when the open raced Link.Close: the relay never waits on a
\* link nobody reads.
NoOrphan ==
  \A s \in Sessions : open[s] = "opened" /\ handler[on[s]] = "gone" => done[s]

\* What the locals of the handlers and of the openers refer to.
RefsKnown ==
  /\ \A l \in Links : handler[l] # "none" => owner[l] \in Connectors
  /\ \A l \in Links : handler[l] \in {"replace", "sweep"} => old[l] \in Links
  /\ \A s \in Sessions : open[s] = "accepted" => via[s] \in Connectors
  /\ \A s \in Sessions : open[s] \in {"add", "write", "opened"} => on[s] \in Links

\* Link.Close closes the connection before it sweeps the table, so an open that
\* comes after the sweep cannot write its frame.
ClosedFirst ==
  \A l \in Links : handler[l] \in {"close", "unregister", "gone"} => eClosed[l]

\* A session stays in its link's table until it is marked done, and none that
\* was handed out survives the sweep of the handler that is returning.
Held ==
  /\ \A s \in Sessions : open[s] \in {"write", "opened"} => done[s] \/ s \in table[on[s]]
  /\ \A s \in Sessions : open[s] = "opened" /\ handler[on[s]] \in {"unregister", "gone"}
                            => done[s]

\* The registry and the session tables, as an inductive invariant.
LinkInv == TypeOK /\ RegistryLive /\ RefsKnown /\ ClosedFirst /\ Held

\* A connector whose links break, or whose healthy link is replaced by the late
\* registration of an older one, ends up with a live link that the edge knows, unless
\* the edge shuts down.
Converges ==
  \A c \in Connectors :
    <>[](edge # "up" \/ (link[c] # None /\ alive[link[c]] /\ links[c] = link[c]))

\* Every open is decided: NATS silence, rejections and dropped tunnels end at
\* the route timeout at the latest.
OpenSettles ==
  \A s \in Sessions : open[s] = "ask" ~> open[s] \in {"opened", "failed"}
=============================================================================
