----------------------------- MODULE DashboardPush -----------------------------
(***************************************************************************)
(* The push of snapshots to the dashboard: the ConnectionManager and the   *)
(* broadcast loop of api/routers/ws.py, and the one socket a page keeps    *)
(* (web/src/hooks/useWebSocket.ts).  The server's coroutines interleave at *)
(* their awaits; the page's handlers are tasks of the browser's loop and   *)
(* all write one module variable.                                          *)
(*                                                                         *)
(* Abstractions.  One page.  The contents of the messages and the length   *)
(* of the back-off are left out; disconnect of the hook, which nothing     *)
(* calls, too.  A socket's name is used again once both sides forgot it.   *)
(***************************************************************************)
EXTENDS Naturals, FiniteSets

CONSTANTS
    Sockets,
    None,
    MaxDrops         \* bound of the model: connections that fail or are closed, and
                     \* sockets made while the error of another is still to come

ASSUME PushAssumption ==
    None \notin Sockets /\ IsFiniteSet(Sockets) /\ MaxDrops \in Nat

VARIABLES
    mounted,         \* a component has used the hook
    wsInstance,
    ready,           \* readyState, "new" before there is a socket; "failing" is a
                     \* CLOSING of one that never opened, which fires an error first
    timers,          \* armed time-outs: the variable holds only the last one's handle
    overlaps,        \* observed: sockets made while the page's last one was closing
    clients,         \* ConnectionManager.clients
    link,            \* the sockets whose connection works
    going, first, visited, stale, sending,   \* the iteration of broadcast
    heard,           \* observed: the page got this round's broadcast, and nothing broke since
    drops

page == <<mounted, wsInstance, ready, timers, overlaps>>
iteration == <<going, first, visited, stale, sending>>
vars == <<page, clients, link, iteration, heard, drops>>

Fresh == {s \in Sockets : ready[s] \in {"new", "closed"} /\ s \notin clients \cup visited \cup link}
Live == {s \in Sockets : ready[s] \in {"connecting", "open", "closing", "failing"}}

-----------------------------------------------------------------------------
(***************************************************************************)
(* The page.                                                               *)
(***************************************************************************)
\* Mutant: a socket that is still connecting is replaced.
ConnectedOpen == wsInstance # None /\ ready[wsInstance] = "open"
Connected == wsInstance # None /\ ready[wsInstance] \in {"open", "connecting"}

Drop == drops < MaxDrops /\ drops' = drops + 1

connect ==
    IF Connected THEN UNCHANGED <<wsInstance, ready, overlaps, drops>>
    ELSE \E s \in Fresh :
            /\ IF \E t \in Sockets : ready[t] = "failing" THEN Drop ELSE UNCHANGED drops
            /\ wsInstance' = s
            /\ ready' = [ready EXCEPT ![s] = "connecting"]
            /\ overlaps' = IF wsInstance # None /\ ready[wsInstance] = "closing" THEN overlaps + 1
                            ELSE overlaps

Mount ==
    /\ mounted' = TRUE
    /\ connect
    /\ UNCHANGED <<timers, clients, link, iteration, heard>>

Timeout ==
    /\ timers > 0
    /\ timers' = timers - 1
    /\ connect
    /\ UNCHANGED <<mounted, clients, link, iteration, heard>>

\* onclose clears the module's variable, whichever socket it holds by then.
\* Mutant: the time-out is armed only if the socket is still the page's.
OncloseOwn(s) == wsInstance' = None /\ timers' = IF wsInstance = s THEN timers + 1 ELSE timers
Onclose(s) == wsInstance' = None /\ timers' = timers + 1

\* onerror closes the socket the variable holds by then, which fails if it has not
\* opened yet.
Errored(s) ==
    [t \in Sockets |-> IF t = s THEN "closed"
                       ELSE IF t # wsInstance THEN ready[t]
                       ELSE IF ready[t] = "connecting" THEN "failing" ELSE "closing"]

\* Mutant: the connection is not released.
ClosedLinked(s) ==
    /\ ready[s] \in {"closing", "failing"}
    /\ ready' = IF ready[s] = "failing" THEN Errored(s) ELSE [ready EXCEPT ![s] = "closed"]
    /\ heard' = (heard /\ ready[s] = "closing")
    /\ Onclose(s)
    /\ UNCHANGED <<mounted, overlaps, clients, link, iteration, drops>>
Closed(s) ==
    /\ ready[s] \in {"closing", "failing"}
    /\ ready' = IF ready[s] = "failing" THEN Errored(s) ELSE [ready EXCEPT ![s] = "closed"]
    /\ heard' = (heard /\ ready[s] = "closing")
    /\ link' = link \ {s}
    /\ Onclose(s)
    /\ UNCHANGED <<mounted, overlaps, clients, iteration, drops>>

\* A connection that fails, or is refused: onerror, and onclose follows.
Fail(s) ==
    /\ Drop
    /\ ready[s] \in {"connecting", "open"}
    /\ ready' = Errored(s)
    /\ link' = link \ {s}
    /\ Onclose(s)
    /\ heard' = FALSE
    /\ UNCHANGED <<mounted, overlaps, clients, iteration>>

-----------------------------------------------------------------------------
(***************************************************************************)
(* The server.                                                             *)
(***************************************************************************)
\* ConnectionManager.connect, and onopen.
Accept(s) ==
    /\ ready[s] = "connecting"
    /\ ready' = [ready EXCEPT ![s] = "open"]
    /\ clients' = clients \cup {s} /\ link' = link \cup {s}
    /\ UNCHANGED <<mounted, wsInstance, timers, overlaps, iteration, heard, drops>>

\* The server closes a connection: the page's socket is closing before it is closed.
Close(s) ==
    /\ Drop
    /\ s \in link /\ ready[s] = "open"
    /\ ready' = [ready EXCEPT ![s] = "closing"]
    /\ clients' = clients \ {s}
    /\ heard' = FALSE
    /\ UNCHANGED <<mounted, wsInstance, timers, overlaps, link, iteration>>

\* The endpoint finds its connection gone, by a receive or at the next heartbeat.
disconnect(s) ==
    /\ s \in clients /\ (s \notin link \/ ready[s] = "closing")
    /\ clients' = clients \ {s}
    /\ UNCHANGED <<page, link, iteration, heard, drops>>

\* broadcast: the loop over the set awaits each send.
Begin ==
    /\ ~going /\ clients # {}
    /\ going' = TRUE /\ first' = clients /\ visited' = {} /\ stale' = {} /\ sending' = None
    /\ heard' = FALSE
    /\ UNCHANGED <<page, clients, link, drops>>

\* The set's iterator notices a change of its size and no other.
SameSize == Cardinality(clients) = Cardinality(first)

Visit(s) ==
    /\ going /\ sending = None /\ SameSize
    /\ s \in clients \ visited
    /\ sending' = s /\ visited' = visited \cup {s}
    /\ UNCHANGED <<page, clients, link, going, first, stale, heard, drops>>

\* A send on a broken connection raises, or is lost in a buffer.
Sent(raised) ==
    /\ sending # None
    /\ IF sending \in link
         THEN ~raised /\ heard' = (heard \/ ready[sending] = "open") /\ UNCHANGED stale
         ELSE /\ stale' = IF raised THEN stale \cup {sending} ELSE stale
              /\ UNCHANGED heard
    /\ sending' = None
    /\ UNCHANGED <<page, clients, link, going, first, visited, drops>>

Over == going' = FALSE /\ visited' = {} /\ stale' = {} /\ first' = {} /\ sending' = None

\* RuntimeError, which broadcast_loop ignores: the stale clients stay in the set.
Changed ==
    /\ going /\ sending = None /\ ~SameSize
    /\ Over
    /\ UNCHANGED <<page, clients, link, heard, drops>>

End ==
    /\ going /\ sending = None /\ SameSize
    /\ first \cap clients \subseteq visited
    /\ clients' = clients \ stale
    /\ Over
    /\ UNCHANGED <<page, link, heard, drops>>

-----------------------------------------------------------------------------
Init ==
    /\ mounted = FALSE /\ wsInstance = None
    /\ ready = [s \in Sockets |-> "new"]
    /\ timers = 0 /\ overlaps = 0
    /\ clients = {} /\ link = {}
    /\ going = FALSE /\ first = {} /\ visited = {} /\ stale = {} /\ sending = None
    /\ heard = FALSE /\ drops = 0

Round ==
    \/ Begin \/ Changed \/ End
    \/ \E s \in Sockets : Visit(s)
    \/ \E raised \in BOOLEAN : Sent(raised)

Next ==
    \/ Mount \/ Timeout
    \/ \E s \in Sockets : Closed(s) \/ Fail(s) \/ Accept(s) \/ Close(s) \/ disconnect(s)
    \/ Round

\* Time-outs fire, the server answers, a closing handshake ends, the heartbeat finds a
\* broken connection, and the broadcast loop goes on.  That a page mounts, and that a
\* connection breaks, is left to chance.
Fairness ==
    /\ WF_vars(Timeout) /\ WF_vars(Round)
    /\ \A s \in Sockets : WF_vars(Closed(s)) /\ WF_vars(Accept(s)) /\ WF_vars(disconnect(s))

Spec == Init /\ [][Next]_vars /\ Fairness

-----------------------------------------------------------------------------
(***************************************************************************)
(* Properties.                                                             *)
(***************************************************************************)

\* Every variable has its type.
TypeOK ==
    /\ mounted \in BOOLEAN /\ wsInstance \in Sockets \cup {None}
    /\ ready \in [Sockets -> {"new", "connecting", "open", "closing", "failing", "closed"}]
    /\ timers \in Nat /\ overlaps \in 0..drops /\ drops \in 0..MaxDrops
    /\ clients \subseteq Sockets /\ link \subseteq Live
    /\ going \in BOOLEAN /\ first \subseteq Sockets /\ visited \subseteq Sockets
    /\ stale \subseteq visited /\ sending \in visited \cup {None}
    /\ heard \in BOOLEAN

\* The page has one socket, and one more for each that was made while the last was
\* closing (a component that mounts at that moment): onclose of the old one then lets go
\* of the new, and every broadcast comes twice.  Once it has used the hook it has a
\* socket or a time-out that makes one, whatever closes in whatever order.
SocketsBounded ==
    /\ Cardinality(Live) <= 1 + overlaps
    /\ mounted => Live # {} \/ timers > 0

\* Once connections no longer break, a mounted page gets a broadcast again and again:
\* a connection that is lost is made again, and a client that left during an iteration,
\* or died, ends no more than that round.
KeepsHearing == <>mounted => []<>heard
=============================================================================
