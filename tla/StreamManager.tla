---------------------------- MODULE StreamManager ----------------------------
(***************************************************************************)
(* The goroutine that keeps the collector's WebSocket open, of             *)
(* internal/collector/stream/manager.go, and the connection it shares with *)
(* Stop (conn.go).  Dialing, storing the new socket under the lock and     *)
(* reading are steps of their own: Stop, which cancels the context first   *)
(* and closes the connection second, can come between any two.             *)
(*                                                                         *)
(* Abstractions.  Messages are not told apart.  Back-off is a step without *)
(* duration, and the 60 s read deadline an error of a socket that receives *)
(* nothing.  The watchdog is left out: nothing calls UpdateMessageTime, so *)
(* every age it reads is zero and it never acts.  So is disconnectedCh,    *)
(* which nothing receives from and no send waits on.                       *)
(***************************************************************************)
EXTENDS Integers, FiniteSets

CONSTANTS
    MaxSockets,   \* bound of the model: sockets that exist at a time
    MaxFailures   \* bound of the model: dials, sockets and subscriptions that fail

ASSUME StreamAssumption == MaxFailures \in Nat /\ MaxSockets \in Nat /\ MaxSockets >= MaxFailures + 2

VARIABLES
    pc,           \* where run stands
    conn,         \* WSConn.conn; 0 when nil
    dialed,       \* a socket DialContext returned and Connect has not stored
    reading,      \* the socket ReadMessage waits on
    open,         \* sockets this process has not closed
    broken,       \* those of them that are dead
    asked,        \* those the subscription was sent on
    served,       \* those whose subscription the exchange accepted
    stop,         \* how far Stop is
    failures,     \* of the network, so far
    episodes      \* observed: calls of waitRetry

socket == <<conn, open, broken, asked, served>>
vars == <<pc, dialed, reading, socket, stop, failures, episodes>>

Sockets == 1..MaxSockets
Nil == 0

Fails == failures < MaxFailures /\ failures' = failures + 1

-----------------------------------------------------------------------------
\* WSConn.Close: also when another goroutine waits on the socket.
\* Mutant: conn is not set to nil.
CloseKeepsConn ==
    /\ UNCHANGED conn
    /\ open' = open \ {conn} /\ broken' = broken \ {conn}
    /\ asked' = asked \ {conn} /\ served' = served \ {conn}
\* Mutant: the socket is forgotten and not closed.
CloseForgets == conn' = Nil /\ UNCHANGED <<open, broken, asked, served>>
Close ==
    /\ conn' = Nil
    /\ open' = open \ {conn} /\ broken' = broken \ {conn}
    /\ asked' = asked \ {conn} /\ served' = served \ {conn}

\* The head of run's loop.
Check ==
    /\ pc = "top"
    /\ pc' = IF stop = "no" THEN "dial" ELSE "ended"
    /\ UNCHANGED <<dialed, reading, socket, stop, failures, episodes>>

(***************************************************************************)
(* Connect, called by run ("dial") and by waitRetry ("redial").  A         *)
(* cancelled context fails the dial.                                       *)
(***************************************************************************)
Dial(s) ==
    /\ pc \in {"dial", "redial"}
    /\ stop = "no"
    /\ s \notin open
    /\ open' = open \cup {s}
    /\ dialed' = s
    /\ pc' = IF pc = "dial" THEN "store" ELSE "restore"
    /\ UNCHANGED <<reading, conn, broken, asked, served, stop, failures, episodes>>

DialFails ==
    /\ pc \in {"dial", "redial"}
    /\ IF stop = "no" THEN Fails ELSE UNCHANGED failures
    /\ episodes' = IF pc = "dial" THEN episodes + 1 ELSE episodes
    /\ pc' = "retry"
    /\ UNCHANGED <<dialed, reading, socket, stop>>

\* The new socket replaces whatever conn was.  waitRetry returns to the head of the
\* loop, which dials once more: the socket it stored is replaced and not closed.
\* Mutant: waitRetry goes on to reading.
StoreAndRead ==
    /\ pc \in {"store", "restore"}
    /\ conn' = dialed
    /\ dialed' = Nil
    /\ pc' = IF pc = "store" THEN "subscribe" ELSE "check"
    /\ UNCHANGED <<reading, open, broken, asked, served, stop, failures, episodes>>
Store ==
    /\ pc \in {"store", "restore"}
    /\ conn' = dialed
    /\ dialed' = Nil
    /\ pc' = IF pc = "store" THEN "subscribe" ELSE "top"
    /\ UNCHANGED <<reading, open, broken, asked, served, stop, failures, episodes>>

\* waitRetry's select: the context, or the back-off's end.
\* Mutant: the context is not looked at.
RetryUncancelled ==
    /\ pc = "retry"
    /\ pc' = "redial"
    /\ Close
    /\ UNCHANGED <<dialed, reading, stop, failures, episodes>>
\* Mutant: the first dial that fails ends the goroutine.
RetryNever ==
    /\ pc = "retry"
    /\ pc' = "ended"
    /\ UNCHANGED <<dialed, reading, socket, stop, failures, episodes>>
Retry ==
    /\ pc = "retry"
    /\ IF stop = "no" THEN pc' = "redial" /\ Close
                      ELSE pc' = "ended" /\ UNCHANGED socket
    /\ UNCHANGED <<dialed, reading, stop, failures, episodes>>

-----------------------------------------------------------------------------
(***************************************************************************)
(* Subscribe: a message written to the socket.  Its error closes the       *)
(* connection and run dials again at once; the exchange's answer is not    *)
(* looked at.                                                              *)
(***************************************************************************)
SubscribeFails ==
    /\ pc = "subscribe"
    /\ conn \in broken \cup {Nil}
    /\ Close
    /\ pc' = "top"
    /\ UNCHANGED <<dialed, reading, stop, failures, episodes>>

\* A write to a socket that is dead can succeed as well.
Subscribe ==
    /\ pc = "subscribe"
    /\ conn # Nil
    /\ asked' = asked \cup {conn}
    /\ \/ served' = served \cup {conn} /\ UNCHANGED failures
       \/ Fails /\ UNCHANGED served
    /\ pc' = "check"
    /\ UNCHANGED <<dialed, reading, conn, open, broken, stop, episodes>>

(***************************************************************************)
(* readLoop.                                                               *)
(***************************************************************************)
Alive(s) == s \in served \ broken

CheckRead ==
    /\ pc = "check"
    /\ IF stop = "no" THEN pc' = "read" /\ reading' = conn
                      ELSE pc' = "top" /\ UNCHANGED reading
    /\ UNCHANGED <<dialed, socket, stop, failures, episodes>>

Receive ==
    /\ pc = "read"
    /\ Alive(reading)
    /\ pc' = "check"
    /\ reading' = Nil
    /\ UNCHANGED <<dialed, socket, stop, failures, episodes>>

\* The socket was closed, is dead or stays silent, or the handler panics.
ReadFails ==
    /\ pc = "read"
    /\ IF Alive(reading) THEN Fails ELSE UNCHANGED failures
    /\ Close
    /\ reading' = Nil
    /\ pc' = "top"
    /\ UNCHANGED <<dialed, stop, episodes>>

-----------------------------------------------------------------------------
(***************************************************************************)
(* Stop, the network, and the finalizer that closes a socket nothing       *)
(* refers to.                                                              *)
(***************************************************************************)
Cancel ==
    /\ stop = "no"
    /\ stop' = "cancelled"
    /\ UNCHANGED <<pc, dialed, reading, socket, failures, episodes>>

CloseStopped ==
    /\ stop = "cancelled"
    /\ stop' = "done"
    /\ Close
    /\ UNCHANGED <<pc, dialed, reading, failures, episodes>>

Break(s) ==
    /\ s \in open \ broken
    /\ Fails
    /\ broken' = broken \cup {s}
    /\ UNCHANGED <<pc, dialed, reading, conn, open, asked, served, stop, episodes>>

Finalize(s) ==
    /\ s \in open \ {conn, dialed, reading}
    /\ open' = open \ {s} /\ broken' = broken \ {s}
    /\ asked' = asked \ {s} /\ served' = served \ {s}
    /\ UNCHANGED <<pc, dialed, reading, conn, stop, failures, episodes>>

-----------------------------------------------------------------------------
\* Start has just let run go.
Init ==
    /\ pc = "top"
    /\ conn = Nil /\ dialed = Nil /\ reading = Nil
    /\ open = {} /\ broken = {} /\ asked = {} /\ served = {}
    /\ stop = "no"
    /\ failures = 0 /\ episodes = 0

Run ==
    \/ Check
    \/ \E s \in Sockets : Dial(s)
    \/ DialFails
    \/ Store
    \/ Retry
    \/ Subscribe
    \/ SubscribeFails
    \/ CheckRead
    \/ Receive
    \/ ReadFails

Next ==
    \/ Run
    \/ Cancel
    \/ CloseStopped
    \/ \E s \in Sockets : Break(s) \/ Finalize(s)

Spec == Init /\ [][Next]_vars

\* The goroutine is scheduled, Stop ends, and the network does not fail for ever.
FairSpec == Spec /\ WF_vars(Run) /\ WF_vars(CloseStopped)

-----------------------------------------------------------------------------
(***************************************************************************)
(* Properties.                                                             *)
(***************************************************************************)

\* Every variable has its type; a stored socket is an open one.
TypeOK ==
    /\ pc \in {"top", "dial", "store", "retry", "redial", "restore", "subscribe", "check",
               "read", "ended"}
    /\ open \subseteq Sockets
    /\ {conn, dialed} \subseteq open \cup {Nil} /\ reading \in Sockets \cup {Nil}
    /\ broken \subseteq open /\ asked \subseteq open /\ served \subseteq asked
    /\ stop \in {"no", "cancelled", "done"}
    /\ failures \in 0..MaxFailures /\ episodes \in Nat

\* A socket that is read, and that Stop has not closed, is the stored one and was
\* subscribed on, although run can dial twice before it reads.
ReadsSubscribed == reading \in open => reading = conn /\ reading \in asked

\* Sockets left open beside the stored one come from waitRetry, one from each call.
LeaksBounded == Cardinality(open \ {conn, dialed}) <= episodes

\* Unless stopped, the stream receives again, whatever failed.
StreamRecovers == []<>(stop # "no" \/ (pc = "read" /\ Alive(reading)))

\* After Stop the goroutine ends, wherever it was: in a dial, a back-off or a read.
StopEnds == stop # "no" ~> pc = "ended"
=============================================================================
