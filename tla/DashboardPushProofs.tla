-------------------------- MODULE DashboardPushProofs --------------------------
(***************************************************************************)
(* Proofs about DashboardPush, for any number of sockets and of broken     *)
(* connections: the types, and the bound on the sockets of a page.         *)
(*                                                                         *)
(* The bound is on all sockets; what is inductive is the count of those    *)
(* beside the one the page's variable holds, and that no more of them were *)
(* made than connections were closed.                                      *)
(***************************************************************************)
EXTENDS DashboardPush, FiniteSetTheorems, TLAPS

USE PushAssumption

\* The page's variable holds a socket that is not closed, and lets go of one before
\* it fails.
HeldInv == wsInstance # None => wsInstance \in Live /\ ready[wsInstance] # "failing"

\* The others are those it let go of.
OthersInv == Cardinality(Live \ {wsInstance}) <= overlaps

\* One that closes can be let go of once.
ClosingInv ==
    overlaps + (IF wsInstance # None /\ ready[wsInstance] = "closing" THEN 1 ELSE 0) <= drops

AliveInv == mounted => Live # {} \/ timers > 0

PushInv == TypeOK /\ HeldInv /\ OthersInv /\ ClosingInv /\ AliveInv

-----------------------------------------------------------------------------
LEMMA LiveIsFinite ==
    /\ IsFiniteSet(Live) /\ Cardinality(Live) \in Nat
    /\ \A x : Cardinality(Live \ {x}) \in Nat /\ IsFiniteSet(Live \ {x})
<1>1. Live \subseteq Sockets
  BY DEF Live
<1>2. IsFiniteSet(Live)
  BY <1>1, FS_Subset
<1> QED BY <1>2, FS_RemoveElement, FS_CardinalityType

\* Without one of its elements, or something else, the set is smaller by one at most.
LEMMA OneLess ==
    ASSUME NEW x
    PROVE  /\ Cardinality(Live) \in Nat /\ Cardinality(Live \ {x}) \in Nat
           /\ Cardinality(Live) <= Cardinality(Live \ {x}) + 1
           /\ x \in Live => Cardinality(Live) = Cardinality(Live \ {x}) + 1
<1>1. Cardinality(Live \ {x}) = IF x \in Live THEN Cardinality(Live) - 1 ELSE Cardinality(Live)
  BY LiveIsFinite, FS_RemoveElement
<1>2. Cardinality(Live) \in Nat /\ Cardinality(Live \ {x}) \in Nat
  BY LiveIsFinite
<1> QED BY <1>1, <1>2

LEMMA InitPush == Init => PushInv
<1> SUFFICES ASSUME Init PROVE PushInv
  OBVIOUS
<1> USE DEF Init
<1>1. Live = {}
  BY DEF Live
<1>2. TypeOK
  <2>1. ready \in [Sockets -> {"new", "connecting", "open", "closing", "failing", "closed"}]
    OBVIOUS
  <2>2. drops \in 0..MaxDrops /\ overlaps \in 0..drops /\ timers \in Nat
    OBVIOUS
  <2> QED BY <1>1, <2>1, <2>2 DEF TypeOK
<1>3. OthersInv
  BY <1>1, FS_EmptySet DEF OthersInv
<1> QED BY <1>1, <1>2, <1>3 DEF PushInv, HeldInv, ClosingInv, AliveInv

\* What a step that leaves the page alone has to keep.
LEMMA ServerStep ==
    ASSUME PushInv, UNCHANGED <<page, drops>>, TypeOK' PROVE PushInv'
<1>1. UNCHANGED Live
  BY DEF Live, page
<1> QED BY <1>1 DEF PushInv, HeldInv, OthersInv, ClosingInv, AliveInv, page

-----------------------------------------------------------------------------
(***************************************************************************)
(* connect: a mount or a time-out.                                         *)
(***************************************************************************)
LEMMA ConnectKeeps ==
    ASSUME PushInv, connect, timers' \in Nat, mounted' \in BOOLEAN,
           UNCHANGED <<clients, link, iteration, heard>>
    PROVE  PushInv'
<1> USE DEF iteration
<1>1. CASE Connected
  <2>1. UNCHANGED <<wsInstance, ready, overlaps, drops>>
    BY <1>1 DEF connect
  <2>2. UNCHANGED Live /\ Live # {}
    BY <1>1, <2>1 DEF Live, Connected, PushInv, HeldInv
  <2>3. TypeOK'
    BY <2>1, <2>2 DEF PushInv, TypeOK
  <2> QED BY <2>1, <2>2, <2>3 DEF PushInv, HeldInv, OthersInv, ClosingInv, AliveInv
<1>2. CASE ~Connected
  <2> DEFINE closing == wsInstance # None /\ ready[wsInstance] = "closing"
  <2>1. PICK s \in Fresh :
            /\ wsInstance' = s
            /\ ready' = [ready EXCEPT ![s] = "connecting"]
            /\ overlaps' = IF closing THEN overlaps + 1 ELSE overlaps
            /\ drops' = drops \/ (drops < MaxDrops /\ drops' = drops + 1)
    BY <1>2 DEF connect, Drop
  <2>2. s \in Sockets /\ s \notin Live /\ Live' = Live \cup {s}
    BY <2>1 DEF Fresh, Live, PushInv, TypeOK
  <2>3. wsInstance # None => closing /\ wsInstance \in Live
    BY <1>2 DEF PushInv, HeldInv, Live, Connected
  <2>4. /\ overlaps \in Nat /\ drops \in Nat
        /\ drops' \in Nat /\ drops' <= MaxDrops /\ drops <= drops'
    BY <2>1 DEF PushInv, TypeOK
  <2>5. ready'[s] = "connecting" /\ s # None
    BY <2>1, <2>2 DEF PushInv, TypeOK
  <2>6. HeldInv' /\ AliveInv'
    BY <2>1, <2>2, <2>5 DEF HeldInv, AliveInv
  <2>7. overlaps' <= drops' /\ overlaps' \in Nat /\ ClosingInv'
    BY <2>1, <2>4, <2>5 DEF PushInv, ClosingInv
  <2>8. OthersInv'
    <3>1. Live' \ {s} = Live
      BY <2>2
    <3>2. CASE closing
      <4>1. Cardinality(Live \ {wsInstance}) = Cardinality(Live) - 1
        BY <2>3, <3>2, LiveIsFinite, FS_RemoveElement
      <4>2. wsInstance' = s /\ overlaps' = overlaps + 1
        BY <2>1, <3>2
      <4>3. Cardinality(Live) - 1 <= overlaps /\ Cardinality(Live) \in Nat
        BY <4>1, LiveIsFinite DEF OthersInv, PushInv
      <4> QED BY ONLY <2>4, <3>1, <4>2, <4>3 DEF OthersInv
    <3>3. CASE ~closing
      <4>1. wsInstance = None /\ Live \ {wsInstance} = Live
        BY <2>3, <3>3 DEF Live
      <4> QED BY <2>1, <3>1, <3>3, <4>1 DEF OthersInv, PushInv
    <3> QED BY <3>2, <3>3
  <2>9. TypeOK'
    <3>1. ready' \in [Sockets -> {"new", "connecting", "open", "closing", "failing", "closed"}]
      BY <2>1, <2>2 DEF PushInv, TypeOK
    <3> QED BY <2>1, <2>2, <2>4, <2>7, <3>1 DEF PushInv, TypeOK
  <2> QED BY <2>6, <2>7, <2>8, <2>9 DEF PushInv
<1> QED BY <1>1, <1>2

-----------------------------------------------------------------------------
(***************************************************************************)
(* onclose: the variable is empty, and the socket's place is given back.   *)
(***************************************************************************)
LEMMA OncloseKeeps ==
    ASSUME PushInv, NEW s \in Live, Onclose(s), Live' = Live \ {s}, TypeOK',
           UNCHANGED <<mounted, overlaps>>, drops' \in {drops, drops + 1}
    PROVE  PushInv'
<1>1. wsInstance' = None /\ timers' = timers + 1
  BY DEF Onclose
<1>2. timers \in Nat /\ overlaps \in Nat /\ drops \in Nat
  BY DEF PushInv, TypeOK
<1>3. HeldInv' /\ AliveInv'
  BY <1>1, <1>2 DEF HeldInv, AliveInv
<1>4. overlaps <= drops
  BY DEF PushInv, TypeOK
<1>5. ClosingInv'
  BY <1>1, <1>2, <1>4 DEF ClosingInv
<1>6. OthersInv'
  <2>1. Live' \ {None} = Live \ {s}
    BY DEF Live
  <2> DEFINE n == Cardinality(Live)
             k == Cardinality(Live \ {s})
             m == Cardinality(Live \ {wsInstance})
  <2>2. n \in Nat /\ k \in Nat /\ n = k + 1
    BY OneLess
  <2>3. m \in Nat /\ n <= m + 1
    BY OneLess
  <2>4. m <= overlaps
    BY DEF PushInv, OthersInv
  <2>5. k <= overlaps
    <3> HIDE DEF n, k, m
    <3> QED BY <1>2, <2>2, <2>3, <2>4
  <2> QED BY <1>1, <2>1, <2>5 DEF OthersInv
<1> QED BY <1>3, <1>5, <1>6 DEF PushInv

\* An error closes its own socket and leaves the one of the variable to be closed.
LEMMA ErroredCloses ==
    ASSUME PushInv, NEW s \in Live, ready' = Errored(s)
    PROVE  /\ Live' = Live \ {s}
           /\ ready' \in [Sockets -> {"new", "connecting", "open", "closing", "failing", "closed"}]
<1>1. s \in Sockets /\ (wsInstance # None => wsInstance \in Live)
  BY DEF Live, PushInv, HeldInv
<1>2. ready \in [Sockets -> {"new", "connecting", "open", "closing", "failing", "closed"}]
  BY DEF PushInv, TypeOK
<1>3. ready' \in [Sockets -> {"new", "connecting", "open", "closing", "failing", "closed"}]
  BY <1>2 DEF Errored
<1>4. ASSUME NEW t \in Sockets PROVE t \in Live' <=> t \in Live /\ t # s
  BY <1>1, <1>2, <1>4 DEF Errored, Live
<1> QED BY <1>1, <1>3, <1>4 DEF Live

LEMMA ClosedKeeps ==
    ASSUME PushInv, NEW s \in Sockets, Closed(s) PROVE PushInv'
<1> USE DEF Closed, iteration
<1>1. s \in Live
  BY DEF Live
<1>2. /\ Live' = Live \ {s}
      /\ ready' \in [Sockets -> {"new", "connecting", "open", "closing", "failing", "closed"}]
  <2>1. CASE ready[s] = "failing"
    BY <1>1, <2>1, ErroredCloses
  <2>2. CASE ready[s] # "failing"
    BY <1>1, <2>2 DEF Live, PushInv, TypeOK
  <2> QED BY <2>1, <2>2
<1>3. timers' \in Nat /\ wsInstance' = None /\ heard' \in BOOLEAN /\ link' \subseteq Live'
  <2>1. heard' \in BOOLEAN
    BY Zenon DEF PushInv, TypeOK
  <2> QED BY <1>2, <2>1 DEF PushInv, TypeOK, Onclose
<1>4. TypeOK'
  BY <1>2, <1>3 DEF PushInv, TypeOK
<1> QED BY <1>1, <1>2, <1>4, OncloseKeeps

LEMMA FailKeeps ==
    ASSUME PushInv, NEW s \in Sockets, Fail(s) PROVE PushInv'
<1> USE DEF Fail, Drop, iteration
<1>1. s \in Live
  BY DEF Live
<1>2. /\ Live' = Live \ {s}
      /\ ready' \in [Sockets -> {"new", "connecting", "open", "closing", "failing", "closed"}]
  BY <1>1, ErroredCloses
<1>3. /\ timers' \in Nat /\ drops' \in 0..MaxDrops /\ overlaps' \in 0..drops'
      /\ wsInstance' = None /\ link' \subseteq Live'
  BY <1>2 DEF PushInv, TypeOK, Onclose
<1>4. TypeOK'
  BY <1>2, <1>3 DEF PushInv, TypeOK
<1> QED BY <1>1, <1>2, <1>4, OncloseKeeps

-----------------------------------------------------------------------------
(***************************************************************************)
(* A socket opens, or the server closes it.                                *)
(***************************************************************************)
LEMMA AcceptKeeps ==
    ASSUME PushInv, NEW s \in Sockets, Accept(s) PROVE PushInv'
<1> USE DEF Accept, iteration
<1>1. Live' = Live /\ s \in Live
  BY DEF Live, PushInv, TypeOK
<1>2. TypeOK'
  BY <1>1 DEF PushInv, TypeOK
<1>3. wsInstance # None => (ready'[wsInstance] = "closing" <=> ready[wsInstance] = "closing")
  BY DEF PushInv, TypeOK
<1> QED BY <1>1, <1>2, <1>3 DEF PushInv, HeldInv, OthersInv, ClosingInv, AliveInv

LEMMA CloseKeeps ==
    ASSUME PushInv, NEW s \in Sockets, Close(s) PROVE PushInv'
<1> USE DEF Close, Drop, iteration
<1>1. Live' = Live
  BY DEF Live, PushInv, TypeOK
<1>2. TypeOK'
  <2>1. ready' \in [Sockets -> {"new", "connecting", "open", "closing", "failing", "closed"}]
    BY DEF PushInv, TypeOK
  <2>2. drops' \in 0..MaxDrops /\ overlaps' \in 0..drops' /\ link' \subseteq Live'
    BY <1>1 DEF PushInv, TypeOK
  <2> QED BY <2>1, <2>2 DEF PushInv, TypeOK
<1>3. overlaps \in Nat /\ drops \in Nat /\ overlaps <= drops
  BY DEF PushInv, TypeOK
<1>4. ClosingInv'
  BY <1>3 DEF ClosingInv
<1> QED BY <1>1, <1>2, <1>4 DEF PushInv, HeldInv, OthersInv, AliveInv

-----------------------------------------------------------------------------
(***************************************************************************)
(* The server's own steps.                                                 *)
(***************************************************************************)
LEMMA RoundKeeps ==
    ASSUME PushInv,
           Begin \/ Changed \/ End \/ (\E s \in Sockets : Visit(s) \/ disconnect(s))
                 \/ \E raised \in BOOLEAN : Sent(raised)
    PROVE  PushInv'
<1> USE DEF page, iteration
<1>1. UNCHANGED <<page, drops, link>> /\ UNCHANGED Live
  BY DEF Begin, Changed, End, Visit, disconnect, Sent, Live
<1>2. TypeOK'
  <2> USE DEF PushInv, TypeOK
  <2>1. CASE Begin
    BY <1>1, <2>1 DEF Begin
  <2>2. CASE Changed
    BY <1>1, <2>2 DEF Changed, Over
  <2>3. CASE End
    BY <1>1, <2>3 DEF End, Over
  <2>4. ASSUME NEW s \in Sockets, Visit(s) PROVE TypeOK'
    BY <1>1, <2>4 DEF Visit
  <2>5. ASSUME NEW s \in Sockets, disconnect(s) PROVE TypeOK'
    BY <1>1, <2>5 DEF disconnect
  <2>6. ASSUME NEW raised \in BOOLEAN, Sent(raised) PROVE TypeOK'
    <3>1. heard' \in BOOLEAN
      BY <2>6, Zenon DEF Sent
    <3>2. stale' \subseteq visited /\ sending' = None
      BY <2>6 DEF Sent
    <3> QED BY <1>1, <2>6, <3>1, <3>2 DEF Sent
  <2> QED BY <2>1, <2>2, <2>3, <2>4, <2>5, <2>6
<1> QED BY <1>1, <1>2, ServerStep

LEMMA NextPush == PushInv /\ [Next]_vars => PushInv'
<1> SUFFICES ASSUME PushInv, [Next]_vars PROVE PushInv'
  OBVIOUS
<1>1. CASE Mount
  <2>1. timers \in Nat
    BY DEF PushInv, TypeOK
  <2> QED BY <1>1, <2>1, ConnectKeeps DEF Mount
<1>2. CASE Timeout
  <2>1. timers' \in Nat /\ mounted \in BOOLEAN
    BY <1>2 DEF PushInv, TypeOK, Timeout
  <2> QED BY <1>2, <2>1, ConnectKeeps DEF Timeout
<1>3. CASE Round
  BY <1>3, RoundKeeps DEF Round
<1>4. ASSUME NEW s \in Sockets, Closed(s) \/ Fail(s) \/ Accept(s) \/ Close(s) \/ disconnect(s)
      PROVE  PushInv'
  BY <1>4, ClosedKeeps, FailKeeps, AcceptKeeps, CloseKeeps, RoundKeeps
<1>5. CASE UNCHANGED vars
  <2>1. TypeOK'
    BY <1>5 DEF PushInv, TypeOK, vars, page, iteration, Live
  <2> QED BY <1>5, <2>1, ServerStep DEF vars
<1> QED BY <1>1, <1>2, <1>3, <1>4, <1>5 DEF Next

-----------------------------------------------------------------------------
\* The counts of sockets let go of hold in every state.
THEOREM PushInductive == Spec => []PushInv
<1> QED BY InitPush, NextPush, PTL DEF Spec

\* Every variable of the push keeps its type; a connection that works is of a socket
\* the page has not seen closed, and of pages' overlaps there are at most as many as
\* connections that broke.
THEOREM PushTypes == Spec => []TypeOK
<1>1. PushInv => TypeOK
  BY DEF PushInv
<1> QED BY <1>1, PushInductive, PTL

\* Whatever closes in whatever order, a page has one socket and one more for each that
\* was made while the last was closing, and a mounted page one or a time-out to make it.
THEOREM PageSocketsBounded == Spec => []SocketsBounded
<1>1. PushInv => SocketsBounded
  <2> SUFFICES ASSUME PushInv PROVE SocketsBounded
    OBVIOUS
  <2> DEFINE n == Cardinality(Live)
             m == Cardinality(Live \ {wsInstance})
  <2>1. n \in Nat /\ m \in Nat /\ n <= m + 1
    BY OneLess
  <2>2. m <= overlaps /\ overlaps \in Nat
    BY DEF PushInv, OthersInv, TypeOK
  <2>3. n <= 1 + overlaps
    <3> HIDE DEF n, m
    <3> QED BY <2>1, <2>2
  <2> QED BY <2>3 DEF PushInv, AliveInv, SocketsBounded
<1> QED BY <1>1, PushInductive, PTL
=============================================================================
