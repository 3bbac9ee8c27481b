-------------------------- MODULE StreamManagerProofs --------------------------
(***************************************************************************)
(* Proofs about StreamManager, for any number of sockets and failures: the *)
(* types, that the socket being read is the one subscribed on, and the     *)
(* bound on sockets left open.                                             *)
(*                                                                         *)
(* A call of waitRetry connects and lets run connect once more, so the     *)
(* bound is not inductive: between the two, one socket is owed that is     *)
(* still stored.  LeakInv counts it before it is lost.                     *)
(***************************************************************************)
EXTENDS StreamManager, FiniteSetTheorems, TLAPS

USE StreamAssumption

\* What each place of the goroutine knows of the sockets.
ControlInv ==
    /\ dialed # Nil <=> pc \in {"store", "restore"}
    /\ dialed # Nil => dialed # conn
    /\ reading # Nil => pc = "read"
    /\ pc \in {"redial", "restore"} => conn = Nil
    /\ pc \in {"check", "read"} => conn \in asked \cup {Nil}
    /\ reading \in open => reading = conn /\ reading \in asked

Leaked == open \ {conn, dialed}

\* waitRetry was called, and the socket it makes is not replaced yet.
Owed ==
    \/ pc \in {"retry", "redial", "restore"}
    \/ conn # Nil /\ (pc \in {"dial", "store"} \/ (pc = "top" /\ stop = "no"))

LeakInv == Cardinality(Leaked) + (IF Owed THEN 1 ELSE 0) <= episodes

StreamInv == TypeOK /\ ControlInv /\ LeakInv

-----------------------------------------------------------------------------
LEMMA InitStream == Init => StreamInv
<1> SUFFICES ASSUME Init PROVE StreamInv
  OBVIOUS
<1> USE DEF Init, Nil
<1>1. TypeOK
  BY DEF TypeOK, Sockets
<1>2. ControlInv
  BY DEF ControlInv
<1>3. Leaked = {} /\ ~Owed
  BY DEF Leaked, Owed
<1>4. LeakInv
  BY <1>3, FS_EmptySet DEF LeakInv
<1> QED BY <1>1, <1>2, <1>4 DEF StreamInv

\* The disjuncts of a step.
LEMMA StepCases ==
    ASSUME [Next]_vars
    PROVE  \/ Check \/ DialFails \/ Store \/ Retry \/ Subscribe \/ SubscribeFails
           \/ CheckRead \/ Receive \/ ReadFails \/ Cancel \/ CloseStopped
           \/ \E s \in Sockets : Dial(s) \/ Break(s) \/ Finalize(s)
           \/ UNCHANGED vars
BY DEF Next, Run

-----------------------------------------------------------------------------
(***************************************************************************)
(* Types and control.                                                      *)
(***************************************************************************)
LEMMA NilIsNoSocket == Nil \notin Sockets
BY DEF Nil, Sockets

\* Closing the stored socket keeps what is left of it typed.
LEMMA CloseKeeps ==
    ASSUME TypeOK, ControlInv, Close
    PROVE  /\ conn' = Nil
           /\ open' \subseteq Sockets /\ dialed \in open' \cup {Nil}
           /\ broken' \subseteq open' /\ asked' \subseteq open' /\ served' \subseteq asked'
           /\ open' \subseteq open
           /\ reading \in open' => reading # conn
BY NilIsNoSocket DEF TypeOK, ControlInv, Close

LEMMA TypeStep == TypeOK /\ ControlInv /\ [Next]_vars => TypeOK'
<1> SUFFICES ASSUME TypeOK, ControlInv, [Next]_vars PROVE TypeOK'
  OBVIOUS
<1> USE DEF TypeOK, socket, vars
<1>1. CASE Check
  BY <1>1 DEF Check
<1>2. CASE DialFails
  BY <1>2 DEF DialFails, Fails
<1>3. CASE Store
  BY <1>3 DEF Store, ControlInv
<1>4. CASE Retry
  BY <1>4, CloseKeeps DEF Retry
<1>5. CASE Subscribe
  BY <1>5 DEF Subscribe, Fails
<1>6. CASE SubscribeFails
  BY <1>6, CloseKeeps DEF SubscribeFails
<1>7. CASE CheckRead
  BY <1>7 DEF CheckRead
<1>8. CASE Receive
  BY <1>8 DEF Receive
<1>9. CASE ReadFails
  BY <1>9, CloseKeeps DEF ReadFails, Fails
<1>10. CASE Cancel
  BY <1>10 DEF Cancel
<1>11. CASE CloseStopped
  BY <1>11, CloseKeeps DEF CloseStopped
<1>12. ASSUME NEW s \in Sockets, Dial(s) PROVE TypeOK'
  BY <1>12 DEF Dial
<1>13. ASSUME NEW s \in Sockets, Break(s) PROVE TypeOK'
  BY <1>13 DEF Break, Fails
<1>14. ASSUME NEW s \in Sockets, Finalize(s) PROVE TypeOK'
  BY <1>14 DEF Finalize
<1>15. CASE UNCHANGED vars
  BY <1>15
<1> QED BY <1>1, <1>2, <1>3, <1>4, <1>5, <1>6, <1>7, <1>8, <1>9, <1>10, <1>11, <1>12, <1>13,
           <1>14, <1>15, StepCases

LEMMA ControlStep == TypeOK /\ ControlInv /\ [Next]_vars => ControlInv'
<1> SUFFICES ASSUME TypeOK, ControlInv, [Next]_vars PROVE ControlInv'
  OBVIOUS
<1> USE NilIsNoSocket DEF ControlInv, socket, vars
<1>1. CASE Check
  BY <1>1 DEF Check
<1>2. CASE DialFails
  BY <1>2 DEF DialFails
<1>3. CASE Store
  BY <1>3 DEF Store, TypeOK
<1>4. CASE Retry
  BY <1>4, CloseKeeps DEF Retry
<1>5. CASE Subscribe
  BY <1>5 DEF Subscribe
<1>6. CASE SubscribeFails
  BY <1>6, CloseKeeps DEF SubscribeFails
<1>7. CASE CheckRead
  BY <1>7 DEF CheckRead, TypeOK
<1>8. CASE Receive
  BY <1>8 DEF Receive, TypeOK
<1>9. CASE ReadFails
  BY <1>9, CloseKeeps DEF ReadFails
<1>10. CASE Cancel
  BY <1>10 DEF Cancel
<1>11. CASE CloseStopped
  BY <1>11, CloseKeeps DEF CloseStopped
<1>12. ASSUME NEW s \in Sockets, Dial(s) PROVE ControlInv'
  BY <1>12 DEF Dial, TypeOK
<1>13. ASSUME NEW s \in Sockets, Break(s) PROVE ControlInv'
  BY <1>13 DEF Break
<1>14. ASSUME NEW s \in Sockets, Finalize(s) PROVE ControlInv'
  BY <1>14 DEF Finalize
<1>15. CASE UNCHANGED vars
  BY <1>15
<1> QED BY <1>1, <1>2, <1>3, <1>4, <1>5, <1>6, <1>7, <1>8, <1>9, <1>10, <1>11, <1>12, <1>13,
           <1>14, <1>15, StepCases

-----------------------------------------------------------------------------
(***************************************************************************)
(* Leaks.                                                                  *)
(***************************************************************************)
LEMMA LeakedIsFinite ==
    ASSUME TypeOK PROVE IsFiniteSet(Leaked) /\ Cardinality(Leaked) \in Nat
<1>1. IsFiniteSet(1..MaxSockets)
  BY FS_Interval
<1>2. Leaked \subseteq 1..MaxSockets
  BY DEF TypeOK, Leaked, Sockets
<1> QED BY <1>1, <1>2, FS_Subset, FS_CardinalityType

\* A step that leaks nothing, and owes a socket only if one was owed or a call begins.
LEMMA NoLeak ==
    ASSUME TypeOK, LeakInv, Leaked' \subseteq Leaked,
           episodes' \in {episodes, episodes + 1},
           Owed' => Owed \/ episodes' = episodes + 1
    PROVE  LeakInv'
<1>1. IsFiniteSet(Leaked) /\ Cardinality(Leaked) \in Nat
  BY LeakedIsFinite
<1>2. Cardinality(Leaked') <= Cardinality(Leaked) /\ Cardinality(Leaked') \in Nat
  BY <1>1, FS_Subset, FS_CardinalityType
<1>3. episodes \in Nat
  BY DEF TypeOK
<1> DEFINE K == Cardinality(Leaked)  K2 == Cardinality(Leaked')
<1>4. K + (IF Owed THEN 1 ELSE 0) <= episodes
  BY DEF LeakInv
<1>5. K2 + (IF Owed' THEN 1 ELSE 0) <= episodes'
  <2> HIDE DEF K, K2, Owed
  <2> QED BY <1>1, <1>2, <1>3, <1>4 DEF K, K2
<1> QED BY <1>5 DEF LeakInv

\* Storing the socket of run's own dial loses the one waitRetry stored: it was owed.
LEMMA StoreLeaks ==
    ASSUME TypeOK, ControlInv, LeakInv, Store PROVE LeakInv'
<1> USE DEF Store, Nil
<1>1. CASE conn = Nil
  <2>1. Leaked' \subseteq Leaked
    BY <1>1 DEF Leaked, TypeOK
  <2>2. Owed' => Owed
    BY <1>1 DEF Owed
  <2> QED BY <2>1, <2>2, NoLeak
<1>2. CASE conn # Nil
  <2>1. pc = "store" /\ Owed /\ ~Owed'
    BY <1>2 DEF Owed, ControlInv
  <2>2. Leaked' \subseteq Leaked \cup {conn} /\ conn \notin Leaked
    BY DEF Leaked
  <2>3. IsFiniteSet(Leaked) /\ Cardinality(Leaked) \in Nat
    BY LeakedIsFinite
  <2>4. IsFiniteSet(Leaked \cup {conn}) /\ Cardinality(Leaked \cup {conn}) = Cardinality(Leaked) + 1
    BY <2>2, <2>3, FS_AddElement
  <2>5. Cardinality(Leaked') <= Cardinality(Leaked) + 1 /\ Cardinality(Leaked') \in Nat
    BY <2>2, <2>4, FS_Subset, FS_CardinalityType
  <2>6. episodes' = episodes /\ episodes \in Nat
    BY DEF TypeOK
  <2> QED BY <2>1, <2>3, <2>5, <2>6 DEF LeakInv
<1> QED BY <1>1, <1>2

LEMMA CloseLeaks ==
    ASSUME TypeOK, Close, UNCHANGED dialed PROVE Leaked' \subseteq Leaked
BY DEF Leaked, Close

LEMMA LeakStep == StreamInv /\ [Next]_vars => LeakInv'
<1> SUFFICES ASSUME TypeOK, ControlInv, LeakInv, [Next]_vars PROVE LeakInv'
  BY DEF StreamInv
<1> USE DEF Owed, socket, vars, Nil
<1>1. CASE Check
  <2>1. Leaked' = Leaked
    BY <1>1 DEF Check, Leaked
  <2> QED BY <1>1, <2>1, NoLeak DEF Check
<1>2. CASE DialFails
  <2>1. Leaked' = Leaked
    BY <1>2 DEF DialFails, Leaked
  <2>2. episodes' = IF pc = "dial" THEN episodes + 1 ELSE episodes
    BY <1>2 DEF DialFails
  <2>3. pc \in {"dial", "redial"}
    BY <1>2 DEF DialFails
  <2> QED BY <2>1, <2>2, <2>3, NoLeak
<1>3. CASE Store
  BY <1>3, StoreLeaks
<1>4. CASE Retry
  <2>1. Leaked' \subseteq Leaked
    BY <1>4, CloseLeaks DEF Retry, Leaked
  <2> QED BY <1>4, <2>1, NoLeak DEF Retry
<1>5. CASE Subscribe
  <2>1. Leaked' = Leaked
    BY <1>5 DEF Subscribe, Leaked
  <2> QED BY <1>5, <2>1, NoLeak DEF Subscribe
<1>6. CASE SubscribeFails
  <2>1. Leaked' \subseteq Leaked
    BY <1>6, CloseLeaks DEF SubscribeFails
  <2> QED BY <1>6, <2>1, NoLeak DEF SubscribeFails, Close
<1>7. CASE CheckRead
  <2>1. Leaked' = Leaked
    BY <1>7 DEF CheckRead, Leaked
  <2> QED BY <1>7, <2>1, NoLeak DEF CheckRead
<1>8. CASE Receive
  <2>1. Leaked' = Leaked
    BY <1>8 DEF Receive, Leaked
  <2> QED BY <1>8, <2>1, NoLeak DEF Receive
<1>9. CASE ReadFails
  <2>1. Leaked' \subseteq Leaked
    BY <1>9, CloseLeaks DEF ReadFails
  <2> QED BY <1>9, <2>1, NoLeak DEF ReadFails, Close
<1>10. CASE Cancel
  <2>1. Leaked' = Leaked
    BY <1>10 DEF Cancel, Leaked
  <2> QED BY <1>10, <2>1, NoLeak DEF Cancel
<1>11. CASE CloseStopped
  <2>1. Leaked' \subseteq Leaked
    BY <1>11, CloseLeaks DEF CloseStopped
  <2> QED BY <1>11, <2>1, NoLeak DEF CloseStopped, Close
<1>12. ASSUME NEW s \in Sockets, Dial(s) PROVE LeakInv'
  <2>1. dialed = Nil
    BY <1>12 DEF ControlInv, Dial
  <2>2. Leaked' \subseteq Leaked
    BY <1>12, <2>1, NilIsNoSocket DEF Dial, Leaked, TypeOK
  <2> QED BY <1>12, <2>2, NoLeak DEF Dial
<1>13. ASSUME NEW s \in Sockets, Break(s) PROVE LeakInv'
  <2>1. Leaked' = Leaked
    BY <1>13 DEF Break, Leaked
  <2> QED BY <1>13, <2>1, NoLeak DEF Break
<1>14. ASSUME NEW s \in Sockets, Finalize(s) PROVE LeakInv'
  <2>1. Leaked' \subseteq Leaked
    BY <1>14 DEF Finalize, Leaked
  <2> QED BY <1>14, <2>1, NoLeak DEF Finalize
<1>15. CASE UNCHANGED vars
  <2>1. Leaked' = Leaked
    BY <1>15 DEF Leaked
  <2> QED BY <1>15, <2>1, NoLeak
<1> QED BY <1>1, <1>2, <1>3, <1>4, <1>5, <1>6, <1>7, <1>8, <1>9, <1>10, <1>11, <1>12, <1>13,
           <1>14, <1>15, StepCases

-----------------------------------------------------------------------------
\* The types, what each place knows of the sockets, and the count of those left open and
\* owed, hold in every state, whatever fails and whenever Stop comes.
THEOREM StreamInductive == Spec => []StreamInv
<1>1. StreamInv /\ [Next]_vars => StreamInv'
  BY TypeStep, ControlStep, LeakStep DEF StreamInv
<1> QED BY <1>1, InitStream, PTL DEF Spec

\* Every variable of the stream manager keeps its type; a stored socket is an open one.
THEOREM StreamTypes == Spec => []TypeOK
<1>1. StreamInv => TypeOK
  BY DEF StreamInv
<1> QED BY <1>1, StreamInductive, PTL

\* A socket that is read and not closed is the stored one, with its subscription sent.
THEOREM ReadsWhatItAsked == Spec => []ReadsSubscribed
<1>1. StreamInv => ReadsSubscribed
  BY DEF StreamInv, ControlInv, ReadsSubscribed
<1> QED BY <1>1, StreamInductive, PTL

\* However many dials fail, a call of waitRetry leaves at most one socket open.
THEOREM LeaksCounted == Spec => []LeaksBounded
<1>1. StreamInv => LeaksBounded
  <2> SUFFICES ASSUME StreamInv PROVE LeaksBounded
    OBVIOUS
  <2>1. Cardinality(Leaked) \in Nat /\ episodes \in Nat
    BY LeakedIsFinite DEF StreamInv, TypeOK
  <2>2. Cardinality(Leaked) <= episodes
    BY <2>1 DEF StreamInv, LeakInv
  <2> QED BY <2>2 DEF LeaksBounded, Leaked
<1> QED BY <1>1, StreamInductive, PTL
=============================================================================
