------------------------- MODULE AcpiListen_proofs --------------------------
(***************************************************************************)
(* Proofs about AcpiListen, for any events, any bound on their number and  *)
(* any period of the clock: the types, and that every step is one of       *)
(* Doorbell or a stutter.  The invariant says that what was read is older  *)
(* than what is in the socket.                                             *)
(***************************************************************************)
EXTENDS AcpiListen, WellFoundedInduction, TLAPS

\* Where there is a text, and that its events precede those in the socket.
Ordered ==
  /\ pc \in {"usleep", "system"} <=> buf # {}
  /\ pc \in {"start", "gone"} \/ mode = "test" => sock = {}
  /\ mode = "listen" => /\ \A e \in buf : e.id >= 1
                        /\ \A e \in buf, f \in sock : e.id < f.id

IInv == TypeOK /\ Ordered

-----------------------------------------------------------------------------

\* A text that was read has a first line.
LEMMA HasFirst ==
  ASSUME NEW n \in Nat, NEW events, events \subseteq [id : 0 .. n, kind : Kinds],
         events # {}
  PROVE  First(events) \in events /\ \A f \in events : First(events).id <= f.id
<1> DEFINE ids == {e.id : e \in events}
<1> DEFINE R == OpToRel(<, Nat)
<1>1. ids \subseteq Nat /\ ids # {}
  OBVIOUS
<1>2. PICK m \in ids : \A k \in ids : <<k, m>> \notin R
  <2>1. IsWellFoundedOn(R, Nat)
    BY NatLessThanWellFounded
  <2> HIDE DEF R, ids
  <2> QED BY <1>1, <2>1, WFMin
<1>3. \A k \in ids : m <= k
  <2>1. \A x, y \in Nat : x < y => <<x, y>> \in R
    BY DEF OpToRel
  <2> HIDE DEF R, ids
  <2>2. \A k \in ids : ~ (k < m)
    BY <1>1, <1>2, <2>1
  <2> QED BY <1>1, <2>2
<1>4. \E e \in events : \A f \in events : e.id <= f.id
  BY <1>3
<1> QED BY <1>4, Zenon DEF First

-----------------------------------------------------------------------------

LEMMA InitInv == Init => IInv
  BY AcpiAssumption DEF Init, IInv, TypeOK, Ordered

\* The handler is called for an event that was sent.
LEMMA ReturnInv == IInv /\ Return => IInv'
<1> SUFFICES ASSUME IInv, Return PROVE IInv'
  OBVIOUS
<1>1. First(buf) \in buf
  BY HasFirst, AcpiAssumption DEF IInv, TypeOK, Ordered, Return
<1> QED BY <1>1 DEF IInv, TypeOK, Ordered, Return, time, desktop

LEMMA StepInv == IInv /\ [Next]_vars => IInv'
<1> SUFFICES ASSUME IInv, [Next]_vars PROVE IInv'
  OBVIOUS
<1> USE AcpiAssumption DEF IInv, TypeOK, Ordered, listener, time, desktop
<1>1. CASE Check
  BY <1>1 DEF Check
<1>2. CASE Write
  BY <1>2 DEF Write
<1>3. CASE Kill
  BY <1>3 DEF Kill
<1>4. CASE Connect
  BY <1>4 DEF Connect
<1>5. CASE Recv
  BY <1>5 DEF Recv
<1>6. CASE Wake
  BY <1>6 DEF Wake
<1>7. CASE Return
  BY <1>7, ReturnInv DEF IInv
<1>8. ASSUME NEW k \in Kinds, Test(k) PROVE IInv'
  BY <1>8 DEF Test, Event
<1>9. CASE Acpid
  BY <1>9 DEF Acpid
<1>10. CASE Tick
  BY <1>10 DEF Tick
<1>11. CASE Desktop
  BY <1>11 DEF Desktop
<1>12. ASSUME NEW k \in Kinds, Happens(k) PROVE IInv'
  BY <1>12 DEF Happens, Event, Listening
<1>13. CASE UNCHANGED vars
  BY <1>13 DEF vars
<1> QED BY <1>1, <1>2, <1>3, <1>4, <1>5, <1>6, <1>7, <1>8, <1>9, <1>10, <1>11,
           <1>12, <1>13, Zenon DEF Next, Powbutt, Powacpi

LEMMA Inductive == Spec => []IInv
<1>1. Init => IInv
  BY InitInv
<1>2. IInv /\ [Next]_vars => IInv'
  BY StepInv
<1> QED BY <1>1, <1>2, PTL DEF Spec

\* The variables keep their types, and powbutt.sh runs under system() only.
THEOREM TypeCorrect == Spec => []TypeOK
<1>1. IInv => TypeOK
  BY DEF IInv
<1> QED BY <1>1, Inductive, PTL

-----------------------------------------------------------------------------
(* The refinement. *)

LEMMA BellInit == Init => Bell!Init
  BY DEF Init, Bell!Init, Listening

\* A call of the handler answers the event that has waited longest.
LEMMA ReturnAnswers ==
  ASSUME IInv, Return PROVE [Bell!Next]_(Bell!bell)
<1>1. CASE mode = "test"
  BY <1>1 DEF IInv, TypeOK, Return, time, desktop, Listening, Bell!bell
<1>2. CASE mode = "listen"
  <2>1. First(buf) \in buf /\ \A f \in buf : First(buf).id <= f.id
    BY HasFirst, AcpiAssumption DEF IInv, TypeOK, Ordered, Return
  <2>2. \A f \in sock : First(buf).id <= f.id
    BY <1>2, <2>1 DEF IInv, TypeOK, Ordered
  <2>3. First(buf) \notin sock
    BY <1>2, <2>1 DEF IInv, TypeOK, Ordered
  <2>4. /\ mode' = "listen" /\ buf' = {} /\ sock' = sock /\ sent' = sent
        /\ Listening /\ Listening'
        /\ answered' = answered \cup {First(buf)}
    BY <1>2 DEF Return, Listening, time, desktop
  <2>5. Bell!Answer
    BY <1>2, <2>1, <2>2, <2>3, <2>4 DEF Bell!Answer
  <2> QED BY <2>5 DEF Bell!Next
<1> QED BY <1>1, <1>2 DEF IInv, TypeOK

LEMMA BellStep ==
  IInv /\ [Next]_vars => [Bell!Next]_(Bell!bell)
<1> SUFFICES ASSUME IInv, [Next]_vars PROVE [Bell!Next]_(Bell!bell)
  OBVIOUS
<1> USE DEF IInv, TypeOK, Ordered, listener, time, desktop, Listening, Bell!bell
<1>1. CASE Check \/ Write \/ Kill
  BY <1>1 DEF Check, Write, Kill
<1>2. CASE Connect
  <2>1. CASE acpid = "up"
    BY <1>2, <2>1 DEF Connect, Bell!Next, Bell!Listen
  <2>2. CASE acpid # "up"
    BY <1>2, <2>2 DEF Connect
  <2> QED BY <2>1, <2>2
<1>3. CASE Recv \/ Wake
  BY <1>3 DEF Recv, Wake
<1>4. CASE Return
  BY <1>4, ReturnAnswers
<1>5. ASSUME NEW k \in Kinds, Test(k) PROVE [Bell!Next]_(Bell!bell)
  BY <1>5 DEF Test
<1>6. CASE Acpid \/ Tick \/ Desktop
  BY <1>6 DEF Acpid, Tick, Desktop
<1>7. ASSUME NEW k \in Kinds, Happens(k) PROVE [Bell!Next]_(Bell!bell)
  <2>1. Bell!Ring(k)
    BY <1>7 DEF Happens, Event, Bell!Ring, Bell!Event
  <2> QED BY <2>1 DEF Bell!Next
<1>8. CASE UNCHANGED vars
  BY <1>8 DEF vars
<1> QED BY <1>1, <1>2, <1>3, <1>4, <1>5, <1>6, <1>7, <1>8, Zenon
        DEF Next, Powbutt, Powacpi

\* Whatever events come, how fast, and whether acpid starts late or ends, an
\* event is handled after those before it, at most once, and is lost only
\* behind an older one or before powacpi has connected.
THEOREM OldestIsAnswered == Spec => Bell!Init /\ [][Bell!Next]_(Bell!bell)
<1>1. Init => Bell!Init
  BY BellInit
<1>2. IInv /\ [Next]_vars => [Bell!Next]_(Bell!bell)
  BY BellStep
<1> QED BY <1>1, <1>2, Inductive, PTL DEF Spec
=============================================================================
