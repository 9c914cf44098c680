-------------------------- MODULE TimedKeys_proofs --------------------------
(***************************************************************************)
(* Proofs about TimedKeys, for any timeouts.  The inductive invariant ties *)
(* the seconds left to the alarms that were counted: together they are the *)
(* time that was asked for, with one alarm more while it is being counted. *)
(***************************************************************************)
EXTENDS TimedKeys, TLAPS

\* The types, but for the seconds.
Types ==
  /\ prog \in Progs /\ t \in Timeouts /\ opt \in SUBSET Options
  /\ Peek \/ "yesno" \notin opt => opt \subseteq {"long"}
  /\ pc \in {"start", "ask", "leaving", "gone"}
  /\ alarm \in {"off", "set", "counting"}
  /\ terminal \in {"raw", "sane"} /\ reset \in {"done", "lost"}
  /\ code \in {0, 1, 130} /\ keys \in 0 .. MaxKeys /\ quiet \in Nat
  /\ said \subseteq {"y", "n", "esc", "other", "eof"}

\* Without a timeout nothing is counted; with one the count is never negative.
Counting ==
  /\ t = 0 => secleft = -1 /\ alarm # "counting" /\ reg = 0
  /\ t # 0 => /\ secleft \in 0 .. t /\ reg \in 0 .. t
              /\ alarm = "counting" => reg > 0
  /\ pc = "start" => secleft = Org /\ quiet = 0 /\ alarm = "off"

\* Seconds left and alarms since the last reset add up.
Balance ==
  (Peek /\ t # 0 /\ reset = "done" /\ pc # "gone") =>
    /\ alarm = "counting" => reg + quiet = t + 1
    /\ alarm # "counting" => secleft + quiet = t

\* Alarms are for questions without -y; the code is that of an answer.
Answers ==
  /\ pc = "start" => code = 0 /\ terminal = "sane"
  /\ alarm # "off" => (Peek \/ "yesno" \notin opt)
  /\ (code = 1 /\ "long" \notin opt /\ (Peek \/ "yesno" \in opt)) =>
       "y" \in said \/ ("yes" \in opt /\ "force" \notin opt)
  /\ (terminal = "raw" => Peek) /\ (pc = "gone" => terminal = "sane")

IInv == Types /\ Counting /\ Balance /\ Answers

LEMMA OrgIs == ASSUME t \in Timeouts PROVE t \in Nat /\ Org = IF t = 0 THEN -1 ELSE t
  BY KeysAssumption DEF Org

LEMMA InitIInv == Init => IInv
<1> SUFFICES ASSUME Init PROVE IInv
  OBVIOUS
<1>1. t \in Nat /\ Org = IF t = 0 THEN -1 ELSE t
  BY OrgIs DEF Init
<1>2. Types
  BY KeysAssumption DEF Init, Types
<1>3. Counting /\ Balance
  BY <1>1 DEF Init, Counting, Balance
<1>4. Answers
  BY DEF Init, Answers
<1> QED BY <1>2, <1>3, <1>4 DEF IInv

LEMMA StartStep == ASSUME IInv, Start PROVE IInv'
<1>0. /\ Org' = Org /\ Peek' = Peek /\ opt' = opt /\ prog' = prog /\ t' = t
      /\ secleft' = secleft /\ reg' = reg /\ keys' = keys /\ said' = said
      /\ quiet' = quiet /\ reset' = reset
  BY DEF Start, asked, Org, Peek
<1>1. Types'
  BY <1>0 DEF IInv, Start, Types
<1>2. Counting' /\ Balance'
  BY <1>0 DEF IInv, Start, Types, Counting, Balance
<1>3. Answers'
  BY <1>0 DEF IInv, Start, Types, Counting, Answers
<1> QED BY <1>1, <1>2, <1>3 DEF IInv

LEMMA ReadStep ==
  ASSUME IInv, ReadEof \/ \E k \in {"y", "n", "esc", "other"} : Read(k)
  PROVE  IInv'
<1>0. /\ pc = "ask" /\ alarm # "counting"
      /\ Org' = Org /\ Peek' = Peek /\ opt' = opt /\ prog' = prog /\ t' = t
      /\ alarm' = alarm /\ reg' = reg /\ terminal' = terminal
  BY DEF ReadEof, Read, asked, Org, Peek
<1>1. PICK k \in {"y", "n", "esc", "other", "eof"} :
        /\ IF Peek THEN PeekKey(k) ELSE GetLine(k)
        /\ said' = said \cup {k}
        /\ keys' \in 0 .. MaxKeys
  <2>1. CASE ReadEof
    BY <2>1 DEF ReadEof, IInv, Types
  <2>2. CASE \E k \in {"y", "n", "esc", "other"} : Read(k)
    BY <2>2, KeysAssumption DEF Read, IInv, Types
  <2> QED BY <2>1, <2>2
<1>2. t \in Nat /\ Org = IF t = 0 THEN -1 ELSE t
  BY OrgIs DEF IInv, Types
<1>3. CASE Peek
  <2>1. PeekKey(k)
    BY <1>1, <1>3
  <2>2. Types'
    BY <1>0, <1>1, <2>1 DEF IInv, Types, PeekKey, Answered
  <2>3. Counting' /\ Balance'
    BY <1>0, <1>2, <2>1 DEF IInv, Types, Counting, Balance, PeekKey, Answered
  <2>4. Answers'
    BY <1>0, <1>1, <2>1 DEF IInv, Types, Answers, PeekKey, Answered
  <2> QED BY <2>2, <2>3, <2>4 DEF IInv
<1>4. CASE ~Peek
  <2>1. GetLine(k)
    BY <1>1, <1>4
  <2>2. Types'
    BY <1>0, <1>1, <2>1 DEF IInv, Types, GetLine, Answered
  <2>3. Counting' /\ Balance'
    BY <1>0, <1>4, <2>1 DEF IInv, Types, Counting, Balance, GetLine, Answered
  <2>4. Answers'
    BY <1>0, <1>1, <1>4, <2>1 DEF IInv, Types, Answers, GetLine, Answered
  <2> QED BY <2>2, <2>3, <2>4 DEF IInv
<1> QED BY <1>3, <1>4

LEMMA LeaveStep == ASSUME IInv, Leave PROVE IInv'
<1>0. Org' = Org /\ Peek' = Peek /\ opt' = opt /\ prog' = prog /\ t' = t
  BY DEF Leave, asked, Org, Peek
<1> QED BY <1>0 DEF IInv, Leave, clock, Types, Counting, Balance, Answers

LEMMA TimedoutStep == ASSUME IInv, Timedout PROVE IInv'
<1>0. /\ Org' = Org /\ Peek' = Peek /\ opt' = opt /\ prog' = prog /\ t' = t
      /\ pc \in {"ask", "leaving"} /\ alarm = "set" /\ secleft' = secleft
      /\ keys' = keys /\ said' = said /\ reset' = reset /\ quiet' = quiet + 1
  BY DEF Timedout, asked, Org, Peek
<1>1. t \in Nat
  BY OrgIs DEF IInv, Types
<1>2. CASE secleft = -1 \/ secleft = 0
  <2>1. /\ alarm' = "off" /\ reg' = reg
        /\ \/ UNCHANGED <<pc, code, terminal>> /\ secleft = -1
           \/ pc' = "gone" /\ code' = TimeoutCode /\ terminal' = "sane" /\ secleft = 0
    BY <1>2 DEF Timedout
  <2>2. Types'
    BY <1>0, <2>1 DEF IInv, Types, TimeoutCode
  <2>3. Counting' /\ Balance'
    BY <1>0, <1>1, <2>1 DEF IInv, Counting, Balance
  <2>4. Answers'
    BY <1>0, <2>1 DEF IInv, Types, Answers, TimeoutCode
  <2> QED BY <2>2, <2>3, <2>4 DEF IInv
<1>3. CASE ~(secleft = -1 \/ secleft = 0)
  <2>1. alarm' = "counting" /\ reg' = secleft /\ UNCHANGED <<pc, code, terminal>>
    BY <1>3 DEF Timedout
  <2>2. Types'
    BY <1>0, <2>1 DEF IInv, Types
  <2>3. Counting' /\ Balance'
    BY <1>0, <1>1, <1>3, <2>1 DEF IInv, Types, Counting, Balance
  <2>4. Answers'
    BY <1>0, <2>1 DEF IInv, Answers
  <2> QED BY <2>2, <2>3, <2>4 DEF IInv
<1> QED BY <1>2, <1>3

LEMMA CountedStep == ASSUME IInv, Counted PROVE IInv'
<1>0. Org' = Org /\ Peek' = Peek /\ opt' = opt /\ prog' = prog /\ t' = t
  BY DEF Counted, asked, Org, Peek
<1>1. t \in Nat
  BY OrgIs DEF IInv, Types
<1>2. Types' /\ Answers'
  BY <1>0 DEF IInv, Counted, Types, Answers
<1>3. Counting' /\ Balance'
  BY <1>0, <1>1 DEF IInv, Counted, Types, Counting, Balance
<1> QED BY <1>2, <1>3 DEF IInv

LEMMA CtrlCStep == ASSUME IInv, ctrl_c PROVE IInv'
<1>0. /\ Org' = Org /\ Peek' = Peek /\ opt' = opt /\ prog' = prog /\ t' = t
      /\ alarm' = alarm /\ reg' = reg /\ terminal' = terminal /\ said' = said
  BY DEF ctrl_c, asked, Org, Peek
<1>1. t \in Nat /\ Org = IF t = 0 THEN -1 ELSE t
  BY OrgIs DEF IInv, Types
<1>2. Types'
  BY <1>0, KeysAssumption DEF IInv, ctrl_c, Interrupted, Types
<1>3. Counting' /\ Balance'
  BY <1>0, <1>1 DEF IInv, ctrl_c, Interrupted, Types, Counting, Balance
<1>4. Answers'
  BY <1>0 DEF IInv, ctrl_c, Interrupted, Types, Answers
<1> QED BY <1>2, <1>3, <1>4 DEF IInv

LEMMA NextIInv == IInv /\ [Next]_vars => IInv'
<1>1. ASSUME IInv, UNCHANGED vars PROVE IInv'
  BY <1>1 DEF IInv, vars, asked, clock, Org, Peek, Types, Counting, Balance, Answers
<1> QED BY <1>1, StartStep, ReadStep, LeaveStep, TimedoutStep, CountedStep, CtrlCStep
     DEF Next

LEMMA Invariant == Spec => []IInv
<1> QED BY InitIInv, NextIInv, PTL DEF Spec

-----------------------------------------------------------------------------
(* The theorems. *)

\* The variables keep their types, and the count never leaves its bounds.
THEOREM TypeCorrect == Spec => []TypeOK
<1>1. IInv => TypeOK
  BY DEF IInv, Types, Counting, TypeOK
<1> QED BY <1>1, Invariant, PTL

\* No signal, whenever it comes, makes a yes of what is none.
THEOREM YesIsPressed == Spec => []YesOnlyIfPressed
<1>1. IInv => YesOnlyIfPressed
  BY DEF IInv, Answers, YesOnlyIfPressed
<1> QED BY <1>1, Invariant, PTL

\* The terminal is as it was when keypeek has ended.
THEOREM TerminalRestored == Spec => []Restored
<1>1. IInv => Restored
  BY DEF IInv, Answers, Restored
<1> QED BY <1>1, Invariant, PTL

\* ESC, and Ctrl-C outside of the decrement, give all of the time again.
THEOREM FullTime == Spec => WaitsInFull
<1>1. IInv /\ [Next]_vars =>
        [(Peek /\ pc = "ask" /\ pc' = "gone" /\ reset = "done") => quiet' > t]_vars
  <2> SUFFICES ASSUME IInv, Next, Peek, pc = "ask", pc' = "gone", reset = "done"
               PROVE  quiet' > t
    OBVIOUS
  <2>1. Timedout
    BY DEF Next, Start, ReadEof, Read, PeekKey, Answered, Leave, Counted, ctrl_c
  <2>2. secleft = 0 /\ alarm = "set" /\ quiet' = quiet + 1
    BY <2>1 DEF Timedout
  <2>3. t \in Nat \ {0}
    BY <2>2, OrgIs DEF IInv, Types, Counting
  <2> QED BY <2>2, <2>3 DEF IInv, Types, Balance
<1> QED BY <1>1, Invariant, PTL DEF Spec, WaitsInFull

-----------------------------------------------------------------------------
(* The question is over in time. *)

\* A question with a timeout is over at the latest with the alarm after its
\* last second, and until then the next alarm is set or being counted; also
\* when a Ctrl-C within the decrement was lost.
InTime ==
  /\ quiet <= t + 1
  /\ (pc \in {"ask", "leaving"} /\ Timed) => alarm # "off" /\ quiet <= t

\* However a reset is lost, the seconds left and the alarms since it are no
\* more than the time that was asked for.
NoMore ==
  /\ (t # 0 /\ pc # "gone") =>
       /\ alarm = "counting" => reg + quiet <= t + 1
       /\ alarm # "counting" => secleft + quiet <= t
       /\ (pc # "start" /\ Timed) => alarm # "off"
  /\ t = 0 => quiet <= IF alarm = "set" THEN 0 ELSE 1
  /\ quiet <= t + 1

LEMMA InitNoMore == Init => NoMore
  BY OrgIs DEF Init, NoMore

LEMMA NextNoMore == IInv /\ NoMore /\ [Next]_vars => NoMore'
<1> SUFFICES ASSUME IInv, NoMore, [Next]_vars PROVE NoMore'
  OBVIOUS
<1>1. t \in Nat /\ (Org = IF t = 0 THEN -1 ELSE t) /\ quiet \in Nat
  BY OrgIs DEF IInv, Types
<1>2. CASE Start
  BY <1>1, <1>2 DEF IInv, Types, Counting, NoMore, Start, asked, Peek, Timed
<1>3. CASE ReadEof
  <2>1. CASE Peek
    BY <1>1, <1>3, <2>1 DEF IInv, Types, Counting, NoMore, ReadEof, PeekKey, Answered,
       asked, Peek, Timed
  <2>2. CASE ~Peek
    BY <1>1, <1>3, <2>2 DEF IInv, Types, Counting, NoMore, ReadEof, GetLine,
       Answered, asked, Peek, Timed
  <2> QED BY <2>1, <2>2
<1>4. ASSUME NEW k \in {"y", "n", "esc", "other"}, Read(k) PROVE NoMore'
  <2>1. CASE Peek
    BY <1>1, <1>4, <2>1 DEF IInv, Types, Counting, NoMore, Read, PeekKey, Answered,
       asked, Peek, Timed
  <2>2. CASE ~Peek
    BY <1>1, <1>4, <2>2 DEF IInv, Types, Counting, NoMore, Read, GetLine, Answered,
       asked, Peek, Timed
  <2> QED BY <2>1, <2>2
<1>5. CASE Leave
  BY <1>1, <1>5 DEF IInv, Types, Counting, NoMore, Leave, asked, clock, Peek, Timed
<1>6. CASE Timedout
  BY <1>1, <1>6 DEF IInv, Types, Counting, NoMore, Timedout, asked, Peek, Timed
<1>7. CASE Counted
  BY <1>1, <1>7 DEF IInv, Types, Counting, NoMore, Counted, asked, Peek, Timed
<1>8. CASE ctrl_c
  BY <1>1, <1>8 DEF IInv, Types, Counting, NoMore, ctrl_c, Interrupted, asked,
       Peek, Timed
<1>9. CASE UNCHANGED vars
  BY <1>1, <1>9 DEF NoMore, vars, asked, clock, Peek, Timed
<1> QED BY <1>2, <1>3, <1>4, <1>5, <1>6, <1>7, <1>8, <1>9 DEF Next

\* What Ends says of the seconds, as far as it is safety: after the last ESC or
\* Ctrl-C no more alarms than the time allows and one go by, and as long as a
\* question with a timeout waits the next alarm is to come.
THEOREM OverInTime == Spec => []InTime
<1>1. IInv /\ NoMore => InTime
  BY OrgIs DEF IInv, Types, Counting, NoMore, InTime, Timed
<1>2. Spec => []NoMore
  BY InitNoMore, NextNoMore, Invariant, PTL DEF Spec
<1> QED BY <1>1, <1>2, Invariant, PTL
=============================================================================
