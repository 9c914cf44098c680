--------------------------- MODULE Session_proofs ---------------------------
(***************************************************************************)
(* Theorems about Session for any set of users, any configured autologin   *)
(* and any depth of nested callbacks.                                      *)
(***************************************************************************)
EXTENDS Session, Lexicographic, SequenceTheorems, TLAPS

\* The actions, one disjunct each, so that the proofs can go through them.
LEMMA NextCases ==
  ASSUME [Next]_vars
  PROVE  \/ UNCHANGED vars
         \/ CleanFiles \/ StartGui \/ XinitReturns \/ CheckShutdown
         \/ PowerOff \/ StartLogin \/ PypassStarts \/ LoginDone \/ RestDone
         \/ LoopDone \/ PypassExits \/ HandlerWrites \/ HandlerKills
         \/ PowerOn \/ LeavePrompt \/ Button \/ CloseWindow \/ Logout
         \/ Press \/ PypassKilled \/ XCrash
         \/ \E u \in Users : Login(u)
         \/ SpecialUser("exit", "1")
         \/ SpecialUser("reboot", "2")
         \/ SpecialUser("shutdown", "3")
         \/ \E yes \in BOOLEAN : Answer(yes)
BY DEF Next, Postinit, Pypass, Powbutt, Person

\* What popping and replacing the innermost callback does.
LEMMA Popped ==
  ASSUME NEW S, NEW s \in Seq(S), s # <<>>
  PROVE  /\ Len(s) \in Nat \ {0} /\ Last(s) \in S /\ Last(s) = s[Len(s)]
         /\ Front(s) \in Seq(S) /\ Len(Front(s)) = Len(s) - 1
         /\ \A i \in 1..(Len(s) - 1) : Front(s)[i] = s[i]
<1>1. Len(s) \in Nat \ {0}
  BY EmptySeq
<1>2. s[Len(s)] \in S
  BY <1>1, ElementOfSeq
<1> DEFINE n == Len(s) - 1
<1>3. n \in Nat /\ n \in Int /\ 1 \in Int
  BY <1>1
<1>4. \A i \in 1..n : s[i] \in S
  BY <1>1, ElementOfSeq
<1>5. Front(s) = SubSeq(s, 1, n)
  BY DEF Front
<1> HIDE DEF n
<1>6. /\ SubSeq(s, 1, n) \in Seq(S)
      /\ Len(SubSeq(s, 1, n)) = n
      /\ \A i \in 1..n : SubSeq(s, 1, n)[i] = s[i]
  BY <1>3, <1>4, SubSeqProperties
<1> QED
  BY <1>1, <1>2, <1>5, <1>6 DEF Last, n

LEMMA Pushed ==
  ASSUME NEW S, NEW s \in Seq(S), NEW x \in S
  PROVE  /\ Append(s, x) \in Seq(S) /\ Len(Append(s, x)) = Len(s) + 1
         /\ Append(s, x)[Len(s) + 1] = x
         /\ \A i \in 1..Len(s) : Append(s, x)[i] = s[i]
OBVIOUS

\* The innermost callback of pypass ends, or makes way for another frame.
LEMMA Replaced ==
  ASSUME NEW S, NEW s \in Seq(S), s # <<>>, NEW x \in S
  PROVE  /\ Append(Front(s), x) \in Seq(S)
         /\ Len(Append(Front(s), x)) = Len(s)
         /\ Append(Front(s), x)[Len(s)] = x
         /\ \A i \in 1..(Len(s) - 1) : Append(Front(s), x)[i] = s[i]
<1>1. Front(s) \in Seq(S) /\ Len(Front(s)) = Len(s) - 1 /\ Len(s) \in Nat \ {0}
  BY Popped
<1>2. \A i \in 1..(Len(s) - 1) : Front(s)[i] = s[i]
  BY Popped
<1> QED
  BY <1>1, <1>2, Pushed

-----------------------------------------------------------------------------
(* Types. *)

LEMMA SameStack ==
  ASSUME StackOK, UNCHANGED stack
  PROVE  StackOK'
BY DEF StackOK

LEMMA EmptyStack ==
  ASSUME stack' = <<>>
  PROVE  StackOK'
BY SessionAssumption, EmptySeq DEF StackOK

LEMMA RestingFrame == Resting \in Frames
BY DEF Resting, Frames, Waits

LEMMA DialogFrame ==
  ASSUME NEW from \in {"ask", "ask-close", "ask-check"},
         NEW c \in Codes \ {"0"}
  PROVE  [at |-> from, arg |-> c] \in Frames
BY DEF Frames, Dialogs

\* The innermost callback ends, or makes way for another frame.
LEMMA Innermost ==
  ASSUME StackOK, stack # <<>>
  PROVE  /\ Last(stack) \in Frames
         /\ stack' = Front(stack) => StackOK'
         /\ \A f \in Frames : stack' = Append(Front(stack), f) => StackOK'
<1>1. Last(stack) \in Frames
  BY Popped DEF StackOK
<1>2. ASSUME stack' = Front(stack)
      PROVE  StackOK'
  <2>1. Front(stack) \in Seq(Frames) /\ Len(Front(stack)) = Len(stack) - 1
    BY Popped DEF StackOK
  <2>2. Len(stack) \in Nat
    BY LenProperties DEF StackOK
  <2> QED
    BY SessionAssumption, <1>2, <2>1, <2>2 DEF StackOK
<1>3. ASSUME NEW f \in Frames, stack' = Append(Front(stack), f)
      PROVE  StackOK'
  BY <1>3, Replaced DEF StackOK
<1> QED
  BY <1>1, <1>2, <1>3

\* Input is only accepted while another callback fits.
LEMMA Room ==
  ASSUME StackOK, Listening, NEW f \in Frames, stack' = Append(stack, f)
  PROVE  StackOK'
<1>1. Len(stack) < Depth
  BY SessionAssumption, EmptySeq DEF Listening, StackOK
<1>2. /\ Append(stack, f) \in Seq(Frames)
      /\ Len(Append(stack, f)) = Len(stack) + 1
  BY Pushed DEF StackOK
<1>3. Len(stack) \in Nat
  BY LenProperties DEF StackOK
<1> QED
  BY SessionAssumption, <1>1, <1>2, <1>3 DEF StackOK

LEMMA TypeStep ==
  ASSUME TypeOK, [Next]_vars
  PROVE  TypeOK'
<1> USE DEF TypeOK, pypass
<1>1. CASE UNCHANGED vars
  BY <1>1, SameStack DEF vars
<1>2. CASE CleanFiles
  BY <1>2, SameStack DEF CleanFiles
<1>3. CASE StartGui
  BY <1>3, SameStack DEF StartGui
<1>4. CASE CheckShutdown
  BY <1>4, SameStack DEF CheckShutdown, Pressed
<1>5. CASE PowerOff
  BY <1>5, SameStack DEF PowerOff
<1>6. CASE LeavePrompt
  BY <1>6, SameStack DEF LeavePrompt
<1>7. CASE StartLogin
  BY <1>7, SameStack DEF StartLogin
<1>8. CASE Logout
  BY <1>8, SameStack DEF Logout
<1>9. CASE XCrash
  BY <1>9, SameStack DEF XCrash
<1>10. CASE Press
  BY <1>10, SameStack DEF Press
<1>11. CASE HandlerWrites
  BY <1>11, SameStack DEF HandlerWrites
<1>12. CASE HandlerKills
  BY <1>12, SameStack DEF HandlerKills
<1>13. CASE PypassExits
  BY <1>13, SameStack DEF PypassExits, Pressed
<1>14. CASE XinitReturns
  BY <1>14, EmptyStack DEF XinitReturns, NoPypass, Codes
<1>15. CASE PowerOn
  BY <1>15, EmptyStack DEF PowerOn, NoPypass, Codes
<1>16. CASE PypassKilled
  BY <1>16, EmptyStack DEF PypassKilled, NoPypass, Codes
<1>17. CASE PypassStarts
  <2>1. conf \in Users \cup {NoUser}
    BY SessionAssumption
  <2>2. /\ [at |-> "auto", arg |-> conf] \in Frames
        /\ [at |-> "loop", arg |-> NoUser] \in Frames
    BY <2>1 DEF Frames, Waits
  <2>3. \A f \in Frames : <<f>> \in Seq(Frames) /\ Len(<<f>>) = 1
    BY SMT
  <2>4. \/ stack' = <<>>
        \/ \E f \in Frames : stack' = <<f>>
    BY <1>17, <2>2 DEF PypassStarts
  <2>5. StackOK'
    <3>1. CASE stack' = <<>>
      BY <3>1, EmptyStack
    <3>2. ASSUME NEW f \in Frames, stack' = <<f>>
          PROVE  StackOK'
      BY SessionAssumption, <2>3, <3>2 DEF StackOK
    <3> QED
      BY <2>4, <3>1, <3>2
  <2> QED
    BY <1>17, <2>1, <2>5 DEF PypassStarts, Codes
<1>18. CASE \E u \in Users : Login(u)
  <2>1. PICK u \in Users : Login(u)
    BY <1>18
  <2>2. [at |-> "auth", arg |-> u] \in Frames
    BY DEF Frames, Waits
  <2>3. Listening /\ \E f \in Frames : stack' = Append(stack, f)
    BY <2>1, <2>2, RestingFrame DEF Login
  <2>4. StackOK'
    BY <2>3, Room
  <2> QED
    BY <2>1, <2>4 DEF Login
<1>19. CASE Button
  <2>1. "3" \in Codes \ {"0"}
    BY DEF Codes
  <2>2. StackOK'
    BY <1>19, <2>1, DialogFrame, Room DEF Button, OnExit
  <2> QED
    BY <1>19, <2>1, <2>2 DEF Button, OnExit
<1>20. CASE CloseWindow
  <2>1. "3" \in Codes \ {"0"}
    BY DEF Codes
  <2>2. StackOK'
    BY <1>20, <2>1, DialogFrame, Room DEF CloseWindow, OnExit
  <2> QED
    BY <1>20, <2>1, <2>2 DEF CloseWindow, OnExit
<1>21. CASE \/ SpecialUser("exit", "1")
            \/ SpecialUser("reboot", "2")
            \/ SpecialUser("shutdown", "3")
  <2>1. PICK c \in Codes \ {"0"} :
          /\ Listening /\ sdcom' = "3" /\ OnExit(c, "ask-check")
          /\ UNCHANGED <<machine, post, xorg, client, cuser, conf, window, gtk,
                         user, handler, asked, accepted>>
    BY <1>21 DEF SpecialUser, Codes
  <2>2. StackOK'
    BY <2>1, DialogFrame, Room DEF OnExit
  <2> QED
    BY <2>1, <2>2 DEF OnExit, Codes
<1>22. CASE \E yes \in BOOLEAN : Answer(yes)
  <2>1. PICK yes \in BOOLEAN : Answer(yes)
    BY <1>22
  <2>2. stack # <<>> /\ Last(stack).at \in {"ask", "ask-close", "ask-check"}
    BY <2>1 DEF Answer, Inner
  <2>3. Last(stack) \in Frames
    BY <2>2, Innermost
  <2>4. Last(stack).arg \in Codes \ {"0"}
    BY <2>2, <2>3 DEF Frames, Waits, Dialogs
  <2>5. StackOK'
    BY <2>1, <2>2, RestingFrame, Innermost DEF Answer
  <2>6. /\ sdcom' \in Codes \cup {"-P", "absent"}
        /\ asked' \in SUBSET {"1", "2", "3", "-P"}
    BY <2>1, <2>4 DEF Answer, Codes
  <2> QED
    BY <2>1, <2>5, <2>6 DEF Answer
<1>23. CASE LoginDone
  <2>1. stack # <<>> /\ Last(stack).at \in {"auth", "auto"}
    BY <1>23 DEF LoginDone, Inner
  <2>2. Last(stack) \in Frames
    BY <2>1, Innermost
  <2>3. Last(stack).arg \in Users \cup {NoUser}
    BY <2>1, <2>2 DEF Frames, Waits, Dialogs
  <2>4. StackOK'
    BY <1>23, <2>1, RestingFrame, Innermost DEF LoginDone
  <2> QED
    BY <1>23, <2>3, <2>4 DEF LoginDone, Codes
<1>24. CASE RestDone
  <2>1. StackOK'
    BY <1>24, Innermost DEF RestDone, Inner
  <2> QED
    BY <1>24, <2>1 DEF RestDone
<1>25. CASE LoopDone
  <2>1. "3" \in Codes \ {"0"}
    BY DEF Codes
  <2>2. [at |-> "ask", arg |-> "3"] \in Frames
    BY <2>1, DialogFrame
  <2>3. StackOK'
    BY <1>25, <2>2, Innermost DEF LoopDone, Inner
  <2> QED
    BY <1>25, <2>1, <2>3 DEF LoopDone
<1> QED
  BY <1>1, <1>2, <1>3, <1>4, <1>5, <1>6, <1>7, <1>8, <1>9, <1>10, <1>11,
     <1>12, <1>13, <1>14, <1>15, <1>16, <1>17, <1>18, <1>19, <1>20, <1>21,
     <1>22, <1>23, <1>24, <1>25, NextCases

\* Every variable keeps its type.
THEOREM TypeCorrect == Spec => []TypeOK
<1>1. Init => TypeOK
  BY SessionAssumption, EmptySeq DEF Init, TypeOK, StackOK, Codes
<1> QED
  BY <1>1, TypeStep, PTL DEF Spec

-----------------------------------------------------------------------------
(* SessionOfLogin.  What is needed beside it: who is still being logged in  *)
(* was accepted by this pypass; a dialog is always innermost, and while it  *)
(* is open the exit code is not 0; so if the main loop was left with exit   *)
(* code 0, curruser has been written by a login that this pypass accepted.  *)

Accepting ==
  \A i \in 1..Len(stack) :
    /\ stack[i].at \in {"auth", "auto"} => stack[i].arg \in accepted
    /\ stack[i] \in Dialogs => i = Len(stack) /\ code # "0"

LoginInv ==
  /\ Accepting
  /\ post # "gui" => client = "none"
  /\ client = "login" /\ gtk = "quit" /\ code = "0" => cuser \in accepted
  /\ SessionOfLogin

\* With a new callback, or another in place of the innermost one, Accepting
\* has to be shown for that one only.
LEMMA AcceptingPushed ==
  ASSUME StackOK, Accepting, NEW f \in Frames,
         stack' = Append(stack, f), accepted \subseteq accepted',
         \A i \in 1..Len(stack) : stack[i] \notin Dialogs,
         f.at \in {"auth", "auto"} => f.arg \in accepted',
         f \in Dialogs => code' # "0"
  PROVE  Accepting'
<1>1. Len(stack) \in Nat
  BY LenProperties DEF StackOK
<1>2. /\ Len(stack') = Len(stack) + 1 /\ stack'[Len(stack) + 1] = f
      /\ \A i \in 1..Len(stack) : stack'[i] = stack[i]
  BY Pushed DEF StackOK
<1> QED
  BY <1>1, <1>2 DEF Accepting

LEMMA AcceptingReplaced ==
  ASSUME StackOK, Accepting, NEW f \in Frames, stack # <<>>,
         stack' = Append(Front(stack), f), accepted \subseteq accepted',
         f.at \in {"auth", "auto"} => f.arg \in accepted',
         f \in Dialogs => code' # "0"
  PROVE  Accepting'
<1>1. Len(stack) \in Nat \ {0}
  BY EmptySeq DEF StackOK
<1>2. /\ Len(stack') = Len(stack) /\ stack'[Len(stack)] = f
      /\ \A i \in 1..(Len(stack) - 1) : stack'[i] = stack[i]
  BY Replaced DEF StackOK
<1> QED
  BY <1>1, <1>2 DEF Accepting

LEMMA AcceptingPopped ==
  ASSUME StackOK, Accepting, stack # <<>>,
         stack' = Front(stack), accepted \subseteq accepted'
  PROVE  Accepting'
<1>1. /\ Len(stack) \in Nat \ {0} /\ Len(stack') = Len(stack) - 1
      /\ \A i \in 1..(Len(stack) - 1) : stack'[i] = stack[i]
  BY Popped DEF StackOK
<1> QED
  BY <1>1 DEF Accepting

LEMMA AcceptingSame ==
  ASSUME Accepting, UNCHANGED <<stack, code, accepted>>
  PROVE  Accepting'
BY DEF Accepting

LEMMA AcceptingEmpty ==
  ASSUME stack' = <<>>
  PROVE  Accepting'
BY EmptySeq DEF Accepting

\* What Accepting says of the innermost callback.
LEMMA AcceptingLast ==
  ASSUME StackOK, Accepting, stack # <<>>
  PROVE  /\ Last(stack).at \in {"auth", "auto"} => Last(stack).arg \in accepted
         /\ Last(stack) \in Dialogs => code # "0"
         /\ Last(stack) \notin Dialogs
              => \A i \in 1..Len(stack) : stack[i] \notin Dialogs
<1>1. Len(stack) \in Nat \ {0} /\ Last(stack) = stack[Len(stack)]
  BY Popped DEF StackOK
<1>2. Len(stack) \in 1..Len(stack)
  BY <1>1
<1> QED
  BY <1>1, <1>2, Zenon DEF Accepting

\* Where input is accepted, no dialog is open at all.
LEMMA NoDialog ==
  ASSUME StackOK, Accepting, Listening
  PROVE  \A i \in 1..Len(stack) : stack[i] \notin Dialogs
<1>1. CASE stack = <<>>
  BY <1>1, EmptySeq
<1>2. CASE stack # <<>>
  BY <1>2, AcceptingLast DEF Listening
<1> QED
  BY <1>1, <1>2

LEMMA LoginStep ==
  ASSUME TypeOK, TypeOK', LoginInv, [Next]_vars
  PROVE  LoginInv'
<1> USE DEF LoginInv, SessionOfLogin, pypass
<1>a. StackOK
  BY DEF TypeOK
<1>1. CASE UNCHANGED vars
  BY <1>1, AcceptingSame DEF vars
<1>2. CASE CleanFiles
  BY <1>2, AcceptingSame DEF CleanFiles
<1>3. CASE StartGui
  BY <1>3, AcceptingSame DEF StartGui
<1>4. CASE CheckShutdown
  BY <1>4, AcceptingSame DEF CheckShutdown
<1>5. CASE PowerOff
  BY <1>5, AcceptingSame DEF PowerOff
<1>6. CASE LeavePrompt
  BY <1>6, AcceptingSame DEF LeavePrompt
<1>7. CASE StartLogin
  BY <1>7, AcceptingSame DEF StartLogin
<1>8. CASE Logout
  BY <1>8, AcceptingSame DEF Logout
<1>9. CASE XCrash
  BY <1>9, AcceptingSame DEF XCrash
<1>10. CASE Press
  BY <1>10, AcceptingSame DEF Press
<1>11. CASE HandlerWrites
  BY <1>11, AcceptingSame DEF HandlerWrites
<1>12. CASE HandlerKills
  BY <1>12, AcceptingSame DEF HandlerKills
<1>13. CASE PypassExits
  BY <1>13, AcceptingSame DEF PypassExits
<1>14. CASE XinitReturns
  BY <1>14, AcceptingEmpty DEF XinitReturns, NoPypass
<1>15. CASE PowerOn
  BY <1>15, AcceptingEmpty DEF PowerOn, NoPypass
<1>16. CASE PypassKilled
  BY <1>16, AcceptingEmpty DEF PypassKilled, NoPypass
<1>17. CASE PypassStarts
  <2>1. Accepting'
    <3>1. CASE stack' = <<>>
      BY <3>1, AcceptingEmpty
    <3>2. CASE stack' = <<[at |-> "auto", arg |-> conf]>> /\ accepted' = {conf}
      BY <3>2 DEF Accepting, Dialogs
    <3>3. CASE stack' = <<[at |-> "loop", arg |-> NoUser]>>
      BY <3>3 DEF Accepting, Dialogs
    <3> QED
      BY <1>17, <3>1, <3>2, <3>3 DEF PypassStarts
  <2> QED
    BY <1>17, <2>1 DEF PypassStarts
<1>18. CASE \E u \in Users : Login(u)
  <2>1. PICK u \in Users : Login(u)
    BY <1>18
  <2>2. [at |-> "auth", arg |-> u] \in Frames \ Dialogs
    BY DEF Frames, Waits, Dialogs
  <2>3. Resting \notin Dialogs
    BY DEF Resting, Dialogs
  <2>4. accepted \subseteq accepted'
    BY <2>1 DEF Login
  <2>5. \A i \in 1..Len(stack) : stack[i] \notin Dialogs
    BY <1>a, <2>1, NoDialog DEF Login
  <2>6. CASE /\ stack' = Append(stack, [at |-> "auth", arg |-> u])
             /\ accepted' = accepted \cup {u}
    <3>1. Accepting'
      BY <1>a, <2>2, <2>4, <2>5, <2>6, AcceptingPushed
    <3> QED
      BY <2>1, <2>4, <3>1 DEF Login
  <2>7. CASE stack' = Append(stack, Resting)
    <3>1. Accepting'
      BY <1>a, <2>3, <2>4, <2>5, <2>7, RestingFrame, AcceptingPushed
         DEF Resting
    <3> QED
      BY <2>1, <2>4, <3>1 DEF Login
  <2> QED
    BY <2>1, <2>6, <2>7 DEF Login
<1>19. CASE \/ Button \/ CloseWindow
            \/ SpecialUser("exit", "1")
            \/ SpecialUser("reboot", "2")
            \/ SpecialUser("shutdown", "3")
  <2>1. PICK c \in Codes \ {"0"}, from \in {"ask", "ask-close", "ask-check"} :
          /\ Listening /\ OnExit(c, from)
          /\ UNCHANGED <<post, client, cuser, gtk, user, accepted>>
    BY <1>19 DEF Button, CloseWindow, SpecialUser, Codes
  <2>2. \A i \in 1..Len(stack) : stack[i] \notin Dialogs
    BY <1>a, <2>1, NoDialog
  <2>3. [at |-> from, arg |-> c] \in Frames
    BY DialogFrame
  <2>4. Accepting'
    BY <1>a, <2>1, <2>2, <2>3, AcceptingPushed DEF OnExit
  <2> QED
    BY <2>1, <2>4 DEF OnExit
<1>20. CASE \E yes \in BOOLEAN : Answer(yes)
  <2>1. PICK yes \in BOOLEAN : Answer(yes)
    BY <1>20
  <2>2. stack # <<>> /\ Last(stack).at \in {"ask", "ask-close", "ask-check"}
    BY <2>1 DEF Answer, Inner
  <2>3. Last(stack) \in Dialogs
    BY <1>a, <2>2, Innermost DEF Frames, Waits
  <2>4. code # "0"
    BY <1>a, <2>2, <2>3, AcceptingLast
  <2>5. Resting \notin Dialogs
    BY DEF Resting, Dialogs
  <2>6. accepted' = accepted
    BY <2>1 DEF Answer
  <2>7. Accepting'
    BY <1>a, <2>1, <2>2, <2>5, <2>6, RestingFrame, AcceptingPopped,
       AcceptingReplaced DEF Answer, Resting
  <2> QED
    BY <2>1, <2>4, <2>7 DEF Answer
<1>21. CASE LoginDone
  <2>1. stack # <<>> /\ Last(stack).at \in {"auth", "auto"}
    BY <1>21 DEF LoginDone, Inner
  <2>2. Last(stack).arg \in accepted
    BY <1>a, <2>1, AcceptingLast
  <2>3. \A i \in 1..Len(stack) : stack[i] \notin Dialogs
    <3>1. Last(stack) \notin Dialogs
      BY <2>1 DEF Dialogs
    <3> QED
      BY <1>a, <2>1, <3>1, AcceptingLast
  <2>4. Resting \notin Dialogs
    BY DEF Resting, Dialogs
  <2>5. accepted' = accepted
    BY <1>21 DEF LoginDone
  <2>6. Accepting'
    BY <1>a, <1>21, <2>1, <2>4, <2>5, RestingFrame, AcceptingPopped,
       AcceptingReplaced DEF LoginDone, Resting
  <2> QED
    BY <1>21, <2>2, <2>5, <2>6 DEF LoginDone
<1>22. CASE RestDone
  <2>1. Accepting'
    BY <1>a, <1>22, AcceptingPopped DEF RestDone, Inner
  <2> QED
    BY <1>22, <2>1 DEF RestDone
<1>23. CASE LoopDone
  <2>1. "3" \in Codes \ {"0"}
    BY DEF Codes
  <2>2. [at |-> "ask", arg |-> "3"] \in Frames
    BY <2>1, DialogFrame
  <2>3. Accepting'
    BY <1>a, <1>23, <2>2, AcceptingReplaced DEF LoopDone, Inner
  <2> QED
    BY <1>23, <2>3 DEF LoopDone
<1> QED
  BY <1>1, <1>2, <1>3, <1>4, <1>5, <1>6, <1>7, <1>8, <1>9, <1>10, <1>11,
     <1>12, <1>13, <1>14, <1>15, <1>16, <1>17, <1>18, <1>19, <1>20, <1>21,
     <1>22, <1>23, NextCases

\* A desktop session only ever belongs to a user whose login the pypass that
\* started it has accepted: whatever is clicked while callbacks wait inside
\* each other, whatever crashes, and whatever an earlier boot left behind.
THEOREM SessionIsOfLogin == Spec => []SessionOfLogin
<1>1. Init => LoginInv
  BY EmptySeq DEF Init, LoginInv, Accepting, SessionOfLogin
<1>2. LoginInv => SessionOfLogin
  BY DEF LoginInv
<1> QED
  BY <1>1, <1>2, LoginStep, TypeCorrect, PTL DEF Spec

-----------------------------------------------------------------------------
(* DownOnlyIfAsked and NoSessionOnceConfirmed, for a person who lets every *)
(* login finish, does not use the special user exit, and an X server that  *)
(* stays up: SessionDecline, SessionExit, SessionXCrash and                *)
(* SessionImpatient are the counterexamples without.  Callbacks then do    *)
(* not nest, so an open dialog is the only one, the main loop still runs   *)
(* behind it, and the code it asks about is the one pypass will exit with. *)

Calm == Inputs \cap {"exit", "impatient"} = {} /\ "xcrash" \notin Faults

Reason == asked \cap {"2", "3", "-P"} # {}

Asks == {"ask", "ask-close", "ask-check"}

OneCallback ==
  /\ stack = <<>> \/ \E f \in Frames : stack = <<f>>
  /\ stack # <<>> =>
       /\ Last(stack).at # "rest" => gtk = "runs"
       /\ Last(stack).at \in Asks => Last(stack).arg = code
                                     /\ code \in {"2", "3"}

DownInv ==
  /\ post \in {"after", "down"} => Reason
  /\ post # "gui" => client = "none"
  /\ client = "done" => Reason
  /\ post = "gui" /\ xorg = "down" => "-P" \in asked
  /\ handler = "killing" => "-P" \in asked
  /\ client = "login" /\ gtk = "quit" /\ code # "0"
       => code \in asked /\ code \in {"2", "3"}
  /\ OneCallback

LEMMA OneFrame ==
  ASSUME NEW f
  PROVE  /\ <<f>> # <<>> /\ Last(<<f>>) = f
         /\ Front(<<f>>) = <<>> /\ Append(<<>>, f) = <<f>>
<1>1. Front(<<f>>) = SubSeq(<<f>>, 1, 0)
  BY DEF Front
<1>2. SubSeq(<<f>>, 1, 0) = <<>>
  OBVIOUS
<1> QED
  BY <1>1, <1>2 DEF Last

\* A new callback is the only one.
LEMMA FirstCallback ==
  ASSUME Calm, OneCallback, Listening, NEW f, stack' = Append(stack, f)
  PROVE  gtk = "runs" /\ stack = <<>> /\ stack' = <<f>>
BY OneFrame DEF Calm, Listening

\* Whatever becomes of the innermost callback, it was the only one.
LEMMA LastCallback ==
  ASSUME OneCallback, stack # <<>>
  PROVE  /\ Front(stack) = <<>>
         /\ \A f : Append(Front(stack), f) = <<f>>
<1>1. PICK f \in Frames : stack = <<f>>
  BY DEF OneCallback
<1> QED
  BY <1>1, OneFrame

LEMMA NoCallback ==
  ASSUME stack' = <<>>
  PROVE  OneCallback'
BY DEF OneCallback

LEMMA SameCallback ==
  ASSUME OneCallback, UNCHANGED <<stack, gtk, code>>
  PROVE  OneCallback'
BY DEF OneCallback

LEMMA OnlyCallback ==
  ASSUME NEW f \in Frames, stack' = <<f>>,
         f.at # "rest" => gtk' = "runs",
         f.at \in Asks => f.arg = code' /\ code' \in {"2", "3"}
  PROVE  OneCallback'
BY OneFrame DEF OneCallback

LEMMA DownStep ==
  ASSUME Calm, TypeOK, DownInv, [Next]_vars
  PROVE  DownInv'
<1> USE DEF DownInv, Reason, pypass
<1>a. Resting \in Frames /\ Resting.at = "rest"
  BY RestingFrame DEF Resting
<1>1. CASE UNCHANGED vars
  BY <1>1, SameCallback DEF vars
<1>2. CASE CleanFiles
  BY <1>2, SameCallback DEF CleanFiles
<1>3. CASE StartGui
  BY <1>3, SameCallback DEF StartGui
<1>4. CASE CheckShutdown
  BY <1>4, SameCallback DEF CheckShutdown, Pressed
<1>5. CASE PowerOff
  BY <1>5, SameCallback DEF PowerOff
<1>6. CASE LeavePrompt
  BY <1>6, SameCallback DEF LeavePrompt
<1>7. CASE StartLogin
  BY <1>7, SameCallback DEF StartLogin
<1>8. CASE Logout
  BY <1>8, SameCallback DEF Logout
<1>9. CASE XCrash
  BY <1>9 DEF XCrash, Calm
<1>10. CASE Press
  BY <1>10, SameCallback DEF Press
<1>11. CASE HandlerWrites
  BY <1>11, SameCallback DEF HandlerWrites
<1>12. CASE HandlerKills
  BY <1>12, SameCallback DEF HandlerKills
<1>13. CASE PypassExits
  <2>1. OneCallback'
    BY <1>13, NoCallback DEF PypassExits
  <2>2. CASE code = "0"
    BY <1>13, <2>1, <2>2 DEF PypassExits, Pressed
  <2>3. CASE code # "0"
    BY <1>13, <2>1, <2>3 DEF PypassExits
  <2> QED
    BY <2>2, <2>3
<1>14. CASE XinitReturns
  BY <1>14, NoCallback DEF XinitReturns, NoPypass
<1>15. CASE PowerOn
  BY <1>15, NoCallback DEF PowerOn, NoPypass
<1>16. CASE PypassKilled
  BY <1>16, NoCallback DEF PypassKilled, NoPypass
<1>17. CASE PypassStarts
  <2>1. /\ [at |-> "auto", arg |-> conf] \in Frames
        /\ [at |-> "loop", arg |-> NoUser] \in Frames
    BY SessionAssumption DEF Frames, Waits, TypeOK
  <2>2. OneCallback'
    <3>1. CASE stack' = <<>>
      BY <3>1, NoCallback
    <3>2. CASE stack' = <<[at |-> "auto", arg |-> conf]>>
      BY <1>17, <2>1, <3>2, OnlyCallback DEF PypassStarts, Asks
    <3>3. CASE stack' = <<[at |-> "loop", arg |-> NoUser]>>
      BY <1>17, <2>1, <3>3, OnlyCallback DEF PypassStarts, Asks
    <3> QED
      BY <1>17, <3>1, <3>2, <3>3 DEF PypassStarts
  <2> QED
    BY <1>17, <2>2 DEF PypassStarts
<1>18. CASE \E u \in Users : Login(u)
  <2>1. PICK u \in Users : Login(u)
    BY <1>18
  <2>2. [at |-> "auth", arg |-> u] \in Frames
    BY DEF Frames, Waits
  <2>3. PICK f \in Frames : /\ f.at \in {"auth", "rest"}
                            /\ stack' = Append(stack, f)
    BY <1>a, <2>1, <2>2 DEF Login
  <2>4. gtk = "runs" /\ stack' = <<f>>
    BY <2>1, <2>3, FirstCallback DEF Login
  <2>5. OneCallback'
    BY <2>1, <2>3, <2>4, OnlyCallback DEF Login, Asks
  <2> QED
    BY <2>1, <2>5 DEF Login
<1>19. CASE \/ Button \/ CloseWindow
            \/ SpecialUser("exit", "1")
            \/ SpecialUser("reboot", "2")
            \/ SpecialUser("shutdown", "3")
  <2>1. PICK c \in {"2", "3"}, from \in Asks :
          /\ Listening /\ OnExit(c, from)
          /\ UNCHANGED <<post, xorg, client, gtk, handler, asked>>
    BY <1>19 DEF Button, CloseWindow, SpecialUser, Calm, Asks
  <2>2. [at |-> from, arg |-> c] \in Frames
    BY DialogFrame DEF Codes, Asks
  <2>3. gtk = "runs" /\ stack' = <<[at |-> from, arg |-> c]>>
    BY <2>1, FirstCallback DEF OnExit
  <2>4. OneCallback'
    BY <2>1, <2>2, <2>3, OnlyCallback DEF OnExit
  <2> QED
    BY <2>1, <2>3, <2>4 DEF OnExit
<1>20. CASE \E yes \in BOOLEAN : Answer(yes)
  <2>1. PICK yes \in BOOLEAN : Answer(yes)
    BY <1>20
  <2>2. stack # <<>> /\ Last(stack).at \in Asks
    BY <2>1 DEF Answer, Inner, Asks
  <2>3. gtk = "runs" /\ Last(stack).arg = code /\ code \in {"2", "3"}
    BY <2>2 DEF OneCallback, Asks
  <2>4. stack' = <<>> \/ stack' = <<Resting>>
    BY <2>1, <2>2, LastCallback DEF Answer
  <2>5. OneCallback'
    BY <1>a, <2>4, NoCallback, OnlyCallback DEF Asks
  <2> QED
    BY <2>1, <2>3, <2>5 DEF Answer
<1>21. CASE LoginDone
  <2>1. stack' = <<>> \/ stack' = <<Resting>>
    BY <1>21, LastCallback DEF LoginDone, Inner
  <2>2. OneCallback'
    BY <1>a, <2>1, NoCallback, OnlyCallback DEF Asks
  <2> QED
    BY <1>21, <2>2 DEF LoginDone
<1>22. CASE RestDone
  <2>1. OneCallback'
    BY <1>22, LastCallback, NoCallback DEF RestDone, Inner
  <2> QED
    BY <1>22, <2>1 DEF RestDone
<1>23. CASE LoopDone
  <2>1. [at |-> "ask", arg |-> "3"] \in Frames
    BY DialogFrame DEF Codes
  <2>2. gtk = "runs"
    BY <1>23 DEF LoopDone, Inner, OneCallback
  <2>3. stack' = <<[at |-> "ask", arg |-> "3"]>>
    BY <1>23, LastCallback DEF LoopDone, Inner
  <2>4. OneCallback'
    BY <1>23, <2>1, <2>2, <2>3, OnlyCallback DEF LoopDone
  <2> QED
    BY <1>23, <2>2, <2>4 DEF LoopDone
<1> QED
  BY <1>1, <1>2, <1>3, <1>4, <1>5, <1>6, <1>7, <1>8, <1>9, <1>10, <1>11,
     <1>12, <1>13, <1>14, <1>15, <1>16, <1>17, <1>18, <1>19, <1>20, <1>21,
     <1>22, <1>23, NextCases

\* If people let logins finish and do not use the special user exit, and the X
\* server stays up, the machine goes down only when somebody asked for it,
\* however often pypass is killed.
THEOREM DownIsAsked == Calm /\ Spec => []DownOnlyIfAsked
<1>1. Init => DownInv
  BY DEF Init, DownInv, OneCallback
<1>2. DownInv => DownOnlyIfAsked
  BY DEF DownInv, DownOnlyIfAsked, Reason
<1>3. Calm /\ TypeOK /\ DownInv /\ [Next]_vars => DownInv'
  BY DownStep
<1>4. CASE Calm
  BY <1>1, <1>2, <1>3, <1>4, TypeCorrect, PTL DEF Spec
<1> QED
  BY <1>4

\* Until a session starts, a confirmed request is outlived only by a pypass
\* that has left its main loop with that code.
ConfirmedInv ==
  /\ post \in {"boot", "ready", "prompt"} => asked \subseteq {"-P"}
  /\ client \in {"gap", "starting", "desk"} => asked \subseteq {"-P"}
  /\ client = "login" =>
       asked \subseteq {"-P"} \/ (gtk = "quit" /\ code # "0")

LEMMA ConfirmedStep ==
  ASSUME Calm, "kill" \notin Faults, TypeOK, DownInv, ConfirmedInv,
         [Next]_vars
  PROVE  ConfirmedInv'
<1> USE DEF ConfirmedInv, pypass
<1>1. CASE UNCHANGED vars
  BY <1>1 DEF vars
<1>2. CASE CleanFiles \/ StartGui \/ XinitReturns \/ PowerOff \/ LeavePrompt
  BY <1>2 DEF CleanFiles, StartGui, XinitReturns, NoPypass, PowerOff,
              LeavePrompt
<1>3. CASE CheckShutdown
  <2>1. client = "none"
    BY <1>3 DEF CheckShutdown, DownInv
  <2> QED
    BY <1>3, <2>1 DEF CheckShutdown, Pressed
<1>4. CASE StartLogin \/ PypassStarts \/ Logout
  BY <1>4 DEF StartLogin, PypassStarts, Logout
<1>5. CASE XCrash \/ PypassKilled
  BY <1>5 DEF XCrash, PypassKilled, Calm
<1>6. CASE Press \/ HandlerWrites \/ HandlerKills
  BY <1>6 DEF Press, HandlerWrites, HandlerKills
<1>7. CASE PypassExits
  <2>1. post = "gui"
    BY <1>7 DEF PypassExits, DownInv
  <2> QED
    BY <1>7, <2>1 DEF PypassExits, Pressed
<1>8. CASE PowerOn
  BY <1>8 DEF PowerOn
<1>9. CASE \E u \in Users : Login(u)
  BY <1>9 DEF Login
<1>10. CASE \/ Button \/ CloseWindow
            \/ SpecialUser("exit", "1")
            \/ SpecialUser("reboot", "2")
            \/ SpecialUser("shutdown", "3")
  BY <1>10 DEF Button, CloseWindow, SpecialUser, OnExit
<1>11. CASE \E yes \in BOOLEAN : Answer(yes)
  <2>1. PICK yes \in BOOLEAN : Answer(yes)
    BY <1>11
  <2>2. post = "gui" /\ client = "login" /\ code \in {"2", "3"}
    BY <2>1 DEF Answer, Inner, DownInv, OneCallback, Asks
  <2> QED
    BY <2>1, <2>2 DEF Answer
<1>12. CASE LoginDone
  <2>1. gtk = "runs"
    BY <1>12 DEF LoginDone, Inner, DownInv, OneCallback
  <2> QED
    BY <1>12, <2>1 DEF LoginDone, Inner
<1>13. CASE RestDone
  BY <1>13 DEF RestDone
<1>14. CASE LoopDone
  BY <1>14 DEF LoopDone
<1> QED
  BY <1>1, <1>2, <1>3, <1>4, <1>5, <1>6, <1>7, <1>8, <1>9, <1>10, <1>11,
     <1>12, <1>13, <1>14, NextCases

\* Under the same conditions, and if nothing kills pypass, no session starts
\* over a shutdown or reboot that has been confirmed.
THEOREM ConfirmedHasNoSession ==
  Calm /\ "kill" \notin Faults /\ Spec => NoSessionOnceConfirmed
<1>1. Init => DownInv /\ ConfirmedInv
  BY DEF Init, DownInv, OneCallback, ConfirmedInv
<1>2. Calm /\ TypeOK /\ DownInv /\ [Next]_vars => DownInv'
  BY DownStep
<1>3. Calm /\ "kill" \notin Faults /\ TypeOK /\ DownInv /\ ConfirmedInv
        /\ [Next]_vars => ConfirmedInv'
  BY ConfirmedStep
<1>4. ASSUME DownInv, ConfirmedInv, [Next]_vars,
             client # "desk", client' = "desk"
      PROVE  asked \subseteq {"-P"}
  <2>1. PypassExits
    BY <1>4, NextCases
       DEF vars, pypass, CleanFiles, StartGui, XinitReturns, CheckShutdown,
           PowerOff, StartLogin, PypassStarts, LoginDone, RestDone, LoopDone,
           HandlerWrites, HandlerKills, PowerOn, LeavePrompt, Button,
           CloseWindow, Logout, Press, PypassKilled, XCrash, Login,
           SpecialUser, Answer
  <2> QED
    BY <1>4, <2>1 DEF PypassExits, ConfirmedInv
<1>5. DownInv /\ ConfirmedInv /\ [Next]_vars
        => [client # "desk" /\ client' = "desk" => asked \subseteq {"-P"}]_vars
  BY <1>4
<1>6. CASE Calm /\ "kill" \notin Faults
  BY <1>1, <1>2, <1>3, <1>5, <1>6, TypeCorrect, PTL
     DEF Spec, NoSessionOnceConfirmed
<1> QED
  BY <1>6

-----------------------------------------------------------------------------
(* A confirmed request is carried out.  ConfirmedPowersOff needs fairness; *)
(* what it needs besides is that from the "yes" on the programs are never   *)
(* without a next step, that each of them brings the end of the machine     *)
(* nearer, and that no press, click or logout puts it off.                  *)

Requested == asked \cap {"2", "3"} # {}

\* What is left: the callback under the dialog, pypass, xinit, postinit, and
\* the way back to init.
Stage ==
  CASE machine # "on" -> 0
    [] machine = "on" /\ post = "down" -> 1
    [] machine = "on" /\ post = "after" -> 2
    [] machine = "on" /\ post \notin {"after", "down"}
       /\ (client = "done" \/ xorg = "down") -> 3
    [] machine = "on" /\ post \notin {"after", "down"}
       /\ ~(client = "done" \/ xorg = "down") /\ stack = <<>> -> 4
    [] OTHER -> 5

\* The guards of the steps of postinit and pypass that are still to come.
Ready ==
  \/ post \in {"after", "down"}
  \/ post = "gui" /\ (xorg = "down" \/ client = "done")
  \/ client = "login" /\ xorg = "up" /\ stack # <<>> /\ Last(stack).at = "rest"
  \/ client = "login" /\ xorg = "up" /\ stack = <<>> /\ gtk = "quit"

CarriedOut ==
  /\ [](Requested /\ machine = "on" => Ready)
  /\ [][ Requested /\ machine = "on" =>
           /\ Requested' /\ machine' \in {"on", "off"}
           /\ Postinit \/ Pypass => <<Stage', Stage>> \in Less
           /\ Stage' = Stage \/ <<Stage', Stage>> \in Less ]_vars

\* The request is in the file that postinit looks for.
FileInv ==
  /\ post = "gui" => client # "none"
  /\ Requested => sdcom # "absent"

LEMMA FileStep ==
  ASSUME Calm, "kill" \notin Faults, TypeOK, DownInv, ConfirmedInv, FileInv,
         [Next]_vars
  PROVE  FileInv'
<1> USE DEF FileInv, Requested, pypass
<1>1. CASE UNCHANGED vars
  BY <1>1 DEF vars
<1>2. CASE CleanFiles \/ StartGui \/ XinitReturns \/ PowerOff \/ LeavePrompt
  BY <1>2 DEF CleanFiles, StartGui, XinitReturns, NoPypass, PowerOff,
              LeavePrompt, ConfirmedInv
<1>3. CASE CheckShutdown
  BY <1>3 DEF CheckShutdown, Pressed
<1>4. CASE StartLogin \/ PypassStarts \/ Logout
  BY <1>4 DEF StartLogin, PypassStarts, Logout, ConfirmedInv
<1>5. CASE XCrash \/ PypassKilled
  BY <1>5 DEF XCrash, PypassKilled, Calm
<1>6. CASE Press \/ HandlerWrites \/ HandlerKills
  BY <1>6 DEF Press, HandlerWrites, HandlerKills
<1>7. CASE PypassExits
  BY <1>7 DEF PypassExits, Pressed
<1>8. CASE PowerOn
  BY <1>8 DEF PowerOn
<1>9. CASE \E u \in Users : Login(u)
  BY <1>9 DEF Login
<1>10. CASE \/ Button \/ CloseWindow
            \/ SpecialUser("exit", "1")
            \/ SpecialUser("reboot", "2")
            \/ SpecialUser("shutdown", "3")
  BY <1>10 DEF Button, CloseWindow, SpecialUser, OnExit
<1>11. CASE \E yes \in BOOLEAN : Answer(yes)
  <2>1. PICK yes \in BOOLEAN : Answer(yes)
    BY <1>11
  <2>2. Last(stack).arg \in {"2", "3"}
    BY <2>1 DEF Answer, Inner, DownInv, OneCallback, Asks
  <2> QED
    BY <2>1, <2>2 DEF Answer
<1>12. CASE LoginDone
  BY <1>12 DEF LoginDone
<1>13. CASE RestDone \/ LoopDone
  BY <1>13 DEF RestDone, LoopDone
<1> QED
  BY <1>1, <1>2, <1>3, <1>4, <1>5, <1>6, <1>7, <1>8, <1>9, <1>10, <1>11,
     <1>12, <1>13, NextCases

\* Where the machine can be once a request is confirmed: pypass, if it still
\* runs, has left its main loop and at most rests.
LEMMA WhenRequested ==
  ASSUME TypeOK, DownInv, ConfirmedInv, FileInv, Requested
  PROVE  /\ sdcom # "absent"
         /\ \/ post \in {"after", "down"} /\ client = "none"
            \/ post = "gui" /\ client = "done"
            \/ /\ post = "gui" /\ client = "login" /\ gtk = "quit" /\ code # "0"
               /\ stack = <<>> \/ Last(stack).at = "rest"
<1> USE DEF Requested
<1>1. post \in {"gui", "after", "down"}
  BY DEF TypeOK, ConfirmedInv
<1>2. CASE post = "gui"
  <2>1. client \in {"login", "done"}
    BY <1>2 DEF TypeOK, ConfirmedInv, FileInv
  <2>2. client = "login" => gtk = "quit" /\ code # "0"
    BY DEF ConfirmedInv
  <2>3. gtk = "quit" => stack = <<>> \/ Last(stack).at = "rest"
    BY DEF DownInv, OneCallback
  <2> QED
    BY <1>2, <2>1, <2>2, <2>3 DEF FileInv
<1>3. CASE post # "gui"
  BY <1>1, <1>3 DEF DownInv, FileInv
<1> QED
  BY <1>2, <1>3

LEMMA RequestReady ==
  ASSUME TypeOK, DownInv, ConfirmedInv, FileInv, Requested
  PROVE  Ready
<1>1. xorg \in {"up", "down"}
  BY DEF TypeOK
<1> QED
  BY <1>1, WhenRequested DEF Ready

LEMMA IsStage == Stage \in Nat
  BY DEF Stage

LEMMA IsStageNext == Stage' \in Nat
  BY DEF Stage

\* One step of one program or person, from a confirmed request on.
LEMMA RequestStep ==
  ASSUME Calm, "kill" \notin Faults, TypeOK, DownInv, ConfirmedInv, FileInv,
         Requested, machine = "on", [Next]_vars
  PROVE  /\ Requested' /\ machine' \in {"on", "off"}
         /\ Postinit \/ Pypass => Stage' < Stage
         /\ Stage' = Stage \/ Stage' < Stage
<1> USE WhenRequested DEF Requested, pypass
<1> DEFINE Nearer == Requested' /\ machine' \in {"on", "off"} /\ Stage' < Stage
           Same == /\ Requested' /\ machine' \in {"on", "off"} /\ Stage' = Stage
                   /\ ~(Postinit \/ Pypass)
<1>1. CASE Postinit
  <2>1. CASE CleanFiles \/ StartGui
    BY <2>1 DEF CleanFiles, StartGui
  <2>2. CASE XinitReturns
    BY <2>2 DEF XinitReturns, Stage
  <2>3. CASE CheckShutdown
    BY <2>3 DEF CheckShutdown, Stage
  <2>4. CASE PowerOff
    BY <2>4 DEF PowerOff, Stage
  <2> QED
    BY <1>1, <2>1, <2>2, <2>3, <2>4 DEF Postinit
<1>2. CASE Pypass
  <2>1. CASE StartLogin \/ PypassStarts
    BY <2>1 DEF StartLogin, PypassStarts
  <2>2. CASE LoginDone \/ LoopDone
    <3>1. stack # <<>> /\ Last(stack).at # "rest" /\ client = "login"
      BY <2>2 DEF LoginDone, LoopDone, Inner
    <3> QED
      BY <3>1
  <2>3. CASE RestDone
    <3>1. /\ post = "gui" /\ client = "login" /\ xorg = "up" /\ stack # <<>>
          /\ stack' = <<>>
      BY <2>3, LastCallback DEF RestDone, Inner, DownInv
    <3> QED
      BY <2>3, <3>1 DEF RestDone, Stage
  <2>4. CASE PypassExits
    <3>1. /\ post = "gui" /\ client = "login" /\ xorg = "up"
          /\ client' = "done" /\ UNCHANGED <<machine, post, asked>>
      BY <2>4 DEF PypassExits
    <3> QED
      BY <3>1 DEF Stage
  <2> QED
    BY <1>2, <2>1, <2>2, <2>3, <2>4 DEF Pypass
<1>3. ASSUME ~(Postinit \/ Pypass)
      PROVE  Nearer \/ Same
  <2>1. CASE UNCHANGED vars
    BY <1>3, <2>1 DEF vars, Stage
  <2>2. CASE Press \/ HandlerWrites
    BY <1>3, <2>2 DEF Press, HandlerWrites, Stage
  <2>3. CASE HandlerKills
    <3>1. xorg' = "down" /\ UNCHANGED <<machine, post, client, stack, asked>>
      BY <2>3 DEF HandlerKills
    <3> QED
      BY <1>3, <3>1 DEF Stage
  <2>4. CASE PowerOn \/ LeavePrompt \/ Logout
    BY <2>4 DEF PowerOn, LeavePrompt, Logout
  <2>5. CASE XCrash \/ PypassKilled
    BY <2>5 DEF XCrash, PypassKilled, Calm
  <2>6. ~Listening
    BY DEF Listening, Calm
  <2>7. CASE \/ Button \/ CloseWindow
             \/ SpecialUser("exit", "1")
             \/ SpecialUser("reboot", "2")
             \/ SpecialUser("shutdown", "3")
    BY <2>6, <2>7 DEF Button, CloseWindow, SpecialUser
  <2>8. CASE \E u \in Users : Login(u)
    BY <2>6, <2>8 DEF Login
  <2>9. CASE \E yes \in BOOLEAN : Answer(yes)
    <3>1. stack # <<>> /\ Last(stack).at # "rest" /\ client = "login"
      BY <2>9 DEF Answer, Inner
    <3> QED
      BY <3>1
  <2> QED
    BY <1>3, <2>1, <2>2, <2>3, <2>4, <2>5, <2>7, <2>8, <2>9, NextCases
       DEF Postinit, Pypass
<1>4. CASE ~(Postinit \/ Pypass)
  BY <1>3, <1>4
<1> QED
  BY <1>1, <1>2, <1>4

\* For any users: who has confirmed a shutdown or a reboot cannot lose it, under
\* the conditions of ConfirmedHasNoSession.
THEOREM ConfirmedIsCarriedOut ==
  /\ IsWellFoundedOn(Less, Nat)
  /\ Calm /\ "kill" \notin Faults /\ Spec => CarriedOut
<1> DEFINE Inv == TypeOK /\ DownInv /\ ConfirmedInv /\ FileInv
<1>1. ASSUME Calm, "kill" \notin Faults
      PROVE  Spec => CarriedOut
  <2>1. Init => DownInv /\ ConfirmedInv /\ FileInv
    BY DEF Init, DownInv, OneCallback, ConfirmedInv, FileInv, Requested
  <2>2. TypeOK /\ DownInv /\ ConfirmedInv /\ FileInv /\ [Next]_vars
          => (DownInv /\ ConfirmedInv /\ FileInv)'
    BY <1>1, DownStep, ConfirmedStep, FileStep
  <2>3. Spec => []Inv
    BY <2>1, <2>2, TypeCorrect, PTL DEF Spec
  <2>4. Inv => (Requested /\ machine = "on" => Ready)
    BY RequestReady
  <2>5. Inv /\ [Next]_vars =>
          [ Requested /\ machine = "on" =>
              /\ Requested' /\ machine' \in {"on", "off"}
              /\ Postinit \/ Pypass => <<Stage', Stage>> \in Less
              /\ Stage' = Stage \/ <<Stage', Stage>> \in Less ]_vars
    BY <1>1, RequestStep, IsStage, IsStageNext, LessIs
  <2> HIDE DEF Inv
  <2> QED
    BY <2>3, <2>4, <2>5, PTL DEF Spec, CarriedOut
<1> QED
  BY <1>1, LessWellFounded

=============================================================================
