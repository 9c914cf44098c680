----------------------------- MODULE TimedKeys ------------------------------
(***************************************************************************)
(* keypeek and keyget: a question on the console that is answered by a     *)
(* key, by a line or by the passing of time.  The handlers of SIGALRM and  *)
(* SIGINT share the count of seconds with the reading loop and with each   *)
(* other; the decrement is a load and a store (the Makefile does not       *)
(* optimize), and a handler may run while the program is on its way out.   *)
(***************************************************************************)
EXTENDS Integers

CONSTANTS
  Progs,     \* the programs that are run
  Timeouts,  \* the numbers given with -t
  MaxKeys    \* bound: keys, lines and Ctrl-C

ASSUME KeysAssumption ==
  Progs \subseteq {"keypeek", "keyget"} /\ Timeouts \subseteq Nat /\ MaxKeys \in Nat

\* A message that does not fit the buffer; -y of keyget, with 1 for yes, and -f.
Options == {"long", "yesno", "yes", "force"}

VARIABLES
  prog, t, opt,  \* the program, the number given with -t, the other options
  pc,         \* "start", "ask", "leaving" in exit(), or "gone"
  secleft,    \* seconds left, -1 for no timeout
  alarm,      \* "off", "set", or "counting": timedout() has loaded secleft
  reg,        \* what it loaded
  terminal,   \* "raw" in keypeek's mode, or "sane"
  code,       \* the exit code
  keys,       \* keys, lines and Ctrl-C so far
  said,       \* what was read of them
  quiet,      \* alarms since the start or the last ESC or Ctrl-C
  reset       \* "lost" if that came within the decrement

asked == <<prog, t, opt>>
clock == <<secleft, alarm, reg>>
vars == <<asked, pc, clock, terminal, code, keys, said, quiet, reset>>

Peek == prog = "keypeek"

\* orgsecleft
Org == IF t = 0 THEN -1 ELSE t

Init ==
  /\ prog \in Progs
  /\ t \in Timeouts
  /\ opt \in SUBSET Options
  /\ Peek \/ "yesno" \notin opt => opt \subseteq {"long"}
  /\ pc = "start" /\ secleft = Org /\ alarm = "off" /\ reg = 0
  /\ terminal = "sane" /\ code = 0
  /\ keys = 0 /\ said = {} /\ quiet = 0 /\ reset = "done"

\* A message too long for the buffer ends the program before it asks.
Start ==
  /\ pc = "start"
  /\ IF "long" \in opt
     THEN pc' = "gone" /\ code' = 1 /\ UNCHANGED <<terminal, alarm>>
     ELSE /\ pc' = "ask" /\ UNCHANGED code
          /\ terminal' = IF Peek THEN "raw" ELSE "sane"
          /\ alarm' = IF Peek \/ (secleft # -1 /\ "yesno" \notin opt)
                      THEN "set" ELSE "off"
  /\ UNCHANGED <<asked, secleft, reg, keys, said, quiet, reset>>

-----------------------------------------------------------------------------
(* The input. *)

\* The loop goes to exit() with a code.
Answered(c) == pc' = "leaving" /\ code' = c

\* The count is not set back.
PeekKeyEscDead(k) ==
  IF k = "y" THEN Answered(1) /\ UNCHANGED <<secleft, quiet, reset>>
  ELSE IF k = "n" THEN Answered(0) /\ UNCHANGED <<secleft, quiet, reset>>
  ELSE /\ UNCHANGED <<pc, code, secleft>>
       /\ quiet' = IF k = "esc" THEN 0 ELSE quiet
       /\ reset' = IF k = "esc" THEN "done" ELSE reset

\* "n" stands for the Enter key, too. Any other key is passed over.
PeekKey(k) ==
  IF k = "y" THEN Answered(1) /\ UNCHANGED <<secleft, quiet, reset>>
  ELSE IF k = "n" THEN Answered(0) /\ UNCHANGED <<secleft, quiet, reset>>
  ELSE /\ UNCHANGED <<pc, code>>
       /\ secleft' = IF k = "esc" THEN Org ELSE secleft
       /\ quiet' = IF k = "esc" THEN 0 ELSE quiet
       /\ reset' = IF k = "esc" THEN "done" ELSE reset

\* A line with a y is a yes, one with an n and no y is a no.
GetLine(k) ==
  /\ IF "yesno" \notin opt \/ k = "n" THEN Answered(0)
     ELSE IF k = "y" THEN Answered(1)
     ELSE IF "force" \in opt THEN UNCHANGED <<pc, code>>
     ELSE Answered(IF "yes" \in opt THEN 1 ELSE 0)
  /\ UNCHANGED <<secleft, quiet, reset>>

Read(k) ==
  /\ pc = "ask" /\ alarm # "counting" /\ "eof" \notin said /\ keys < MaxKeys
  /\ keys' = keys + 1
  /\ said' = said \cup {k}
  /\ IF Peek THEN PeekKey(k) ELSE GetLine(k)
  /\ UNCHANGED <<asked, alarm, reg, terminal>>

\* The end of the input is a line without y and n, and a key that is none;
\* it can be read again and again.
ReadEof ==
  /\ pc = "ask" /\ alarm # "counting"
  /\ said' = said \cup {"eof"}
  /\ IF Peek THEN PeekKey("eof") ELSE GetLine("eof")
  /\ UNCHANGED <<asked, alarm, reg, terminal, keys>>

\* exit(), for keypeek by way of safe_exit().
Leave ==
  /\ pc = "leaving" /\ alarm # "counting"
  /\ pc' = "gone"
  /\ terminal' = "sane"
  /\ UNCHANGED <<asked, clock, code, keys, said, quiet, reset>>

-----------------------------------------------------------------------------
(* The signal handlers. *)

\* The end of the time is a no for keypeek; for keyget it is code 1.
TimeoutCodeOne == 1
TimeoutCode == IF Peek THEN 0 ELSE 1

\* The terminal stays raw.
TimedoutRaw ==
  /\ alarm = "set" /\ pc \in {"ask", "leaving"}
  /\ quiet' = quiet + 1
  /\ CASE secleft = -1 -> alarm' = "off" /\ UNCHANGED <<pc, code, reg>>
       [] secleft = 0 ->
            alarm' = "off" /\ pc' = "gone" /\ code' = TimeoutCode /\ UNCHANGED reg
       [] OTHER -> alarm' = "counting" /\ reg' = secleft /\ UNCHANGED <<pc, code>>
  /\ UNCHANGED <<asked, secleft, terminal, keys, said, reset>>

\* timedout(), up to the load of secleft; at zero it leaves the program.
Timedout ==
  /\ alarm = "set" /\ pc \in {"ask", "leaving"}
  /\ quiet' = quiet + 1
  /\ CASE secleft = -1 -> alarm' = "off" /\ UNCHANGED <<pc, code, terminal, reg>>
       [] secleft = 0 ->
            /\ alarm' = "off" /\ pc' = "gone" /\ code' = TimeoutCode
            /\ terminal' = "sane" /\ UNCHANGED reg
       [] OTHER ->
            alarm' = "counting" /\ reg' = secleft /\ UNCHANGED <<pc, code, terminal>>
  /\ UNCHANGED <<asked, secleft, keys, said, reset>>

\* The alarm is not set again.
CountedOnce ==
  /\ alarm = "counting" /\ pc # "gone"
  /\ secleft' = reg - 1
  /\ alarm' = "off"
  /\ UNCHANGED <<asked, pc, reg, terminal, code, keys, said, quiet, reset>>

\* timedout(), from the store of secleft.
Counted ==
  /\ alarm = "counting" /\ pc # "gone"
  /\ secleft' = reg - 1
  /\ alarm' = "set"
  /\ UNCHANGED <<asked, pc, reg, terminal, code, keys, said, quiet, reset>>

\* What Ctrl-C does to keyget: it ends, or asks again if it must have an answer.
Interrupted ==
  /\ IF {"yesno", "force"} \subseteq opt /\ pc # "start"
     THEN UNCHANGED <<pc, code>> ELSE pc' = "gone" /\ code' = 130
  /\ UNCHANGED <<secleft, quiet, reset>>

\* The time is added to what is left.
CtrlCAdds ==
  /\ pc # "gone" /\ keys < MaxKeys
  /\ keys' = keys + 1
  /\ IF Peek
     THEN /\ secleft' = secleft + Org /\ quiet' = 0
          /\ reset' = IF alarm = "counting" THEN "lost" ELSE "done"
          /\ UNCHANGED <<pc, code>>
     ELSE Interrupted
  /\ UNCHANGED <<asked, alarm, reg, terminal, said>>

\* keypeek starts the count anew.
ctrl_c ==
  /\ pc # "gone" /\ keys < MaxKeys
  /\ keys' = keys + 1
  /\ IF Peek
     THEN /\ secleft' = Org /\ quiet' = 0
          /\ reset' = IF alarm = "counting" THEN "lost" ELSE "done"
          /\ UNCHANGED <<pc, code>>
     ELSE Interrupted
  /\ UNCHANGED <<asked, alarm, reg, terminal, said>>

Next ==
  \/ Start \/ ReadEof \/ Leave \/ Timedout \/ Counted \/ ctrl_c
  \/ \E k \in {"y", "n", "esc", "other"} : Read(k)

\* The processor runs the program and its handlers, and the alarm comes; the
\* end of the input comes only if it does.
Spec == Init /\ [][Next]_vars
          /\ WF_vars(Start) /\ WF_vars(Leave) /\ WF_vars(Timedout)
          /\ WF_vars(Counted) /\ WF_vars("eof" \in said /\ ReadEof)

-----------------------------------------------------------------------------
(* Properties. *)

\* The variables keep their types; the count stays within what it was set to.
TypeOK ==
  /\ prog \in Progs /\ t \in Timeouts /\ opt \in SUBSET Options
  /\ pc \in {"start", "ask", "leaving", "gone"}
  /\ alarm \in {"off", "set", "counting"}
  /\ IF t = 0 THEN secleft = -1 /\ reg = 0 ELSE secleft \in 0 .. t /\ reg \in 0 .. t
  /\ terminal \in {"raw", "sane"} /\ reset \in {"done", "lost"}
  /\ code \in {0, 1, 130} /\ keys \in 0 .. MaxKeys /\ quiet \in Nat
  /\ said \subseteq {"y", "n", "esc", "other", "eof"}

\* What may be created on a disk is created on a yes only: keypeek says yes
\* if y was pressed, and keyget in yes/no mode if a y was entered or yes is
\* the default; neither says it because the time is over.
YesOnlyIfPressed ==
  (pc = "gone" /\ code = 1 /\ "long" \notin opt /\ (Peek \/ "yesno" \in opt))
  => "y" \in said \/ ("yes" \in opt /\ "force" \notin opt)

\* Whichever way it ends, by key or from the handler, keypeek leaves the
\* terminal as it was.
Restored == pc = "gone" => terminal = "sane"

\* Who presses ESC or Ctrl-C has all of the time again, unless the Ctrl-C
\* came within the decrement: keypeek is not over before.
WaitsInFull ==
  [][(Peek /\ pc = "ask" /\ pc' = "gone" /\ reset = "done") => quiet' > t]_vars

\* A question with a timeout ends by itself, and so does one whose input has
\* ended, but not in keypeek without a timeout or if keyget must have an answer.
Timed == t # 0 /\ (Peek \/ "yesno" \notin opt)
Ends == /\ (pc = "ask" /\ Timed) ~> pc = "gone"
        /\ ("eof" \in said /\ ~Peek /\ "force" \notin opt) ~> pc = "gone"

\* A y that was read is answered by the code for yes.
YesCounts == (pc = "gone" /\ Peek /\ "y" \in said) => code = 1

\* The time is never cut short.
CtrlCGivesTime == [][(Peek /\ pc = "ask" /\ pc' = "gone") => quiet' > t]_vars

\* Yes is said by a key and by nothing else.
NoFalseYes == (pc = "gone" /\ Peek /\ code = 1) => "y" \in said

=============================================================================
