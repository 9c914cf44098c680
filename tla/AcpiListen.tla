------------------------------ MODULE AcpiListen ------------------------------
(***************************************************************************)
(* powacpi, which postinit starts in the background after acpid and never  *)
(* again, and its handler powbutt.sh.  acpid writes every event to the     *)
(* socket; powacpi reads what has gathered there as one text and hands it  *)
(* to a shell, for which only the first line is a call of the handler.     *)
(***************************************************************************)
EXTENDS Integers

CONSTANTS
  Kinds,      \* what the events say
  MaxEvents,  \* bound: events; fewer than fill powacpi's buffer
  Period      \* the period of its clock, 2^32 microseconds, in tenths of a second

ASSUME AcpiAssumption ==
  /\ Kinds \subseteq {"power", "lidclose", "lidopen", "other"}
  /\ MaxEvents \in Nat /\ Period \in Nat \ {0}

VARIABLES
  mode,      \* "listen", or "test" with option -t
  acpid,     \* "starting", "up" or "ended"
  pc,        \* "start", "recv", "usleep", "system" or "gone"
  now,       \* the time since powacpi connected
  age,       \* "young" in the first tenth of a second
  sock,      \* events in the socket
  buf,       \* events in the text that was read
  handler,   \* powbutt.sh: "idle", "check", "write" or "kill"
  gui,       \* "down", "login" or "xfce", a session of XFCE
  sdcom,     \* .shutdowncmd: "absent" or "-P"
  sent,      \* events so far
  answered   \* events that the handler was called for

listener == <<mode, pc, buf, answered>>
time == <<now, age>>
desktop == <<handler, gui, sdcom>>
vars == <<listener, acpid, time, sock, desktop, sent>>

Event(n, k) == [id |-> n, kind |-> k]
Listening == mode = "listen" /\ pc \in {"recv", "usleep", "system"}

Init ==
  /\ mode \in {"listen", "test"}
  /\ acpid = "starting" /\ pc = "start" /\ now = 0 /\ age = "young"
  /\ sock = {} /\ buf = {} /\ sent = 0 /\ answered = {}
  /\ handler = "idle" /\ gui = "login" /\ sdcom = "absent"

-----------------------------------------------------------------------------
(* acpid, the clock and the desktop. *)

\* acpid listens, or ends. What it wrote to the socket can still be read.
Acpid ==
  /\ \/ acpid = "starting" /\ acpid' = "up"
     \/ acpid = "up" /\ acpid' = "ended"
  /\ UNCHANGED <<listener, time, sock, desktop, sent>>

\* An event goes to whoever is connected.
Happens(k) ==
  /\ acpid = "up" /\ sent < MaxEvents
  /\ sent' = sent + 1
  /\ sock' = sock \cup (IF Listening THEN {Event(sent', k)} ELSE {})
  /\ UNCHANGED <<listener, acpid, time, desktop>>

Tick ==
  /\ Listening
  /\ now' = (now + 1) % Period /\ age' = "old"
  /\ UNCHANGED <<listener, acpid, sock, desktop, sent>>

\* Xorg and the session of XFCE come and go.
Desktop ==
  /\ gui' \in {"down", "login", "xfce"} \ {gui}
  /\ UNCHANGED <<listener, acpid, time, sock, handler, sdcom, sent>>

-----------------------------------------------------------------------------
(* powacpi. *)

\* gettimediff() < 100000: the long is returned as an int, which is negative in
\* the second half of each period.
Throttled == now = 0 \/ 2 * now >= Period

\* The text is a call of the handler for its first line.
First(events) == CHOOSE e \in events : \A f \in events : e.id <= f.id

\* With -t the handler is called for the text given there.
Test(k) ==
  /\ pc = "start" /\ mode = "test"
  /\ buf' = {Event(0, k)} /\ pc' = "system" /\ handler' = "check"
  /\ UNCHANGED <<mode, answered, acpid, time, sock, gui, sdcom, sent>>

\* connect() fails if acpid does not listen yet, and that is the end.
Connect ==
  /\ pc = "start" /\ mode = "listen"
  /\ pc' = IF acpid = "up" THEN "recv" ELSE "gone"
  /\ UNCHANGED <<mode, buf, answered, acpid, time, sock, desktop, sent>>

\* The event is dropped where it should be delayed.
RecvDrops ==
  /\ pc = "recv" /\ sock # {}
  /\ sock' = {}
  /\ IF Throttled
     THEN UNCHANGED <<pc, buf, handler>>
     ELSE buf' = sock /\ pc' = "system" /\ handler' = "check"
  /\ UNCHANGED <<mode, answered, acpid, time, gui, sdcom, sent>>

\* All there is comes in one piece. With nothing there recv() waits, or
\* returns 0 again and again once acpid has ended.
Recv ==
  /\ pc = "recv" /\ sock # {}
  /\ buf' = sock /\ sock' = {}
  /\ IF Throttled
     THEN pc' = "usleep" /\ UNCHANGED handler
     ELSE pc' = "system" /\ handler' = "check"
  /\ UNCHANGED <<mode, answered, acpid, time, gui, sdcom, sent>>

Wake ==
  /\ pc = "usleep"
  /\ pc' = "system" /\ handler' = "check"
  /\ UNCHANGED <<mode, buf, answered, acpid, time, sock, gui, sdcom, sent>>

\* The handler is started in the background.
ReturnAtOnce ==
  /\ pc = "system"
  /\ buf' = {}
  /\ IF mode = "test"
     THEN pc' = "gone" /\ UNCHANGED answered
     ELSE pc' = "recv" /\ answered' = answered \cup {First(buf)}
  /\ UNCHANGED <<mode, acpid, time, sock, desktop, sent>>

\* system() waits for the shell, which cannot make sense of the other lines.
Return ==
  /\ pc = "system" /\ handler = "idle"
  /\ buf' = {}
  /\ IF mode = "test"
     THEN pc' = "gone" /\ UNCHANGED answered
     ELSE pc' = "recv" /\ answered' = answered \cup {First(buf)}
  /\ UNCHANGED <<mode, acpid, time, sock, desktop, sent>>

-----------------------------------------------------------------------------
(* powbutt.sh. *)

\* A session of XFCE handles the event itself; what does not power off is
\* passed over.
Check ==
  /\ handler = "check"
  /\ handler' = IF gui # "xfce" /\ First(buf).kind \in {"power", "lidclose"}
                THEN "write" ELSE "idle"
  /\ UNCHANGED <<listener, acpid, time, sock, gui, sdcom, sent>>

Write ==
  /\ handler = "write"
  /\ sdcom' = "-P" /\ handler' = "kill"
  /\ UNCHANGED <<listener, acpid, time, sock, gui, sent>>

\* kill of Xorg, with all that runs in it by now.
Kill ==
  /\ handler = "kill"
  /\ gui' = "down" /\ handler' = "idle"
  /\ UNCHANGED <<listener, acpid, time, sock, sdcom, sent>>

Powbutt == Check \/ Write \/ Kill
Powacpi == Connect \/ Recv \/ Wake \/ Return \/ \E k \in Kinds : Test(k)

Next == Powbutt \/ Powacpi \/ Acpid \/ Tick \/ Desktop
          \/ \E k \in Kinds : Happens(k)

\* The processor runs both programs; nothing has to happen to them.
Spec == Init /\ [][Next]_vars /\ WF_vars(Powbutt) /\ WF_vars(Powacpi)

-----------------------------------------------------------------------------
(* Properties. *)

\* The variables keep their types, and the handler runs under system() only.
TypeOK ==
  /\ mode \in {"listen", "test"} /\ acpid \in {"starting", "up", "ended"}
  /\ pc \in {"start", "recv", "usleep", "system", "gone"}
  /\ now \in 0 .. Period - 1 /\ age \in {"young", "old"}
  /\ sent \in 0 .. MaxEvents
  /\ sock \subseteq [id : 1 .. sent, kind : Kinds]
  /\ buf \subseteq [id : 0 .. sent, kind : Kinds]
  /\ answered \subseteq [id : 1 .. sent, kind : Kinds]
  /\ handler \in {"idle", "check", "write", "kill"}
  /\ handler # "idle" => pc = "system"
  /\ gui \in {"down", "login", "xfce"} /\ sdcom \in {"absent", "-P"}

\* Once powacpi has connected, the event that has waited longest is the next
\* one the handler is called for, whenever it came and although acpid ends;
\* events are handled in their order, and none twice.
Bell == INSTANCE Doorbell WITH
  listening <- IF Listening THEN "yes" ELSE "no",
  rung      <- sent,
  waiting   <- IF mode = "test" THEN {} ELSE sock \cup buf

Answers == Bell!Spec

\* Every press that reaches the socket is handled.
PressHandled ==
  \A n \in 1 .. MaxEvents :
    Event(n, "power") \in sock ~> Event(n, "power") \in answered

\* Only what comes in the first tenth of a second is delayed.
Prompt == [][(pc = "recv" /\ pc' = "usleep") => age = "young"]_vars

\* A session of XFCE is never ended by the handler.
SessionKept == [][(handler = "kill" /\ handler' = "idle") => gui # "xfce"]_vars

\* powacpi listens as long as acpid does.
Stays == []<>(acpid = "up" => Listening \/ mode = "test")
=============================================================================
