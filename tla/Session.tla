------------------------------ MODULE Session -------------------------------
(***************************************************************************)
(* Who is logged in, and how the machine is asked to power off: the GUI    *)
(* loop of preinit/postinit, the login program apps/pypass/pypass.py, the  *)
(* loop around it (apps/pypass/testloop.sh stands for .xinitrc), the       *)
(* session script preinit/startsys.sh, and the power button handler        *)
(* apps/power/powbutt.sh that powacpi.c starts.  They run concurrently and *)
(* only share files: .shutdowncmd (sdcom) and curruser (cuser).            *)
(***************************************************************************)

EXTENDS Integers, SequencesExt

CONSTANTS
  Users,      \* names with an account
  Autologins, \* what pypass.conf may name as autologin: users, or NoUser
  NoUser,     \* no name, no file
  Inputs,     \* what somebody at the machine may do
  Faults,     \* what may break
  Depth       \* bound on the callbacks of pypass that wait inside each other

ASSUME SessionAssumption ==
  /\ NoUser \notin Users
  /\ Autologins \subseteq Users \cup {NoUser} /\ Autologins # {}
  /\ Inputs \subseteq {"login", "button", "close", "exit", "reboot",
                       "shutdown", "press", "impatient"}
  /\ Faults \subseteq {"xcrash", "kill"}
  /\ Depth \in Nat \ {0}

VARIABLES
  machine,  \* "on", "off" or "rebooted"
  post,     \* where postinit is
  xorg,     \* the X server: "up" or "down"
  client,   \* what .xinitrc is running
  sdcom,    \* contents of .shutdowncmd, or "absent"
  cuser,    \* contents of curruser, or NoUser
  conf,     \* the autologin of pypass.conf
  stack,    \* the callbacks of pypass that are waiting, the innermost last
  window,   \* the login window: "open" or "gone"
  code,     \* exit_code of pypass
  gtk,      \* the main loop: "runs", or "quit" once main_quit() was called
  user,     \* the user the desktop session runs as
  handler,  \* where powbutt.sh is
  asked,    \* history: power requests confirmed or made since the last login
  accepted  \* history: users whose login this pypass has accepted

pypass == <<conf, stack, window, code, gtk>>
vars == <<machine, post, xorg, client, sdcom, cuser, pypass, user, handler,
          asked, accepted>>

Codes == {"0", "1", "2", "3"}

\* A waiting callback: a millisleep() of autologin() or check_pass(), or a
\* dialog, opened from a label or a timer, from delete(), or from check_pass().
Waits == [at : {"auto", "auth", "loop", "rest"}, arg : Users \cup {NoUser}]
Dialogs == [at : {"ask", "ask-close", "ask-check"}, arg : Codes \ {"0"}]
Frames == Waits \cup Dialogs

StackOK == stack \in Seq(Frames) /\ Len(stack) <= Depth

TypeOK ==
  /\ machine \in {"on", "off", "rebooted"}
  /\ post \in {"boot", "ready", "gui", "after", "prompt", "down"}
  /\ xorg \in {"up", "down"}
  /\ client \in {"none", "gap", "starting", "login", "desk", "done"}
  /\ sdcom \in Codes \cup {"-P", "absent"}
  /\ cuser \in Users \cup {NoUser}
  /\ conf \in Autologins
  /\ StackOK
  /\ window \in {"open", "gone"} /\ gtk \in {"runs", "quit"}
  /\ code \in Codes
  /\ user \in Users \cup {NoUser}
  /\ handler \in {"idle", "writing", "killing"}
  /\ asked \in SUBSET {"1", "2", "3", "-P"}
  /\ accepted \subseteq Users

NoPypass ==
  stack' = <<>> /\ window' = "gone" /\ code' = "0" /\ gtk' = "runs"

\* The files under /var/tmp are whatever an earlier boot left in the storage.
Init ==
  /\ machine = "on" /\ post = "boot"
  /\ xorg = "down" /\ client = "none"
  /\ sdcom \in Codes \cup {"-P", "absent"}
  /\ cuser \in Users \cup {NoUser}
  /\ conf \in Autologins
  /\ stack = <<>> /\ window = "gone" /\ code = "0" /\ gtk = "runs"
  /\ user = NoUser /\ handler = "idle" /\ asked = {} /\ accepted = {}

\* What is left of the requests when a new session or a prompt begins: a press
\* that powbutt.sh has not carried out yet.
Pressed == IF handler = "idle" THEN {} ELSE asked \cap {"-P"}

-----------------------------------------------------------------------------
(* postinit. *)

\* Variant of CleanFiles: curruser is left behind.
CleanFilesKeepUser ==
  /\ machine = "on" /\ post = "boot"
  /\ sdcom' = "absent"
  /\ post' = "ready"
  /\ UNCHANGED <<machine, xorg, client, cuser, pypass, user, handler, asked,
                 accepted>>

\* rm -f of the three files, after powacpi has been started.
CleanFiles ==
  /\ machine = "on" /\ post = "boot"
  /\ sdcom' = "absent" /\ cuser' = NoUser
  /\ post' = "ready"
  /\ UNCHANGED <<machine, xorg, client, pypass, user, handler, asked,
                 accepted>>

\* xinit starts the X server and .xinitrc, and blocks.
StartGui ==
  /\ machine = "on" /\ post = "ready"
  /\ post' = "gui" /\ xorg' = "up" /\ client' = "gap"
  /\ UNCHANGED <<machine, sdcom, cuser, pypass, user, handler, asked,
                 accepted>>

\* xinit returns when the server or .xinitrc ends, and ends the other one.
XinitReturns ==
  /\ machine = "on" /\ post = "gui"
  /\ xorg = "down" \/ client = "done"
  /\ post' = "after" /\ xorg' = "down" /\ client' = "none"
  /\ user' = NoUser /\ NoPypass
  /\ UNCHANGED <<machine, conf, sdcom, cuser, handler, asked, accepted>>

\* Variant of CheckShutdown: only the power button's "-P" shuts down.
CheckShutdownPress ==
  /\ machine = "on" /\ post = "after"
  /\ IF sdcom = "-P"
     THEN post' = "down" /\ UNCHANGED asked
     ELSE post' = "prompt" /\ asked' = Pressed
  /\ UNCHANGED <<machine, xorg, client, sdcom, cuser, pypass, user, handler,
                 accepted>>

\* if [ -e $SDCOM ]: that the file exists, not what is in it.
CheckShutdown ==
  /\ machine = "on" /\ post = "after"
  /\ IF sdcom # "absent"
     THEN post' = "down" /\ UNCHANGED asked
     ELSE post' = "prompt" /\ asked' = Pressed
  /\ UNCHANGED <<machine, xorg, client, sdcom, cuser, pypass, user, handler,
                 accepted>>

\* The shell of the System Control Prompt: exit starts X again, and there are
\* commands to restart or power down.
LeavePrompt ==
  /\ machine = "on" /\ post = "prompt"
  /\ \/ post' = "ready" /\ UNCHANGED machine
     \/ machine' \in {"off", "rebooted"} /\ UNCHANGED post
  /\ UNCHANGED <<xorg, client, sdcom, cuser, pypass, user, handler, asked,
                 accepted>>

\* postinit and preinit exit, and init always ends with linux_poweroff -f.
PowerOff ==
  /\ machine = "on" /\ post = "down"
  /\ machine' = "off"
  /\ UNCHANGED <<post, xorg, client, sdcom, cuser, pypass, user, handler,
                 asked, accepted>>

\* The next boot, with or without the old files; the configuration may have
\* been edited.
PowerOn ==
  /\ machine # "on"
  /\ machine' = "on" /\ post' = "boot" /\ xorg' = "down" /\ client' = "none"
  /\ sdcom' \in {sdcom, "absent"} /\ cuser' \in {cuser, NoUser}
  /\ user' = NoUser /\ handler' = "idle" /\ asked' = {} /\ accepted' = {}
  /\ conf' \in Autologins /\ NoPypass

-----------------------------------------------------------------------------
(* .xinitrc and pypass. *)

StartLogin ==
  /\ machine = "on" /\ client = "gap" /\ xorg = "up"
  /\ client' = "starting"
  /\ UNCHANGED <<machine, post, xorg, sdcom, cuser, pypass, user, handler,
                 asked, accepted>>

\* main() removes .shutdowncmd and opens the window.  The autologin timer fires
\* 40 ms later, before anybody can react: a name in curruser means that the
\* automatic session has been here already.
PypassStarts ==
  /\ machine = "on" /\ client = "starting"
  /\ client' = "login"
  /\ sdcom' = "absent"
  /\ window' = "open" /\ code' = "0" /\ gtk' = "runs"
  /\ \/ /\ conf = NoUser
        /\ stack' = <<>> /\ accepted' = {}
     \/ /\ conf # NoUser /\ cuser = NoUser
        /\ stack' = <<[at |-> "auto", arg |-> conf]>>
        /\ accepted' = {conf}
     \/ /\ conf # NoUser /\ cuser # NoUser
        /\ stack' = <<[at |-> "loop", arg |-> NoUser]>> /\ accepted' = {}
  /\ UNCHANGED <<conf, machine, post, xorg, cuser, user, handler, asked>>

Resting == [at |-> "rest", arg |-> NoUser]

\* pypass runs and its innermost callback can go on.
Inner(kinds) ==
  /\ machine = "on" /\ client = "login" /\ xorg = "up"
  /\ stack # <<>> /\ Last(stack).at \in kinds

\* pypass takes input: millisleep() runs the main loop, so also while callbacks
\* wait, but not while a modal dialog is on the screen.
Listening ==
  /\ machine = "on" /\ client = "login" /\ xorg = "up" /\ window = "open"
  /\ \/ stack = <<>> /\ gtk = "runs"
     \/ /\ "impatient" \in Inputs
        /\ stack # <<>> /\ Last(stack) \notin Dialogs
        /\ Len(stack) < Depth

\* check_pass() on correct credentials says so for half a second; otherwise it
\* is at its final wait of two seconds.
Login(u) ==
  /\ "login" \in Inputs /\ Listening
  /\ \/ /\ stack' = Append(stack, [at |-> "auth", arg |-> u])
        /\ accepted' = accepted \cup {u}
     \/ stack' = Append(stack, Resting) /\ UNCHANGED accepted
  /\ UNCHANGED <<machine, post, xorg, client, sdcom, cuser, conf, window, code,
                 gtk, user, handler, asked>>

\* OnExit(excode) for a code that has to be confirmed.
OnExit(excode, from) ==
  /\ code' = excode
  /\ stack' = Append(stack, [at |-> from, arg |-> excode])

\* labelbuttf(): both labels shut down.
Button ==
  /\ "button" \in Inputs /\ Listening
  /\ OnExit("3", "ask")
  /\ UNCHANGED <<conf, machine, post, xorg, client, sdcom, cuser, window, gtk,
                 user, handler, asked, accepted>>

\* delete(): the file is written first.
CloseWindow ==
  /\ "close" \in Inputs /\ Listening
  /\ sdcom' = "3"
  /\ OnExit("3", "ask-close")
  /\ UNCHANGED <<conf, machine, post, xorg, client, cuser, window, gtk, user,
                 handler, asked, accepted>>

\* precheck_pass(): the special users, with the file written first.
SpecialUser(uu, excode) ==
  /\ uu \in Inputs /\ Listening
  /\ sdcom' = "3"
  /\ OnExit(excode, "ask-check")
  /\ UNCHANGED <<conf, machine, post, xorg, client, cuser, window, gtk, user,
                 handler, asked, accepted>>

\* yes_no() returns.  "No" leaves exit_code and .shutdowncmd as they are.  When
\* delete() is through, GTK destroys the window; check_pass() goes on to its
\* final wait.
Answer(yes) ==
  /\ Inner({"ask", "ask-close", "ask-check"})
  /\ IF yes
     THEN /\ sdcom' = Last(stack).arg
          /\ gtk' = "quit"
          /\ asked' = asked \cup {Last(stack).arg}
     ELSE UNCHANGED <<conf, sdcom, gtk, asked>>
  /\ window' = IF Last(stack).at = "ask-close" THEN "gone" ELSE window
  /\ stack' = IF Last(stack).at = "ask-check"
              THEN Append(Front(stack), Resting) ELSE Front(stack)
  /\ UNCHANGED <<conf, machine, post, xorg, client, cuser, code, user, handler,
                 accepted>>

\* Variant of LoginDone: the two files are mixed up.
LoginDoneSwapped ==
  /\ Inner({"auth", "auto"})
  /\ sdcom' = Last(stack).arg
  /\ code' = "0"
  /\ cuser' = "0"
  /\ gtk' = "quit"
  /\ stack' = IF Last(stack).at = "auth"
              THEN Append(Front(stack), Resting) ELSE Front(stack)
  /\ UNCHANGED <<conf, machine, post, xorg, client, window, user, handler,
                 asked, accepted>>

\* Variant of LoginDone: save_result() fails without a word.
LoginDoneUnsaved ==
  /\ Inner({"auth", "auto"})
  /\ code' = "0"
  /\ sdcom' = "0"
  /\ gtk' = "quit"
  /\ stack' = IF Last(stack).at = "auth"
              THEN Append(Front(stack), Resting) ELSE Front(stack)
  /\ UNCHANGED <<conf, machine, post, xorg, client, cuser, window, user,
                 handler, asked, accepted>>

\* The wait of autologin() or of check_pass() (pypass.py:615-622) is over:
\* save_result() and OnExit(0), which writes the file too.
LoginDone ==
  /\ Inner({"auth", "auto"})
  /\ cuser' = Last(stack).arg
  /\ code' = "0"
  /\ sdcom' = "0"
  /\ gtk' = "quit"
  /\ stack' = IF Last(stack).at = "auth"
              THEN Append(Front(stack), Resting) ELSE Front(stack)
  /\ UNCHANGED <<conf, machine, post, xorg, client, window, user, handler,
                 asked, accepted>>

\* The end of check_pass().
RestDone ==
  /\ Inner({"rest"})
  /\ stack' = Front(stack)
  /\ UNCHANGED <<machine, post, xorg, client, sdcom, cuser, conf, window, code,
                 gtk, user, handler, asked, accepted>>

\* autologin() found the session over: OnExit(3).
LoopDone ==
  /\ Inner({"loop"})
  /\ code' = "3"
  /\ stack' = Append(Front(stack), [at |-> "ask", arg |-> "3"])
  /\ UNCHANGED <<conf, machine, post, xorg, client, sdcom, cuser, window, gtk,
                 user, handler, asked, accepted>>

\* Variant of PypassExits: .xinitrc ends whatever the code.
PypassExitsDone ==
  /\ machine = "on" /\ client = "login" /\ xorg = "up"
  /\ gtk = "quit" /\ stack = <<>>
  /\ client' = "done"
  /\ UNCHANGED <<machine, post, xorg, sdcom, cuser, pypass, user, handler,
                 asked, accepted>>

\* Variant of PypassExits: the exit code is lost on the way.
PypassExitsZero ==
  /\ machine = "on" /\ client = "login" /\ xorg = "up"
  /\ gtk = "quit" /\ stack = <<>>
  /\ client' = "desk" /\ user' = cuser /\ asked' = Pressed
  /\ UNCHANGED <<machine, post, xorg, sdcom, cuser, pypass, handler, accepted>>

\* Gtk.main() returns; .xinitrc ends on any code but 0, on which startsys.sh
\* runs the session of the user in curruser.
PypassExits ==
  /\ machine = "on" /\ client = "login" /\ xorg = "up"
  /\ gtk = "quit" /\ stack = <<>>
  /\ IF code = "0"
     THEN client' = "desk" /\ user' = cuser /\ asked' = Pressed
     ELSE client' = "done" /\ UNCHANGED <<conf, user, asked>>
  /\ UNCHANGED <<machine, post, xorg, sdcom, cuser, pypass, handler, accepted>>

Logout ==
  /\ machine = "on" /\ client = "desk" /\ xorg = "up"
  /\ client' = "gap" /\ user' = NoUser
  /\ UNCHANGED <<machine, post, xorg, sdcom, cuser, pypass, handler, asked,
                 accepted>>

\* A return code above 127: the loop starts pypass again.
PypassKilled ==
  /\ "kill" \in Faults
  /\ machine = "on" /\ client \in {"starting", "login"} /\ xorg = "up"
  /\ client' = "gap" /\ NoPypass
  /\ UNCHANGED <<machine, conf, post, xorg, sdcom, cuser, user, handler, asked,
                 accepted>>

XCrash ==
  /\ "xcrash" \in Faults
  /\ machine = "on" /\ xorg = "up"
  /\ xorg' = "down"
  /\ UNCHANGED <<machine, post, client, sdcom, cuser, pypass, user, handler,
                 asked, accepted>>

-----------------------------------------------------------------------------
(* powbutt.sh; powacpi runs one at a time. *)

\* Power button, or the lid closing.  With a desktop session running the script
\* leaves the matter to it.
Press ==
  /\ "press" \in Inputs
  /\ machine = "on" /\ post # "down" /\ handler = "idle"
  /\ client # "desk"
  /\ handler' = "writing"
  /\ UNCHANGED <<machine, post, xorg, client, sdcom, cuser, pypass, user,
                 asked, accepted>>

HandlerWrites ==
  /\ machine = "on" /\ handler = "writing"
  /\ sdcom' = "-P"
  /\ asked' = asked \cup {"-P"}
  /\ handler' = "killing"
  /\ UNCHANGED <<machine, post, xorg, client, cuser, pypass, user, accepted>>

\* kill of Xorg, if there is one by now.
HandlerKills ==
  /\ machine = "on" /\ handler = "killing"
  /\ xorg' = "down"
  /\ handler' = "idle"
  /\ UNCHANGED <<machine, post, client, sdcom, cuser, pypass, user, asked,
                 accepted>>

-----------------------------------------------------------------------------
Postinit == CleanFiles \/ StartGui \/ XinitReturns \/ CheckShutdown \/ PowerOff

Pypass ==
  \/ StartLogin \/ PypassStarts \/ LoginDone \/ RestDone \/ LoopDone
  \/ PypassExits

Powbutt == HandlerWrites \/ HandlerKills

Person ==
  \/ PowerOn \/ LeavePrompt \/ Button \/ CloseWindow \/ Logout \/ Press
  \/ \E u \in Users : Login(u)
  \/ SpecialUser("exit", "1")
  \/ SpecialUser("reboot", "2")
  \/ SpecialUser("shutdown", "3")
  \/ \E yes \in BOOLEAN : Answer(yes)

Next == Postinit \/ Pypass \/ Powbutt \/ Person \/ PypassKilled \/ XCrash

\* The programs keep running; nobody has to touch the machine.
Fairness == WF_vars(Postinit) /\ WF_vars(Pypass) /\ WF_vars(Powbutt)

Spec == Init /\ [][Next]_vars /\ Fairness

-----------------------------------------------------------------------------
(* Properties. *)

\* The machine is taken down (postinit:149 "Shutdown?") only if since the last
\* login somebody confirmed a shutdown or a reboot or pressed the power button;
\* everything else that ends the GUI leads to the System Control Prompt
\* (postinit:161).
DownOnlyIfAsked == post = "down" => asked \cap {"2", "3", "-P"} # {}

\* The desktop session belongs to a user whose login the pypass that started it
\* has accepted, never to one from an earlier login or an earlier boot.
SessionOfLogin == client = "desk" => user \in accepted

\* Who answers yes to "Are you sure you want to shutdown?" (pypass.py:564) gets
\* the machine powered off.
ConfirmedPowersOff == ("3" \in asked) ~> (machine = "off")

\* No session starts over a confirmed power request: its dialog was the last
\* thing asked before pypass ends.
NoSessionOnceConfirmed ==
  [][client # "desk" /\ client' = "desk" => asked \subseteq {"-P"}]_vars

\* The power button, or "lid closed, powering down" (powbutt.sh:58): a press
\* that the script acts on powers the machine off.
PressPowersOff == ("-P" \in asked) ~> (machine = "off")

\* "Use special users 'exit', 'reboot', or 'shutdown' for said actions."
\* (pypass.py:18): a confirmed reboot restarts the machine.
RebootReboots == ("2" \in asked) ~> (machine = "rebooted")

\* Whoever declines to shut down (the default is "No") is back at the login
\* window.
DeclinedKeepsWindow ==
  client = "login" /\ stack = <<>> /\ gtk = "runs" => window = "open"

\* A machine that logs in automatically (docs/WELCOME.pango:39) reaches the
\* session on every boot unless the power button is pressed.
AutoSession ==
  (machine = "on" /\ post = "boot" /\ conf # NoUser)
    ~> (client = "desk" /\ user = conf) \/ "-P" \in asked

\* "exit directly if auto login" (TODO:21): when the automatic session is over,
\* the machine powers off by itself.
AutoLoopPowersOff == 
  (\E i \in DOMAIN stack : stack[i].at = "loop") ~> (machine = "off")

=============================================================================
