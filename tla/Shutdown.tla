------------------------------ MODULE Shutdown ------------------------------
(***************************************************************************)
(* How comlin64 goes down: postinit's shutdown branch with _termAll(),     *)
(* downClean() and umountAll() of preinit/terminit.sh, the way back        *)
(* through preinit to initramfs/init, and init's list of umounts before    *)
(* linux_poweroff -f.  Three scripts, each waiting for the one it started, *)
(* race with the processes they have told to terminate; and whether a file *)
(* system can be unmounted depends on who is still using it and on what is *)
(* mounted below it.                                                       *)
(***************************************************************************)
EXTENDS Naturals, Sequences, FiniteSets

CONSTANTS
  Procs,   \* all processes but the three scripts
  Temper,  \* of each process: how it takes SIGTERM
  Uses,    \* of each process: where its root, cwd and open files are
  Keeper,  \* of each process: the forever.sh that starts it again, or NoProc
  NoProc,
  Media,   \* mount points of disks the user has mounted
  Listed,  \* the media that the pipeline of umountAll() yields
  Modes,   \* "data" with the storage overlay, "nosave" without
  Boots    \* "usb", or "cd" whose device is not a partition

Scripts == {"preinit", "postinit"}

\* s-* is bound below the RAM overlay sysroot, where preinit runs, and n-*
\* below the storage overlay newroot, where the session runs.  Uses says "/"
\* for the session's root.
SysBinds == {"s-proc", "s-sys", "s-dev", "s-orig", "s-cdroot"}
NewBinds == {"n-proc", "n-sys", "n-dev", "n-orig", "n-cdroot"}
Points == SysBinds \cup NewBinds \cup Media
            \cup {"cdroot", "sysroot", "s-pts", "n-pts", "hdroot", "newroot"}

ASSUME ShutdownAssumption ==
  /\ NoProc \notin Procs \cup Scripts /\ Procs \cap Scripts = {}
  /\ IsFiniteSet(Procs) /\ IsFiniteSet(Media)
  /\ Temper \in [Procs -> {"heeds", "slow", "deaf"}]
  /\ Uses \in [Procs -> SUBSET (Points \cup {"/"})]
  /\ Keeper \in [Procs -> Procs \cup {NoProc}]
  /\ Listed \subseteq Media
  /\ Media \cap (SysBinds \cup NewBinds \cup
       {"cdroot", "sysroot", "s-pts", "n-pts", "hdroot", "newroot", "/"}) = {}
  /\ Modes \subseteq {"data", "nosave"} /\ Boots \subseteq {"usb", "cd"}

VARIABLES
  mode, boot,
  live,     \* running processes, pid 1 aside
  signals,  \* signals on their way: <<process, which pass sent it>>
  told,     \* signals that have arrived
  post,     \* where postinit is
  init,     \* where pid 1 is
  parts,    \* mount points that umountAll() has yet to try
  step,     \* which of their umount commands postinit and init are at
  mounted

vars == <<mode, boot, live, signals, told, post, init, parts, step,
          mounted>>

TypeOK ==
  /\ mode \in Modes /\ boot \in Boots
  /\ live \subseteq Procs \cup Scripts
  /\ signals \subseteq (Procs \cup Scripts) \X {1, 2}
  /\ told \subseteq Procs \X {1, 2}
  /\ post \in {"down", "sleep", "umountall", "umounting", "gone"}
  /\ init \in {"waiting", "umounting", "off"}
  /\ parts \subseteq Points
  /\ step \in [{"postinit", "init"} -> 0..12]
  /\ mounted \subseteq Points

-----------------------------------------------------------------------------
(* The mount tree. *)

Root == IF mode = "data" THEN "newroot" ELSE "sysroot"

\* Where a mount point lies.
On(m) ==
  CASE m \in NewBinds -> "newroot"
    [] m = "n-pts" -> "n-dev"
    [] m = "s-pts" -> "s-dev"
    [] m \in SysBinds \cup {"hdroot", "newroot"} -> "sysroot"
    [] m \in Media -> Root
    [] OTHER -> "/"

\* preinit did a cd to newroot before it started postinit there.
UsedBy(p) ==
  CASE p = "postinit" -> {Root}
    [] p = "preinit" -> {"sysroot", Root}
    [] OTHER -> {IF m = "/" THEN Root ELSE m : m \in Uses[p]}

Busy(m) ==
  \/ \E c \in mounted : On(c) = m
  \/ \E p \in live : m \in UsedBy(p)

\* umount of one mount point; that it fails is not looked at.
Umount(m) ==
  mounted' = IF Busy(m) THEN mounted ELSE mounted \ {m}

-----------------------------------------------------------------------------
\* The GUI has ended and .shutdowncmd exists.
Init ==
  /\ mode \in Modes /\ boot \in Boots
  /\ live = Procs \cup Scripts
  /\ signals = {} /\ told = {}
  /\ post = "down" /\ init = "waiting"
  /\ parts = {}
  /\ step = [s \in {"postinit", "init"} |-> 0]
  /\ \E users \in SUBSET Media :
       mounted = users \cup SysBinds \cup {"cdroot", "sysroot", "s-pts"}
                   \cup IF mode = "data"
                        THEN NewBinds \cup {"n-pts", "hdroot", "newroot"}
                        ELSE {}

Powered == init # "off"

-----------------------------------------------------------------------------
(* postinit. *)

\* Variant: grep "postinit", the line downClean() has commented out.
GovernorPostinit == "postinit"

\* GOV of downClean(): the first process that "ps xa | grep preinit" shows.
Governor == "preinit"

\* _termAll(): everything in the snapshot but pid 1, GOV and $$ gets a signal,
\* each from a kill in the background.  The number of the signal is taken for a
\* process, so that both passes send SIGTERM.
TermAll(pass) ==
  signals' = signals \cup ((live \ {Governor, "postinit"}) \X {pass})

DownClean ==
  /\ Powered /\ post = "down"
  /\ TermAll(1)
  /\ post' = "sleep"
  /\ UNCHANGED <<mode, boot, live, told, init, parts, step, mounted>>

\* Variant: no sleep between the passes.
AmplifyAtOnce ==
  /\ Powered /\ post = "sleep"
  /\ TermAll(2)
  /\ post' = "umountall"
  /\ UNCHANGED <<mode, boot, live, told, init, parts, step, mounted>>

\* sleep 1: by then the kills of the first pass have been run.
Amplify ==
  /\ Powered /\ post = "sleep"
  /\ \A s \in signals : s[2] # 1
  /\ TermAll(2)
  /\ post' = "umountall"
  /\ UNCHANGED <<mode, boot, live, told, init, parts, step, mounted>>

\* What lsblk shows to a process whose root is Root and awk and grep let pass:
\* mounted partitions.
Partitions ==
  (mounted \cap Listed)
    \cup (IF boot = "cd" THEN {}
          ELSE {m \in mounted \cap {"s-cdroot", "n-cdroot"} : On(m) = Root})

\* Variant: "/" is not passed over.
UmountAllRoot ==
  /\ Powered /\ post = "umountall"
  /\ parts' = Partitions \cup {"/"}
  /\ step' = [step EXCEPT !["postinit"] = 1]
  /\ post' = "umounting"
  /\ UNCHANGED <<mode, boot, live, signals, told, init, mounted>>

\* The loop of umountAll() begins; the list of lsblk is made once.
UmountAll ==
  /\ Powered /\ post = "umountall"
  /\ parts' = Partitions
  /\ step' = [step EXCEPT !["postinit"] = 1]
  /\ post' = "umounting"
  /\ UNCHANGED <<mode, boot, live, signals, told, init, mounted>>

UmountPart(m) ==
  /\ Powered /\ m \in parts
  /\ Umount(m)
  /\ parts' = parts \ {m}
  /\ UNCHANGED <<mode, boot, live, signals, told, post, init, step>>

\* After the loop, /proc /sys /dev/pts /dev in the session's root; and what
\* init unmounts of all that is there to unmount.
PostinitUmounts ==
  IF mode = "data" THEN <<"n-proc", "n-sys", "n-pts", "n-dev">>
  ELSE <<"s-proc", "s-sys", "s-pts", "s-dev">>

InitUmounts ==
  <<"cdroot", "hdroot", "s-orig", "s-cdroot", "n-orig", "newroot", "s-pts",
    "s-dev", "s-proc", "s-sys", "sysroot">>

Umounts(script) ==
  IF script = "init" THEN InitUmounts ELSE PostinitUmounts

UmountNext(script) ==
  /\ Powered /\ step[script] \in 1..Len(Umounts(script))
  /\ script = "postinit" => parts = {}
  /\ Umount(Umounts(script)[step[script]])
  /\ step' = [step EXCEPT ![script] = @ + 1]
  /\ UNCHANGED <<mode, boot, live, signals, told, post, init, parts>>

PostinitExits ==
  /\ Powered /\ post = "umounting" /\ step["postinit"] = 5
  /\ post' = "gone"
  /\ live' = live \ {"postinit"}
  /\ UNCHANGED <<mode, boot, signals, told, init, parts, step, mounted>>

-----------------------------------------------------------------------------
(* preinit and init. *)

\* Variant: preinit waits for the forever.sh processes it has started.
PreinitWaits ==
  /\ Powered /\ "preinit" \in live /\ live \subseteq {"preinit"}
  /\ live' = live \ {"preinit"}
  /\ UNCHANGED <<mode, boot, signals, told, post, init, parts, step, mounted>>

PreinitExits ==
  /\ Powered /\ "preinit" \in live /\ "postinit" \notin live
  /\ live' = live \ {"preinit"}
  /\ UNCHANGED <<mode, boot, signals, told, post, init, parts, step, mounted>>

\* The chroot command of init returns.
InitResumes ==
  /\ init = "waiting" /\ "preinit" \notin live
  /\ init' = "umounting"
  /\ step' = [step EXCEPT !["init"] = 1]
  /\ UNCHANGED <<mode, boot, live, signals, told, post, parts, mounted>>

PowerOff ==
  /\ init = "umounting" /\ step["init"] = 12
  /\ init' = "off"
  /\ UNCHANGED <<mode, boot, live, signals, told, post, parts, step, mounted>>

-----------------------------------------------------------------------------
(* The processes. *)

\* A kill in the background has been run.  Scripts have no trap and heed it.
Deliver(s) ==
  /\ Powered /\ s \in signals
  /\ signals' = signals \ {s}
  /\ LET p == s[1] IN
       IF p \in Scripts \/ Temper[p] = "heeds"
       THEN live' = live \ {p} /\ UNCHANGED told
       ELSE told' = told \cup {s} /\ UNCHANGED live
  /\ UNCHANGED <<mode, boot, post, init, parts, step, mounted>>

\* A process that cleans up first is done with it.
Dies(p) ==
  /\ Powered /\ p \in live /\ Temper[p] = "slow"
  /\ \E s \in told : s[1] = p
  /\ live' = live \ {p}
  /\ UNCHANGED <<mode, boot, signals, told, post, init, parts, step, mounted>>

\* forever.sh starts its command again, in a new process.
Respawn(p) ==
  /\ Powered /\ p \in Procs \ live /\ Keeper[p] \in live
  /\ live' = live \cup {p}
  /\ signals' = {s \in signals : s[1] # p}
  /\ told' = {s \in told : s[1] # p}
  /\ UNCHANGED <<mode, boot, post, init, parts, step, mounted>>

-----------------------------------------------------------------------------
ShellScripts ==
  \/ DownClean \/ Amplify \/ UmountAll \/ PostinitExits \/ PreinitExits
  \/ InitResumes \/ PowerOff
  \/ \E m \in parts : UmountPart(m)
  \/ \E script \in {"postinit", "init"} : UmountNext(script)

Kernel == \E s \in signals : Deliver(s)

Next ==
  \/ ShellScripts \/ Kernel
  \/ \E p \in Procs : Dies(p) \/ Respawn(p)

\* The scripts and the kills run on.
Spec == Init /\ [][Next]_vars /\ WF_vars(ShellScripts) /\ WF_vars(Kernel)

-----------------------------------------------------------------------------
(* Properties. *)

\* "Terminate all pocesses except $GOV without suiside / petriside"
\* (terminit.sh:91): pid 1 goes on only when postinit has done all its work.
InitWaits == init # "waiting" => post = "gone"

\* The file systems that hold the user's data.
Written == {"hdroot", "newroot"} \cup Media

\* "file-systems unmounted" (README.md:183): when the power goes off, every
\* file system the user may have written to has been unmounted.
Tidy == init = "off" => mounted \cap Written = {}

\* "Amp it up" (terminit.sh:157): what has received the signal of the second
\* pass is gone.
Amplified == \A s \in told : s[2] = 2 => s[1] \notin live

\* The machine powers off, whoever ignores the signals.
EventuallyOff == <>(init = "off")

=============================================================================
