----------------------------- MODULE BootMedia ------------------------------
(***************************************************************************)
(* The first half of initramfs/init: it searches the medium that holds the *)
(* system, on whichever device it turns up, lets a person help in rescue   *)
(* shells, and hands over to preinit on an overlay over that medium.  Each *)
(* mount, test, pause and shell is a step of its own, and media come and   *)
(* go between them.                                                        *)
(***************************************************************************)
EXTENDS Naturals, Sequences, FiniteSets

CONSTANTS
  Devs,      \* block devices, partitions included
  Rank,      \* the order in which lsblk names them
  HasFs,     \* those that can be mounted
  Marked,    \* those with etc/COMLINUX_VERSION
  HasInit,   \* those with any of the programs init looks for
  Bootable,  \* those with an executable /sbin/preinit among them
  Early,     \* those that are there from the start
  Givens,    \* which of the arguments are given in a boot
  Faults,    \* "hand": something is mounted in a shell; "unplug": a device goes
  RetryCnt,  \* of findCD()
  MaxTries,  \* shells after which init gives up
  NoDev

Args == {"rsleep", "verbose", "preinit"}

ASSUME MediaAssumption ==
  /\ Givens \subseteq SUBSET Args
  /\ Marked \subseteq HasFs /\ Bootable \subseteq HasInit /\ HasInit \subseteq HasFs
  /\ HasFs \subseteq Devs /\ Early \subseteq Devs /\ IsFiniteSet(Devs)
  /\ NoDev \notin Devs
  /\ Rank \in [Devs -> Nat]
  /\ RetryCnt \in Nat /\ MaxTries \in Nat

VARIABLES
  given,    \* the arguments of the kernel command line
  taken,    \* those that init took over, empty where they are not given
  present,  \* the devices that are plugged in
  pc,       \* where init is
  ii,       \* shells that were left
  cntx,     \* scans in this findCD()
  left,     \* the devices lsblk listed and mountCD() did not try yet
  dev,      \* DEVX
  device,   \* MOUNT_DEVICE
  stack,    \* what is mounted on /cdroot, the visible one last
  hand,     \* what somebody mounted there in a shell
  lower     \* what the overlay of /sysroot lies on

vars == <<given, taken, present, pc, ii, cntx, left, dev, device, stack, hand, lower>>
search == <<ii, cntx, left, dev, device>>

Top == IF stack = <<>> THEN NoDev ELSE stack[Len(stack)]
\* What can be read on /cdroot: nothing of a device that was taken out.
Seen(files) == Top \in files \cap present

Init ==
  /\ given \in Givens /\ taken = {}
  /\ present = Early
  /\ pc = "start"
  /\ ii = 0 /\ cntx = 0 /\ left = {} /\ dev = NoDev /\ device = NoDev
  /\ stack = <<>> /\ hand = NoDev /\ lower = NoDev

\* getargs() returns 1 if it finds the argument, and the value is taken over
\* if it returns 0.
Getargs(arg) == arg \notin given

Start ==
  /\ pc = "start"
  /\ taken' = {a \in Args \ {"preinit"} : Getargs(a)}
  /\ pc' = "loop"
  /\ UNCHANGED <<given, present, search, stack, hand, lower>>

-----------------------------------------------------------------------------
(* The search. *)

\* The scans are counted on over the shells.
LoopCountsOn ==
  /\ pc = "loop"
  /\ device' = NoDev
  /\ pc' = "list"
  /\ UNCHANGED <<given, taken, present, ii, cntx, left, dev, stack, hand, lower>>

\* It always searches: nothing sets $root, which the loop looks at first.
Loop ==
  /\ pc = "loop"
  /\ device' = NoDev /\ cntx' = 0
  /\ pc' = "list"
  /\ UNCHANGED <<given, taken, present, ii, left, dev, stack, hand, lower>>

\* The bound of the scans is missed.
ListOn ==
  /\ pc = "list"
  /\ left' = present /\ pc' = "mount"
  /\ UNCHANGED <<given, taken, present, ii, cntx, dev, device, stack, hand, lower>>

List ==
  /\ pc = "list"
  /\ IF cntx > RetryCnt
     THEN pc' = "shell" /\ UNCHANGED left
     ELSE pc' = "mount" /\ left' = present
  /\ UNCHANGED <<given, taken, present, ii, cntx, dev, device, stack, hand, lower>>

\* A device that is mounted there already cannot be mounted again.
Mount ==
  /\ pc = "mount"
  /\ \E d \in left :
       /\ \A e \in left : Rank[d] <= Rank[e]
       /\ dev' = d /\ left' = left \ {d}
       /\ stack' = IF d \in HasFs \cap present /\ \A i \in DOMAIN stack : stack[i] # d
                   THEN Append(stack, d) ELSE stack
  /\ pc' = "test"
  /\ UNCHANGED <<given, taken, present, ii, cntx, device, hand, lower>>

\* Whatever can be mounted is taken for the system.
TestMounted ==
  /\ pc = "test"
  /\ IF Seen(HasFs)
     THEN device' = dev /\ pc' = "found" /\ UNCHANGED stack
     ELSE /\ device' = NoDev /\ pc' = "mount"
          /\ stack' = IF Top = dev THEN SubSeq(stack, 1, Len(stack) - 1) ELSE stack
  /\ UNCHANGED <<given, taken, present, ii, cntx, left, dev, hand, lower>>

\* A device without the mark stays mounted.
TestLeaves ==
  /\ pc = "test"
  /\ IF Seen(Marked)
     THEN device' = dev /\ pc' = "found"
     ELSE device' = NoDev /\ pc' = "mount"
  /\ UNCHANGED <<given, taken, present, ii, cntx, left, dev, stack, hand, lower>>

Test ==
  /\ pc = "test"
  /\ IF Seen(Marked)
     THEN device' = dev /\ pc' = "found" /\ UNCHANGED stack
     ELSE /\ device' = NoDev /\ pc' = "mount"
          /\ stack' = IF Top = dev THEN SubSeq(stack, 1, Len(stack) - 1) ELSE stack
  /\ UNCHANGED <<given, taken, present, ii, cntx, left, dev, hand, lower>>

\* mountCD() found nothing; half a second later it is called again.
Pause ==
  /\ pc = "mount" /\ left = {}
  /\ cntx' = cntx + 1
  /\ pc' = "list"
  /\ UNCHANGED <<given, taken, present, ii, left, dev, device, stack, hand, lower>>

\* The tries are not counted.
LeaveShellAgain ==
  /\ pc = "shell"
  /\ pc' = "loop"
  /\ UNCHANGED <<given, taken, present, search, stack, hand, lower>>

\* The exit of a rescue shell is another search, and in the end init goes on.
LeaveShell ==
  /\ pc = "shell"
  /\ ii' = ii + 1
  /\ pc' = IF ii + 1 > MaxTries THEN "lastshell" ELSE "loop"
  /\ UNCHANGED <<given, taken, present, cntx, left, dev, device, stack, hand, lower>>

LeaveLastShell ==
  /\ pc = "lastshell"
  /\ pc' = "found"
  /\ UNCHANGED <<given, taken, present, search, stack, hand, lower>>

-----------------------------------------------------------------------------
(* The hand-over. *)

FindInit ==
  /\ pc = "found"
  /\ pc' = IF Seen(HasInit) THEN "overlay" ELSE "noinit"
  /\ UNCHANGED <<given, taken, present, search, stack, hand, lower>>

LeaveInitShell ==
  /\ pc = "noinit"
  /\ pc' = "overlay"
  /\ UNCHANGED <<given, taken, present, search, stack, hand, lower>>

Overlay ==
  /\ pc = "overlay"
  /\ lower' = Top
  /\ pc' = "chroot"
  /\ UNCHANGED <<given, taken, present, search, stack, hand>>

\* A preinit= that is given is not taken over.  Where there is no /sbin/preinit
\* chroot fails, and the shutdown follows as if preinit had come back.
Chroot ==
  /\ pc = "chroot"
  /\ taken' = taken \cup {a \in {"preinit"} : Getargs(a)}
  /\ pc' = IF lower \in Bootable \cap present THEN "preinit" ELSE "off"
  /\ UNCHANGED <<given, present, search, stack, hand, lower>>

-----------------------------------------------------------------------------
(* The world. *)

Running == pc \notin {"preinit", "off"}

\* A device that was taken out while it was mounted keeps its name there, and
\* comes back under another.
Plug ==
  /\ Running
  /\ \E d \in Devs \ present :
       /\ \A i \in DOMAIN stack : stack[i] # d
       /\ present' = present \cup {d}
  /\ UNCHANGED <<given, taken, pc, search, stack, hand, lower>>

Unplug ==
  /\ Running /\ "unplug" \in Faults
  /\ \E d \in present : present' = present \ {d}
  /\ UNCHANGED <<given, taken, pc, search, stack, hand, lower>>

HandMount ==
  /\ pc \in {"shell", "lastshell", "noinit"} /\ "hand" \in Faults
  /\ stack = <<>>
  /\ \E d \in HasFs \cap present : stack' = <<d>> /\ hand' = d
  /\ UNCHANGED <<given, taken, present, pc, search, lower>>

Script ==
  \/ Start \/ Loop \/ List \/ Mount \/ Test \/ Pause
  \/ FindInit \/ Overlay \/ Chroot
Person == LeaveShell \/ LeaveLastShell \/ LeaveInitShell
Next == Script \/ Person \/ Plug \/ Unplug \/ HandMount

Spec == Init /\ [][Next]_vars

\* Somebody is there who leaves the shells.
PatientSpec == Spec /\ WF_vars(Script) /\ WF_vars(Person)

-----------------------------------------------------------------------------
(* Properties. *)

\* The variables keep their types; the search and its retries are bounded.
TypeOK ==
  /\ given \in Givens /\ taken \in SUBSET Args
  /\ present \in SUBSET Devs
  /\ pc \in {"start", "loop", "list", "mount", "test", "shell", "lastshell",
             "found", "noinit", "overlay", "chroot", "preinit", "off"}
  /\ ii \in 0 .. MaxTries + 1 /\ cntx \in 0 .. RetryCnt + 1
  /\ left \in SUBSET Devs
  /\ dev \in Devs \cup {NoDev} /\ device \in Devs \cup {NoDev}
  /\ stack \in Seq(HasFs) /\ Len(stack) <= 2
  /\ hand \in HasFs \cup {NoDev} /\ lower \in HasFs \cup {NoDev}

\* The session is made over a medium with the mark of the system, whatever
\* else was plugged in, taken out or mounted by hand, unless the search was
\* given up.
RunsMarked == (pc = "preinit" /\ ii <= MaxTries) => lower \in Marked

\* Of all that was tried, only the medium of the system stays mounted, and
\* what somebody mounted by hand: the shutdown unmounts /cdroot once.
NothingLeft ==
  pc \in {"chroot", "preinit"} =>
    \A i \in DOMAIN stack : stack[i] \in {lower, hand}

\* A medium that is plugged in while a rescue shell waits, other than the
\* last, and stays, is found when the shell is left.
LateMediumFound ==
  \A d \in Marked :
    (pc = "shell" /\ ii < MaxTries /\ [](d \in present)) ~> lower \in Marked

\* The boot does not loop: it hands over, or the machine goes off.
GetsSomewhere == <>(pc \in {"preinit", "off"})

\* What is given on the command line is taken over.
OptionsTaken == pc = "preinit" => given \subseteq taken

\* A single mount is on /cdroot when preinit starts.
MountedOnce == pc = "preinit" => Len(stack) <= 1

=============================================================================
