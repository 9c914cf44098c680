# comlin64 in TLA+

comlin64 is a Linux that boots from a USB stick or CD. Its own logic is a
chain of shell scripts and a few small programs: `initramfs/init` finds the
medium and chroots into `preinit/preinit`, which finds or creates the writable
storage and starts `preinit/postinit`, which runs the login and the desktop
until somebody asks for a power off, and then the chain returns the way it
came. Its documentation is read in a viewer of its own, `pangview`. This
directory models that chain, the small programs it calls, and the viewer: TLA+
modules, TLC configurations, and proofs for TLAPS.

## 1. Inventory

| Component | Code | State it keeps | Operations | Interacts with |
|---|---|---|---|---|
| Data storage | `preinit/preinit`, `findHD`, `prompt` in `preinit/preinit.sh` | `MOUNT_DISK`, `OUTF`, the mark `.comlin_data`, partition tables, file systems | scan, `delete-data`, `delete-disk`, create, format, mark, check, mount overlay | keypeek (an answer or a timeout), the session (documents), shutdown (sync, umount) |
| Login, session, power requests | `preinit/postinit`, `apps/pypass/pypass.py`, `testloop.sh`, `startsys.sh`, `apps/power/powbutt.sh` | `.shutdowncmd`, `curruser`, pypass' `exit_code`, window and main loop, Xorg | login, autologin, special users, shutdown label, window close, power button | shared files only; signals to Xorg; exit codes |
| Orderly shutdown | `preinit/terminit.sh`, end of `postinit`, of `preinit` and of `initramfs/init` | processes, signals under way, the mount tree | `_termAll` twice, `umountAll`, the lists of `umount` | everything still running; `shlib/forever.sh` starts services again |
| Boot media and command line | `initramfs/init`, `init.sh` | `MOUNT_DEVICE`, the mounts on `/cdroot`, the command line | `findCD` with retries, rescue shells, `getargs` | hardware that appears late |
| Timed questions | `apps/keyget/keypeek.c`, `keyget.c` | `secleft`, terminal modes | keys, alarm, SIGINT | preinit waits for the exit code |
| ACPI listener | `apps/power/powacpi.c` | socket, time of start | one `system()` per event | acpid, `powbutt.sh` |
| Restarted services | `shlib/forever.sh`, `apps/zombie/eatzomb.c` | counter, second | start again, sleep if too fast | shutdown |
| Documentation viewer | `initramfs/initramfs-6.14.8/bin/pangview.py`, `panglib/*.py` next to it | the parser's state and stack, `TextState`, the display cache (`accum`, `oldstate`, `old_stresc`), the escape under way (`xtab`, `xtablen`), `lstack`, two panes | tokens, a callback per tag, `flush`, `showfile`, follow a link, Backspace | files of the documentation; GTK |
| Media signatures | `keys/*.sh`, `checksum.sh` | a file per hash and signature | sign, check | run by hand |

What is hard here: the power may fail between any two steps of creating a
storage; no script looks at the result of `mount` and `umount`; pypass runs
its main loop inside callbacks, so callbacks nest; three programs write
`.shutdowncmd` and a fourth tests only that it exists; processes are told to
end and not waited for; signal handlers share a counter with the loop they
interrupt; media come and go while they are searched; the viewer's callbacks
share a stack, a style and a cache that any sequence of tags may disturb, and an
exception in one of them leaves its traces to the next document. `PROJECT.json`
lists these hazards line by line, with the properties that cover them; components that are not modelled are listed
there with the reason.

What makes each component correct:

- *Data storage*: never two marked partitions, only a marked one is announced
  and used, nothing is erased that nobody agreed to, saved documents survive
  every proper shutdown and every crash after the write-back, deleted ones do
  not come back, an unattended boot gets to a session, and a user who wants
  storage gets it.
- *Session*: the desktop belongs to an accepted login; the machine goes down if
  and only if somebody asked; autologin reaches the desktop.
- *Shutdown*: pid 1 waits for postinit; what the user wrote to is unmounted
  before the power goes; it always goes.
- *Boot media*: the session is made over a medium with the mark, whatever else is
  plugged in or was mounted before; one that comes late is found; the search
  leaves nothing mounted behind and ends.
- *Timed questions*: nobody's silence is a yes; who asks for more time gets all of
  it; the question ends; the terminal is given back.
- *ACPI listener*: of the events that reach the socket the oldest is always
  handled next, none twice.
- *Viewer*: a document is shown text by text in the style in force where it was
  written, as if there were no cache; no text is lost or doubled on its way; hidden
  text stays hidden; no nesting of tags makes the parser fail; Backspace leaves what is shown.

## 2. Modules

| Module | Models |
|---|---|
| `DataStore` | the second half of `preinit/preinit`, one action per step between two points where the power may fail |
| `Keeping` | what the storage promises its user; `DataStore` refines it (`Promise == INSTANCE Keeping WITH ...`) |
| `Session` | postinit's GUI loop, .xinitrc, pypass, powbutt.sh |
| `Shutdown` | the way down from `.shutdowncmd` to `linux_poweroff -f` |
| `BootMedia` | the first half of `initramfs/init`: the search for the medium, the rescue shells, the hand-over to preinit |
| `TimedKeys` | `keypeek.c` and `keyget.c`, with their signal handlers |
| `AcpiListen` | `powacpi.c` with `powbutt.sh` under it |
| `Doorbell` | what a listener of events promises; `AcpiListen` refines it (`Bell == INSTANCE Doorbell WITH ...`) |
| `Pangview` | the documentation viewer: parser, callbacks, cache, links |
| `Typeset` | a page set text by text without cache or parser; `Pangview` refines it (`T == INSTANCE Typeset WITH ...`) |
| `Lexicographic` | the well-founded orders of two, three and four numbers that the proofs of progress use |
| `MC...` | small instances for TLC |
| `..._proofs` | theorems and proofs for TLAPS |

**DataStore.** `pc` is the place in the script. `disk`, `target` are
`MOUNT_DISK` and `OUTF`; `ramMark` is the file `$HDROOT/.comlin_data` in the
RAM root, where it lands when the volume was not mounted; all of `ram` is
lost with the power. `OneDigit` says of which slots the name is that of the disk
and one digit: of the others `delete-disk` takes the wrong disk and number, and
deletes nothing (preinit:186). A partition slot has an entry in the table (`ptab`) and,
independently of it, a content (`fs`, `files`, `unclean`): deleting the entry
leaves the content. `Seen` is the test of `findHD`, which looks at the mount
point whether or not the mount worked. The fault "mount" strikes where preinit
itself mounts the new partition or the storage (225, 262). Content that mount
refuses each time is `blank`; that `findHD` fails to mount what it could mount a
moment ago is left out. Saved documents are in `cache` until
`WriteBack` or `ShutDown`. `gone` is a history variable: documents whose
deletion was confirmed.

**Session.** `stack` holds the callbacks of pypass that wait inside each other
(dialogs, and the waits of `millisleep`, which runs the main loop);
`Listening` says when a new one can begin. `sdcom` and `cuser` are the contents
of `.shutdowncmd` and `curruser`. `post`, `client` and `handler` are the places
in postinit, .xinitrc and powbutt.sh. `asked` and `accepted` are histories: what
was confirmed since the last login, and whose login this pypass has accepted.

**Shutdown.** `mounted` with `On` is the mount tree, `live` with `Uses` says who
is using what, and `Busy` when `umount` fails. `signals` are the `kill`
commands that `_termAll` has put in the background and that have not run yet.
`Temper` says how a process takes SIGTERM, `Keeper` which forever.sh starts it
again.

**BootMedia.** `pc` is the place in init. `stack` is what is mounted on
`/cdroot`, the visible one last; a mount goes on top of what is there, so
`Seen`, the test for the mark, looks at the top and finds nothing on a medium
that was taken out. A device keeps its name as long as it is mounted anywhere on
`/cdroot`: a medium that is taken out while mounted comes back under another one
(`again` in the instance is the medium's other name). `cntx` counts the scans of one `findCD`, `ii` the shells
that were left, `left` the rest of what `lsblk` printed, `dev` is `DEVX`.
`Getargs` is inverted as in the code; what it does for `preinit=` is part of
`Chroot`, where init reads it. The loop always searches: init looks at `$root`
first (init:137), which neither init nor init.sh assigns and the kernel, which
keeps `root=` to itself, does not export. `Plug`, `Unplug` and `HandMount` are the
world, at any point, the last one in a shell only.

**TimedKeys.** Both programs in one module, told apart by `Peek`, from the
options to the exit code. `secleft--` in the alarm handler is a load (`Timedout`,
into `reg`) and a store (`Counted`); Ctrl-C may come between them, and both
handlers may come while the program is on its way out (`pc = "leaving"`).
`said`, `quiet` and `reset` are histories: what was read, how many alarms there
were since the last reset, and whether that reset was lost.

**AcpiListen.** Events are numbered. `sock` is what acpid has written, `buf` what
one `recv` returned: all there was. `handler` is the place in `powbutt.sh`, which
runs under `system()`. `Throttled` is the comparison of a time difference that was cut
to 32 bits; the clock is in tenths of a second and wraps at `Period`. The
refinement to `Doorbell` maps `waiting` to `sock \cup buf`: an event may be passed
over, but never the oldest.

**Pangview.** A token is its kind and its text. Which token comes next is left
open (`\E t \in alphabet`), so that every text over an alphabet is parsed. The
callbacks that differ only in an attribute are rows of tables (`Sets`, `Counts`,
`Colors`, `Closes`) used by `Open` and `Close`; `Renamed` keeps the names of states
that the parser looks up wrongly. `fstack` is the parser's stack with the
continuation flags by which `Span2`, `Link2` and `Image2` find their start
(`Base`, `Below`); `Traps` says when they raise. `Text` has exceptions of its own
(`TextTraps`): those of the octal escapes, and those of GTK, which takes no
surrogate. `unescape` and `uni` are the functions of `utils.py` over the parts of
a text; `held` is what they keep in globals between two texts. `accum`, `oldstate` and `lastsp`
are the cache; `Pending` is how it would be shown now. `page` holds what each
pane shows, each text with its style. For the refinement to `Typeset` the page is
what is shown followed by what is pending. A document is `Tame` if it has no
pictures, no attribute `size`, no escapes, and not both a span and a `</link>`:
the cases in which a callback raises are among the others. That is coarser than
need be: a span is safe as long as no `</link>` comes within it, and most escapes
are. An escape that raises leaves its bytes to the next document, which then
raises at its first word (`Poisoned`).

Of what the callbacks do, three things are left out as nothing depends on them:
the attribute `left` of a style, which is there once a span was read and only makes
the cache be shown earlier; what `Image2` has set in the style when a number is
none; and that a file may become unreadable between two visits (`Readable` is a
constant), where pangview.py:671 has dropped the top of `lstack` before 718 fails.

The models share no variable; they meet at their ends. `pc = "preinit"` in
`BootMedia` is where `DataStore` begins; the question of `DataStore` is one run of
`TimedKeys`, whose `Ends` and `YesOnlyIfPressed` are what `DataStore` assumes of it
(an answer, or `NoAnswer` when the time is up; yes only from a person).
`powbutt.sh` is in `AcpiListen` under its caller and in `Session` with what it
does to the desktop. `ShutDown` of
`DataStore` syncs and may or may not leave the file system clean, which covers
all outcomes of `Shutdown`; `post = "down"` in `Session` is the initial state
of `Shutdown`; `EnterSession` in `DataStore` is `post = "boot"` in `Session`.

Operators named "Variant" in a comment are plausible mistakes in the code.
They are not part of any specification; `PROJECT.json` ("mutants") says which
property each of them breaks.

## 3. Runs

| Run | Question | Result |
|---|---|---|
| `store_crash` | two disks, any mix of partitions, crashes at every step, sfdisk failing, `nodisk` and `delete-data` | type, one storage, announced = marked, nothing erased unasked, session only on a checked storage, refines `Keeping` |
| `store_patient` | no faults, `delete-disk` of partitions of one digit, a user who keeps answering | deletions last, storage is eventually there, refines `Keeping` |
| `store_live` | one disk, all options, all faults | left alone, the boot reaches a session; nothing erased unasked |
| `session_user` | all inputs, nested callbacks, killed pypass, X crashes | a desktop is of an accepted login |
| `session_patient` | users who let a login finish, power button, no faults | down only if asked, no session over a confirmed request, a confirmed shutdown powers off, autologin reaches its session |
| `shutdown_tidy` | a session program that heeds SIGTERM, a slow daemon, a deaf shell, an agetty under forever.sh, a user's USB disk | pid 1 waits, storage and media are unmounted, power goes off |
| `boot_media` | a medium that comes late, is taken out, or comes back under another name, a partition without the mark, mounts made by hand, somebody who leaves the shells | session over the marked medium, nothing else left mounted, a medium plugged in during a shell is found, init never hangs |
| `timed_keys` | both programs, all options, keys, ESC, end of input, alarms and Ctrl-C anywhere | no yes without a y, terminal restored, a reset gives all of the time, a question that can end does |
| `acpi_events` | four events at any moment, the clock wrapping, acpid late or ended, desktops coming and going | type, refines `Doorbell` |
| `pang_view` | every text over fifteen small alphabets, escapes among them, links followed and left, unreadable files | no trap in a tame document, refines `Typeset`, each text set once and in its style, nothing hidden shown, closed tags leave a plain style, `lstack` agrees with the pane |
| `store_clear`, `session_decline` | two places where the code does not do what it or its docs say | violated; see section 6 |

**Bounds.** Two disks with two slots and one slot: enough for a storage next to
another partition and a gap, for two disks with free space, and for an order
of enumeration that matters. Two documents: one that is deleted or lost and one
that is kept. `store_live` has one disk with two slots because unplugging and
all faults together with liveness need the room. Two users: the one who logged
in and another one. `Depth = 2` nested callbacks is one inside another; deeper nesting
repeats the same interference, and the proofs hold for every depth. Five
processes: one per way to take SIGTERM and per place to be.

`BootMedia` has the code's own limits, eleven scans in each of six searches, and four
devices: one that cannot be mounted, one without the mark, and the medium under
its two names, of which `lsblk` lists one before and one behind the partition. `TimedKeys` has timeouts of 0, 1 and 3 seconds
(none, the last second at once, and one that can be reset on the way) and three
keys, enough for ESC, Ctrl-C and an answer. `AcpiListen` has four events (one
in the handler, one passed over, two that wait) and a period of four ticks in the place of
42,950: two ticks are on each side of the sign, and how long a side is does not matter.
`Pangview` has six tokens to a document (`MaxLen`): two tags opened, text, two
closed in either order, text; each kind of tag is in some alphabet with one it
may interfere with, since tags meet only in the parser's state and the style. The
cache is flushed at two texts (`CacheMax`) instead of 1000 characters, so
that the bound is met within a document. Three documents deep (`MaxDepth`)
is a link in a linked document, and a step back from it. The escapes are a letter of two
bytes, whole and in pieces, in quotes, a NUL, two spaces, a byte that begins nothing,
half a surrogate pair, and two that are no character, in one piece and in four
bytes of which the last is another text. Documents that can raise are the first
and only ones of their run, and an exception before `Gtk.main()` ends it. The proofs have none of these bounds.

No run uses a state constraint; the models are finite by themselves, or by the
bounds named in their guards.

**Fairness.** `WF(Program)`, `WF(Postinit)`, `WF(Pypass)`, `WF(Powbutt)`,
`WF(ShellScripts)`: a script runs its next command; the kernel schedules it. In
`DataStore`, `NoAnswer` is in `Program` because keypeek answers by itself when
its time is up. `PatientSpec` adds a person: weak fairness for switching on and
for answering a question that waits, strong fairness for pressing "y" before
the timeout and for shutting down, because a session or the question may also
end in another way. `BootMedia`'s `PatientSpec` has the script and a person who
leaves the shells, and nobody who plugs anything in. In `TimedKeys` the alarm
comes and both handlers end; keys and Ctrl-C need not come, and an end of
the input is read again only if it came. In `AcpiListen` `powacpi` and `powbutt.sh` run;
acpid, the clock, events and the desktop need not. `Pangview` states no
fairness: a reader may leave at any time. `WF(Kernel)`: a background `kill` runs at some time. No
fairness for people in `Session` and none for `Dies` or `Respawn` in `Shutdown`.

`CHECK_DEADLOCK FALSE` is set where the system ends: the machine is off in
`Shutdown`; in `SessionAutoLoop` a question waits for ever; init has handed over
in `BootMedia`; a program has ended in `TimedKeys` and, with the last event, in
`AcpiListen`; the window is closed, or its program has ended, in `Pangview`.

## 4. Proofs

All theorems hold for every value of the constants that satisfies the
assumptions named in the modules, so for any number of disks, partitions,
users, processes and mounts, any depth of callbacks, any timeout, any number of
events, and any documents of any length.

| Theorem | Hypotheses | Inductive invariant |
|---|---|---|
| `DataStore_proofs!TypeCorrect` | none | `TypeOK` |
| `OneStorage` | no disk pulled while off | `OneStorageInv`: when a scan came back empty there is no storage, until the partition in the making (`target`) becomes the only one; what findHD saw is thus still true several steps later |
| `AnnouncedStorage` | mkfs and mount work | `AnnounceInv`: `ramMark` is false, and `disk` is a marked partition from each scan on |
| `KeepsWhatIsWritten` | mkfs works, nothing unplugged, no `delete-disk` where the power may fail; sfdisk and mount may fail | `AllInv`: `OneStorageInv`, `MarkInv` and `KeepInv` (where the power may fail no unlisted slot carries the mark; what is about to be marked is empty). Each step maps to a step of `Keeping` or to a stutter, with the session kept if it writes to a partition (`WrittenMode`) |
| `Keeps` | the same, and mount works | the theorem before, and `AnnounceInv`: then the session writes to what was announced |
| `ErasureIsAsked` | none | `TypeOK`, one case per action |
| `DeletedIsGone` | no `delete-data`, no fault but a failing mount, and partitions with names of one digit | `OneStorageInv`, `MarkInv` and `GoneInv`: no storage holds a deleted document, but for the partition in the making before its mkfs. The step that matters is `CreatePartition`, which puts a table entry over the old content; there is no session before `Mkfs` has emptied it |
| `OthersAreNotWritten` | none | `MarkInv`: a device with a file system that was chosen by a scan has the mark, even when the mark in RAM makes every device that does not mount look like the storage; what does not mount gives a session in RAM |
| `BootGoesOn` | none (delete options ask somebody) | `TypeOK`: of the devices that show a mark, and of the disks with free space, one comes first, for any ranks; `Left` counts the steps to the end of the session |
| `SessionIsChecked` | none | `CheckedInv`: between `Fsck` and the mount the storage is not unclean |
| `Session_proofs!TypeCorrect` | none | `TypeOK` |
| `SessionIsOfLogin` | none | `LoginInv`: who is being logged in was accepted by this pypass; a dialog is innermost and while it is open the code is not 0; so a main loop left with code 0 means that `cuser` was written by an accepted login |
| `DownIsAsked` | `Calm`: no "exit" user, logins left to finish, X stays up | `DownInv`: at most one callback waits, the code it asks about is the one pypass exits with, and whoever ends the GUI has a reason in `asked` |
| `ConfirmedHasNoSession` | `Calm`, pypass is not killed | `DownInv /\ ConfirmedInv`: a confirmed request is outlived only by a pypass that has left its main loop with that code |
| `ConfirmedIsCarriedOut` | the same | the same with `FileInv`: `.shutdowncmd` is there as long as a confirmed request is. From the yes on, pypass can only rest and leave, and `Stage` counts what is left: the callback under the dialog, pypass, xinit, postinit, init |
| `BootMedia_proofs!TypeCorrect` | none | `IInv`: for each place of init what the stack of mounts can be. Between two devices it holds at most what was mounted by hand, above that lies at most the device under test; the counters have room where they are counted up; what was found is on top and marked |
| `OnMarkedMedium` (`RunsMarked`), `NothingStaysMounted` (`NothingLeft`) | none | the same |
| `NeverLoops` | none | the same. `Ahead` counts what lies before init: searches and shells, the place in a search, scans, devices. Every step of the script and every shell that is left makes it less in the order `Less4`, `Plug`, `Unplug` and `HandMount` leave it alone, and a search that has devices left has a first one |
| `TimedKeys_proofs!TypeCorrect`, `YesIsPressed`, `TerminalRestored` | none | `IInv`, with `Answers`: the code is 1 only behind a y or the default |
| `FullTime` (`WaitsInFull`) | none | the same with `Balance`: seconds left and alarms since the last reset add up to the timeout, and to one more while an alarm is being counted |
| `OverInTime` | none | the same with `NoMore`: seconds left and alarms since the last reset are never more than the timeout, also when a reset was lost within the decrement, and an alarm that was set is set again |
| `AcpiListen_proofs!TypeCorrect` | none | `TypeOK` |
| `OldestIsAnswered` | none | `Ordered`: what was read is older than what is in the socket, and there is a text exactly while it is being handled; each step maps to one of `Doorbell` or to a stutter. The fairness of `Doorbell` is left to TLC |
| `Pangview_proofs!TypeCorrect` | none | `IInv == ViewInv /\ ParserInv /\ StyleInv /\ CacheInv /\ PageInv`, one part for each thing that the callbacks share |
| `TameNeverTraps` (`NoTrap`) | none (the property itself is about documents that are `Tame` and not `Poisoned`) | `ParserInv`: `Chain` says which frame may lie on which, by state and continuation flag; `TameStack` adds that in a tame document what a `>` or an end tag pops is there. `Span2` pops frames without restoring the state and `eSpan` pushes again what it popped, so `NoTrap` alone says nothing about the next token. A text of a tame document is one run of plain characters, which raises only if an earlier document left a character that `uni()` refuses, or a cache that does not encode |
| `NothingIsLost` (`NothingLost`) | none | `IInv`, with the lemma `TextSets`: whether a text is cached, or shows the cache and begins the next, what is shown and pending grows by just this text in the style in force, since the style remembered is that of the cached texts and an empty cache has none |
| `HiddenIsHidden` (`NeverHidden`) | none | `StyleInv` and `CacheInv`: a hidden style is in force only in the state of `<hid>`, which takes no text, so none is ever remembered |
| `TopIsShown` (`ShownIsLast`) | none | `ViewInv` |
| `ClosedIsPlain` (`AllClosed`) | none (the property itself is about `Paired` documents) | `ClosingInv`: where the document is paired, every count of the style is the number of its tags that are entered (on the parser's stack or in force), every flag, colour and link has such a tag that set it, and the state INIT lies at the bottom of the stack only. Needed because an end tag is accepted by the state alone: the style has to be related to the stack for the closing of one tag to say nothing about the others |
| `TypesetUntilTrap` (`Shows`) | no callback raises while the viewer waits (before that, it ends the program) | `IInv` and `FailedInv`; what is shown and pending is a page of `Typeset`, and each step one of its steps or a stutter: a picture is put between what is shown and what is pending |
| `PagesAreTypeset` (`Shows`) | all documents are tame | the same with `ParserInv` and `Clean`: no part of a character is held and the cache encodes, so no document is ever `Poisoned` |
| `Shutdown_proofs!TypeCorrect` | none | `TypeOK` |
| `InitIsLast` | none | `WaitInv`: no signal is ever on its way to a script, so each lives until the one it waits for has ended |
| `DownIsTidy` | `Orderly`: booted from a partition, the user's media are in `umountAll`'s list, programs that use the session's mounts heed SIGTERM and are not restarted | `QuietInv` (after the pause no such program lives) and `MountInv` (what is still mounted, by the place of both scripts in their lists) |
| `NeverHeldUp` | none | `WaitInv` and `OrderInv`: the umounts go in order, after the list of `lsblk`. `Ahead` counts the stage of the scripts, the umounts left and the kills left; every step of a script or a kill makes it less in `Less3`, a process that dies or is started again does not make it more, and while the machine is powered one of the guards in `Ready` holds |

The hypotheses mark where the code stops keeping its promise; the table of
section 6 names a configuration with the counterexample for most of them
(`StoreRamMark` for mkfs and mount, `SessionExit`, `SessionImpatient` and
`SessionXCrash` for `Calm`, `ShutdownSlow`, `ShutdownOdd` and `ShutdownCd` for
`Orderly`). For names of more than one digit it is `StorePatient` with `OneDigit =
{p1, p2}`: a confirmed `delete-disk` deletes nothing, and the next session shows
the documents. A disk pulled while the machine is off and put back later needs no
configuration: a second storage is made in its absence, rightly.

Five theorems state what can be proved of liveness: `BootGoesOn`, `NeverLoops`,
`NeverHeldUp`, `ConfirmedIsCarriedOut` and `OverInTime` are `LeftAlone`,
`GetsSomewhere`, `EventuallyOff`, `ConfirmedPowersOff` and the first half of `Ends`
without fairness. A distance of natural numbers gets less with each step, in an
order that `Lexicographic` shows to be well-founded, nothing outside the scripts
makes it more, and a step is always there to be taken, said by its guard since
ENABLED is out of reach. The step from there to "eventually" is left to TLC. They
need three assumptions which the code justifies: what `lsblk` lists (`Devs`), the
processes (`Procs`) and the user's mounts (`Media`) are finite sets.

Only model-checked: all liveness as such (`LeftAlone`, `EventuallyStorage`,
`ConfirmedPowersOff`, `AutoSession`, `EventuallyOff`, `LateMediumFound`,
`GetsSomewhere`, `Ends`, and the fairness in `Answers`), which is out of TLAPS'
reach. Every invariant and every action property of the runs has a theorem.

## 5. What is assumed of code outside the repository

- `sfdisk` with its input from a pipe does not wipe signatures, and `sfdisk -F`
  lists only disks with free space; `lsblk` in a chroot shows only mounts below
  its root, and lists a disk before its partitions.
- `awk` is mawk as in Debian and Ubuntu, whose `substr` from position 0 takes as many
  characters as from 1, so that `/dev/sda3` is taken apart rightly (preinit:186).
- `mount` of a whole partitioned disk fails; `mkfs.ext2 -F` leaves an empty, clean file
  system; `fsck -y` repairs what a crash left.
- `umount` fails if something is mounted below or is in use, and does nothing
  else. The mount namespace is one. postinit's own descriptors are not on `/dev`
  of the session.
- GTK runs one callback at a time, nested where the main loop is run inside
  one; the autologin timer (40 ms) fires before anybody can react.
- `powacpi` waits for its handler, so only one `powbutt.sh` runs at a time.
- `.xinitrc` is not in the repository; `testloop.sh`, its counterpart for tests,
  shows what it does with the exit code, and `startsys.sh` starts the session.
- Within `sleep 1` the background kills of the first pass have run. Processes
  fork nothing new during the shutdown, except for forever.sh.
- `linux_poweroff -f` does not fail.
- `mount` on `/cdroot` succeeds for a device with a file system that is present and
  not mounted there already; a device that was taken out can no longer be read, and
  keeps its name as long as it is mounted.
- The alarm interrupts a read and the handlers interrupt each other, as with
  `signal()` of glibc; `exit()` may be interrupted by them. The Makefile of
  keypeek does not optimize, so `secleft--` is a load and a store.
- A `recv` returns everything that is in the socket: the events of a minute are
  shorter than the buffer of `powacpi`. A shell gives the first line of the
  text to the handler and cannot run the others. What acpid wrote can be read
  after it has ended.
- GTK shows the text given to it up to the first NUL and raises on a surrogate, which
  UTF-8 cannot encode; `insert` at the end puts a text behind all others.

Left out on purpose: the breakpoints (`ibreak=`, `rbreak=`), which give a root
shell to the person; `isleep`; the second `bindall` of a `nodisk` boot onto `/`;
the `tmp` and `run` mounts in init's list, which nothing makes; the remount of `/`
in postinit:156, which nothing later depends on.

## 6. Where code and documentation disagree

The two runs that fail, `store_clear` and `session_decline`, are in `PROJECT.json` under
"findings". More counterexamples are kept as configurations to be run by hand
(`tlc -config X.cfg MC...`); each is the boundary of a property that holds
otherwise. `BootDoubts`, `KeysDoubts` and `AcpiDoubts` name several properties; TLC
takes one at a time, the others are commented out.

| Configuration | Property | What happens | What is said |
|---|---|---|---|
| `StoreClear` | `DeletedStaysDeleted` | `rm -rf "$HDROOT/fs/*"` has its glob quoted and removes nothing (preinit:170) | preinit:158 "About to delete ALL files from data storage" |
| `StoreRamMark` | `AnnouncedIsStorage` | the mount of the new partition fails, the mark goes to RAM, and the next device that does not mount is taken for the storage (preinit:225) | preinit:226 "Mark volume" |
| `StoreResurrect` | `DeletedStaysDeleted` | `delete-disk`, then a power loss between `sfdisk -a` and `mkfs`: the old storage is back with its documents (preinit:189, 212) | docs/troubleshoot.pango:97 "Delete rw storage disk" |
| `StoreHalfMade` | `EventuallyStorage` | a power loss before the mark leaves an unmarked partition and no free space (preinit:212-226) | docs/WELCOME.pango:54 "is automatically activated if there is free space on the media" |
| `SessionDecline` | `DownOnlyIfAsked` | "No" to a shutdown right after a login powers off (pypass.py:561) | postinit:161 "it is a GUI Exit / Logout" |
| `SessionExit` | `DownOnlyIfAsked` | the special user "exit" powers off, since postinit tests only that the file exists (pypass.py:576, postinit:150) | postinit:161; pypass.py:18 "Use special users 'exit', 'reboot', or 'shutdown' for said actions." |
| `SessionXCrash` | `DownOnlyIfAsked` | X dies in a session: the login has written "0" to `.shutdowncmd`, and the machine powers off (pypass.py:622) | postinit:149 "Shutdown?", 161 |
| `SessionImpatient` | `NoSessionOnceConfirmed` | a shutdown confirmed in the half second of an accepted login is overwritten by the login (pypass.py:616-622) | pypass.py:564 "Are you sure you want to shutdown?" |
| `SessionPress` | `PressPowersOff` | a press before pypass starts is forgotten (pypass.py:926, postinit:113) | powbutt.sh:58 "lid closed, powering down" |
| `SessionReboot` | `RebootReboots` | a confirmed reboot powers off (init:327) | pypass.py:18 |
| `SessionClose` | `DeclinedKeepsWindow` | close the window, answer "No": the window is destroyed, pypass stays (pypass.py:694-702) | pypass.py:564, default "No" |
| `SessionAutoLoop` | `AutoLoopPowersOff` | the automatic exit waits for an answer (pypass.py:479) | TODO:21 "exit directly if auto login" |
| `ShutdownAmplified` | `Amplified` | the second pass sends SIGTERM, too (terminit.sh:130) | terminit.sh:157 "Amp it up" |
| `ShutdownSlow` | `Tidy` | a session program that cleans up for long keeps the storage mounted | README.md:183 "Remaining processes are killed, file-systems unmounted" |
| `ShutdownOdd` | `Tidy` | media whose mount point contains "part", or that are no partition, are not in `umountAll`'s list, and keep the storage busy (terminit.sh:64) | the same |
| `ShutdownCd` | `Tidy` | booted from a CD, `newroot/cdroot` is never unmounted, so neither are newroot and the storage | the same |
| `BootDoubts` | `OptionsTaken` | `getargs` returns 1 when it finds its argument, and the callers take the value over when it returns 0: `rsleep=`, `verbose=` and `preinit=` have no effect (init:61, 62, 259) | grub-data/data/grub.cfg:47 passes `verbose=7`; init.sh:56 "Return 1 for arg found", said of `getarg`, which returns 0 |
| `BootDoubts` | `MountedOnce` | what was mounted by hand in a rescue shell stays below the medium that is found later (init.sh:213) | |
| `KeysDoubts` | `YesCounts` | an alarm at zero seconds comes between the y and `exit()`: the answer is no (keypeek.c:69) | keypeek.c:34 "To divert flow, press 'y' key in:" |
| `KeysDoubts` | `CtrlCGivesTime` | Ctrl-C between load and store of `secleft--`: the reset is lost (keypeek.c:71) | |
| `KeysDoubts` | `NoFalseYes` | a message that does not fit ends keypeek with 1, which is the code for yes | |
| `AcpiDoubts` | `PressHandled` | a press behind another event in one text is never handled (powacpi.c:98) | powbutt.sh:58 "lid closed, powering down" |
| `AcpiDoubts` | `Prompt` | after 35.8 minutes the time difference is negative and each event waits 100 ms, for as long again (powacpi.c:52) | |
| `AcpiDoubts` | `SessionKept` | an XFCE session that starts after `pgrep` is killed (powbutt.sh:26-44) | powbutt.sh:25 "if XFCE session is running, let it do its thing" |
| `AcpiDoubts` | `Stays` | powacpi starts right after acpid, finds no socket, ends, and is never started again (postinit:73, 96) | |
| `PangTrap` | `NeverRaises` | `</link>` within a span pops the span's frame; the next `>` raises (pangfunc.py:582, 663) | |
| `PangImage` | `PictureInPlace` | a picture is inserted before the words in front of it, which are still in the cache (pangfunc.py:638) | |
| `PangSpaces` | `OneSpace` | `<w>a </w>b<w> c</w>` loses the space before c: the last text is remembered within `<w>` only (pangfunc.py:146) | pangfunc.py:143 "If wrapping, output one space only" |
| `PangBack` | `BackGoesBack` | Backspace removes the document shown from `lstack`, and showing the one before pushes it again: the next Backspace shows the same document, and no third one back is ever reached (pangview.py:671-680) | |

Seen while modelling, without a configuration of their own: `<tab>` is counted in the
style and put in front of a text that was handed over before, so that it never shows
(pangfunc.py:199), although docs/WELCOME.pango:24 uses it; `<xl>...</xxl>` closes
the state, since XXLARGE is named as XLARGE, and leaves the size on; `bold=` of a
`<span>` outlives its `</span>`; `preinit=` is looked up with `-f` in the
initramfs and not below the new root (init:260); the branch for `root=` (init:137) is
never taken, as nothing assigns `$root`; `\77777777\101` in a document raises in
`chr()` (utils.py:123), as does a character of too few bytes or above U+10FFFF, where
`uni()` returns what it has not set (utils.py:53-58), and every later word with it;
`delete-disk` deletes nothing on a disk such as nvme0n1 or beyond the ninth
partition (preinit:186).

## 7. Not modelled

- *Three of four copies of the viewer.* `initramfs.org`, `initramfs-5.15.0-139`,
  `initramfs-6.8.0-59` and `initramfs-6.14.8` hold the same files, byte for byte.
  Together they are 11,180 of the 15,278 lines of code that remain when third-party
  code is left out; the map names `initramfs-6.14.8` only, so the share of
  lines that the map covers says little here. Within the
  viewer, painting, waiting, the cursor and `pangodisp.py`, which nothing
  imports, are left out.
- *Desktop tools* (`deskinfo`, `notify.c`, `removable`, the key programs in `crypto`): windows and filters
  that run one command and keep no state between two clicks.
- *`forever.sh`'s rate limiter, `eatzomb.c`, `linux_reboot`*: nothing depends on how
  often a failing service is started; the other two make one system call.
- *`sendacpi`*, whose message acpid does not read; ACPI texts longer than the buffer.
- *Media signatures* and the construction of images: sequential, run by hand on the
  development machine.
- *Loading of devices and modules*: what `modprobe` does is the kernel's.
- Breakpoints, third-party code and generated trees. `PROJECT.json` has the list by component.

## 8. Plan

1. *System*: an abstract boot cycle (off, search, boot, session, down) that the
   models are shown to implement together, with what survives in the storage
   of one session visible in the next one of the same user.
2. `TimedKeys` as a refinement of the question that `DataStore` asks.
3. *Forever*: the rate limiter against a reference count per second; *SigDb*: sign,
   check and stale entries.
4. Two viewers' worth of documents: untame ones followed by others, once what GTK does with
   an exception in a callback is part of the model.
