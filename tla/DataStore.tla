----------------------------- MODULE DataStore ------------------------------
(***************************************************************************)
(* How a boot of comlin64 finds, creates, clears and mounts its writable   *)
(* data storage: the second half of preinit/preinit with findHD(),         *)
(* prompt() and post_chroot() of preinit/preinit.sh.  A boot runs these    *)
(* steps in order; the power may fail between any two of them, after which *)
(* everything kept in RAM is gone and the next boot starts over from what  *)
(* the disks hold.                                                         *)
(*                                                                         *)
(* A partition slot has an entry in its disk's partition table (ptab) and, *)
(* independently of it, some content (fs): deleting the entry leaves the   *)
(* content where it is, and a new entry over the same space finds it again.*)
(***************************************************************************)
EXTENDS Naturals

CONSTANTS
  Disks,    \* whole disks, as lsblk lists them
  Parts,    \* partition slots: partitions, or the unpartitioned gaps
  DiskOf,   \* the disk a slot is on
  OneDigit, \* slots with the name of their disk and a digit: sda3, but not
            \* sda10 or nvme0n1p3
  Rank,     \* the order in which lsblk and sfdisk list devices
  Docs,     \* what a user may save in a session
  Options,  \* kernel command line options a boot may be given
  Faults,   \* what the environment may do wrong
  NoDev     \* the empty string: no device

Devs == Disks \cup Parts

ASSUME DeviceAssumption ==
  /\ Disks \cap Parts = {}
  /\ NoDev \notin Devs
  /\ DiskOf \in [Parts -> Disks]
  /\ OneDigit \subseteq Parts

ASSUME RankAssumption ==
  /\ Rank \in [Devs -> Nat]
  /\ \A d, e \in Devs : Rank[d] = Rank[e] => d = e
  /\ \A p \in Parts : Rank[DiskOf[p]] < Rank[p]

ASSUME EnvironmentAssumption ==
  /\ Options \subseteq {"nodisk", "delete-data", "delete-disk"}
  /\ Faults \subseteq {"crash", "sfdisk", "mkfs", "mount", "unplug"}

VARIABLES
  pc,       \* the next step of preinit, "session" under postinit, or "off"
  opts,     \* options of this boot
  disk,     \* MOUNT_DISK
  target,   \* OUTF, the partition this boot created
  upper,    \* where the session's upper layer lives; NoDev is RAM
  ramMark,  \* $HDROOT/.comlin_data exists in the RAM root itself
  present,  \* disks plugged in
  ptab,     \* slots with a partition table entry
  fs,       \* content of each slot
  files,    \* documents in the upper layer directory of each slot
  unclean,  \* slots whose file system was not unmounted cleanly
  cache,    \* documents of this session that are still in memory only
  gone      \* history: documents whose deletion the user confirmed

ram == <<disk, target, upper, ramMark, cache>>
media == <<present, ptab, fs, files, unclean>>
vars == <<pc, opts, ram, media, gone>>

Points == {"off", "start", "scan", "cleardata", "cleardisk", "ask", "create",
           "enter", "mkfs", "mark", "umount", "rescan", "fsck", "mount",
           "session"}

TypeOK ==
  /\ pc \in Points
  /\ opts \in SUBSET Options
  /\ disk \in Devs \cup {NoDev}
  /\ target \in Parts \cup {NoDev}
  /\ upper \in Parts \cup {NoDev}
  /\ ramMark \in BOOLEAN
  /\ present \in SUBSET Disks
  /\ ptab \in SUBSET Parts
  /\ fs \in [Parts -> {"blank", "foreign", "plain", "data"}]
  /\ files \in [Parts -> SUBSET Docs]
  /\ unclean \in SUBSET Parts
  /\ cache \in SUBSET Docs
  /\ gone \in SUBSET Docs

-----------------------------------------------------------------------------
(* What the tools see. *)

\* lsblk: the plugged in disks and their partitions.
Listed(tab) == present \cup {p \in tab : DiskOf[p] \in present}

\* "blank" stands for all content that mount refuses (nothing, swap, crypt),
\* and a whole disk holds a partition table.
HasFs(f, d) == d \in Parts /\ f[d] # "blank"

\* Variants, to test the properties: the partitions are not listed; the mark
\* is not looked at.
SeenDisksOnly(tab, f) == {d \in present : ramMark}
SeenAnyFs(tab, f) == {d \in Listed(tab) : HasFs(f, d)}

\* Devices at which findHD sees $HDROOT/.comlin_data: it ignores whether the
\* mount worked, so behind a device that does not mount it sees the RAM root.
Seen(tab, f) ==
  {d \in Listed(tab) : IF HasFs(f, d) THEN f[d] = "data" ELSE ramMark}

\* findHD stops at the first of them; MOUNT_DISK is empty if there is none.
FindHD(tab, f, d) ==
  \/ d = NoDev /\ Seen(tab, f) = {}
  \/ d \in Seen(tab, f) /\ \A e \in Seen(tab, f) : Rank[d] <= Rank[e]

\* Disks for which sfdisk -F reports unpartitioned space.
Free(dk) == {p \in Parts \ ptab : DiskOf[p] = dk}
FreeDisks == {dk \in present : Free(dk) # {}}

Storages == {p \in ptab : fs[p] = "data"}

-----------------------------------------------------------------------------
(* Power and plugs. *)

\* Media as a user may have them: installed with a marked partition
\* (grub-data/cp_store.sh) or with none, next to partitions of other systems.
Init ==
  /\ pc = "off" /\ opts = {}
  /\ disk = NoDev /\ target = NoDev /\ upper = NoDev
  /\ ramMark = FALSE /\ cache = {} /\ gone = {}
  /\ present = Disks
  /\ ptab \in SUBSET Parts
  /\ fs \in [Parts -> {"blank", "foreign", "data"}]
  /\ \A p \in Parts \ ptab : fs[p] # "data"
  /\ \A p, q \in Storages : p = q
  /\ files = [p \in Parts |-> {}]
  /\ unclean = {}

PowerOn ==
  /\ pc = "off"
  /\ pc' = "start"
  /\ opts' \in SUBSET Options
  /\ UNCHANGED <<ram, media, gone>>

ResetRam ==
  /\ pc' = "off" /\ opts' = {}
  /\ disk' = NoDev /\ target' = NoDev /\ upper' = NoDev
  /\ ramMark' = FALSE /\ cache' = {}

PowerLoss ==
  /\ "crash" \in Faults
  /\ pc # "off"
  /\ ResetRam
  /\ UNCHANGED <<media, gone>>

Plug(dk) ==
  /\ "unplug" \in Faults
  /\ pc = "off"
  /\ present' = IF dk \in present THEN present \ {dk} ELSE present \cup {dk}
  /\ UNCHANGED <<pc, opts, ram, ptab, fs, files, unclean, gone>>

-----------------------------------------------------------------------------
(* The boot. *)

EnterSession(u) ==
  /\ pc' = "session"
  /\ upper' = u

\* nodisk: the storage is not even looked for.
NoDisk ==
  /\ pc = "start"
  /\ "nodisk" \in opts
  /\ EnterSession(NoDev)
  /\ UNCHANGED <<opts, disk, target, ramMark, cache, media, gone>>

LookForDisk ==
  /\ pc = "start"
  /\ "nodisk" \notin opts
  /\ pc' = "scan"
  /\ UNCHANGED <<opts, ram, media, gone>>

Scan ==
  /\ pc = "scan"
  /\ \E d \in Devs \cup {NoDev} : FindHD(ptab, fs, d) /\ disk' = d
  /\ pc' = "cleardata"
  /\ UNCHANGED <<opts, target, upper, ramMark, cache, media, gone>>

\* delete-data.  prompt() only returns on yes or no.
SkipClearData ==
  /\ pc = "cleardata"
  /\ "delete-data" \notin opts \/ disk = NoDev
  /\ pc' = "cleardisk"
  /\ UNCHANGED <<opts, ram, media, gone>>

\* The quotes around "$HDROOT/fs/*" keep the shell from expanding it: rm -rf
\* is given a name that no file has, and removes nothing.
ClearData(yes) ==
  /\ pc = "cleardata"
  /\ "delete-data" \in opts /\ disk # NoDev
  /\ pc' = "cleardisk"
  /\ IF yes
     THEN /\ unclean' = unclean \ {disk}
          /\ gone' = IF disk \in Parts THEN gone \cup files[disk] ELSE gone
     ELSE UNCHANGED <<unclean, gone>>
  /\ UNCHANGED <<opts, ram, present, ptab, fs, files>>

SkipClearDisk ==
  /\ pc = "cleardisk"
  /\ "delete-disk" \notin opts
  /\ pc' = "ask"
  /\ UNCHANGED <<opts, ram, media, gone>>

\* Variant: the answer is not looked at before the partition is deleted.
ClearDiskUnasked(yes) ==
  /\ pc = "cleardisk"
  /\ "delete-disk" \in opts
  /\ pc' = "ask"
  /\ ptab' = ptab \ {disk}
  /\ \E d \in Devs \cup {NoDev} : FindHD(ptab', fs, d) /\ disk' = d
  /\ gone' = IF yes /\ disk \in Parts THEN gone \cup files[disk] ELSE gone
  /\ UNCHANGED <<opts, target, upper, ramMark, cache, present, fs, files,
                 unclean>>

\* The user is asked even if there is no disk to clear.  The last character of
\* the device name is taken for the number of the partition and the rest for the
\* disk; where that is wrong sfdisk fails, and nothing is deleted.
ClearDisk(yes) ==
  /\ pc = "cleardisk"
  /\ "delete-disk" \in opts
  /\ pc' = "ask"
  /\ IF yes /\ disk # NoDev
     THEN /\ \/ disk \in OneDigit /\ ptab' = ptab \ {disk}
             \/ disk \notin OneDigit /\ UNCHANGED ptab
             \/ "sfdisk" \in Faults /\ UNCHANGED ptab
          /\ \E d \in Devs \cup {NoDev} : FindHD(ptab', fs, d) /\ disk' = d
          /\ gone' = IF disk \in Parts THEN gone \cup files[disk] ELSE gone
     ELSE UNCHANGED <<ptab, disk, gone>>
  /\ UNCHANGED <<opts, target, upper, ramMark, cache, present, fs, files,
                 unclean>>

HaveStorage ==
  /\ pc = "ask"
  /\ disk # NoDev
  /\ pc' = "fsck"
  /\ UNCHANGED <<opts, ram, media, gone>>

\* keypeek: "y" goes on to create the storage; "n", Enter or the timeout start
\* the session without.
AnswerYes ==
  /\ pc = "ask"
  /\ disk = NoDev
  /\ pc' = "create"
  /\ UNCHANGED <<opts, ram, media, gone>>

\* Variant: keypeek without a timeout, and nobody there.
NoAnswerEver ==
  /\ pc = "ask"
  /\ FALSE
  /\ UNCHANGED vars

NoAnswer ==
  /\ pc = "ask"
  /\ disk = NoDev
  /\ EnterSession(NoDev)
  /\ UNCHANGED <<opts, disk, target, ramMark, cache, media, gone>>

\* read -r, without a timeout, after "No free space found".
NoFreeSpace ==
  /\ pc = "create"
  /\ FreeDisks = {}
  /\ pc' = "enter"
  /\ UNCHANGED <<opts, ram, media, gone>>

PressEnter ==
  /\ pc = "enter"
  /\ EnterSession(NoDev)
  /\ UNCHANGED <<opts, disk, target, ramMark, cache, media, gone>>

\* Variants: OUTF is the name of the disk; OUTF is some partition of it.
CreatePartitionOnDisk ==
  /\ pc = "create"
  /\ \E dk \in FreeDisks : target' = dk
  /\ pc' = "mkfs"
  /\ UNCHANGED <<opts, disk, upper, ramMark, cache, media, gone>>

CreatePartitionAnywhere ==
  /\ pc = "create"
  /\ \E dk \in FreeDisks, p \in Parts :
       /\ DiskOf[p] = dk
       /\ ptab' = ptab \cup {p}
       /\ target' = p
  /\ pc' = "mkfs"
  /\ UNCHANGED <<opts, disk, upper, ramMark, cache, present, fs, files,
                 unclean, gone>>

\* sfdisk -a on the first disk with free space.  Its input is not a terminal,
\* so it leaves the old content of the new partition alone.
CreatePartition ==
  /\ pc = "create"
  /\ \E dk \in FreeDisks :
       /\ \A e \in FreeDisks : Rank[dk] <= Rank[e]
       /\ \E p \in Free(dk) :
            /\ ptab' = ptab \cup {p}
            /\ target' = p
  /\ pc' = "mkfs"
  /\ UNCHANGED <<opts, disk, upper, ramMark, cache, present, fs, files,
                 unclean, gone>>

CreateFails ==
  /\ pc = "create"
  /\ FreeDisks # {}
  /\ "sfdisk" \in Faults
  /\ EnterSession(NoDev)
  /\ UNCHANGED <<opts, disk, target, ramMark, cache, media, gone>>

\* Variant: a file system found in the new partition is used as it is.
MkfsIfBlank ==
  /\ pc = "mkfs"
  /\ fs' = [fs EXCEPT ![target] = IF @ = "blank" THEN "plain" ELSE @]
  /\ pc' = "mark"
  /\ UNCHANGED <<opts, ram, present, ptab, files, unclean, gone>>

Mkfs ==
  /\ pc = "mkfs"
  /\ fs' = [fs EXCEPT ![target] = "plain"]
  /\ files' = [files EXCEPT ![target] = {}]
  /\ unclean' = unclean \ {target}
  /\ pc' = "mark"
  /\ UNCHANGED <<opts, ram, present, ptab, gone>>

\* mkfs.ext2 ... || (echo "Error on mkfs"): the boot goes on all the same.
MkfsFails ==
  /\ pc = "mkfs"
  /\ "mkfs" \in Faults
  /\ pc' = "mark"
  /\ UNCHANGED <<opts, ram, media, gone>>

\* Variant: the volume is not marked.
MarkVolumeNot ==
  /\ pc = "mark"
  /\ HasFs(fs, target)
  /\ pc' = "rescan"
  /\ UNCHANGED <<opts, ram, media, gone>>

\* mount and touch.
MarkVolume ==
  /\ pc = "mark"
  /\ HasFs(fs, target)
  /\ fs' = [fs EXCEPT ![target] = "data"]
  /\ unclean' = unclean \cup {target}
  /\ pc' = "umount"
  /\ UNCHANGED <<opts, ram, present, ptab, files, gone>>

UmountVolume ==
  /\ pc = "umount"
  /\ unclean' = unclean \ {target}
  /\ pc' = "rescan"
  /\ UNCHANGED <<opts, ram, present, ptab, fs, files, gone>>

\* If the mount fails, touch marks the empty directory in the RAM root.
MarkRam ==
  /\ pc = "mark"
  /\ ~HasFs(fs, target) \/ "mount" \in Faults
  /\ ramMark' = TRUE
  /\ pc' = "rescan"
  /\ UNCHANGED <<opts, disk, target, upper, cache, media, gone>>

Rescan ==
  /\ pc = "rescan"
  /\ \E d \in Devs \cup {NoDev} :
       /\ FindHD(ptab, fs, d)
       /\ disk' = d
       /\ IF d = NoDev THEN EnterSession(NoDev)
          ELSE pc' = "fsck" /\ UNCHANGED upper
  /\ UNCHANGED <<opts, target, ramMark, cache, media, gone>>

\* Variant: only the fsck option has the file system checked.
FsckOnOption ==
  /\ pc = "fsck"
  /\ pc' = "mount"
  /\ UNCHANGED <<opts, ram, media, gone>>

\* With or without the fsck option, a file system that was not unmounted
\* cleanly is checked and repaired.
Fsck ==
  /\ pc = "fsck"
  /\ unclean' = unclean \ {disk}
  /\ pc' = "mount"
  /\ UNCHANGED <<opts, ram, present, ptab, fs, files, gone>>

\* mount, mkdir fs work, the overlay and post_chroot.  The mount is not
\* checked: if it fails, fs and work are made in the RAM root.
MountOverlay ==
  /\ pc = "mount"
  /\ \/ /\ HasFs(fs, disk)
        /\ EnterSession(disk) /\ unclean' = unclean \cup {disk}
     \/ /\ ~HasFs(fs, disk) \/ "mount" \in Faults
        /\ EnterSession(NoDev) /\ UNCHANGED unclean
  /\ UNCHANGED <<opts, disk, target, ramMark, cache, present, ptab, fs, files,
                 gone>>

-----------------------------------------------------------------------------
(* The session, as far as the storage notices it. *)

Visible == (IF upper \in Parts THEN files[upper] ELSE {}) \cup cache

Save(d) ==
  /\ pc = "session"
  /\ cache' = cache \cup {d}
  /\ gone' = gone \ {d}
  /\ UNCHANGED <<pc, opts, disk, target, upper, ramMark, media>>

\* Variant: no sync.
FlushedNot == files

\* What reaches the medium: everything written to a file system that has one.
Flushed ==
  IF upper \in Parts
  THEN [files EXCEPT ![upper] = @ \cup cache]
  ELSE files

WriteBack ==
  /\ pc = "session"
  /\ upper \in Parts
  /\ cache # {}
  /\ files' = Flushed
  /\ cache' = {}
  /\ UNCHANGED <<pc, opts, disk, target, upper, ramMark, present, ptab, fs,
                 unclean, gone>>

\* downClean syncs; umountAll may find the file system busy.
ShutDown ==
  /\ pc = "session"
  /\ ResetRam
  /\ files' = Flushed
  /\ unclean' \in {unclean, unclean \ {upper}}
  /\ UNCHANGED <<present, ptab, fs, gone>>

-----------------------------------------------------------------------------
\* Steps the machine takes by itself, and steps that wait for somebody.
Program ==
  \/ NoDisk \/ LookForDisk \/ Scan \/ SkipClearData \/ SkipClearDisk
  \/ HaveStorage \/ NoAnswer \/ NoFreeSpace \/ CreatePartition \/ CreateFails
  \/ Mkfs \/ MkfsFails \/ MarkVolume \/ MarkRam \/ UmountVolume \/ Rescan
  \/ Fsck \/ MountOverlay

User ==
  \/ PowerOn \/ AnswerYes \/ PressEnter \/ ShutDown
  \/ \E yes \in BOOLEAN : ClearData(yes) \/ ClearDisk(yes)
  \/ \E d \in Docs : Save(d)

Environment == PowerLoss \/ WriteBack \/ \E dk \in Disks : Plug(dk)

Next == Program \/ User \/ Environment

Spec == Init /\ [][Next]_vars /\ WF_vars(Program)

\* A user who keeps booting, answers the questions, presses "y" before the
\* timeout again and again, and shuts the machine down.
PatientUser ==
  /\ WF_vars(PowerOn)
  /\ SF_vars(AnswerYes)
  /\ WF_vars(PressEnter)
  /\ SF_vars(ShutDown)
  /\ WF_vars(\E yes \in BOOLEAN : ClearData(yes) \/ ClearDisk(yes))

PatientSpec == Spec /\ PatientUser

-----------------------------------------------------------------------------
(* Properties. *)

\* At no moment do two partitions carry the storage mark.  findHD takes the
\* first one it sees, so with two of them what a session saved would be
\* missing from a later one that lists the disks in another order.
AtMostOneStorage == \A p, q \in Storages : p = q

\* From the moment the boot announces "Data storage at ..." (preinit:245) the
\* announced device is a marked partition, and the session started on it
\* writes to that partition.
AnnouncedIsStorage ==
  /\ pc \in {"fsck", "mount"} => disk \in Storages
  /\ pc = "session" /\ disk # NoDev => disk \in Storages /\ upper = disk

\* A document the user confirmed to delete, with delete-data or delete-disk,
\* is in no later session unless it is saved again.
DeletedStaysDeleted == pc = "session" => Visible \cap gone = {}

\* Nothing that is on a medium when the boot starts is overwritten or loses
\* its partition entry, except the storage whose deletion the user confirmed:
\* the partition that is formatted and marked did not exist before this boot.
NothingErasedUnasked ==
  [][/\ target' \in {target, NoDev} \/ target' \notin ptab
     /\ \A p \in ptab :
          \/ p \in ptab' /\ fs'[p] = fs[p] /\ files[p] \subseteq files'[p]
          \/ p = target /\ pc \in {"mkfs", "mark"}
          \/ p = disk /\ pc = "cleardisk" /\ files[p] \subseteq gone']_vars

\* A session never starts writing to a storage file system that a crash or a
\* busy unmount left unclean before fsck has repaired it.
SessionOnCheckedStorage ==
  [][pc' = "session" /\ upper' # NoDev /\ pc # "session"
       => upper' \notin unclean]_vars

\* The documents in the storage, and in the partition being created none.
StoredDocs ==
  UNION {files[p] : p \in Storages \ (IF pc \in {"mkfs", "mark"}
                                        THEN {target} ELSE {})}

Mode ==
  IF pc = "off" THEN "off"
  ELSE IF pc # "session" THEN "boot"
  ELSE IF disk = NoDev THEN "nosave" ELSE "keeping"

Shown == IF pc = "session" THEN Visible ELSE {}

Promise == INSTANCE Keeping WITH
  mode <- Mode, kept <- StoredDocs, shown <- Shown

\* The storage keeps what Keeping promises: a refinement.
KeepsPromise == Promise!Spec

\* "Left alone, the distro will continue booting" (docs/index.pango:46): a
\* boot without delete options ends in a session although nobody touches the
\* keyboard; only a user who has pressed "y" may have to press Enter too.
LeftAlone ==
  (pc = "start" /\ opts \subseteq {"nodisk"})
    ~> (pc \in {"session", "enter", "off"})

\* A user who keeps asking for storage gets it, if it exists or there was
\* room for it when the machine was first switched on -- provided that from
\* some time on the power no longer fails while the machine boots.
EventuallyStorage ==
  <>[][pc' = "off" => pc = "session"]_vars
    => ((pc = "off" /\ (Storages # {} \/ FreeDisks # {}))
          ~> (pc = "session" /\ upper # NoDev))

=============================================================================
