-------------------------- MODULE DataStore_proofs --------------------------
(***************************************************************************)
(* Theorems about DataStore for any number of disks, partitions and        *)
(* documents.  What each needs of the environment is a hypothesis on       *)
(* Faults and Options; the runs of MCDataStore show that without it the    *)
(* property fails.                                                         *)
(***************************************************************************)
EXTENDS DataStore, Lexicographic, TLAPS

\* The actions, one disjunct each, so that the proofs can go through them.
LEMMA NextCases ==
  ASSUME [Next]_vars
  PROVE  \/ UNCHANGED vars
         \/ NoDisk \/ LookForDisk \/ Scan \/ SkipClearData \/ SkipClearDisk
         \/ HaveStorage \/ NoAnswer \/ NoFreeSpace \/ CreatePartition
         \/ CreateFails \/ Mkfs \/ MkfsFails \/ MarkVolume \/ MarkRam
         \/ UmountVolume \/ Rescan \/ Fsck \/ MountOverlay
         \/ PowerOn \/ AnswerYes \/ PressEnter \/ ShutDown
         \/ \E yes \in BOOLEAN : ClearData(yes)
         \/ \E yes \in BOOLEAN : ClearDisk(yes)
         \/ \E d \in Docs : Save(d)
         \/ PowerLoss \/ WriteBack
         \/ \E dk \in Disks : Plug(dk)
BY DEF Next, Program, User, Environment

LEMMA TypeStep ==
  ASSUME TypeOK, [Next]_vars
  PROVE  TypeOK'
<1> USE DeviceAssumption DEF Devs
<1> USE DEF TypeOK, Points, ram, media
<1>1. CASE UNCHANGED vars
  BY <1>1 DEF vars
<1>2. CASE NoDisk \/ LookForDisk \/ Scan \/ SkipClearData \/ SkipClearDisk
  BY <1>2 DEF NoDisk, LookForDisk, Scan, SkipClearData, SkipClearDisk,
              EnterSession
<1>3. CASE HaveStorage \/ NoAnswer \/ NoFreeSpace \/ CreateFails
  BY <1>3 DEF HaveStorage, NoAnswer, NoFreeSpace, CreateFails, EnterSession
<1>4. CASE CreatePartition
  BY <1>4 DEF CreatePartition, Free
<1>5. CASE Mkfs
  BY <1>5 DEF Mkfs
<1>6. CASE MkfsFails \/ MarkVolume \/ MarkRam \/ UmountVolume
  BY <1>6 DEF MkfsFails, MarkVolume, MarkRam, UmountVolume, HasFs
<1>7. CASE Rescan \/ Fsck
  BY <1>7 DEF Rescan, Fsck, EnterSession
<1>8. CASE MountOverlay
  BY <1>8 DEF MountOverlay, EnterSession, HasFs
<1>9. CASE PowerOn \/ AnswerYes \/ PressEnter
  BY <1>9 DEF PowerOn, AnswerYes, PressEnter, EnterSession
<1>10. CASE ShutDown
  BY <1>10 DEF ShutDown, ResetRam, Flushed
<1>11. CASE \E yes \in BOOLEAN : ClearData(yes)
  BY <1>11 DEF ClearData
<1>12. CASE \E yes \in BOOLEAN : ClearDisk(yes)
  BY <1>12 DEF ClearDisk
<1>13. CASE \E d \in Docs : Save(d)
  BY <1>13 DEF Save
<1>14. CASE PowerLoss
  BY <1>14 DEF PowerLoss, ResetRam
<1>15. CASE WriteBack
  BY <1>15 DEF WriteBack, Flushed
<1>16. CASE \E dk \in Disks : Plug(dk)
  BY <1>16 DEF Plug
<1> QED
  BY <1>1, <1>2, <1>3, <1>4, <1>5, <1>6, <1>7, <1>8, <1>9, <1>10, <1>11,
     <1>12, <1>13, <1>14, <1>15, <1>16, NextCases

\* Spec stays within the declared types: every value assigned in preinit is of
\* the kind its later uses expect.
THEOREM TypeCorrect == Spec => []TypeOK
<1>1. Init => TypeOK
  BY DeviceAssumption DEF Init, TypeOK, Points, Storages, Devs
<1>2. TypeOK /\ [Next]_vars => TypeOK'
  BY TypeStep
<1> QED
  BY <1>1, <1>2, PTL DEF Spec

-----------------------------------------------------------------------------
(* One storage.  AtMostOneStorage is not inductive: that the partition      *)
(* about to be marked will be the only one follows from what findHD saw     *)
(* several steps earlier.                                                   *)

NoneFound == disk = NoDev => Storages = {}

OneStorageInv ==
  /\ present = Disks
  /\ AtMostOneStorage
  /\ pc \in {"cleardata", "cleardisk", "ask"} => NoneFound
  /\ pc \in {"create", "enter"} => Storages = {}
  /\ pc \in {"mkfs", "mark", "umount", "rescan"}
       => target \in Parts /\ Storages \subseteq {target}

\* With every disk plugged in, findHD comes back empty only if there is no
\* storage: each storage partition mounts and shows its mark.
LEMMA EmptyScan ==
  ASSUME NEW tab \in SUBSET Parts, NEW f,
         present = Disks, FindHD(tab, f, NoDev)
  PROVE  \A p \in tab : f[p] # "data"
<1> SUFFICES ASSUME NEW p \in tab, f[p] = "data" PROVE FALSE
  OBVIOUS
<1>1. p \in Listed(tab)
  BY DeviceAssumption DEF Listed
<1>2. p \in Seen(tab, f)
  BY <1>1 DEF Seen, HasFs
<1>3. NoDev \notin Seen(tab, f)
  BY DeviceAssumption DEF Seen, Listed, Devs
<1> QED
  BY <1>2, <1>3 DEF FindHD

LEMMA OneStorageInductive ==
  ASSUME "unplug" \notin Faults, TypeOK, OneStorageInv, [Next]_vars
  PROVE  OneStorageInv'
<1> USE DeviceAssumption
    DEF OneStorageInv, AtMostOneStorage, NoneFound, Storages, TypeOK, ram, media
<1>1. CASE UNCHANGED vars
  BY <1>1 DEF vars
<1>2. CASE NoDisk \/ LookForDisk \/ SkipClearData \/ SkipClearDisk
  BY <1>2 DEF NoDisk, LookForDisk, SkipClearData, SkipClearDisk, EnterSession
<1>3. CASE Scan
  <2>1. disk' = NoDev => Storages = {}
    BY <1>3, EmptyScan DEF Scan
  <2> QED
    BY <1>3, <2>1 DEF Scan
<1>4. CASE HaveStorage \/ NoAnswer \/ NoFreeSpace \/ CreateFails
  BY <1>4 DEF HaveStorage, NoAnswer, NoFreeSpace, CreateFails, EnterSession
<1>5. CASE CreatePartition
  BY <1>5 DEF CreatePartition, Free
<1>6. CASE Mkfs
  BY <1>6 DEF Mkfs
<1>7. CASE MkfsFails \/ MarkVolume \/ MarkRam \/ UmountVolume
  BY <1>7 DEF MkfsFails, MarkVolume, MarkRam, UmountVolume
<1>8. CASE Rescan \/ Fsck \/ MountOverlay
  BY <1>8 DEF Rescan, Fsck, MountOverlay, EnterSession
<1>9. CASE PowerOn \/ AnswerYes \/ PressEnter
  BY <1>9 DEF PowerOn, AnswerYes, PressEnter, EnterSession
<1>10. CASE ShutDown
  BY <1>10 DEF ShutDown, ResetRam
<1>11. CASE \E yes \in BOOLEAN : ClearData(yes)
  BY <1>11 DEF ClearData
<1>12. ASSUME NEW yes \in BOOLEAN, ClearDisk(yes)
       PROVE  OneStorageInv'
  <2>1. ptab' \subseteq ptab /\ UNCHANGED <<present, fs, target>> /\ pc' = "ask"
    BY <1>12 DEF ClearDisk
  <2>2. disk' = NoDev => Storages' = {}
    <3>1. CASE yes /\ disk # NoDev
      <4>1. PICK d \in Devs \cup {NoDev} : FindHD(ptab', fs, d) /\ disk' = d
        BY <1>12, <3>1 DEF ClearDisk
      <4> QED
        BY <2>1, <4>1, EmptyScan
    <3>2. CASE ~(yes /\ disk # NoDev)
      BY <1>12, <3>2 DEF ClearDisk
    <3> QED
      BY <3>1, <3>2
  <2> QED
    BY <2>1, <2>2
<1>13. CASE \E d \in Docs : Save(d)
  BY <1>13 DEF Save
<1>14. CASE PowerLoss
  BY <1>14 DEF PowerLoss, ResetRam
<1>15. CASE WriteBack
  BY <1>15 DEF WriteBack
<1>16. CASE \E dk \in Disks : Plug(dk)
  BY <1>16 DEF Plug
<1> QED
  BY <1>1, <1>2, <1>3, <1>4, <1>5, <1>6, <1>7, <1>8, <1>9, <1>10, <1>11,
     <1>12, <1>13, <1>14, <1>15, <1>16, NextCases

\* If disks are not swapped between boots, no sequence of boots, power losses,
\* failing tools and deletions ever leaves two storages.
THEOREM OneStorage ==
  ASSUME "unplug" \notin Faults
  PROVE  Spec => []AtMostOneStorage
<1>1. Init => OneStorageInv
  BY DEF Init, OneStorageInv, AtMostOneStorage, NoneFound
<1>2. TypeOK /\ OneStorageInv /\ [Next]_vars => OneStorageInv'
  BY OneStorageInductive
<1>3. OneStorageInv => AtMostOneStorage
  BY DEF OneStorageInv
<1> QED
  BY <1>1, <1>2, <1>3, TypeCorrect, PTL DEF Spec

-----------------------------------------------------------------------------
(* What is announced is a storage, if new partitions format and mount.      *)

AnnounceInv ==
  /\ AnnouncedIsStorage
  /\ ramMark = FALSE
  /\ pc \in {"off", "start", "scan", "create", "enter", "mkfs", "mark", "umount",
             "rescan"} => disk = NoDev
  /\ pc \in {"cleardata", "cleardisk", "ask"} => disk \in Storages \cup {NoDev}
  /\ pc \in {"mkfs", "mark", "umount", "rescan"} => target \in ptab
  /\ pc = "mark" => fs[target] = "plain"
  /\ pc # "session" => upper = NoDev
  /\ pc = "session" /\ disk = NoDev => upper = NoDev

\* Without a mark in RAM, what findHD returns is nothing or a storage.
LEMMA ScanFindsStorage ==
  ASSUME TypeOK, ~ramMark, NEW tab \in SUBSET Parts,
         NEW d \in Devs \cup {NoDev}, FindHD(tab, fs, d)
  PROVE  d = NoDev \/ (d \in tab /\ fs[d] = "data")
BY DeviceAssumption DEF FindHD, Seen, HasFs, Listed, Devs, TypeOK

LEMMA AnnounceInductive ==
  ASSUME Faults \cap {"mkfs", "mount"} = {}, TypeOK, AnnounceInv, [Next]_vars
  PROVE  AnnounceInv'
<1> USE DeviceAssumption
    DEF AnnounceInv, AnnouncedIsStorage, Storages, TypeOK, ram, media, Devs
<1>1. CASE UNCHANGED vars
  BY <1>1 DEF vars
<1>2. CASE NoDisk \/ LookForDisk \/ SkipClearData \/ SkipClearDisk
  BY <1>2 DEF NoDisk, LookForDisk, SkipClearData, SkipClearDisk, EnterSession
<1>3. CASE Scan
  BY <1>3, ScanFindsStorage DEF Scan
<1>4. CASE HaveStorage \/ NoAnswer \/ NoFreeSpace \/ CreateFails
  BY <1>4 DEF HaveStorage, NoAnswer, NoFreeSpace, CreateFails, EnterSession
<1>5. CASE CreatePartition
  BY <1>5 DEF CreatePartition, Free
<1>6. CASE Mkfs \/ MkfsFails
  BY <1>6 DEF Mkfs, MkfsFails
<1>7. CASE MarkVolume \/ MarkRam \/ UmountVolume
  BY <1>7 DEF MarkVolume, MarkRam, UmountVolume, HasFs
<1>8. CASE Rescan
  BY <1>8, ScanFindsStorage DEF Rescan, EnterSession
<1>9. CASE Fsck \/ MountOverlay
  BY <1>9 DEF Fsck, MountOverlay, EnterSession, HasFs
<1>10. CASE PowerOn \/ AnswerYes \/ PressEnter
  BY <1>10 DEF PowerOn, AnswerYes, PressEnter, EnterSession
<1>11. CASE ShutDown \/ PowerLoss
  BY <1>11 DEF ShutDown, PowerLoss, ResetRam
<1>12. CASE \E yes \in BOOLEAN : ClearData(yes)
  BY <1>12 DEF ClearData
<1>13. ASSUME NEW yes \in BOOLEAN, ClearDisk(yes)
       PROVE  AnnounceInv'
  <2>1. ptab' \in SUBSET Parts /\ UNCHANGED <<fs, ramMark, upper>>
        /\ pc = "cleardisk" /\ pc' = "ask"
    BY <1>13 DEF ClearDisk
  <2>2. CASE yes /\ disk # NoDev
    <3>1. PICK d \in Devs \cup {NoDev} : FindHD(ptab', fs, d) /\ disk' = d
      BY <1>13, <2>2 DEF ClearDisk
    <3>2. disk' = NoDev \/ (disk' \in ptab' /\ fs[disk'] = "data")
      BY <2>1, <3>1, ScanFindsStorage
    <3> QED
      BY <2>1, <3>2
  <2>3. CASE ~(yes /\ disk # NoDev)
    <3>1. UNCHANGED <<ptab, disk>>
      BY <1>13, <2>3 DEF ClearDisk
    <3> QED
      BY <2>1, <3>1
  <2> QED
    BY <2>2, <2>3
<1>14. CASE \E d \in Docs : Save(d)
  BY <1>14 DEF Save
<1>15. CASE WriteBack
  BY <1>15 DEF WriteBack
<1>16. CASE \E dk \in Disks : Plug(dk)
  BY <1>16 DEF Plug
<1> QED
  BY <1>1, <1>2, <1>3, <1>4, <1>5, <1>6, <1>7, <1>8, <1>9, <1>10, <1>11,
     <1>12, <1>13, <1>14, <1>15, <1>16, NextCases

LEMMA AnnounceInvariant ==
  ASSUME Faults \cap {"mkfs", "mount"} = {}
  PROVE  Spec => []AnnounceInv
<1>1. Init => AnnounceInv
  BY DEF Init, AnnounceInv, AnnouncedIsStorage
<1>2. TypeOK /\ AnnounceInv /\ [Next]_vars => AnnounceInv'
  BY AnnounceInductive
<1> QED
  BY <1>1, <1>2, TypeCorrect, PTL DEF Spec

\* As long as a new partition can be formatted and mounted, a boot announces
\* data storage only on a marked partition, and the session writes there.
THEOREM AnnouncedStorage ==
  ASSUME Faults \cap {"mkfs", "mount"} = {}
  PROVE  Spec => []AnnouncedIsStorage
<1>1. AnnounceInv => AnnouncedIsStorage
  BY DEF AnnounceInv
<1> QED
  BY <1>1, AnnounceInvariant, PTL

-----------------------------------------------------------------------------
(* Whose partitions a session writes to.                                    *)

\* findHD looks through its mount point when a mount fails.  A mark in RAM is
\* there only from the step that sets it to the end of the session, and what
\* can be mounted behind it is a storage all the same.
MarkInv ==
  /\ ramMark => pc \in {"rescan", "fsck", "mount", "session"}
  /\ pc \in {"cleardata", "cleardisk", "ask"} => disk \in Storages \cup {NoDev}
  /\ pc \in {"mkfs", "mark", "umount", "rescan"} => target \in ptab
  /\ pc \in {"fsck", "mount"} => (HasFs(fs, disk) => disk \in Storages)
  /\ pc # "session" => upper = NoDev
  /\ upper \in Storages \cup {NoDev}

LEMMA ScanFindsMark ==
  ASSUME TypeOK, NEW tab \in SUBSET Parts, NEW f,
         NEW d \in Devs \cup {NoDev}, FindHD(tab, f, d)
  PROVE  HasFs(f, d) => d \in tab /\ f[d] = "data"
BY DeviceAssumption DEF FindHD, Seen, HasFs, Listed, Devs, TypeOK

LEMMA MarkInductive ==
  ASSUME TypeOK, MarkInv, [Next]_vars
  PROVE  MarkInv'
<1> USE DeviceAssumption DEF MarkInv, Storages, TypeOK, ram, media, Devs
<1>1. CASE UNCHANGED vars
  BY <1>1 DEF vars, HasFs
<1>2. CASE NoDisk \/ LookForDisk \/ SkipClearData \/ SkipClearDisk
  BY <1>2 DEF NoDisk, LookForDisk, SkipClearData, SkipClearDisk, EnterSession
<1>3. CASE Scan
  BY <1>3, ScanFindsStorage DEF Scan
<1>4. CASE HaveStorage \/ NoAnswer \/ NoFreeSpace \/ CreateFails
  BY <1>4 DEF HaveStorage, NoAnswer, NoFreeSpace, CreateFails, EnterSession
<1>5. CASE CreatePartition
  BY <1>5 DEF CreatePartition, Free
<1>6. CASE Mkfs \/ MkfsFails
  BY <1>6 DEF Mkfs, MkfsFails
<1>7. CASE MarkVolume \/ MarkRam \/ UmountVolume
  BY <1>7 DEF MarkVolume, MarkRam, UmountVolume
<1>8. CASE Rescan
  <2>1. PICK d \in Devs \cup {NoDev} :
          /\ FindHD(ptab, fs, d)
          /\ disk' = d
          /\ IF d = NoDev THEN EnterSession(NoDev)
             ELSE pc' = "fsck" /\ UNCHANGED upper
    BY <1>8 DEF Rescan
  <2>2. HasFs(fs, d) => d \in Storages
    BY <2>1, ScanFindsMark
  <2> QED
    BY <1>8, <2>1, <2>2 DEF Rescan, EnterSession, HasFs
<1>9. CASE Fsck \/ MountOverlay
  BY <1>9 DEF Fsck, MountOverlay, EnterSession, HasFs
<1>10. CASE PowerOn \/ AnswerYes \/ PressEnter
  BY <1>10 DEF PowerOn, AnswerYes, PressEnter, EnterSession
<1>11. CASE ShutDown \/ PowerLoss
  BY <1>11 DEF ShutDown, PowerLoss, ResetRam
<1>12. CASE \E yes \in BOOLEAN : ClearData(yes)
  BY <1>12 DEF ClearData
<1>13. ASSUME NEW yes \in BOOLEAN, ClearDisk(yes)
       PROVE  MarkInv'
  <2>1. /\ ptab' \in SUBSET Parts /\ UNCHANGED <<fs, ramMark, upper>>
        /\ pc = "cleardisk" /\ pc' = "ask"
    BY <1>13 DEF ClearDisk
  <2>2. CASE yes /\ disk # NoDev
    <3>1. PICK d \in Devs \cup {NoDev} : FindHD(ptab', fs, d) /\ disk' = d
      BY <1>13, <2>2 DEF ClearDisk
    <3>2. disk' = NoDev \/ (disk' \in ptab' /\ fs[disk'] = "data")
      BY <2>1, <3>1, ScanFindsStorage
    <3> QED
      BY <2>1, <3>2
  <2>3. CASE ~(yes /\ disk # NoDev)
    <3>1. UNCHANGED <<ptab, disk>>
      BY <1>13, <2>3 DEF ClearDisk
    <3> QED
      BY <2>1, <3>1
  <2> QED
    BY <2>2, <2>3
<1>14. CASE \E d \in Docs : Save(d)
  BY <1>14 DEF Save
<1>15. CASE WriteBack
  BY <1>15 DEF WriteBack
<1>16. CASE \E dk \in Disks : Plug(dk)
  BY <1>16 DEF Plug
<1> QED
  BY <1>1, <1>2, <1>3, <1>4, <1>5, <1>6, <1>7, <1>8, <1>9, <1>10, <1>11,
     <1>12, <1>13, <1>14, <1>15, <1>16, NextCases

LEMMA MarkInvariant == Spec => []MarkInv
<1>1. Init => MarkInv
  BY DEF Init, MarkInv
<1> QED
  BY <1>1, MarkInductive, TypeCorrect, PTL DEF Spec

\* A session writes to no partition but one with the mark of the storage.
WritesToStorage == pc = "session" => upper \in Storages \cup {NoDev}

\* Whatever fails, whatever is plugged in and whenever the power goes, the
\* partitions of other systems are never mounted for writing, even where
\* AnnouncedIsStorage fails and the boot announces them as data storage.
THEOREM OthersAreNotWritten == Spec => []WritesToStorage
<1>1. MarkInv => WritesToStorage
  BY DEF MarkInv, WritesToStorage
<1> QED
  BY <1>1, MarkInvariant, PTL

-----------------------------------------------------------------------------
(* DataStore implements Keeping.  What is written to a partition is kept    *)
(* even if the new partition could not be mounted, which sends its mark and *)
(* the session to RAM; that what is announced is what is written needs a    *)
(* mount that works.                                                        *)

\* Whether the session writes to a partition or to RAM, whatever was announced.
WrittenMode ==
  IF pc = "off" THEN "off"
  ELSE IF pc # "session" THEN "boot"
  ELSE IF upper = NoDev THEN "nosave" ELSE "keeping"

Written == INSTANCE Keeping WITH
  mode <- WrittenMode, kept <- StoredDocs, shown <- Shown

\* The old content of a deleted partition can come back only if the power fails
\* before the new one over it is formatted.
KeepInv ==
  /\ "crash" \in Faults => /\ \A p \in Parts \ ptab : fs[p] # "data"
                           /\ pc = "mkfs" => fs[target] # "data"
  /\ pc = "mark" => fs[target] # "data" /\ files[target] = {}
  /\ pc # "session" => cache = {}

\* The hypotheses of the refinement: disks stay where they are, new partitions
\* can be formatted, and where the power may fail no boot asks for delete-disk.
GoodMedia ==
  /\ Faults \cap {"mkfs", "unplug"} = {}
  /\ "crash" \in Faults => "delete-disk" \notin Options

AllInv == TypeOK /\ OneStorageInv /\ MarkInv /\ KeepInv

LEMMA KeepInductive ==
  ASSUME GoodMedia, AllInv, [Next]_vars
  PROVE  KeepInv'
<1> USE DeviceAssumption
    DEF GoodMedia, AllInv, KeepInv, MarkInv, OneStorageInv, TypeOK, ram, media
<1>1. CASE UNCHANGED vars
  BY <1>1 DEF vars
<1>2. CASE NoDisk \/ LookForDisk \/ Scan \/ SkipClearData \/ SkipClearDisk
  BY <1>2 DEF NoDisk, LookForDisk, Scan, SkipClearData, SkipClearDisk,
              EnterSession
<1>3. CASE HaveStorage \/ NoAnswer \/ NoFreeSpace \/ CreateFails
  BY <1>3 DEF HaveStorage, NoAnswer, NoFreeSpace, CreateFails, EnterSession
<1>4. CASE CreatePartition
  BY <1>4 DEF CreatePartition, Free
<1>5. CASE Mkfs \/ MkfsFails
  BY <1>5 DEF Mkfs, MkfsFails
<1>6. CASE MarkVolume \/ MarkRam \/ UmountVolume
  BY <1>6 DEF MarkVolume, MarkRam, UmountVolume
<1>7. CASE Rescan \/ Fsck \/ MountOverlay
  BY <1>7 DEF Rescan, Fsck, MountOverlay, EnterSession
<1>8. CASE PowerOn \/ AnswerYes \/ PressEnter
  BY <1>8 DEF PowerOn, AnswerYes, PressEnter, EnterSession
<1>9. CASE ShutDown \/ PowerLoss
  BY <1>9 DEF ShutDown, PowerLoss, ResetRam
<1>10. CASE \E yes \in BOOLEAN : ClearData(yes)
  BY <1>10 DEF ClearData
<1>11. CASE \E yes \in BOOLEAN : ClearDisk(yes)
  BY <1>11 DEF ClearDisk
<1>12. CASE \E d \in Docs : Save(d)
  BY <1>12 DEF Save
<1>13. CASE WriteBack
  BY <1>13 DEF WriteBack
<1>14. CASE \E dk \in Disks : Plug(dk)
  BY <1>14 DEF Plug
<1> QED
  BY <1>1, <1>2, <1>3, <1>4, <1>5, <1>6, <1>7, <1>8, <1>9, <1>10, <1>11,
     <1>12, <1>13, <1>14, NextCases

LEMMA AllInvariant ==
  ASSUME GoodMedia
  PROVE  Spec => []AllInv
<1>1. Init => AllInv
  BY DeviceAssumption
     DEF Init, AllInv, TypeOK, Points, OneStorageInv, NoneFound, MarkInv,
         KeepInv, AtMostOneStorage, Devs
<1>2. AllInv /\ [Next]_vars => AllInv'
  <2> SUFFICES ASSUME AllInv, [Next]_vars PROVE AllInv'
    OBVIOUS
  <2>1. TypeOK'
    BY TypeStep DEF AllInv
  <2>2. OneStorageInv'
    BY OneStorageInductive DEF AllInv, GoodMedia
  <2>3. MarkInv'
    BY MarkInductive DEF AllInv
  <2>4. KeepInv'
    BY KeepInductive
  <2> QED
    BY <2>1, <2>2, <2>3, <2>4 DEF AllInv
<1> QED
  BY <1>1, <1>2, PTL DEF Spec

\* A session that writes to a partition writes to the only storage, and what
\* is stored is what that one holds.
LEMMA StoredInSession ==
  ASSUME AllInv, pc = "session", upper # NoDev
  PROVE  upper \in Parts /\ Storages = {upper} /\ StoredDocs = files[upper]
<1>1. upper \in Parts /\ Storages = {upper}
  BY DEF AllInv, TypeOK, OneStorageInv, AtMostOneStorage, MarkInv
<1> QED
  BY <1>1 DEF StoredDocs

LEMMA StoredInSessionNext ==
  ASSUME AllInv', pc' = "session", upper' # NoDev
  PROVE  upper' \in Parts /\ Storages' = {upper'} /\ StoredDocs' = files'[upper']
<1>1. upper' \in Parts /\ Storages' = {upper'}
  BY DEF AllInv, TypeOK, OneStorageInv, AtMostOneStorage, MarkInv
<1> QED
  BY <1>1 DEF StoredDocs

\* Steps that touch neither the storages nor their documents.
LEMMA SameStored ==
  ASSUME AllInv, AllInv', UNCHANGED <<ptab, fs, files>>,
         "mkfs" \in {pc, pc'} => "crash" \in Faults
  PROVE  StoredDocs' = StoredDocs
<1>1. Storages' = Storages
  BY DEF Storages
<1>2. ASSUME NEW p \in Storages, pc \in {"mkfs", "mark"}
      PROVE  p # target
  BY <1>2 DEF AllInv, KeepInv, Storages
<1>3. ASSUME NEW p \in Storages', pc' \in {"mkfs", "mark"}
      PROVE  p # target'
  BY <1>3 DEF AllInv, KeepInv, Storages
<1> QED
  BY <1>1, <1>2, <1>3 DEF StoredDocs

\* Each step of a boot or a session is a step of Keeping, or changes nothing
\* that Keeping can see.
LEMMA KeepingStep ==
  ASSUME GoodMedia, AllInv, AllInv', [Next]_vars
  PROVE  [Written!Next]_<<WrittenMode, StoredDocs, Shown>>
<1> USE DEF WrittenMode, Shown
<1>1. CASE UNCHANGED vars
  BY <1>1 DEF vars, ram, media, Visible, StoredDocs, Storages
<1>2. ASSUME \/ LookForDisk \/ Scan \/ SkipClearData \/ SkipClearDisk
             \/ HaveStorage \/ NoFreeSpace \/ AnswerYes \/ Fsck
             \/ MarkRam \/ UmountVolume \/ \E yes \in BOOLEAN : ClearData(yes)
      PROVE  UNCHANGED <<WrittenMode, StoredDocs, Shown>>
  <2>1. UNCHANGED <<ptab, fs, files>>
    BY <1>2
       DEF LookForDisk, Scan, SkipClearData, SkipClearDisk, HaveStorage,
           NoFreeSpace, AnswerYes, Fsck, MarkRam, UmountVolume, ClearData, media
  <2>2. /\ pc \notin {"off", "session", "mkfs"}
        /\ pc' \notin {"off", "session", "mkfs"}
    BY <1>2
       DEF LookForDisk, Scan, SkipClearData, SkipClearDisk, HaveStorage,
           NoFreeSpace, AnswerYes, Fsck, MarkRam, UmountVolume, ClearData
  <2> QED
    BY <2>1, <2>2, SameStored
<1>3. ASSUME CreatePartition \/ Mkfs \/ MarkVolume
      PROVE  UNCHANGED <<WrittenMode, StoredDocs, Shown>>
  <2>1. pc \notin {"off", "session"} /\ pc' \notin {"off", "session"}
    BY <1>3 DEF CreatePartition, Mkfs, MarkVolume
  <2>2. StoredDocs = {}
    BY <1>3 DEF CreatePartition, Mkfs, MarkVolume, StoredDocs, AllInv,
                OneStorageInv
  <2>3. StoredDocs' = {}
    <3>1. CASE CreatePartition \/ Mkfs
      <4>1. pc' \in {"mkfs", "mark"} /\ Storages' \subseteq {target'}
        BY <3>1 DEF CreatePartition, Mkfs, AllInv, OneStorageInv
      <4> QED
        BY <4>1 DEF StoredDocs
    <3>2. CASE MarkVolume
      <4>1. pc' = "umount" /\ Storages' \subseteq {target'} /\ files'[target'] = {}
        BY <3>2 DEF MarkVolume, AllInv, OneStorageInv, KeepInv, ram
      <4> QED
        BY <4>1 DEF StoredDocs
    <3> QED
      BY <1>3, <3>1, <3>2
  <2> QED
    BY <2>1, <2>2, <2>3
<1>4. CASE PowerOn
  <2>1. StoredDocs' = StoredDocs
    BY <1>4, SameStored DEF PowerOn, media
  <2> QED
    BY <1>4, <2>1 DEF PowerOn, Written!Next, Written!Boot
<1>5. ASSUME NoDisk \/ NoAnswer \/ PressEnter \/ CreateFails
             \/ Rescan \/ MountOverlay,
             pc' = "session" /\ upper' = NoDev
      PROVE  Written!StartNosave
  <2>1. /\ pc \notin {"off", "session", "mkfs"} /\ UNCHANGED <<ptab, fs, files, cache>>
    BY <1>5 DEF NoDisk, NoAnswer, PressEnter, CreateFails, Rescan, MountOverlay,
                media
  <2>2. StoredDocs' = StoredDocs
    BY <1>5, <2>1, SameStored
  <2>3. cache' = {}
    BY <2>1 DEF AllInv, KeepInv
  <2> QED
    BY <1>5, <2>1, <2>2, <2>3, DeviceAssumption
       DEF Written!StartNosave, Visible, Devs
<1>6. ASSUME NoDisk \/ NoAnswer \/ PressEnter \/ CreateFails
      PROVE  pc' = "session" /\ upper' = NoDev
  BY <1>6 DEF NoDisk, NoAnswer, PressEnter, CreateFails, EnterSession
<1>7. ASSUME Rescan
      PROVE  Written!StartNosave \/ UNCHANGED <<WrittenMode, StoredDocs, Shown>>
  <2>1. CASE disk' = NoDev
    BY <1>5, <1>7, <2>1 DEF Rescan, EnterSession
  <2>2. CASE disk' # NoDev
    <3>1. pc = "rescan" /\ pc' = "fsck" /\ UNCHANGED <<ptab, fs, files>>
      BY <1>7, <2>2 DEF Rescan, media
    <3> QED
      BY <3>1, SameStored
  <2> QED
    BY <2>1, <2>2
<1>8. ASSUME MountOverlay
      PROVE  Written!StartKeeping \/ Written!StartNosave
  <2>1. /\ pc = "mount" /\ pc' = "session" /\ cache' = {}
        /\ UNCHANGED <<ptab, fs, files>>
    BY <1>8 DEF MountOverlay, EnterSession, AllInv, KeepInv
  <2>2. CASE upper' = NoDev
    BY <1>5, <1>8, <2>1, <2>2
  <2>3. CASE upper' # NoDev
    <3>1. StoredDocs' = StoredDocs
      BY <2>1, SameStored
    <3>2. StoredDocs' = files'[upper'] /\ upper' \in Parts
      BY <2>1, <2>3, StoredInSessionNext
    <3>3. Visible' = StoredDocs'
      BY <2>1, <3>2 DEF Visible
    <3> QED
      BY <2>1, <2>3, <3>1, <3>3 DEF Written!StartKeeping
  <2> QED
    BY <2>2, <2>3
<1>9. ASSUME NEW d \in Docs, Save(d)
      PROVE  Written!Save(d)
  <2>1. StoredDocs' = StoredDocs
    BY <1>9, SameStored DEF Save, media
  <2> QED
    BY <1>9, <2>1 DEF Save, Written!Save, Visible, media
<1>10. ASSUME WriteBack
       PROVE  Written!WriteBack
  <2>1. pc = "session" /\ upper # NoDev /\ pc' = pc /\ upper' = upper
    BY <1>10, DeviceAssumption DEF WriteBack, Devs
  <2>2. StoredDocs' = files'[upper]
    BY <2>1, StoredInSessionNext
  <2>3. upper \in Parts
    BY <2>1, StoredInSession
  <2>4. files'[upper] = files[upper] \cup cache /\ cache' = {}
    BY <1>10, <2>3 DEF WriteBack, Flushed, AllInv, TypeOK
  <2> QED
    BY <2>1, <2>2, <2>3, <2>4 DEF Written!WriteBack, Visible
<1>11. ASSUME ShutDown
       PROVE  Written!ShutDown
  <2>1. pc = "session" /\ pc' = "off" /\ UNCHANGED <<ptab, fs>>
    BY <1>11 DEF ShutDown, ResetRam
  <2>2. CASE upper = NoDev
    <3>1. files' = files
      BY <1>11, <2>2, DeviceAssumption DEF ShutDown, Flushed, Devs
    <3>2. StoredDocs' = StoredDocs
      BY <2>1, <3>1, SameStored
    <3> QED
      BY <2>1, <2>2, <3>2 DEF Written!ShutDown
  <2>3. CASE upper # NoDev
    <3>1. upper \in Parts /\ Storages = {upper}
      BY <2>1, <2>3, StoredInSession
    <3>2. files'[upper] = files[upper] \cup cache
      BY <1>11, <3>1 DEF ShutDown, Flushed, AllInv, TypeOK
    <3>3. Storages' = {upper}
      BY <2>1, <3>1 DEF Storages
    <3>4. StoredDocs' = Visible
      BY <2>1, <3>1, <3>2, <3>3 DEF StoredDocs, Visible
    <3> QED
      BY <2>1, <2>3, <3>4 DEF Written!ShutDown
  <2> QED
    BY <2>2, <2>3
<1>12. ASSUME PowerLoss
       PROVE  Written!PowerLoss
  <2>1. StoredDocs' = StoredDocs
    BY <1>12, SameStored DEF PowerLoss, media
  <2> QED
    BY <1>12, <2>1 DEF PowerLoss, ResetRam, Written!PowerLoss
<1>13. ASSUME NEW yes \in BOOLEAN, ClearDisk(yes)
       PROVE  Written!Erase \/ UNCHANGED <<WrittenMode, StoredDocs, Shown>>
  <2>1. pc = "cleardisk" /\ pc' = "ask" /\ UNCHANGED <<fs, files>>
    BY <1>13 DEF ClearDisk
  <2>2. CASE ptab' = ptab
    BY <2>1, <2>2, SameStored
  <2>3. CASE ptab' # ptab
    <3>1. disk # NoDev /\ ptab' = ptab \ {disk}
      BY <1>13, <2>3 DEF ClearDisk
    <3>2. Storages \subseteq {disk}
      BY <2>1, <3>1 DEF AllInv, MarkInv, OneStorageInv, AtMostOneStorage
    <3>3. Storages' = {}
      BY <2>1, <3>1, <3>2 DEF Storages
    <3>4. StoredDocs' = {}
      BY <3>3 DEF StoredDocs
    <3> QED
      BY <2>1, <3>4 DEF Written!Erase
  <2> QED
    BY <2>2, <2>3
<1>14. ASSUME NEW dk \in Disks, Plug(dk)
       PROVE  FALSE
  BY <1>14 DEF Plug, GoodMedia
<1>15. ASSUME MkfsFails
       PROVE  FALSE
  BY <1>15 DEF MkfsFails, GoodMedia
<1> QED
  BY <1>1, <1>2, <1>3, <1>4, <1>5, <1>6, <1>7, <1>8, <1>9, <1>10, <1>11,
     <1>12, <1>13, <1>14, <1>15, NextCases DEF Written!Next

\* Whatever is announced: a session that writes to a partition sees every
\* document that an earlier one wrote to one and nobody deleted, and no other
\* session or boot loses any of them, also after a mount that failed.
THEOREM KeepsWhatIsWritten ==
  ASSUME GoodMedia
  PROVE  Spec => Written!Spec
<1>1. Init => Written!Init
  BY DEF Init, Written!Init, WrittenMode, StoredDocs, Shown, Storages
<1>2. AllInv /\ AllInv' /\ [Next]_vars
        => [Written!Next]_<<WrittenMode, StoredDocs, Shown>>
  BY KeepingStep
<1> QED
  BY <1>1, <1>2, AllInvariant, PTL DEF Spec, Written!Spec, Written!vars

\* The storage keeps every document it was given until the user deletes it,
\* whatever the media, and whenever the power fails: with a mount that works,
\* what is announced is what is written.
THEOREM Keeps ==
  ASSUME GoodMedia, "mount" \notin Faults
  PROVE  Spec => KeepsPromise
<1>1. Init => Promise!Init
  BY DEF Init, Promise!Init, Mode, StoredDocs, Shown, Storages
<1>2. AnnounceInv /\ AnnounceInv'
        /\ [Written!Next]_<<WrittenMode, StoredDocs, Shown>>
        => [Promise!Next]_<<Mode, StoredDocs, Shown>>
  <2> SUFFICES ASSUME AnnounceInv, AnnounceInv',
                      [Written!Next]_<<WrittenMode, StoredDocs, Shown>>
               PROVE  [Promise!Next]_<<Mode, StoredDocs, Shown>>
    OBVIOUS
  <2>1. Mode = WrittenMode
    BY DEF AnnounceInv, AnnouncedIsStorage, Mode, WrittenMode
  <2>2. Mode' = WrittenMode'
    BY DEF AnnounceInv, AnnouncedIsStorage, Mode, WrittenMode
  <2> QED
    BY <2>1, <2>2
       DEF Written!Next, Written!Boot, Written!Erase, Written!StartKeeping,
           Written!StartNosave, Written!Save, Written!WriteBack,
           Written!ShutDown, Written!PowerLoss,
           Promise!Next, Promise!Boot, Promise!Erase, Promise!StartKeeping,
           Promise!StartNosave, Promise!Save, Promise!WriteBack,
           Promise!ShutDown, Promise!PowerLoss
<1>3. Spec => []AnnounceInv
  BY AnnounceInvariant DEF GoodMedia
<1> QED
  BY <1>1, <1>2, <1>3, KeepsWhatIsWritten, PTL
     DEF Spec, KeepsPromise, Promise!Spec, Promise!vars, Written!Spec,
         Written!vars

-----------------------------------------------------------------------------
(* Nothing is erased unasked, whatever goes wrong.                          *)

Untouched(p) == p \in ptab' /\ fs'[p] = fs[p] /\ files[p] \subseteq files'[p]

ErasesOnlyAsked ==
  /\ target' \in {target, NoDev} \/ target' \notin ptab
  /\ \A p \in ptab :
       \/ Untouched(p)
       \/ p = target /\ pc \in {"mkfs", "mark"}
       \/ p = disk /\ pc = "cleardisk" /\ files[p] \subseteq gone'

LEMMA ErasureStep ==
  ASSUME TypeOK, [Next]_vars
  PROVE  [ErasesOnlyAsked]_vars
<1> USE DEF ErasesOnlyAsked, Untouched, ram, media
<1>1. CASE UNCHANGED vars
  BY <1>1
<1>2. CASE NoDisk \/ LookForDisk \/ Scan \/ SkipClearData \/ SkipClearDisk
  BY <1>2 DEF NoDisk, LookForDisk, Scan, SkipClearData, SkipClearDisk,
              EnterSession
<1>3. CASE HaveStorage \/ NoAnswer \/ NoFreeSpace \/ CreateFails
  BY <1>3 DEF HaveStorage, NoAnswer, NoFreeSpace, CreateFails, EnterSession
<1>4. CASE CreatePartition
  BY <1>4 DEF CreatePartition, Free
<1>5. CASE Mkfs \/ MkfsFails \/ MarkVolume \/ MarkRam \/ UmountVolume
  BY <1>5 DEF Mkfs, MkfsFails, MarkVolume, MarkRam, UmountVolume, TypeOK
<1>6. CASE Rescan \/ Fsck \/ MountOverlay
  BY <1>6 DEF Rescan, Fsck, MountOverlay, EnterSession
<1>7. CASE PowerOn \/ AnswerYes \/ PressEnter
  BY <1>7 DEF PowerOn, AnswerYes, PressEnter, EnterSession
<1>8. CASE ShutDown \/ WriteBack
  BY <1>8 DEF ShutDown, WriteBack, ResetRam, Flushed, TypeOK
<1>9. CASE PowerLoss
  BY <1>9 DEF PowerLoss, ResetRam
<1>10. CASE \E yes \in BOOLEAN : ClearData(yes)
  BY <1>10 DEF ClearData
<1>11. ASSUME NEW yes \in BOOLEAN, ClearDisk(yes)
       PROVE  ErasesOnlyAsked
  BY <1>11 DEF ClearDisk, TypeOK
<1>12. CASE \E d \in Docs : Save(d)
  BY <1>12 DEF Save
<1>13. CASE \E dk \in Disks : Plug(dk)
  BY <1>13 DEF Plug
<1> QED
  BY <1>1, <1>2, <1>3, <1>4, <1>5, <1>6, <1>7, <1>8, <1>9, <1>10, <1>11,
     <1>12, <1>13, NextCases

\* Under every fault and every option, what preinit formats, marks or deletes
\* is the partition it has just made or the storage the user gave up.
THEOREM ErasureIsAsked == Spec => NothingErasedUnasked
<1>1. TypeOK /\ [Next]_vars => [ErasesOnlyAsked]_vars
  BY ErasureStep
<1> QED
  BY <1>1, TypeCorrect, PTL
     DEF Spec, NothingErasedUnasked, ErasesOnlyAsked, Untouched

-----------------------------------------------------------------------------
(* What was deleted stays deleted, if sfdisk and mkfs work and the power      *)
(* stays: StoreResurrect and StoreClear are what happens otherwise.          *)

\* The content of the deleted partition survives in an unlisted slot, and gets
\* an entry again when the new partition is made there, until mkfs.
GoneInv ==
  /\ \A p \in Storages : p # target \/ pc # "mkfs" => files[p] \cap gone = {}
  /\ pc = "mark" => files[target] = {}
  /\ pc # "session" => cache = {}
  /\ cache \cap gone = {}

LEMMA GoneInductive ==
  ASSUME Faults \subseteq {"mount"}, "delete-data" \notin Options,
         OneDigit = Parts, TypeOK, OneStorageInv, MarkInv, GoneInv, [Next]_vars
  PROVE  GoneInv'
<1> USE DeviceAssumption
    DEF GoneInv, Storages, TypeOK, ram, media, Devs
<1>1. CASE UNCHANGED vars
  BY <1>1 DEF vars
<1>2. CASE NoDisk \/ LookForDisk \/ Scan \/ SkipClearData \/ SkipClearDisk
  BY <1>2 DEF NoDisk, LookForDisk, Scan, SkipClearData, SkipClearDisk,
              EnterSession
<1>3. CASE HaveStorage \/ NoAnswer \/ NoFreeSpace \/ CreateFails
  BY <1>3 DEF HaveStorage, NoAnswer, NoFreeSpace, CreateFails, EnterSession
<1>4. CASE CreatePartition
  <2>1. Storages = {} /\ pc' = "mkfs" /\ UNCHANGED <<fs, files, gone, cache>>
    BY <1>4 DEF CreatePartition, OneStorageInv
  <2>2. ptab' = ptab \cup {target'} /\ cache = {}
    BY <1>4 DEF CreatePartition
  <2>3. \A p \in Storages' : p = target'
    BY <2>1, <2>2
  <2> QED
    BY <2>1, <2>2, <2>3
<1>5. CASE Mkfs \/ MkfsFails
  BY <1>5 DEF Mkfs, MkfsFails, OneStorageInv
<1>6. CASE MarkVolume \/ MarkRam \/ UmountVolume
  BY <1>6 DEF MarkVolume, MarkRam, UmountVolume, HasFs
<1>7. CASE Rescan \/ Fsck \/ MountOverlay
  BY <1>7 DEF Rescan, Fsck, MountOverlay, EnterSession
<1>8. CASE PowerOn \/ AnswerYes \/ PressEnter
  BY <1>8 DEF PowerOn, AnswerYes, PressEnter, EnterSession
<1>9. CASE ShutDown
  BY <1>9 DEF ShutDown, ResetRam, Flushed
<1>10. CASE PowerLoss
  BY <1>10 DEF PowerLoss
<1>11. CASE \E yes \in BOOLEAN : ClearData(yes)
  BY <1>11 DEF ClearData
<1>12. ASSUME NEW yes \in BOOLEAN, ClearDisk(yes)
       PROVE  GoneInv'
  <2>1. /\ pc = "cleardisk" /\ pc' = "ask" /\ cache' = {}
        /\ UNCHANGED <<fs, files>>
    BY <1>12 DEF ClearDisk
  <2>2. CASE yes /\ disk # NoDev
    <3>1. disk \in Storages /\ \A p \in Storages : p = disk
      BY <2>1, <2>2 DEF MarkInv, OneStorageInv, AtMostOneStorage
    <3>2. ptab' = ptab \ {disk}
      BY <1>12, <2>2, <3>1 DEF ClearDisk
    <3>3. Storages' = {}
      BY <2>1, <3>1, <3>2
    <3> QED
      BY <2>1, <3>3
  <2>3. CASE ~(yes /\ disk # NoDev)
    BY <1>12, <2>1, <2>3 DEF ClearDisk
  <2> QED
    BY <2>2, <2>3
<1>13. CASE \E d \in Docs : Save(d)
  BY <1>13 DEF Save
<1>14. CASE WriteBack
  BY <1>14 DEF WriteBack, Flushed
<1>15. CASE \E dk \in Disks : Plug(dk)
  BY <1>15 DEF Plug
<1> QED
  BY <1>1, <1>2, <1>3, <1>4, <1>5, <1>6, <1>7, <1>8, <1>9, <1>10, <1>11,
     <1>12, <1>13, <1>14, <1>15, NextCases

\* A document that went with a partition deleted by delete-disk is in no later
\* session, although a new partition may be made over the old content, and also
\* if that partition cannot be mounted.  The hypothesis on the names is needed:
\* delete-disk does not delete sda10 or nvme0n1p3 (preinit:186).
THEOREM DeletedIsGone ==
  ASSUME Faults \subseteq {"mount"}, "delete-data" \notin Options,
         OneDigit = Parts
  PROVE  Spec => []DeletedStaysDeleted
<1>1. Init => OneStorageInv /\ GoneInv
  BY DEF Init, OneStorageInv, AtMostOneStorage, NoneFound, GoneInv
<1>2. TypeOK /\ OneStorageInv /\ [Next]_vars => OneStorageInv'
  BY OneStorageInductive
<1>3. TypeOK /\ OneStorageInv /\ MarkInv /\ GoneInv /\ [Next]_vars => GoneInv'
  BY GoneInductive
<1>4. Spec => []MarkInv
  BY MarkInvariant
<1>5. MarkInv /\ GoneInv => DeletedStaysDeleted
  <2> SUFFICES ASSUME MarkInv, GoneInv, pc = "session"
               PROVE  Visible \cap gone = {}
    BY DEF DeletedStaysDeleted
  <2>1. upper = NoDev \/ upper \in Storages
    BY DEF MarkInv
  <2>2. upper \in Parts => files[upper] \cap gone = {}
    BY <2>1, DeviceAssumption DEF GoneInv, Devs
  <2> QED
    BY <2>2 DEF Visible, GoneInv
<1> QED
  BY <1>1, <1>2, <1>3, <1>4, <1>5, TypeCorrect, PTL DEF Spec

-----------------------------------------------------------------------------
(* The file system of a session has been checked.                           *)

CheckedInv == pc = "mount" => disk \notin unclean

LEMMA CheckedStep ==
  ASSUME CheckedInv, TypeOK, [Next]_vars
  PROVE  CheckedInv' /\ (pc' = "session" /\ upper' # NoDev /\ pc # "session"
                           => upper' \notin unclean)
<1> USE DEF CheckedInv, EnterSession, TypeOK, ram, media
<1>1. CASE UNCHANGED vars
  BY <1>1 DEF vars
<1>2. CASE NoDisk \/ LookForDisk \/ Scan \/ SkipClearData \/ SkipClearDisk
  BY <1>2 DEF NoDisk, LookForDisk, Scan, SkipClearData, SkipClearDisk
<1>3. CASE HaveStorage \/ NoAnswer \/ NoFreeSpace \/ CreateFails \/ CreatePartition
  BY <1>3 DEF HaveStorage, NoAnswer, NoFreeSpace, CreateFails, CreatePartition
<1>4. CASE Mkfs \/ MkfsFails \/ MarkVolume \/ MarkRam \/ UmountVolume \/ Rescan
  BY <1>4 DEF Mkfs, MkfsFails, MarkVolume, MarkRam, UmountVolume, Rescan
<1>5. CASE Fsck \/ MountOverlay
  BY <1>5 DEF Fsck, MountOverlay
<1>6. CASE PowerOn \/ AnswerYes \/ PressEnter
  BY <1>6 DEF PowerOn, AnswerYes, PressEnter
<1>7. CASE ShutDown \/ PowerLoss \/ WriteBack
  BY <1>7 DEF ShutDown, PowerLoss, WriteBack, ResetRam
<1>8. CASE \E yes \in BOOLEAN : ClearData(yes)
  BY <1>8 DEF ClearData
<1>9. CASE \E yes \in BOOLEAN : ClearDisk(yes)
  BY <1>9 DEF ClearDisk
<1>10. CASE (\E d \in Docs : Save(d)) \/ (\E dk \in Disks : Plug(dk))
  BY <1>10 DEF Save, Plug
<1> QED
  BY <1>1, <1>2, <1>3, <1>4, <1>5, <1>6, <1>7, <1>8, <1>9, <1>10, NextCases

\* Whatever fails and whatever is unplugged in between: no session starts on a
\* file system that the last one left unclean, before fsck has seen it.
THEOREM SessionIsChecked == Spec => SessionOnCheckedStorage
<1>1. Init => CheckedInv
  BY DEF Init, CheckedInv
<1>2. TypeOK /\ CheckedInv /\ [Next]_vars => CheckedInv'
  BY CheckedStep
<1>3. TypeOK /\ CheckedInv /\ [Next]_vars
        => [pc' = "session" /\ upper' # NoDev /\ pc # "session"
              => upper' \notin unclean]_vars
  BY CheckedStep
<1> QED
  BY <1>1, <1>2, <1>3, TypeCorrect, PTL DEF Spec, SessionOnCheckedStorage

-----------------------------------------------------------------------------
(* The boot goes on by itself.  LeftAlone needs fairness; what it needs      *)
(* besides is that no media leave a step without a way to go on, and that    *)
(* the script never goes back.                                              *)

\* How many steps there are at most from each place to the end of the session.
Places ==
  [off |-> 0, session |-> 1, enter |-> 2, mount |-> 3, fsck |-> 4, rescan |-> 5,
   umount |-> 6, mark |-> 7, mkfs |-> 8, create |-> 9, ask |-> 10,
   cleardisk |-> 11, cleardata |-> 12, scan |-> 13, start |-> 14]
Left == Places[pc]

\* Where the script stands, one of its steps has what it needs; the other
\* places have a step for either case.
CanGoOn ==
  /\ pc \in {"scan", "rescan"} => \E d \in Devs \cup {NoDev} : FindHD(ptab, fs, d)
  /\ pc = "create" => \/ FreeDisks = {}
                      \/ \E dk \in FreeDisks : /\ Free(dk) # {}
                                               /\ \A e \in FreeDisks : Rank[dk] <= Rank[e]
  /\ pc = "cleardata" => "delete-data" \notin opts \/ disk = NoDev
  /\ pc = "cleardisk" => "delete-disk" \notin opts

GoesOn ==
  /\ [](opts \subseteq {"nodisk"} => CanGoOn)
  /\ [][ /\ Program => pc' # pc
         /\ pc' # pc => pc = "off" \/ <<Left', Left>> \in Less ]_vars

\* Whatever is plugged in, findHD comes to an end, and so does the search for
\* free space.
LEMMA AlwaysFirst ==
  ASSUME TypeOK, opts \subseteq {"nodisk"}
  PROVE  CanGoOn
<1>1. \E d \in Devs \cup {NoDev} : FindHD(ptab, fs, d)
  <2>1. Seen(ptab, fs) \in SUBSET Devs
    BY DEF Seen, Listed, TypeOK, Devs
  <2>2. CASE Seen(ptab, fs) = {}
    BY <2>2 DEF FindHD
  <2>3. CASE Seen(ptab, fs) # {}
    <3>1. \E d \in Seen(ptab, fs) : \A e \in Seen(ptab, fs) : Rank[d] <= Rank[e]
      BY <2>1, <2>3, FirstOf, RankAssumption
    <3> QED
      BY <2>1, <3>1 DEF FindHD
  <2> QED
    BY <2>2, <2>3
<1>2. CASE FreeDisks # {}
  <2>1. FreeDisks \in SUBSET Devs
    BY DEF FreeDisks, TypeOK, Devs
  <2>2. \E dk \in FreeDisks : \A e \in FreeDisks : Rank[dk] <= Rank[e]
    BY <1>2, <2>1, FirstOf, RankAssumption
  <2> QED
    BY <1>1, <2>2 DEF CanGoOn, FreeDisks
<1> QED
  BY <1>1, <1>2 DEF CanGoOn

LEMMA OnlyForward ==
  ASSUME TypeOK, [Next]_vars
  PROVE  /\ Program => pc' # pc
         /\ pc' # pc => pc = "off" \/ <<Left', Left>> \in Less
<1>1. Program => pc' # pc
  BY DEF Program, NoDisk, LookForDisk, Scan, SkipClearData, SkipClearDisk,
         HaveStorage, NoAnswer, NoFreeSpace, CreatePartition, CreateFails, Mkfs,
         MkfsFails, MarkVolume, MarkRam, UmountVolume, Rescan, Fsck,
         MountOverlay, EnterSession
<1>2. pc' # pc => pc = "off" \/ Left' < Left
  <2>1. CASE UNCHANGED vars
    BY <2>1 DEF vars
  <2>2. CASE NoDisk \/ LookForDisk \/ Scan \/ SkipClearData \/ SkipClearDisk
    BY <2>2 DEF NoDisk, LookForDisk, Scan, SkipClearData, SkipClearDisk,
                EnterSession, Left, Places
  <2>3. CASE HaveStorage \/ NoAnswer \/ NoFreeSpace \/ CreatePartition
    BY <2>3 DEF HaveStorage, NoAnswer, NoFreeSpace, CreatePartition,
                EnterSession, Left, Places
  <2>4. CASE CreateFails \/ Mkfs \/ MkfsFails \/ MarkVolume \/ MarkRam
             \/ UmountVolume
    BY <2>4 DEF CreateFails, Mkfs, MkfsFails, MarkVolume, MarkRam, UmountVolume,
                EnterSession, Left, Places
  <2>5. CASE Rescan \/ Fsck \/ MountOverlay
    BY <2>5 DEF Rescan, Fsck, MountOverlay, EnterSession, Left, Places
  <2>6. CASE PowerOn \/ AnswerYes \/ PressEnter \/ ShutDown
    BY <2>6 DEF PowerOn, AnswerYes, PressEnter, ShutDown, ResetRam,
                EnterSession, Left, Places
  <2>7. CASE \E yes \in BOOLEAN : ClearData(yes) \/ ClearDisk(yes)
    BY <2>7 DEF ClearData, ClearDisk, Left, Places
  <2>8. CASE (\E d \in Docs : Save(d)) \/ WriteBack \/ \E dk \in Disks : Plug(dk)
    BY <2>8 DEF Save, WriteBack, Plug
  <2>9. CASE PowerLoss
    BY <2>9 DEF PowerLoss, ResetRam, Left, Places, TypeOK, Points
  <2> QED
    BY <2>1, <2>2, <2>3, <2>4, <2>5, <2>6, <2>7, <2>8, <2>9, NextCases
<1>3. Left \in Nat /\ Left' \in Nat
  <2>1. TypeOK'
    BY TypeStep
  <2> QED
    BY <2>1 DEF Left, Places, TypeOK, Points
<1> QED
  BY <1>1, <1>2, <1>3, LessIs

\* For any disks: a boot without delete options cannot hang in a search, and it
\* is over after a fixed number of steps.
THEOREM BootGoesOn == IsWellFoundedOn(Less, Nat) /\ (Spec => GoesOn)
<1>1. TypeOK => (opts \subseteq {"nodisk"} => CanGoOn)
  BY AlwaysFirst
<1>2. TypeOK /\ [Next]_vars =>
        [ /\ Program => pc' # pc
          /\ pc' # pc => pc = "off" \/ <<Left', Left>> \in Less ]_vars
  BY OnlyForward
<1>3. Spec => GoesOn
  BY <1>1, <1>2, TypeCorrect, PTL DEF Spec, GoesOn
<1> QED
  BY <1>3, LessWellFounded

=============================================================================
