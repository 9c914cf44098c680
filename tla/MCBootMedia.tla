---------------------------- MODULE MCBootMedia -----------------------------
(***************************************************************************)
(* An instance of BootMedia for TLC: a disk without a file system, a       *)
(* partition with one, the partition of the medium, which comes late, and  *)
(* where lsblk lists it before or after them.  Where the medium is taken   *)
(* out while it is mounted, it comes back as again.                        *)
(***************************************************************************)
EXTENDS BootMedia

CONSTANTS disk, part, usb, again

MCDevs == {disk, part, usb, again}
MCGivens == {{}, Args}
MCRank == [d \in MCDevs |-> CASE d = disk -> 1 [] d = usb -> 2 [] d = part -> 3
                              [] d = again -> 4]
=============================================================================
