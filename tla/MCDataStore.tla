---------------------------- MODULE MCDataStore -----------------------------
(* Instances of DataStore for TLC: the first disk has two slots, the second *)
(* one.  lsblk lists a disk, then its partitions, then the next disk.       *)
EXTENDS DataStore

CONSTANTS d1, d2, p1, p2, p3

MCDisks == {d1, d2}
MCParts == {p1, p2, p3}
MCDiskOf == [p \in MCParts |-> IF p = p3 THEN d2 ELSE d1]
MCRank == [d \in MCDisks \cup MCParts |->
             CASE d = d1 -> 1 [] d = p1 -> 2 [] d = p2 -> 3
               [] d = d2 -> 4 [] d = p3 -> 5]

\* One disk with one slot for partitions: enough for the liveness runs.
OneDisk == {d1}
TwoParts == {p1, p2}
OneDiskOf == [p \in TwoParts |-> d1]
OneRank == [d \in OneDisk \cup TwoParts |->
              CASE d = d1 -> 1 [] d = p1 -> 2 [] d = p2 -> 3]

=============================================================================
