------------------------------ MODULE Keeping -------------------------------
(***************************************************************************)
(* What the writable storage of comlin64 promises its user, without disks, *)
(* partitions or boot steps.  A running session either keeps documents or  *)
(* does not.  In a session that keeps them, every document that was ever   *)
(* kept is there; a document saved in it is kept once it is written back,  *)
(* at the latest by a proper shutdown; nothing but a loss of power can     *)
(* lose a document on its way, and nothing but the user's explicit request *)
(* removes one that is kept.                                               *)
(***************************************************************************)
CONSTANT Docs

VARIABLES
  mode,   \* "off", "boot", "keeping" or "nosave"
  kept,   \* documents that survive a loss of power
  shown   \* documents the running session can read

vars == <<mode, kept, shown>>

Init ==
  /\ mode = "off"
  /\ kept = {}
  /\ shown = {}

Boot ==
  /\ mode = "off"
  /\ mode' = "boot"
  /\ UNCHANGED <<kept, shown>>

\* Only the user's confirmed request to delete the storage.
Erase ==
  /\ mode = "boot"
  /\ kept' = {}
  /\ UNCHANGED <<mode, shown>>

StartKeeping ==
  /\ mode = "boot"
  /\ mode' = "keeping"
  /\ shown' = kept
  /\ UNCHANGED kept

StartNosave ==
  /\ mode = "boot"
  /\ mode' = "nosave"
  /\ UNCHANGED <<kept, shown>>

Save(d) ==
  /\ mode \in {"keeping", "nosave"}
  /\ shown' = shown \cup {d}
  /\ UNCHANGED <<mode, kept>>

WriteBack ==
  /\ mode = "keeping"
  /\ kept' = shown
  /\ UNCHANGED <<mode, shown>>

ShutDown ==
  /\ mode \in {"keeping", "nosave"}
  /\ mode' = "off"
  /\ shown' = {}
  /\ kept' = IF mode = "keeping" THEN shown ELSE kept

PowerLoss ==
  /\ mode' = "off"
  /\ shown' = {}
  /\ UNCHANGED kept

Next ==
  \/ Boot \/ Erase \/ StartKeeping \/ StartNosave
  \/ \E d \in Docs : Save(d)
  \/ WriteBack \/ ShutDown \/ PowerLoss

Spec == Init /\ [][Next]_vars

=============================================================================
