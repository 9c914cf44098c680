------------------------------- MODULE Doorbell -------------------------------
(***************************************************************************)
(* What the listener of power events promises: from the moment it listens, *)
(* an event waits until it is answered or passed over, and the one that    *)
(* has waited longest is never passed over.                                *)
(***************************************************************************)
EXTENDS Integers

CONSTANT Kinds   \* what an event may say

VARIABLES
  listening,  \* "no" or "yes"
  rung,       \* the number of the last event
  waiting,    \* events neither answered nor passed over
  answered    \* events answered

bell == <<listening, rung, waiting, answered>>

Event(n, k) == [id |-> n, kind |-> k]

Init == listening = "no" /\ rung = 0 /\ waiting = {} /\ answered = {}

Listen ==
  /\ listening = "no" /\ listening' = "yes"
  /\ UNCHANGED <<rung, waiting, answered>>

\* An event that nobody listens for is gone.
Ring(k) ==
  /\ rung' = rung + 1
  /\ waiting' = waiting \cup (IF listening = "yes" THEN {Event(rung', k)} ELSE {})
  /\ UNCHANGED <<listening, answered>>

Answer ==
  \E e \in waiting :
    /\ \A f \in waiting : e.id <= f.id
    /\ answered' = answered \cup {e}
    /\ \E rest \in SUBSET (waiting \ {e}) : waiting' = rest
    /\ UNCHANGED <<listening, rung>>

Next == Listen \/ Answer \/ \E k \in Kinds : Ring(k)

Spec == Init /\ [][Next]_bell /\ WF_bell(Answer)
=============================================================================
