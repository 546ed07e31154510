--------------------------- MODULE MessageMailbox ---------------------------
(***************************************************************************)
(* What the reception of WhatsApp events promises: whatever was received   *)
(* is settled, and only after it was delivered at least once. A receipt    *)
(* may be delivered again; one that is settled may be received again.      *)
(***************************************************************************)
CONSTANT Events  \* what can be received

VARIABLES
  pending,   \* received and not settled
  delivered  \* delivered at least once

vars == <<pending, delivered>>

Init == pending = {} /\ delivered = {}

Receive(E) ==
  /\ pending' = pending \cup E
  /\ UNCHANGED delivered

Deliver(e) ==
  /\ e \in pending
  /\ delivered' = delivered \cup {e}
  /\ UNCHANGED pending

Settle(e) ==
  /\ e \in pending \cap delivered
  /\ pending' = pending \ {e}
  /\ UNCHANGED delivered

Next ==
  \/ \E E \in SUBSET Events : Receive(E)
  \/ \E e \in Events : Deliver(e) \/ Settle(e)

Spec == Init /\ [][Next]_vars
=============================================================================
