-------------------------- MODULE MCOutgoingSend --------------------------
(* Small instances of the outgoing sends for TLC. *)
EXTENDS OutgoingSend

CONSTANTS r1, r2, r3, k1, p1

(* Three sends of the same text: two of one generated reply, one by hand. *)
SameKey   == [r \in Requests |-> k1]
OneReply  == [r \in Requests |-> IF r = r3 THEN None ELSE p1]
=============================================================================
