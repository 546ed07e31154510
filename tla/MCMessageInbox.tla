-------------------------- MODULE MCMessageInbox --------------------------
(* Small instances of the message inbox for TLC. *)
EXTENDS MessageInbox, TLC

CONSTANTS a1, a2, m1, m2, text1, empty1, text2

(* One message that comes first empty and then with its text. *)
OneAccount == [m \in {m1} |-> a1]
TwoCopies  == [c \in {text1, empty1} |-> m1]

(* Webhook requests are interchangeable. *)
Requests == Permutations(Webhooks)

(* Two accounts, each with a message of its own. *)
TwoAccounts == [m \in {m1, m2} |-> IF m = m1 THEN a1 ELSE a2]
TwoMessages == [c \in {text1, text2} |-> IF c = text1 THEN m1 ELSE m2]
=============================================================================
