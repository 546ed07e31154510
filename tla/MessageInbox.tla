---------------------------- MODULE MessageInbox ----------------------------
(***************************************************************************)
(* The durable reception of WhatsApp messages: the Evolution webhook and   *)
(* the 5-second timer of backend/whatsapp-reliability.ts, which deliver    *)
(* receipts to persistMessage (backend/server.ts) under one PostgreSQL     *)
(* advisory lock per account, while history synchronisation stores the     *)
(* same messages without it.                                               *)
(*                                                                         *)
(* A copy is one content of one message as WhatsApp sent it: a message may *)
(* come in several copies (an empty placeholder, then the text), and each  *)
(* copy any number of times, live or as history. Every action is one       *)
(* statement; the process may die after any of them.                       *)
(***************************************************************************)
EXTENDS Naturals, FiniteSets

CONSTANTS
  Accounts,   \* WhatsApp accounts
  Messages,   \* incoming group messages, with their account-scoped ids
  Copies,     \* contents in which they may be received
  AccountOf,  \* Messages -> Accounts
  MessageOf,  \* Copies -> Messages
  Blank,      \* copies of type text with no text
  Exact,      \* copies that carry the phone's own unread count
  Webhooks,   \* requests POST /webhook/evolution, one shot each
  Timer,      \* the periodic run of the inbox
  None,
  Cap,          \* deliveries at a time: half of the connection pool
  RunLimit,     \* receipts listed by one periodic run (25)
  MaxReceipts,  \* bound: rows of whatsapp_message_inbox ever created
  MaxFaults,    \* bound: process deaths, failing statements and failing deliveries
  MaxToggles    \* bound: activations and deactivations of accounts

ASSUME CopyAssumption ==
  /\ AccountOf \in [Messages -> Accounts]
  /\ MessageOf \in [Copies -> Messages]
  /\ Blank \subseteq Copies /\ Exact \subseteq Copies
  /\ IsFiniteSet(Copies)
ASSUME SessionAssumption ==
  /\ Timer \notin Webhooks
  /\ None \notin Webhooks \cup {Timer} \cup Copies \cup [copy : Copies, historical : BOOLEAN]
ASSUME BoundAssumption ==
  /\ Cap \in Nat \ {0} /\ RunLimit \in Nat \ {0}
  /\ MaxReceipts \in Nat /\ MaxFaults \in Nat /\ MaxToggles \in Nat

VARIABLES
  receipt,   \* whatsapp_message_inbox: what each row holds, None when there is no row
  due,       \* rows whose next_attempt_at has passed
  used,      \* ids given out by the table's sequence
  active,    \* accounts with activo = TRUE
  stored,    \* mensajes: the copy each message's content comes from
  increments, \* how often each message has added one to its chat's counter
  lock,      \* session holding the advisory lock whatsapp-inbox:<account>
  phase,     \* idle, busy or done: the request or periodic run of a session
  todo,      \* receipts a session still has to deliver
  at, item, account, \* where its current delivery is, its receipt and its account
  accepted,  \* events ever written to the inbox
  persisted, \* events whose persistence ever finished
  faults, toggles

rowVars     == <<receipt, due, used, accepted>>
messageVars == <<stored, increments, persisted>>
deliveryVars == <<at, item, account>>
sessionVars == <<phase, todo, deliveryVars>>
boundVars   == <<faults, toggles>>
vars == <<rowVars, active, messageVars, lock, sessionVars, boundVars>>

-----------------------------------------------------------------------------
Ids      == 1..MaxReceipts
Sessions == Webhooks \cup {Timer}
Events   == [copy : Copies, historical : BOOLEAN]

Owner(e) == AccountOf[MessageOf[e.copy]]
Rows == {i \in Ids : receipt[i] # None}
Holding(e) == {i \in Rows : receipt[i] = e}

(* The sessions inside deliver, counted by activeDeliveries. *)
Delivering == {s \in Sessions : at[s] # "out"}

MutUnlocked(a) == TRUE
Unlocked(a) == lock[a] = None

(* preserveStoredContent: an empty text does not replace known content. *)
MutPreserves(old, new) == FALSE
Preserves(old, new) == new \in Blank /\ old # None /\ old \notin Blank

(* The statement of persistMessage that stores a copy and counts it. *)
MutInserted(m) == TRUE
Inserted(m) == stored[m] = None
StoreCopy(e) ==
  LET m == MessageOf[e.copy] IN
  /\ stored' = [stored EXCEPT ![m] = IF Preserves(stored[m], e.copy) THEN @ ELSE e.copy]
  /\ increments' =
       IF ~e.historical /\ e.copy \notin Exact /\ Inserted(m)
       THEN [increments EXCEPT ![m] = @ + 1]
       ELSE increments

Init ==
  /\ receipt = [i \in Ids |-> None] /\ due = {} /\ used = 0
  /\ active = Accounts
  /\ stored = [m \in Messages |-> None]
  /\ increments = [m \in Messages |-> 0]
  /\ lock = [a \in Accounts |-> None]
  /\ phase = [s \in Sessions |-> "idle"]
  /\ todo = [s \in Sessions |-> {}]
  /\ at = [s \in Sessions |-> "out"]
  /\ item = [s \in Sessions |-> 0]
  /\ account = [s \in Sessions |-> None]
  /\ accepted = {} /\ persisted = {}
  /\ faults = 0 /\ toggles = 0

Fault == faults < MaxFaults /\ faults' = faults + 1

-----------------------------------------------------------------------------
(* accept: one INSERT for all the messages of an event. A row that already *)
(* holds the same content answers with its own id.                         *)
Fresh(E) == {e \in E : Holding(e) = {}}

Numbering(E) ==
  CHOOSE f \in [E -> (used + 1)..(used + Cardinality(E))] :
    \A x, y \in E : f[x] = f[y] => x = y

(* A webhook of an active account arrives and its messages are written.    *)
Accept(h, a, historical) ==
  /\ phase[h] = "idle" /\ a \in active
  /\ \E C \in SUBSET {c \in Copies : AccountOf[MessageOf[c]] = a} \ {{}} :
       LET E == [copy : C, historical : {historical}]
           number == Numbering(Fresh(E))
           known == {i \in Rows : receipt[i] \in E}
           new == {number[e] : e \in Fresh(E)}
       IN /\ used + Cardinality(new) <= MaxReceipts
          /\ used' = used + Cardinality(new)
          /\ receipt' = [i \in Ids |-> IF i \in new
                                       THEN CHOOSE e \in Fresh(E) : number[e] = i
                                       ELSE receipt[i]]
          /\ due' = due \cup new
          /\ accepted' = accepted \cup E
          /\ todo' = [todo EXCEPT ![h] = known \cup new]
  /\ phase' = [phase EXCEPT ![h] = "busy"]
  /\ UNCHANGED <<active, messageVars, lock, deliveryVars, boundVars>>

(* The INSERT fails: the webhook answers 500 and nothing is kept. *)
Reject(h) ==
  /\ phase[h] = "idle"
  /\ phase' = [phase EXCEPT ![h] = "done"]
  /\ UNCHANGED <<rowVars, active, messageVars, lock, todo, deliveryVars, boundVars>>

(* run: the receipts of active accounts that are due, RunLimit at most.    *)
Listable == {i \in Rows \cap due : Owner(receipt[i]) \in active}
StartRun ==
  /\ phase[Timer] = "idle" /\ Listable # {}
  /\ \E L \in SUBSET Listable :
       /\ Cardinality(L) = IF Cardinality(Listable) < RunLimit
                           THEN Cardinality(Listable) ELSE RunLimit
       /\ todo' = [todo EXCEPT ![Timer] = L]
  /\ phase' = [phase EXCEPT ![Timer] = "busy"]
  /\ UNCHANGED <<rowVars, active, messageVars, lock, deliveryVars, boundVars>>

(* Nothing left to deliver: the run ends, the webhook answers. *)
Finish(s) ==
  /\ phase[s] = "busy" /\ at[s] = "out" /\ todo[s] = {}
  /\ phase' = [phase EXCEPT ![s] = IF s = Timer THEN "idle" ELSE "done"]
  /\ UNCHANGED <<rowVars, active, messageVars, lock, todo, deliveryVars, boundVars>>

-----------------------------------------------------------------------------
(* One delivery: deliver and deliverLocked. *)
Move(s, from, to) == at[s] = from /\ at' = [at EXCEPT ![s] = to]

Leave(s, from) ==
  /\ Move(s, from, "out")
  /\ item' = [item EXCEPT ![s] = 0]
  /\ account' = [account EXCEPT ![s] = None]

BelowCap == Cardinality(Delivering) < Cap

Take(s, i) ==
  /\ phase[s] = "busy" /\ at[s] = "out" /\ i \in todo[s]
  /\ todo' = [todo EXCEPT ![s] = @ \ {i}]
  /\ UNCHANGED <<rowVars, active, messageVars, lock, phase, boundVars>>

(* A connection is taken and the row read for its account. *)
Enter(s, i) ==
  /\ Take(s, i)
  /\ BelowCap /\ i \in Rows
  /\ Move(s, "out", "entered")
  /\ item' = [item EXCEPT ![s] = i]
  /\ account' = [account EXCEPT ![s] = Owner(receipt[i])]

Skip(s, i) ==
  /\ Take(s, i)
  /\ ~BelowCap \/ i \notin Rows
  /\ UNCHANGED deliveryVars

TryLock(s) ==
  /\ Move(s, "entered", "locked")
  /\ Unlocked(account[s])
  /\ lock' = [lock EXCEPT ![account[s]] = s]
  /\ UNCHANGED <<rowVars, active, messageVars, phase, todo, item, account, boundVars>>

LockBusy(s) ==
  /\ Leave(s, "entered")
  /\ ~Unlocked(account[s])
  /\ UNCHANGED <<rowVars, active, messageVars, lock, phase, todo, boundVars>>

(* The row is read again under the lock: it may have been delivered, put   *)
(* off or paused since.                                                    *)
Deliverable(i) == i \in Rows \cap due /\ Owner(receipt[i]) \in active

Check(s) ==
  /\ Move(s, "locked", IF Deliverable(item[s]) THEN "ready" ELSE "unlock")
  /\ UNCHANGED <<rowVars, active, messageVars, lock, phase, todo, item, account, boundVars>>

(* persistMessage: the message and its counter in one statement, then the  *)
(* rows that depend on it. Either part may fail.                           *)
Save(s) ==
  /\ Move(s, "ready", "saved")
  /\ StoreCopy(receipt[item[s]])
  /\ UNCHANGED <<rowVars, active, persisted, lock, phase, todo, item, account, boundVars>>

Complete(s) ==
  /\ Move(s, "saved", "persisted")
  /\ persisted' = persisted \cup {receipt[item[s]]}
  /\ UNCHANGED <<rowVars, active, stored, increments, lock, phase, todo, item, account, boundVars>>

(* DELETE of the receipt. *)
MutRemove(s) == at[s] \in {"saved", "persisted"} /\ at' = [at EXCEPT ![s] = "unlock"]
Remove(s) == Move(s, "persisted", "unlock")
Delete(s) ==
  /\ Remove(s)
  /\ receipt' = [receipt EXCEPT ![item[s]] = None]
  /\ due' = due \ {item[s]}
  /\ UNCHANGED <<used, accepted, active, messageVars, lock, phase, todo, item, account, boundVars>>

Fails(s) ==
  /\ Fault
  /\ at[s] \in {"ready", "saved", "persisted"}
  /\ at' = [at EXCEPT ![s] = "failed"]
  /\ UNCHANGED <<rowVars, active, messageVars, lock, phase, todo, item, account, toggles>>

(* The failure is noted and the receipt put off; its row stays. *)
PutOff(s) ==
  /\ Move(s, "failed", "unlock")
  /\ due' = due \ {item[s]}
  /\ UNCHANGED <<receipt, used, accepted, active, messageVars, lock, phase, todo, item,
                 account, boundVars>>

(* Noting the failure fails too: the rest of the run or webhook is left.   *)
PutOffFails(s) ==
  /\ Fault
  /\ Move(s, "failed", "unlock")
  /\ todo' = [todo EXCEPT ![s] = {}]
  /\ UNCHANGED <<rowVars, active, messageVars, lock, phase, item, account, toggles>>

MutUnlock(s) ==
  /\ Leave(s, "unlock")
  /\ lock' = [lock EXCEPT ![account[s]] = IF item[s] \in Rows THEN s ELSE None]
  /\ UNCHANGED <<rowVars, active, messageVars, phase, todo, boundVars>>
Unlock(s) ==
  /\ Leave(s, "unlock")
  /\ lock' = [lock EXCEPT ![account[s]] = None]
  /\ UNCHANGED <<rowVars, active, messageVars, phase, todo, boundVars>>

-----------------------------------------------------------------------------
(* The rest of the world. *)

(* The retry delay of a receipt passes. *)
Elapse(i) ==
  /\ i \in Rows \ due
  /\ due' = due \cup {i}
  /\ UNCHANGED <<receipt, used, accepted, active, messageVars, lock, sessionVars, boundVars>>

(* History synchronisation stores a copy that Evolution keeps, without the *)
(* inbox or its lock (syncEvolutionData, persistChat).                     *)
Synchronize(c) ==
  /\ StoreCopy([copy |-> c, historical |-> TRUE])
  /\ UNCHANGED <<rowVars, active, persisted, lock, sessionVars, boundVars>>

(* An administrator pauses or resumes an account. *)
Toggle(a) ==
  /\ toggles < MaxToggles
  /\ toggles' = toggles + 1
  /\ active' = IF a \in active THEN active \ {a} ELSE active \cup {a}
  /\ UNCHANGED <<rowVars, messageVars, lock, sessionVars, faults>>

(* The process dies: its connections close, which frees their locks.       *)
Crash ==
  /\ Fault
  /\ phase' = [s \in Sessions |->
       IF s = Timer THEN "idle" ELSE IF phase[s] = "busy" THEN "done" ELSE phase[s]]
  /\ todo' = [s \in Sessions |-> {}]
  /\ at' = [s \in Sessions |-> "out"]
  /\ item' = [s \in Sessions |-> 0]
  /\ account' = [s \in Sessions |-> None]
  /\ lock' = [a \in Accounts |-> None]
  /\ UNCHANGED <<rowVars, active, messageVars, toggles>>

-----------------------------------------------------------------------------
DeliveryStep(s) ==
  \/ \E i \in Ids : Enter(s, i) \/ Skip(s, i)
  \/ TryLock(s) \/ LockBusy(s) \/ Check(s)
  \/ Save(s) \/ Complete(s) \/ Delete(s)
  \/ PutOff(s) \/ Unlock(s)
  \/ Finish(s)

Next ==
  \/ \E h \in Webhooks :
       Reject(h) \/ \E a \in Accounts, historical \in BOOLEAN : Accept(h, a, historical)
  \/ StartRun
  \/ \E s \in Sessions : DeliveryStep(s) \/ Fails(s) \/ PutOffFails(s)
  \/ \E i \in Ids : Elapse(i)
  \/ \E c \in Copies : Synchronize(c)
  \/ \E a \in Accounts : Toggle(a)
  \/ Crash

Spec == Init /\ [][Next]_vars

(* The timer fires every five seconds, time passes and awaits end.         *)
FairSpec ==
  /\ Spec
  /\ WF_vars(StartRun)
  /\ \A s \in Sessions : WF_vars(DeliveryStep(s))
  /\ \A i \in Ids : WF_vars(Elapse(i))

-----------------------------------------------------------------------------
DeliverySteps == {"out", "entered", "locked", "ready", "saved", "persisted", "failed", "unlock"}

(* The variables keep their types, and the table its unique key on         *)
(* account, content and kind (the account follows from the content).       *)
TypeOK ==
  /\ receipt \in [Ids -> Events \cup {None}]
  /\ \A i, k \in Rows : receipt[i] = receipt[k] => i = k
  /\ due \subseteq Rows
  /\ used \in 0..MaxReceipts
  /\ active \subseteq Accounts
  /\ stored \in [Messages -> Copies \cup {None}]
  /\ increments \in [Messages -> Nat]
  /\ lock \in [Accounts -> Sessions \cup {None}]
  /\ phase \in [Sessions -> {"idle", "busy", "done"}]
  /\ todo \in [Sessions -> SUBSET Ids]
  /\ at \in [Sessions -> DeliverySteps]
  /\ item \in [Sessions -> Ids \cup {0}]
  /\ account \in [Sessions -> Accounts \cup {None}]
  /\ accepted \subseteq Events /\ persisted \subseteq Events
  /\ faults \in 0..MaxFaults /\ toggles \in 0..MaxToggles

(* What the webhook acknowledged survives failures, crashes and races: its *)
(* receipt is waiting or its persistence was carried through to the end.   *)
NothingLost ==
  \A e \in accepted : Holding(e) # {} \/ e \in persisted

(* However often, in whatever copies and by whatever way a message comes,  *)
(* it adds at most one to the counter of its chat.                         *)
CountedOnce == \A m \in Messages : increments[m] <= 1

(* A delivery never persists a receipt that another one already settled:   *)
(* the row it read under the lock stays until it removes it itself.        *)
DeliveriesKeepTheirRow ==
  \A s \in Sessions :
    at[s] \in {"ready", "saved", "persisted", "failed"} => item[s] \in Rows

(* Neither an empty copy nor history ever blanks a text that is known.     *)
TextIsKept ==
  [][\A m \in Messages :
       stored[m] # None /\ stored[m] \notin Blank
         => stored'[m] # None /\ stored'[m] \notin Blank]_vars

(* Every receipt is eventually settled while its account is served: no     *)
(* failure, crash, busy lock or full pool leaves one behind for ever.      *)
EveryReceiptSettles ==
  \A i \in Ids :
    i \in Rows ~> i \notin Rows \/ Owner(receipt[i]) \notin active

(* The mailbox that the inbox implements. *)
Mailbox == INSTANCE MessageMailbox WITH
             pending <- {receipt[i] : i \in Rows}, delivered <- persisted
MailboxSpec == Mailbox!Spec
=============================================================================
