---------------------------- MODULE OutgoingSend ----------------------------
(***************************************************************************)
(* POST /api/enviar of backend/server.ts: a user's text, or a generated    *)
(* reply, leaves for a WhatsApp group through Evolution, while the webhook *)
(* stores the echo of the same message and handles its ticks.              *)
(*                                                                         *)
(* Every action is what runs between two awaits. The set outgoingSendLocks *)
(* lives in the memory of the process; the rows live in PostgreSQL.        *)
(***************************************************************************)
EXTENDS Naturals, FiniteSets

CONSTANTS
  Requests,   \* calls of /api/enviar, one shot each
  Keys,       \* what a send says: account, chat and text (sendKey)
  Replies,    \* rows of respuestas_chat
  KeyOf,      \* Requests -> Keys
  ReplyOf,    \* Requests -> Replies \cup {None}: respuestaId
  None,
  Legacy,      \* own messages stored before rows carried an account
  MaxMessages, \* bound: the legacy messages and those WhatsApp ever takes
  MaxFaults    \* bound: failing awaits and process deaths

ASSUME RequestAssumption ==
  /\ KeyOf \in [Requests -> Keys]
  /\ ReplyOf \in [Requests -> Replies \cup {None}]
  /\ None \notin Requests \cup Replies \cup Keys
ASSUME SendBounds ==
  MaxMessages \in Nat /\ MaxFaults \in Nat /\ Legacy \subseteq 1..MaxMessages

VARIABLES
  at,      \* where each request is
  locks,   \* outgoingSendLocks
  late,    \* requests that came when their reply was already marked
  sent,    \* messages WhatsApp took: the request each came from
  message, \* Requests -> the message Evolution answered with, 0 before
  tick,    \* what the recipients' phones have reported of each message
  estado,  \* mensajes.estado by row id, 0 when there is no row
  marked,  \* respuestas_chat.mensaje_enviado_id where enviada, 0 elsewhere
  faults

vars == <<at, locks, late, sent, message, tick, estado, marked, faults>>

-----------------------------------------------------------------------------
Messages == 1..MaxMessages
Ticks    == 1..3   \* enviado, entregado, leido: the ranks of persistMessage

(* A row id is the id WhatsApp gave the message, alone or prefixed with    *)
(* the account (scopeAccountValue).                                        *)
RowIds    == {"plain", "scoped"} \X Messages
Scoped(m) == <<"scoped", m>>
Plain(m)  == <<"plain", m>>

(* Requests between outgoingSendLocks.add and their finally. *)
Awaits  == {"status", "asking", "sending", "sent", "stored", "replied"}
Sending(r) == at[r] \in {"sending", "sent", "stored", "replied"}

Init ==
  /\ at = [r \in Requests |-> "idle"]
  /\ locks = {} /\ late = {}
  /\ sent = [m \in Messages |-> None]
  /\ message = [r \in Requests |-> 0]
  /\ tick = [m \in Messages |-> 1]
  /\ estado = [i \in RowIds |-> IF i[1] = "plain" /\ i[2] \in Legacy THEN 1 ELSE 0]
  /\ marked = [p \in Replies |-> 0]
  /\ faults = 0

Move(r, from, to) == at[r] = from /\ at' = [at EXCEPT ![r] = to]
Known(r) == ReplyOf[r] # None /\ marked[ReplyOf[r]] # 0

(* finally: the key is freed whoever had locked it. *)
MutRelease(r) == locks' = IF at[r] = "replied" THEN locks \ {KeyOf[r]} ELSE locks
Release(r) == locks' = locks \ {KeyOf[r]}

-----------------------------------------------------------------------------
Begin(r) ==
  /\ Move(r, "idle", "status")
  /\ late' = IF Known(r) THEN late \cup {r} ELSE late
  /\ UNCHANGED <<locks, sent, message, tick, estado, marked, faults>>

(* No account or no connection: the key is still empty, nothing is freed.  *)
NotConnected(r) ==
  /\ Move(r, "status", "done")
  /\ UNCHANGED <<locks, late, sent, message, tick, estado, marked, faults>>

(* An identical send holds the key: 409, and the finally frees it.         *)
Refuse(r) ==
  /\ Move(r, "status", "done")
  /\ KeyOf[r] \in locks
  /\ Release(r)
  /\ UNCHANGED <<late, sent, message, tick, estado, marked, faults>>

(* With a reply the table is asked first, without the key. *)
AskReply(r) ==
  /\ Move(r, "status", "asking")
  /\ KeyOf[r] \notin locks /\ ReplyOf[r] # None
  /\ UNCHANGED <<locks, late, sent, message, tick, estado, marked, faults>>

AlreadySent(r) == Known(r)
Duplicate(r) ==
  /\ Move(r, "asking", "done")
  /\ AlreadySent(r)
  /\ Release(r)
  /\ UNCHANGED <<late, sent, message, tick, estado, marked, faults>>

Lock(r) ==
  /\ \/ Move(r, "status", "sending") /\ KeyOf[r] \notin locks /\ ReplyOf[r] = None
     \/ Move(r, "asking", "sending") /\ ~AlreadySent(r)
  /\ locks' = locks \cup {KeyOf[r]}
  /\ UNCHANGED <<late, sent, message, tick, estado, marked, faults>>

Free == {m \in Messages \ Legacy : sent[m] = None}
Take(r, m) ==
  /\ m \in Free /\ \A x \in Free : m <= x
  /\ sent' = [sent EXCEPT ![m] = r]

(* Evolution answers with the id of the message. *)
Deliver(r) ==
  /\ Move(r, "sending", "sent")
  /\ \E m \in Messages : Take(r, m) /\ message' = [message EXCEPT ![r] = m]
  /\ UNCHANGED <<locks, late, tick, estado, marked, faults>>

(* INSERT chats, grupos and mensajes; an existing row goes back to enviado.*)
MutStoreRow(r) ==
  /\ Move(r, "sent", "stored")
  /\ estado' = [estado EXCEPT ![Plain(message[r])] = 1]
  /\ UNCHANGED <<locks, late, sent, message, tick, marked, faults>>
StoreRow(r) ==
  /\ Move(r, "sent", "stored")
  /\ estado' = [estado EXCEPT ![Scoped(message[r])] = 1]
  /\ UNCHANGED <<locks, late, sent, message, tick, marked, faults>>

(* UPDATE respuestas_chat ... WHERE enviada = FALSE. *)
Unmarked(p) == marked[p] = 0
MarkReply(r) ==
  /\ Move(r, "stored", "replied")
  /\ marked' = IF ReplyOf[r] # None /\ Unmarked(ReplyOf[r])
               THEN [marked EXCEPT ![ReplyOf[r]] = message[r]] ELSE marked
  /\ UNCHANGED <<locks, late, sent, message, tick, estado, faults>>

(* INSERT auditoria_respuestas, the answer and the finally. *)
Answer(r) ==
  /\ Move(r, "replied", "done")
  /\ Release(r)
  /\ UNCHANGED <<late, sent, message, tick, estado, marked, faults>>

-----------------------------------------------------------------------------
(* An await fails, 502: the finally frees the key once it has been made.   *)
(* A failed send may have reached WhatsApp all the same.                   *)
Fails(r) ==
  /\ faults < MaxFaults /\ faults' = faults + 1
  /\ at[r] \in Awaits
  /\ at' = [at EXCEPT ![r] = "done"]
  /\ IF at[r] = "status" THEN locks' = locks ELSE Release(r)
  /\ \/ sent' = sent
     \/ at[r] = "sending" /\ \E m \in Messages : Take(r, m)
  /\ UNCHANGED <<late, message, tick, estado, marked>>

Crash ==
  /\ faults < MaxFaults /\ faults' = faults + 1
  /\ at' = [r \in Requests |-> IF at[r] = "idle" THEN "idle" ELSE "done"]
  /\ locks' = {}
  /\ UNCHANGED <<late, sent, message, tick, estado, marked>>

OnPhone(m) == m \in Legacy \/ sent[m] # None

(* The phones report that the message was delivered, then read. *)
Report(m) ==
  /\ OnPhone(m) /\ tick[m] < 3
  /\ tick' = [tick EXCEPT ![m] = @ + 1]
  /\ UNCHANGED <<at, locks, late, sent, message, estado, marked, faults>>

(* persistMessage stores the message as Evolution knows it, live or in a   *)
(* synchronisation: a higher state than the stored one wins.               *)
Echo(m, t) ==
  /\ OnPhone(m) /\ t <= tick[m]
  /\ estado[Scoped(m)] < t
  /\ estado' = [estado EXCEPT ![Scoped(m)] = t]
  /\ UNCHANGED <<at, locks, late, sent, message, tick, marked, faults>>

(* MESSAGES_UPDATE: the row with that id or, when there is none, a row of  *)
(* the unscoped chat that is not yet read.                                 *)
MutFallback == {i \in RowIds : estado[i] = 1}
Fallback == {i \in RowIds : i[1] = "plain" /\ estado[i] = 1}
Ticked(m, t) ==
  IF estado[Plain(m)] # 0 THEN {[estado EXCEPT ![Plain(m)] = t]}
  ELSE IF Fallback # {} THEN {[estado EXCEPT ![i] = t] : i \in Fallback}
  ELSE {estado}
MessagesUpdate(m, t) ==
  /\ OnPhone(m) /\ 1 < t /\ t <= tick[m]
  /\ estado' \in Ticked(m, t)
  /\ UNCHANGED <<at, locks, late, sent, message, tick, marked, faults>>

Next ==
  \/ \E r \in Requests :
       \/ Begin(r) \/ NotConnected(r) \/ Refuse(r) \/ AskReply(r) \/ Duplicate(r)
       \/ Lock(r) \/ Deliver(r) \/ StoreRow(r) \/ MarkReply(r) \/ Answer(r)
       \/ Fails(r)
  \/ \E m \in Messages :
       \/ Report(m)
       \/ \E t \in Ticks : Echo(m, t) \/ MessagesUpdate(m, t)
  \/ Crash

Spec == Init /\ [][Next]_vars

-----------------------------------------------------------------------------
(* Types, and that a request past its send holds the id of its message.    *)
TypeOK ==
  /\ at \in [Requests -> Awaits \cup {"idle", "done"}]
  /\ locks \subseteq Keys /\ late \subseteq Requests
  /\ sent \in [Messages -> Requests \cup {None}]
  /\ message \in [Requests -> Messages \cup {0}]
  /\ \A r \in Requests : at[r] \in {"sent", "stored", "replied"} =>
       message[r] # 0 /\ sent[message[r]] = r
  /\ tick \in [Messages -> Ticks]
  /\ estado \in [RowIds -> Ticks \cup {0}]
  /\ marked \in [Replies -> Messages \cup {0}]
  /\ faults \in 0..MaxFaults

(* A key stays locked only while a request that says the same is being     *)
(* sent, whatever fails: a text is never refused for ever as in progress.  *)
KeysAreFreed == \A k \in locks : \E r \in Requests : KeyOf[r] = k /\ Sending(r)

(* A reply marked as sent names a message that WhatsApp took from a        *)
(* request for that reply and that is stored.                              *)
MarksAreTrue ==
  \A p \in Replies : marked[p] # 0 =>
    /\ sent[marked[p]] # None /\ ReplyOf[sent[marked[p]]] = p
    /\ estado[Scoped(marked[p])] # 0

(* A request that comes once its reply is marked sends nothing. *)
SentRepliesStaySent == \A m \in Messages : sent[m] \notin late

(* No row that carries its account shows a tick its phones did not report, *)
(* though ticks of other messages come in any order and by a fallback.     *)
TicksAreReported == \A m \in Messages : estado[Scoped(m)] <= tick[m]

(* What the answer 'Ya hay un envio identico en curso' promises: identical *)
(* texts are never on their way together. The code breaks it: the finally  *)
(* of a refused request frees the key of the other, and two requests for   *)
(* one reply both pass the test before either adds the key.                *)
IdenticalSendsApart ==
  \A r, q \in Requests : r # q /\ Sending(r) /\ Sending(q) => KeyOf[r] # KeyOf[q]
=============================================================================
