------------------------- MODULE EvolutionReception -------------------------
(***************************************************************************)
(* What Evolution receives of one WhatsApp group and how it reaches the    *)
(* backend: the queue of events of Baileys and the table Message, the      *)
(* webhook with its bounded attempts, the walk over the stored history     *)
(* page by page, and the requests of older history to the phone, one at a  *)
(* time and repeated for one reference only after ten minutes.             *)
(*                                                                         *)
(* A message is its number in the order in which it was written.  Two rows *)
(* share a time only when they are copies of one message.                  *)
(***************************************************************************)
EXTENDS Naturals, Sequences, FiniteSets

CONSTANTS
  Old,        \* messages written before the group was paired: 1..Old
  Newest,     \* number of the last message
  Batch,      \* messages the phone sends for a request (50)
  PageSize,   \* rows of a page of findMessages (100)
  RetryAge,   \* ticks until a reference may be asked again (ten minutes)
  Requesters, \* calls of requestHistory under way at a time
  None,
  MaxEdits, MaxMisses,  \* bounds of the model
  MaxEvents             \* events in the queue at a time, a bound as well

VARIABLES
  written,   \* messages on the phone: 1..written
  owed,      \* references the phone has yet to answer
  queue,     \* eventProcessingQueue
  handler,   \* the event being processed
  rows,      \* table Message
  requests,  \* last acknowledged request and its age
  running,   \* the call that executes, or None
  call,      \* step of each call
  anchor,    \* reference that each call found
  sync,      \* syncEvolutionData of the account
  backend,   \* messages the backend has
  edited,    \* messages that were edited
  missed

ASSUME ReceptionAssumption == None \notin Requesters

phoneVars   == <<written, owed, edited>>
eventVars   == <<queue, handler>>
requestVars == <<requests, running, call, anchor>>
receptionVars == <<phoneVars, eventVars, rows, requestVars, sync, backend, missed>>

Idle   == [kind |-> "none"]
NoSync == [phase |-> "idle", full |-> FALSE, again |-> FALSE, page |-> 1, total |-> 0, seen |-> {}]

Miss == missed < MaxMisses /\ missed' = missed + 1

(* A message is written at an even time, an edition falls in between. *)
WrittenAt(m) == 2 * m
Now          == 2 * written + 1

Ids(R)    == {r.id : r \in R}
Newer(r, s) == r.time > s.time \/ (r.time = s.time /\ r.copy < s.copy)
Position(r) == Cardinality({s \in rows : Newer(s, r)})

(* The rows from the newest on, by pages. *)
Page(p) == {r \in rows : Position(r) \div PageSize = p - 1}
Pages(total) == (total + PageSize - 1) \div PageSize

(* What a request is made from: the oldest row, by its id and its time.    *)
Reference(r) == [id |-> r.id, time |-> r.time]
Oldest == {Reference(r) : r \in {s \in rows : \A t \in rows : t # s => Newer(t, s)}}

-----------------------------------------------------------------------------
(* The phone. *)

Room == Len(queue) < MaxEvents
Event(kind, what) == [kind |-> kind, what |-> what, time |-> Now, stage |-> "next"]

(* New messages come one by one or in a batch.                             *)
Write ==
  /\ Room
  /\ \E k \in 1..2 :
       /\ written + k <= Newest
       /\ written' = written + k
       /\ queue' = Append(queue, Event("upsert", [i \in 1..k |-> written + i]))
  /\ UNCHANGED <<owed, handler, rows, requestVars, sync, backend, edited, missed>>

(* One that is written while Evolution is disconnected, or that it cannot  *)
(* decrypt, never comes.                                                   *)
WriteUnseen ==
  /\ Miss /\ written < Newest
  /\ written' = written + 1
  /\ UNCHANGED <<owed, eventVars, rows, requestVars, sync, backend, edited>>

(* After a reconnection WhatsApp appends what it had already delivered.    *)
(* What was edited meanwhile comes edited, and is not among it.            *)
Redeliver(m) ==
  /\ Miss /\ Room /\ m \in (Old + 1)..written /\ m \notin edited
  /\ queue' = Append(queue, Event("upsert", <<m>>))
  /\ UNCHANGED <<phoneVars, handler, rows, requestVars, sync, backend>>

Edit(m) ==
  /\ Room /\ Cardinality(edited) < MaxEdits /\ m \in (Old + 1)..written
  /\ edited' = edited \cup {m}
  /\ queue' = Append(queue, Event("edit", <<m>>))
  /\ UNCHANGED <<written, owed, handler, rows, requestVars, sync, backend, missed>>

(* The phone answers with the messages before the reference, or not at all. *)
Answer ==
  Room /\ \E a \in owed :
    LET older == {m \in 1..written : m < a.id /\ m + Batch >= a.id}
    IN  /\ owed' = owed \ {a}
        /\ queue' = IF older = {} THEN queue ELSE Append(queue, Event("history", older))
        /\ UNCHANGED <<written, handler, rows, requestVars, sync, backend, edited, missed>>

AnswerLost ==
  /\ Miss
  /\ \E a \in owed : owed' = owed \ {a}
  /\ UNCHANGED <<written, eventVars, rows, requestVars, sync, backend, edited>>

-----------------------------------------------------------------------------
(* The events, one after the other. *)

TakeEvent ==
  /\ handler = Idle /\ queue # <<>>
  /\ handler' = Head(queue)
  /\ queue' = Tail(queue)
  /\ UNCHANGED <<phoneVars, rows, requestVars, sync, backend, missed>>

WithCopy(R, m) == R \cup {[id |-> m, time |-> WrittenAt(m), copy |-> Cardinality({r \in R : r.id = m})]}

(* A webhook is posted a number of times, and then given up. When it       *)
(* arrives within them makes no difference here: another one or the walk   *)
(* may have brought the same before.                                       *)
Post(what) == backend' \in {backend, backend \cup what}

Upsert == handler.kind = "upsert"

(* message.create, which has no key to refuse a copy; the contact, the     *)
(* counters and the media come between it and the webhook.                 *)
CreateMessage ==
  /\ Upsert /\ handler.stage = "next"
  /\ rows' = WithCopy(rows, Head(handler.what))
  /\ handler' = [handler EXCEPT !.stage = "created"]
  /\ UNCHANGED <<phoneVars, queue, requestVars, sync, backend, missed>>

SendUpsert ==
  /\ Upsert /\ handler.stage = "created"
  /\ Post({Head(handler.what)})
  /\ handler' = IF Len(handler.what) = 1 THEN Idle
                ELSE [handler EXCEPT !.stage = "next", !.what = Tail(@)]
  /\ UNCHANGED <<phoneVars, queue, rows, requestVars, sync, missed>>

(* An edition moves a row to the time when it was made. *)
ApplyEdit ==
  /\ handler.kind = "edit"
  /\ LET found == {r \in rows : r.id = Head(handler.what)}
     IN  IF found = {} THEN rows' = rows
         ELSE \E r \in found : rows' = (rows \ {r}) \cup {[r EXCEPT !.time = handler.time]}
  /\ handler' = Idle
  /\ UNCHANGED <<phoneVars, queue, requestVars, sync, backend, missed>>

(* History: what is not stored is sent, and then stored at once.           *)
SendHistory ==
  /\ handler.kind = "history" /\ handler.stage = "next"
  /\ LET fresh == handler.what \ Ids(rows)
     IN  /\ Post(fresh)
         /\ handler' = [handler EXCEPT !.stage = "sent", !.what = fresh]
  /\ UNCHANGED <<phoneVars, queue, rows, requestVars, sync, missed>>

CreateMany ==
  /\ handler.kind = "history" /\ handler.stage = "sent"
  /\ rows' = rows \cup {[id |-> m, time |-> WrittenAt(m), copy |-> 0] : m \in handler.what}
  /\ handler' = Idle
  /\ UNCHANGED <<phoneVars, queue, requestVars, sync, backend, missed>>

(* An exception, or a media file without content, leaves the whole event:  *)
(* what remains of its batch is neither stored nor sent.                   *)
EventFails ==
  /\ Miss /\ handler # Idle
  /\ handler' = Idle
  /\ UNCHANGED <<phoneVars, queue, rows, requestVars, sync, backend>>

HandleEvent == TakeEvent \/ CreateMessage \/ SendUpsert \/ ApplyEdit \/ SendHistory \/ CreateMany

-----------------------------------------------------------------------------
(* createHistoryRecovery: the calls of one group share what is executing.  *)

MutFree == TRUE
Free == running = None
StartCall(c) ==
  /\ call[c] = "idle"
  /\ IF Free THEN /\ running' = c
                  /\ call' = [call EXCEPT ![c] = "oldest"]
     ELSE /\ call' = [call EXCEPT ![c] = "joined"]
          /\ UNCHANGED running

(* The call that executed ends, and those that share its answer.           *)
EndCall(c) ==
  /\ call' = [d \in Requesters |-> IF d = c \/ call[d] = "joined" THEN "idle" ELSE call[d]]
  /\ anchor' = [anchor EXCEPT ![c] = None]
  /\ running' = None

(* What was asked less than ten minutes ago is waited for.                 *)
Waiting(a) == requests # None /\ requests.anchor = a /\ requests.age < RetryAge

FindOldest(c) ==
  /\ call[c] = "oldest"
  /\ \/ /\ \A a \in Oldest : Waiting(a)
        /\ EndCall(c)
     \/ \E a \in Oldest :
          /\ ~Waiting(a)
          /\ anchor' = [anchor EXCEPT ![c] = a]
          /\ call' = [call EXCEPT ![c] = "request"]
          /\ UNCHANGED running
  /\ UNCHANGED <<phoneVars, eventVars, rows, requests, sync, backend, missed>>

(* fetchMessageHistory reaches the phone and is acknowledged. *)
Acknowledge(c) ==
  /\ call[c] = "request"
  /\ owed' = owed \cup {anchor[c]}
  /\ requests' = [anchor |-> anchor[c], age |-> 0]
  /\ EndCall(c)
  /\ UNCHANGED <<written, edited, eventVars, rows, sync, backend, missed>>

(* It fails, before or after it reaches the phone, or there is no          *)
(* connection: nothing is remembered.                                      *)
RequestFails(c) ==
  /\ Miss
  /\ call[c] \in {"oldest", "request"}
  /\ \/ owed' = owed
     \/ anchor[c] # None /\ owed' = owed \cup {anchor[c]}
  /\ EndCall(c)
  /\ UNCHANGED <<written, edited, eventVars, rows, requests, sync, backend>>

RequestStep(c) == FindOldest(c) \/ Acknowledge(c)

(* Time passes. *)
Tick ==
  /\ requests # None /\ requests.age < RetryAge
  /\ requests' = [requests EXCEPT !.age = @ + 1]
  /\ UNCHANGED <<phoneVars, eventVars, rows, running, call, anchor, sync, backend, missed>>

-----------------------------------------------------------------------------
(* syncEvolutionData: one at a time for an account, full or short. Who     *)
(* asks for a full one during a short one waits and starts it afterwards,  *)
(* unless the short one fails.                                             *)

MutEnded == NoSync
Ended    == IF sync.again THEN [NoSync EXCEPT !.phase = "chats", !.full = TRUE] ELSE NoSync

AskSync(full) ==
  /\ \/ /\ sync.phase = "idle"
        /\ sync' = [NoSync EXCEPT !.phase = "chats", !.full = full]
     \/ /\ sync.phase # "idle" /\ full /\ ~sync.full /\ ~sync.again
        /\ sync' = [sync EXCEPT !.again = TRUE]
  /\ UNCHANGED <<phoneVars, eventVars, rows, requestVars, backend, missed>>

(* persistChat of each chat stores its last message. *)
SyncChats ==
  /\ sync.phase = "chats"
  /\ backend' = backend \cup Ids({r \in rows : Position(r) = 0})
  /\ sync' = IF sync.full THEN [sync EXCEPT !.phase = "count"] ELSE Ended
  /\ UNCHANGED <<phoneVars, eventVars, rows, requestVars, missed>>

(* fetchMessages: the count, and then the rows. *)
CountRows ==
  /\ sync.phase = "count"
  /\ sync' = [sync EXCEPT !.phase = "page", !.total = Cardinality(rows)]
  /\ UNCHANGED <<phoneVars, eventVars, rows, requestVars, backend, missed>>

(* evolutionHistoryPages: a page that brings nothing new before the last   *)
(* one ends the walk with an error.                                        *)
WalkPage ==
  /\ sync.phase = "page"
  /\ LET fresh == Ids(Page(sync.page)) \ sync.seen
         more  == sync.page < Pages(sync.total)
     IN  /\ backend' = backend \cup fresh
         /\ sync' = IF ~more THEN [NoSync EXCEPT !.phase = "gaps", !.full = TRUE]
                    ELSE IF fresh = {} THEN NoSync
                    ELSE [sync EXCEPT !.phase = "count", !.total = 0, !.page = @ + 1, !.seen = @ \cup fresh]
  /\ UNCHANGED <<phoneVars, eventVars, rows, requestVars, missed>>

(* When texts counted as unread are missing, older history is asked for;   *)
(* the count of the phone is taken to cover the whole group.               *)
Missing == 1..written \ backend # {}
AskHistory ==
  /\ sync.phase = "gaps"
  /\ IF ~Missing THEN sync' = NoSync /\ UNCHANGED <<running, call>>
     ELSE /\ \E c \in Requesters : call[c] = "idle"
          /\ LET c == CHOOSE c \in Requesters : call[c] = "idle"
             IN  /\ StartCall(c)
                 /\ sync' = [sync EXCEPT !.phase = "asking", !.page = c]
  /\ UNCHANGED <<phoneVars, eventVars, rows, requests, anchor, backend, missed>>

GapsRecorded ==
  /\ sync.phase = "asking" /\ call[sync.page] = "idle"
  /\ sync' = NoSync
  /\ UNCHANGED <<phoneVars, eventVars, rows, requestVars, backend, missed>>

(* A call fails or gets no answer in time; in the last phase it is taken   *)
(* as an answer, and Evolution may go on with it.                          *)
SyncFails ==
  /\ Miss
  /\ sync.phase \in {"chats", "count", "page", "asking"}
  /\ sync' = NoSync
  /\ UNCHANGED <<phoneVars, eventVars, rows, requestVars, backend>>

SyncStep == SyncChats \/ CountRows \/ WalkPage \/ AskHistory \/ GapsRecorded

-----------------------------------------------------------------------------
(* Evolution restarts: its queue, posts and requests were in memory.       *)
EvolutionRestarts ==
  /\ Miss
  /\ queue' = <<>> /\ handler' = Idle
  /\ requests' = None
  /\ running' = None
  /\ call' = [c \in Requesters |-> "idle"]
  /\ anchor' = [c \in Requesters |-> None]
  /\ UNCHANGED <<phoneVars, rows, sync, backend>>

BackendRestarts ==
  /\ Miss
  /\ sync' = NoSync
  /\ UNCHANGED <<phoneVars, eventVars, rows, requestVars, backend>>

ReceptionInit ==
  /\ written = Old
  /\ owed = {} /\ edited = {} /\ missed = 0
  /\ queue = <<>> /\ handler = Idle
  /\ rows = {} /\ backend = {}
  /\ requests = None /\ running = None
  /\ call = [c \in Requesters |-> "idle"]
  /\ anchor = [c \in Requesters |-> None]
  /\ sync = NoSync

ReceptionNext ==
  \/ Write \/ WriteUnseen \/ Answer \/ AnswerLost
  \/ \E m \in (Old + 1)..Newest : Redeliver(m) \/ Edit(m)
  \/ HandleEvent \/ EventFails
  \/ \E c \in Requesters : RequestStep(c) \/ RequestFails(c)
  \/ Tick
  \/ \E full \in BOOLEAN : AskSync(full)
  \/ SyncStep \/ SyncFails
  \/ EvolutionRestarts \/ BackendRestarts

ReceptionSpec == ReceptionInit /\ [][ReceptionNext]_receptionVars

(* Events are processed, the phone answers what reaches it, time passes,   *)
(* calls end and the timer asks for a full synchronisation. Nothing is     *)
(* assumed of the webhook.                                                 *)
ReceptionFairSpec ==
  /\ ReceptionSpec
  /\ WF_receptionVars(HandleEvent) /\ WF_receptionVars(Answer) /\ WF_receptionVars(Tick)
  /\ WF_receptionVars(\E c \in Requesters : RequestStep(c))
  /\ WF_receptionVars(AskSync(TRUE)) /\ WF_receptionVars(SyncStep)

-----------------------------------------------------------------------------
(* What Evolution stored reaches the backend even if its webhook never     *)
(* arrives; and once one message of a group is stored, so does everything  *)
(* written before the group was paired, batch after batch, whatever is     *)
(* written, repeated or edited while the pages are read.  (Both sets only  *)
(* grow, so this is each message leading to its arrival.  An edition moves *)
(* a row from the old end to the new one: it takes fewer of them than a    *)
(* batch holds for each batch to bring something older.)                   *)
Reachable == Ids(rows) \cup {m \in 1..Old : rows # {}}
HistoryReachesBackend == []<>(Reachable \subseteq backend)

(* What docs/RELEASE_RECUPERACION_TELEFONO_20260929.md says of requests:   *)
(* whoever asks at the same time, the reference that was acknowledged last *)
(* is asked of the phone again only after ten minutes. (An edition may     *)
(* change the oldest row and a later one bring back a reference before.)   *)
RecoveryIsNotRepeated ==
  [][\A c \in Requesters : Acknowledge(c) => ~Waiting(anchor[c])]_receptionVars
=============================================================================
