--------------------------- MODULE UnreadCounters ---------------------------
(***************************************************************************)
(* The three counters of a WhatsApp group: what the phone has unread, how  *)
(* much of it the summaries have read, and the difference that the panel   *)
(* shows. They are written by the reception, by two sources of the phone's *)
(* count, by summaries, by the extension and by the start of the backend,  *)
(* each in one statement.                                                  *)
(*                                                                         *)
(* Messages of the group are numbered by their timestamp. The queue of the *)
(* summaries and its lock are in SummaryJobs; here a selection is made and *)
(* later saved or dropped.                                                 *)
(***************************************************************************)
EXTENDS Naturals, FiniteSets

CONSTANTS
  Last,      \* bound: messages others write in the group, 1..Last
  Texts,     \* those with text, which summaries read
  Exact,     \* those whose webhook carries the phone's count
  Sources,   \* who reports the phone's count: synchronisation, extension
  Memory,    \* those of them that live in the backend's memory
  MaxCopies, \* bound: live copies of messages beyond the first
  MaxLosses  \* bound: lost reports and restarts

VARIABLES
  received,  \* how many messages the phone has
  opened,    \* how many of them it has shown
  told,      \* what the phone had unread when each message came
  stored,    \* rows of mensajes
  whatsapp,  \* chats.whatsapp_unread_count
  baseline,  \* chats.reviewed_unread_baseline
  unread,    \* chats.unread_count
  reviewed,  \* summary_reviewed_messages
  captured,  \* selection of a global report, kept with its job
  reading,   \* selection of an individual summary, in its request
  taken,     \* counts on their way to the database
  forgiven,  \* history: what the last reading in the extension cleared
  copies,
  losses

phone       == <<received, opened, told>>
counters    == <<whatsapp, baseline, unread>>
texts       == <<captured, reading>>
counterVars == <<phone, stored, counters, reviewed, texts, taken, forgiven, copies, losses>>

-----------------------------------------------------------------------------
Messages == 1..Last
NoCount  == Last + 1
Least(x, y) == IF x < y THEN x ELSE y
Excess(x, y) == IF x > y THEN x - y ELSE 0
Unread == received - opened

Latest(S, k) == {m \in S : Cardinality({x \in S : x > m}) < k}
Pending == (stored \cap Texts) \ reviewed

CountersInit ==
  /\ received = 0 /\ opened = 0 /\ told = [m \in Messages |-> 0]
  /\ stored = {} /\ reviewed = {}
  /\ whatsapp = 0 /\ baseline = 0 /\ unread = 0
  /\ captured = {} /\ reading = {}
  /\ taken = [s \in Sources |-> NoCount]
  /\ forgiven = 0 /\ copies = 0 /\ losses = 0

Fault == losses < MaxLosses /\ losses' = losses + 1

-----------------------------------------------------------------------------
(* The phone. *)
Receive ==
  /\ received < Last
  /\ received' = received + 1
  /\ told' = [told EXCEPT ![received + 1] = Unread + 1]
  /\ UNCHANGED <<opened, stored, counters, reviewed, texts, taken, forgiven, copies, losses>>

Open ==
  /\ opened' = received
  /\ UNCHANGED <<received, told, stored, counters, reviewed, texts, taken, forgiven, copies, losses>>

-----------------------------------------------------------------------------
(* A live message: counted if its row is new, or with the count it brings. *)
Counted(m) ==
  IF m \in Exact THEN told[m] ELSE IF m \in stored THEN unread ELSE unread + 1
Persist(m) ==
  /\ m <= received
  /\ IF m \in stored THEN copies < MaxCopies /\ copies' = copies + 1 ELSE copies' = copies
  /\ stored' = stored \cup {m}
  /\ unread' = Counted(m)
  /\ UNCHANGED <<phone, whatsapp, baseline, reviewed, texts, taken, forgiven, losses>>

PersistHistory(m) ==
  /\ m <= received
  /\ stored' = stored \cup {m}
  /\ UNCHANGED <<phone, counters, reviewed, texts, taken, forgiven, copies, losses>>

(* A source reads the count and its write comes later. *)
Take(s) ==
  /\ taken[s] = NoCount
  /\ taken' = [taken EXCEPT ![s] = Unread]
  /\ UNCHANGED <<phone, stored, counters, reviewed, texts, forgiven, copies, losses>>

MutSetCount(n) ==
  /\ whatsapp' = whatsapp
  /\ baseline' = Least(baseline, n)
  /\ unread' = Excess(n, Least(baseline, n))
SetCount(n) ==
  /\ whatsapp' = n
  /\ baseline' = Least(baseline, n)
  /\ unread' = Excess(n, Least(baseline, n))
Apply(s) ==
  /\ taken[s] # NoCount
  /\ SetCount(taken[s])
  /\ taken' = [taken EXCEPT ![s] = NoCount]
  /\ UNCHANGED <<phone, stored, reviewed, texts, forgiven, copies, losses>>

Lose(s) ==
  /\ Fault
  /\ taken' = [taken EXCEPT ![s] = NoCount]
  /\ UNCHANGED <<phone, stored, counters, reviewed, texts, forgiven, copies>>

(* The user reads the group in the extension. *)
MarkRead ==
  /\ baseline' = whatsapp /\ unread' = 0
  /\ forgiven' = whatsapp
  /\ UNCHANGED <<phone, stored, whatsapp, reviewed, texts, taken, copies, losses>>

-----------------------------------------------------------------------------
(* A report captures all that is pending and may be resumed much later; a  *)
(* summary has the lock of the account from its selection to its end.      *)
Capture ==
  /\ captured = {} /\ reading = {} /\ captured' = Pending
  /\ UNCHANGED <<phone, stored, counters, reviewed, reading, taken, forgiven, copies, losses>>
Read ==
  /\ reading = {} /\ reading' \in SUBSET Pending
  /\ UNCHANGED <<phone, stored, counters, reviewed, captured, taken, forgiven, copies, losses>>
Drop ==
  /\ \/ captured' = {} /\ UNCHANGED reading
     \/ reading' = {} /\ UNCHANGED captured
  /\ UNCHANGED <<phone, stored, counters, reviewed, taken, forgiven, copies, losses>>

(* markSummaryMessagesReviewed: of the texts given, those not reviewed yet *)
(* that are among the last the phone has unread.                           *)
MutDiscount(ms) == Cardinality(Latest(stored, whatsapp) \cap ms)
Discount(ms) == Cardinality(Latest(stored, whatsapp) \cap (ms \ reviewed))
Review(ms) ==
  LET read == Least(whatsapp, baseline + Discount(ms)) IN
    /\ reviewed' = reviewed \cup ms
    /\ baseline' = read /\ unread' = Excess(whatsapp, read)
    /\ UNCHANGED whatsapp

SaveReport ==
  /\ captured # {} /\ reading = {}
  /\ \E ms \in SUBSET captured : Review(ms)
  /\ captured' = {}
  /\ UNCHANGED <<phone, stored, reading, taken, forgiven, copies, losses>>
SaveSummary ==
  /\ reading # {}
  /\ Review(reading)
  /\ reading' = {}
  /\ UNCHANGED <<phone, stored, captured, taken, forgiven, copies, losses>>

-----------------------------------------------------------------------------
(* The backend stops and starts: the schema is brought up to date. *)
BackendRestart ==
  /\ Fault
  /\ whatsapp' = IF unread > whatsapp THEN unread ELSE whatsapp
  /\ baseline' = Least(baseline, whatsapp')
  /\ reading' = {}
  /\ taken' = [s \in Sources |-> IF s \in Memory THEN NoCount ELSE taken[s]]
  /\ UNCHANGED <<phone, stored, unread, reviewed, captured, forgiven, copies>>

CountersNext ==
  \/ Receive \/ Open \/ MarkRead
  \/ \E m \in Messages : Persist(m) \/ PersistHistory(m)
  \/ \E s \in Sources : Take(s) \/ Apply(s) \/ Lose(s)
  \/ Capture \/ Read \/ Drop \/ SaveReport \/ SaveSummary
  \/ BackendRestart

CountersSpec == CountersInit /\ [][CountersNext]_counterVars

(* Both sources report again and again, and a report that is not lost ends. *)
CountersFairSpec ==
  /\ CountersSpec
  /\ \A s \in Sources : WF_counterVars(Take(s)) /\ WF_counterVars(Apply(s))

-----------------------------------------------------------------------------
(* The baseline takes nothing off the phone's count that was not earned:   *)
(* it stays within the count, and within the texts that saved reports and  *)
(* summaries have read together with what the user cleared in the          *)
(* extension, whatever selections overlap, counts come late or the backend *)
(* restarts.                                                               *)
DiscountsAreEarned ==
  /\ baseline <= whatsapp
  /\ baseline <= forgiven + Cardinality(reviewed)

(* Once the group is quiet the counters agree with the phone: its count is *)
(* known and what is shown is the part of it that nobody has read.         *)
CountersCatchUp ==
  <>[](whatsapp = Unread /\ unread = Excess(whatsapp, baseline))
=============================================================================
