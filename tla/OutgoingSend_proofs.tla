------------------------- MODULE OutgoingSend_proofs -------------------------
(* What /api/enviar, its echoes and its ticks keep, for any requests, texts *)
(* and replies.                                                             *)
EXTENDS OutgoingSend, TLAPS

(* A request that has stored its message finds it stored.                   *)
StoredAreRows ==
  \A r \in Requests : at[r] \in {"stored", "replied"} => estado[Scoped(message[r])] # 0

(* A request sends nothing before it holds its key, and one that came late  *)
(* never holds it.                                                          *)
SilentBefore ==
  \A r \in Requests : at[r] \in {"idle", "status", "asking"} => \A m \in Messages : sent[m] # r
LateAreSilent ==
  \A r \in late :
    /\ Known(r) /\ at[r] \in {"status", "asking", "done"}
    /\ \A m \in Messages : sent[m] # r

SendInv ==
  /\ TypeOK /\ KeysAreFreed /\ StoredAreRows /\ MarksAreTrue
  /\ SilentBefore /\ LateAreSilent /\ TicksAreReported

-----------------------------------------------------------------------------
(* MESSAGES_UPDATE writes a tick in a row without account, or nowhere.      *)
LEMMA UpdateIsPlain ==
  ASSUME TypeOK, NEW m \in Messages, NEW t \in Ticks, MessagesUpdate(m, t)
  PROVE  /\ estado' \in [RowIds -> Ticks \cup {0}]
         /\ \A x \in Messages : estado'[Scoped(x)] = estado[Scoped(x)]
<1>1. estado' = estado \/ \E i \in RowIds : i[1] = "plain" /\ estado' = [estado EXCEPT ![i] = t]
  <2>1. Plain(m) \in RowIds /\ Plain(m)[1] = "plain"
    BY DEF Plain, RowIds
  <2>2. CASE estado[Plain(m)] # 0
    BY <2>1, <2>2 DEF MessagesUpdate, Ticked
  <2>3. CASE estado[Plain(m)] = 0 /\ Fallback # {}
    <3>1. PICK i \in Fallback : estado' = [estado EXCEPT ![i] = t]
      BY <2>3 DEF MessagesUpdate, Ticked
    <3> QED BY <3>1 DEF Fallback
  <2>4. CASE estado[Plain(m)] = 0 /\ Fallback = {}
    BY <2>4 DEF MessagesUpdate, Ticked
  <2> QED BY <2>2, <2>3, <2>4
<1>2. CASE estado' = estado
  BY <1>2 DEF TypeOK
<1>3. CASE estado' # estado
  <2>1. PICK i \in RowIds : i[1] = "plain" /\ estado' = [estado EXCEPT ![i] = t]
    BY <1>1, <1>3
  <2>2. \A x \in Messages : Scoped(x) \in RowIds /\ Scoped(x)[1] = "scoped"
    BY DEF Scoped, RowIds
  <2> QED BY <2>1, <2>2 DEF TypeOK
<1> QED BY <1>2, <1>3

(* A message has one row with its account. *)
LEMMA ScopedRows ==
  /\ \A m \in Messages : Scoped(m) \in RowIds
  /\ \A m, n \in Messages : Scoped(m) = Scoped(n) => m = n
BY DEF Scoped, RowIds

LEMMA SendInit == Init => SendInv
<1> SUFFICES ASSUME Init PROVE SendInv
  OBVIOUS
<1>1. TypeOK
  BY SendBounds, RequestAssumption DEF Init, TypeOK, RowIds, Ticks, Messages, Awaits
<1>2. TicksAreReported
  BY DEF Init, TicksAreReported, Scoped, RowIds
<1>3. KeysAreFreed /\ StoredAreRows /\ MarksAreTrue /\ SilentBefore /\ LateAreSilent
  BY RequestAssumption DEF Init, KeysAreFreed, StoredAreRows, MarksAreTrue, SilentBefore, LateAreSilent
<1> QED BY <1>1, <1>2, <1>3 DEF SendInv

-----------------------------------------------------------------------------
LEMMA TypesStep == TypeOK /\ [Next]_vars => TypeOK'
<1> SUFFICES ASSUME TypeOK, [Next]_vars PROVE TypeOK'
  OBVIOUS
<1> USE RequestAssumption, SendBounds DEF TypeOK, Awaits
<1>1. ASSUME NEW r \in Requests, Begin(r) PROVE TypeOK'
  BY <1>1 DEF Begin, Move
<1>2. ASSUME NEW r \in Requests, NotConnected(r) PROVE TypeOK'
  BY <1>2 DEF NotConnected, Move
<1>3. ASSUME NEW r \in Requests, Refuse(r) \/ Duplicate(r) PROVE TypeOK'
  BY <1>3 DEF Refuse, Duplicate, Move, Release
<1>4. ASSUME NEW r \in Requests, AskReply(r) PROVE TypeOK'
  BY <1>4 DEF AskReply, Move
<1>5. ASSUME NEW r \in Requests, Lock(r) PROVE TypeOK'
  BY <1>5 DEF Lock, Move
<1>6. ASSUME NEW r \in Requests, Deliver(r) PROVE TypeOK'
  <2>1. PICK m \in Messages : Take(r, m) /\ message' = [message EXCEPT ![r] = m]
    BY <1>6 DEF Deliver
  <2>2. sent[m] = None /\ sent' = [sent EXCEPT ![m] = r] /\ m # 0
    BY <2>1 DEF Take, Free, Messages
  <2> QED BY <1>6, <2>1, <2>2 DEF Deliver, Move
<1>7. ASSUME NEW r \in Requests, StoreRow(r) PROVE TypeOK'
  BY <1>7, ScopedRows DEF StoreRow, Move, Ticks
<1>8. ASSUME NEW r \in Requests, MarkReply(r) PROVE TypeOK'
  BY <1>8 DEF MarkReply, Move
<1>9. ASSUME NEW r \in Requests, Answer(r) PROVE TypeOK'
  BY <1>9 DEF Answer, Move, Release
<1>10. ASSUME NEW r \in Requests, Fails(r) PROVE TypeOK'
  <2>1. sent' = sent \/ \E m \in Messages : sent[m] = None /\ sent' = [sent EXCEPT ![m] = r]
    BY <1>10 DEF Fails, Take, Free
  <2>2. /\ sent' \in [Messages -> Requests \cup {None}]
        /\ \A m \in Messages : sent[m] # None => sent'[m] = sent[m]
    BY <2>1
  <2>3. locks' \subseteq Keys /\ faults' \in 0..MaxFaults
    BY <1>10 DEF Fails, Release
  <2> QED BY <1>10, <2>2, <2>3 DEF Fails
<1>11. ASSUME NEW m \in Messages, Report(m) PROVE TypeOK'
  BY <1>11 DEF Report, Ticks
<1>12. ASSUME NEW m \in Messages, NEW t \in Ticks, Echo(m, t) PROVE TypeOK'
  BY <1>12, ScopedRows DEF Echo
<1>13. ASSUME NEW m \in Messages, NEW t \in Ticks, MessagesUpdate(m, t) PROVE TypeOK'
  BY <1>13, UpdateIsPlain DEF MessagesUpdate
<1>14. CASE Crash
  BY <1>14 DEF Crash
<1>15. CASE UNCHANGED vars
  BY <1>15 DEF vars
<1> QED BY <1>1, <1>2, <1>3, <1>4, <1>5, <1>6, <1>7, <1>8, <1>9, <1>10, <1>11, <1>12, <1>13, <1>14, <1>15 DEF Next

(* Whoever leaves the stretch in which its key is locked frees it.          *)
LEMMA KeysStep == TypeOK /\ KeysAreFreed /\ [Next]_vars => KeysAreFreed'
<1> SUFFICES ASSUME TypeOK, KeysAreFreed, [Next]_vars,
                    NEW k \in locks'
             PROVE  \E q \in Requests : KeyOf[q] = k /\ Sending(q)'
  BY DEF KeysAreFreed
<1> USE DEF Sending
<1>0. at \in [Requests -> Awaits \cup {"idle", "done"}]
  BY DEF TypeOK
<1>1. ASSUME k \in locks,
             \A q \in Requests : KeyOf[q] = k /\ Sending(q) => Sending(q)'
      PROVE  \E q \in Requests : KeyOf[q] = k /\ Sending(q)'
  BY <1>1 DEF KeysAreFreed
<1>2. ASSUME NEW r \in Requests, Lock(r) PROVE \E q \in Requests : KeyOf[q] = k /\ Sending(q)'
  <2>1. at' = [at EXCEPT ![r] = "sending"] /\ k \in locks \cup {KeyOf[r]}
    BY <1>2 DEF Lock, Move
  <2>2. CASE k = KeyOf[r]
    BY <1>0, <2>1, <2>2
  <2>3. CASE k # KeyOf[r]
    BY <1>0, <1>1, <2>1, <2>3
  <2> QED BY <2>2, <2>3
<1>3. ASSUME NEW r \in Requests,
             Begin(r) \/ NotConnected(r) \/ AskReply(r) \/ Deliver(r) \/ StoreRow(r) \/ MarkReply(r)
      PROVE  \E q \in Requests : KeyOf[q] = k /\ Sending(q)'
  <2>1. locks' = locks
    BY <1>3 DEF Begin, NotConnected, AskReply, Deliver, StoreRow, MarkReply
  <2>2. \A q \in Requests : Sending(q) => Sending(q)'
    BY <1>0, <1>3 DEF Begin, NotConnected, AskReply, Deliver, StoreRow, MarkReply, Move
  <2> QED BY <1>1, <2>1, <2>2
<1>4. ASSUME NEW r \in Requests, Refuse(r) \/ Duplicate(r) \/ Answer(r)
      PROVE  \E q \in Requests : KeyOf[q] = k /\ Sending(q)'
  <2>1. k \in locks /\ k # KeyOf[r] /\ \A q \in Requests : q # r => at'[q] = at[q]
    BY <1>0, <1>4 DEF Refuse, Duplicate, Answer, Move, Release
  <2> QED BY <1>1, <2>1
<1>5. ASSUME NEW r \in Requests, Fails(r)
      PROVE  \E q \in Requests : KeyOf[q] = k /\ Sending(q)'
  <2>1. /\ at[r] = "status" \/ k # KeyOf[r]
        /\ k \in locks /\ \A q \in Requests : q # r => at'[q] = at[q]
    BY <1>0, <1>5 DEF Fails, Release
  <2> QED BY <1>1, <2>1
<1>6. CASE Crash
  BY <1>6 DEF Crash
<1>7. CASE \/ \E m \in Messages : Report(m) \/ \E t \in Ticks : Echo(m, t) \/ MessagesUpdate(m, t)
           \/ UNCHANGED vars
  <2>1. locks' = locks /\ at' = at
    BY <1>7 DEF Report, Echo, MessagesUpdate, vars
  <2> QED BY <1>1, <2>1
<1> QED BY <1>2, <1>3, <1>4, <1>5, <1>6, <1>7 DEF Next

-----------------------------------------------------------------------------
(* What the rows, the messages taken and the marks never undo.              *)
LEMMA Lasting ==
  ASSUME TypeOK, [Next]_vars
  PROVE  /\ \A x \in Messages : estado[Scoped(x)] # 0 => estado'[Scoped(x)] # 0
         /\ \A x \in Messages : sent[x] # None => sent'[x] = sent[x]
         /\ \A p \in Replies : marked[p] # 0 => marked'[p] = marked[p]
<1>1. \A x \in Messages : estado[Scoped(x)] # 0 => estado'[Scoped(x)] # 0
  <2>1. ASSUME NEW r \in Requests, StoreRow(r)
        PROVE  \A x \in Messages : estado[Scoped(x)] # 0 => estado'[Scoped(x)] # 0
    BY <2>1, ScopedRows DEF StoreRow, TypeOK
  <2>2. ASSUME NEW m \in Messages, NEW t \in Ticks, Echo(m, t)
        PROVE  \A x \in Messages : estado[Scoped(x)] # 0 => estado'[Scoped(x)] # 0
    BY <2>2, ScopedRows DEF Echo, TypeOK, Ticks
  <2>3. ASSUME NEW m \in Messages, NEW t \in Ticks, MessagesUpdate(m, t)
        PROVE  \A x \in Messages : estado[Scoped(x)] # 0 => estado'[Scoped(x)] # 0
    BY <2>3, UpdateIsPlain
  <2>4. CASE estado' = estado
    BY <2>4
  <2> QED BY <2>1, <2>2, <2>3, <2>4
       DEF Next, vars, Begin, NotConnected, Refuse, AskReply, Duplicate, Lock, Deliver, MarkReply,
           Answer, Fails, Report, Crash
<1>2. \A x \in Messages : sent[x] # None => sent'[x] = sent[x]
  <2>1. ASSUME NEW r \in Requests, NEW m \in Messages, Take(r, m)
        PROVE  \A x \in Messages : sent[x] # None => sent'[x] = sent[x]
    BY <2>1 DEF Take, Free, TypeOK
  <2>2. CASE sent' = sent
    BY <2>2
  <2> QED BY <2>1, <2>2
       DEF Next, vars, Begin, NotConnected, Refuse, AskReply, Duplicate, Lock, Deliver, StoreRow,
           MarkReply, Answer, Fails, Report, Echo, MessagesUpdate, Crash
<1>3. \A p \in Replies : marked[p] # 0 => marked'[p] = marked[p]
  <2>1. ASSUME NEW r \in Requests, MarkReply(r)
        PROVE  \A p \in Replies : marked[p] # 0 => marked'[p] = marked[p]
    BY <2>1 DEF MarkReply, Unmarked, TypeOK
  <2>2. CASE marked' = marked
    BY <2>2
  <2> QED BY <2>1, <2>2
       DEF Next, vars, Begin, NotConnected, Refuse, AskReply, Duplicate, Lock, Deliver, StoreRow,
           Answer, Fails, Report, Echo, MessagesUpdate, Crash
<1> QED BY <1>1, <1>2, <1>3

(* The row of a message stays while its request goes on.                    *)
LEMMA StoredStep == TypeOK /\ StoredAreRows /\ [Next]_vars => StoredAreRows'
<1> SUFFICES ASSUME TypeOK, StoredAreRows, [Next]_vars,
                    NEW q \in Requests, at'[q] \in {"stored", "replied"}
             PROVE  estado'[Scoped(message'[q])] # 0
  BY DEF StoredAreRows
<1>1. CASE at[q] \in {"stored", "replied"}
  <2>1. message[q] \in Messages /\ estado[Scoped(message[q])] # 0
    BY <1>1 DEF StoredAreRows, TypeOK
  <2>2. message'[q] = message[q]
    <3>1. ASSUME NEW r \in Requests, Deliver(r) PROVE message'[q] = message[q]
      BY <1>1, <3>1 DEF Deliver, Move, TypeOK
    <3>2. CASE message' = message
      BY <3>2
    <3> QED BY <3>1, <3>2
         DEF Next, vars, Begin, NotConnected, Refuse, AskReply, Duplicate, Lock, StoreRow,
             MarkReply, Answer, Fails, Report, Echo, MessagesUpdate, Crash
  <2> QED BY <2>1, <2>2, Lasting
<1>2. CASE at[q] \notin {"stored", "replied"}
  <2>1. StoreRow(q)
    BY <1>2 DEF Next, vars, Begin, NotConnected, Refuse, AskReply, Duplicate, Lock, Deliver, StoreRow,
         MarkReply, Answer, Fails, Report, Echo, MessagesUpdate, Crash, Move, TypeOK
  <2>2. message[q] \in Messages
    BY <2>1 DEF StoreRow, Move, TypeOK
  <2> QED BY <2>1, <2>2, ScopedRows DEF StoreRow, TypeOK
<1> QED BY <1>1, <1>2

(* A reply is marked with the message that its request sent and stored.     *)
LEMMA MarksStep == TypeOK /\ StoredAreRows /\ MarksAreTrue /\ [Next]_vars => MarksAreTrue'
<1> SUFFICES ASSUME TypeOK, StoredAreRows, MarksAreTrue, [Next]_vars,
                    NEW p \in Replies, marked'[p] # 0
             PROVE  /\ sent'[marked'[p]] # None /\ ReplyOf[sent'[marked'[p]]] = p
                    /\ estado'[Scoped(marked'[p])] # 0
  BY DEF MarksAreTrue
<1>1. CASE marked[p] # 0
  BY <1>1, Lasting DEF MarksAreTrue, TypeOK
<1>2. CASE marked[p] = 0
  <2>1. PICK r \in Requests : MarkReply(r)
    BY <1>2 DEF Next, vars, Begin, NotConnected, Refuse, AskReply, Duplicate, Lock, Deliver, StoreRow,
         Answer, Fails, Report, Echo, MessagesUpdate, Crash
  <2>2. marked'[p] = message[r] /\ ReplyOf[r] = p /\ at[r] = "stored"
    BY <1>2, <2>1 DEF MarkReply, Move, TypeOK
  <2>3. sent' = sent /\ estado' = estado
    BY <2>1 DEF MarkReply
  <2> QED BY <2>2, <2>3, RequestAssumption DEF TypeOK, StoredAreRows
<1> QED BY <1>1, <1>2

-----------------------------------------------------------------------------
(* A message is taken from a request that holds its key.                    *)
LEMMA TakenWhileSending ==
  ASSUME TypeOK, [Next]_vars, NEW q \in Requests, NEW x \in Messages, sent[x] # q, sent'[x] = q
  PROVE  at[q] = "sending" /\ at'[q] \in {"sent", "done"}
<1>1. PICK r \in Requests : (Deliver(r) \/ Fails(r)) /\ at[r] = "sending" /\ \E m \in Messages : Take(r, m)
  BY DEF Next, vars, Begin, NotConnected, Refuse, AskReply, Duplicate, Lock, Deliver, StoreRow, MarkReply,
       Answer, Fails, Report, Echo, MessagesUpdate, Crash, Move
<1>2. q = r
  BY <1>1 DEF Take, TypeOK
<1> QED BY <1>1, <1>2 DEF Deliver, Fails, Move, TypeOK

LEMMA SilentStep == TypeOK /\ SilentBefore /\ [Next]_vars => SilentBefore'
<1> SUFFICES ASSUME TypeOK, SilentBefore, [Next]_vars,
                    NEW q \in Requests, at'[q] \in {"idle", "status", "asking"},
                    NEW x \in Messages, sent'[x] = q
             PROVE  FALSE
  BY DEF SilentBefore
<1>1. at[q] \in {"idle", "status", "asking"}
  BY DEF Next, vars, Begin, NotConnected, Refuse, AskReply, Duplicate, Lock, Deliver, StoreRow, MarkReply,
       Answer, Fails, Report, Echo, MessagesUpdate, Crash, Move, TypeOK
<1>2. sent[x] # q
  BY <1>1 DEF SilentBefore
<1> QED BY <1>1, <1>2, TakenWhileSending

(* A reply stays marked, so a late request never passes the test of its     *)
(* reply.                                                                   *)
LEMMA LateStep == TypeOK /\ SilentBefore /\ LateAreSilent /\ [Next]_vars => LateAreSilent'
<1> SUFFICES ASSUME TypeOK, SilentBefore, LateAreSilent, [Next]_vars, NEW q \in late'
             PROVE  /\ Known(q)' /\ at'[q] \in {"status", "asking", "done"}
                    /\ \A m \in Messages : sent'[m] # q
  BY DEF LateAreSilent
<1>1. CASE q \in late
  <2>1. q \in Requests /\ Known(q) /\ at[q] \in {"status", "asking", "done"} /\ \A m \in Messages : sent[m] # q
    BY <1>1 DEF LateAreSilent, TypeOK
  <2>2. ReplyOf[q] \in Replies
    BY <2>1, RequestAssumption DEF Known
  <2>3. Known(q)'
    BY <2>1, <2>2, Lasting DEF Known
  <2>4. at'[q] \in {"status", "asking", "done"}
    <3>1. ASSUME NEW r \in Requests, Lock(r) PROVE at'[q] = at[q]
      BY <2>1, <3>1 DEF Lock, Move, AlreadySent, Known, TypeOK
    <3> QED BY <2>1, <3>1 DEF Next, vars, Begin, NotConnected, Refuse, AskReply, Duplicate, Deliver, StoreRow,
              MarkReply, Answer, Fails, Report, Echo, MessagesUpdate, Crash, Move, TypeOK
  <2>5. \A m \in Messages : sent'[m] # q
    BY <2>1, TakenWhileSending
  <2> QED BY <2>3, <2>4, <2>5
<1>2. CASE q \notin late
  <2>1. PICK r \in Requests : Begin(r) /\ Known(r) /\ late' = late \cup {r}
    BY <1>2 DEF Next, vars, Begin, NotConnected, Refuse, AskReply, Duplicate, Lock, Deliver, StoreRow,
         MarkReply, Answer, Fails, Report, Echo, MessagesUpdate, Crash
  <2>2. q = r
    BY <1>2, <2>1
  <2> QED BY <2>1, <2>2 DEF Begin, Move, Known, SilentBefore, TypeOK
<1> QED BY <1>1, <1>2

LEMMA TicksStep == TypeOK /\ TicksAreReported /\ [Next]_vars => TicksAreReported'
<1> SUFFICES ASSUME TypeOK, TicksAreReported, [Next]_vars, NEW x \in Messages
             PROVE  estado'[Scoped(x)] <= tick'[x]
  BY DEF TicksAreReported
<1>0. /\ tick[x] \in Ticks /\ estado[Scoped(x)] \in Ticks \cup {0} /\ estado[Scoped(x)] <= tick[x]
      /\ Ticks \subseteq Nat
  BY ScopedRows DEF TypeOK, TicksAreReported, Ticks
<1>1. ASSUME NEW r \in Requests, StoreRow(r) PROVE estado'[Scoped(x)] <= tick'[x]
  BY <1>0, <1>1, ScopedRows DEF StoreRow, TypeOK, Ticks
<1>2. ASSUME NEW m \in Messages, Report(m) PROVE estado'[Scoped(x)] <= tick'[x]
  <2>1. estado' = estado /\ tick' = [tick EXCEPT ![m] = @ + 1] /\ tick \in [Messages -> Ticks]
    BY <1>2 DEF Report, TypeOK
  <2>2. tick'[x] = tick[x] \/ tick'[x] = tick[x] + 1
    BY <2>1
  <2> QED BY <1>0, <2>1, <2>2 DEF Ticks
<1>3. ASSUME NEW m \in Messages, NEW t \in Ticks, Echo(m, t) PROVE estado'[Scoped(x)] <= tick'[x]
  BY <1>0, <1>3, ScopedRows DEF Echo, TypeOK
<1>4. ASSUME NEW m \in Messages, NEW t \in Ticks, MessagesUpdate(m, t) PROVE estado'[Scoped(x)] <= tick'[x]
  BY <1>0, <1>4, UpdateIsPlain DEF MessagesUpdate
<1>5. CASE estado' = estado /\ tick' = tick
  BY <1>0, <1>5
<1> QED BY <1>1, <1>2, <1>3, <1>4, <1>5
     DEF Next, vars, Begin, NotConnected, Refuse, AskReply, Duplicate, Lock, Deliver, MarkReply,
         Answer, Fails, Crash

-----------------------------------------------------------------------------
LEMMA SendStep == SendInv /\ [Next]_vars => SendInv'
BY TypesStep, KeysStep, StoredStep, MarksStep, SilentStep, LateStep, TicksStep DEF SendInv

LEMMA SendInvariant == Spec => []SendInv
BY SendInit, SendStep, PTL DEF Spec

(* The variables keep their types, and a request past its send holds the    *)
(* id of a message that WhatsApp took from it.                              *)
THEOREM SendTypes == Spec => []TypeOK
<1>1. SendInv => TypeOK
  BY DEF SendInv
<1> QED BY <1>1, SendInvariant, PTL

(* The finally of /api/enviar leaves no key without a request in progress.  *)
THEOREM KeysFreed == Spec => []KeysAreFreed
<1>1. SendInv => KeysAreFreed
  BY DEF SendInv
<1> QED BY <1>1, SendInvariant, PTL

(* respuestas_chat marks a reply with a message sent for it and stored.     *)
THEOREM MarksTrue == Spec => []MarksAreTrue
<1>1. SendInv => MarksAreTrue
  BY DEF SendInv
<1> QED BY <1>1, SendInvariant, PTL

(* The second look at respuestas_chat keeps a late request from sending.    *)
THEOREM SentStaySent == Spec => []SentRepliesStaySent
<1>1. SendInv => SentRepliesStaySent
  BY DEF SendInv, LateAreSilent, SentRepliesStaySent
<1> QED BY <1>1, SendInvariant, PTL

(* Neither echoes nor MESSAGES_UPDATE raise a row above what was reported.  *)
THEOREM TicksReported == Spec => []TicksAreReported
<1>1. SendInv => TicksAreReported
  BY DEF SendInv
<1> QED BY <1>1, SendInvariant, PTL
=============================================================================
