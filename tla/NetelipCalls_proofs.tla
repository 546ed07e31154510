------------------------ MODULE NetelipCalls_proofs ------------------------
(***************************************************************************)
(* Proofs about the telephone calls, for any calls, executions of the      *)
(* transcription task, limits of attempts, and bounds.                     *)
(***************************************************************************)
EXTENDS NetelipCalls, FiniteSetTheorems, TLAPS

(* The steps that change a webhook or what the inbox task holds. *)
LEMMA InboxSteps ==
  ASSUME [Next]_vars
  PROVE  \/ \E c \in Calls, kind \in {"recording"} \cup Forms : Accept(kind, c)
         \/ ClaimRows \/ (\E i \in Ids : TakeRow(i)) \/ HandleRow \/ FinishRow
         \/ FailRow \/ InboxFails \/ (\E i \in Ids : RowDue(i)) \/ Crash
         \/ UNCHANGED <<row, batch, item, ingested>>
<1> USE DEF inboxVars, taskVars, reportVars, callVars, EndJob
<1>1. CASE UNCHANGED vars
  BY <1>1 DEF vars
<1>2. CASE WorkerStep \/ \E w \in Workers : NotTranscribed(w) \/ TranscriptionFails(w)
  BY <1>2 DEF WorkerStep, ClaimTranscript, Transcribed, NotTranscribed, TranscriptionFails
<1>3. CASE RecoveryStep \/ RecoveryFails
  BY <1>3 DEF RecoveryStep, RecoveryFails, StartRecovery, RecoveryPresent, NotOnVdrive, Recover
<1>4. CASE ReconcileStep \/ ReconciliationFails
  BY <1>4 DEF ReconcileStep, ReconciliationFails, StartReconciliation, Judge, WriteVerdict, Notify
<1>5. CASE \E c \in Calls : Passing(c) \/ RemoveTranscript(c)
  BY <1>5 DEF Passing, TranscriptDue, Aged, RemoveTranscript
<1> QED
  BY <1>1, <1>2, <1>3, <1>4, <1>5 DEF Next, InboxStep

(* The steps that change what is stored of a call, or who transcribes it. *)
LEMMA CallSteps ==
  ASSUME [Next]_vars
  PROVE  \/ HandleRow
         \/ \E w \in Workers, c \in Calls : ClaimTranscript(w, c)
         \/ \E w \in Workers : Transcribed(w) \/ NotTranscribed(w) \/ TranscriptionFails(w)
         \/ \E c \in Calls : TranscriptDue(c) \/ RemoveTranscript(c) \/ Recover(c) \/ Judge(c)
         \/ Crash
         \/ UNCHANGED <<stored, transcript, removed, job>>
<1> USE DEF inboxVars, reconcileVars, taskVars, reportVars, callVars
<1>1. CASE UNCHANGED vars
  BY <1>1 DEF vars
<1>2. CASE \E c \in Calls, kind \in {"recording"} \cup Forms : Accept(kind, c)
  BY <1>2 DEF Accept
<1>3. CASE InboxStep \/ FailRow \/ InboxFails \/ \E i \in Ids : RowDue(i)
  BY <1>3 DEF InboxStep, ClaimRows, TakeRow, FinishRow, FailRow, InboxFails, RowDue
<1>4. CASE RecoveryStep \/ RecoveryFails
  BY <1>4 DEF RecoveryStep, RecoveryFails, StartRecovery, RecoveryPresent, NotOnVdrive
<1>5. CASE ReconcileStep \/ ReconciliationFails
  BY <1>5 DEF ReconcileStep, ReconciliationFails, StartReconciliation, WriteVerdict, Notify
<1>6. CASE \E c \in Calls : Passing(c) \/ RemoveTranscript(c)
  BY <1>6 DEF Passing, Aged
<1> QED
  BY <1>1, <1>2, <1>3, <1>4, <1>5, <1>6 DEF Next, WorkerStep

(* The steps that change a report. *)
LEMMA ReportSteps ==
  ASSUME [Next]_vars
  PROVE  \/ HandleRow
         \/ \E c \in Calls : RecoveryPresent(c) \/ Recover(c)
         \/ WriteVerdict
         \/ UNCHANGED report
<1> USE DEF inboxVars, reconcileVars, taskVars, reportVars, callVars, EndJob
<1>1. CASE UNCHANGED vars
  BY <1>1 DEF vars
<1>2. CASE \E c \in Calls, kind \in {"recording"} \cup Forms : Accept(kind, c)
  BY <1>2 DEF Accept
<1>3. CASE InboxStep \/ FailRow \/ InboxFails \/ \E i \in Ids : RowDue(i)
  BY <1>3 DEF InboxStep, ClaimRows, TakeRow, FinishRow, FailRow, InboxFails, RowDue
<1>4. CASE WorkerStep \/ \E w \in Workers : NotTranscribed(w) \/ TranscriptionFails(w)
  BY <1>4 DEF WorkerStep, ClaimTranscript, Transcribed, NotTranscribed, TranscriptionFails
<1>5. CASE RecoveryStep \/ RecoveryFails
  BY <1>5 DEF RecoveryStep, RecoveryFails, StartRecovery, NotOnVdrive
<1>6. CASE ReconcileStep \/ ReconciliationFails
  BY <1>6 DEF ReconcileStep, ReconciliationFails, StartReconciliation, Judge, Notify
<1>7. CASE \E c \in Calls : Passing(c) \/ RemoveTranscript(c)
  BY <1>7 DEF Passing, TranscriptDue, Aged, RemoveTranscript
<1>8. CASE Crash
  BY <1>8 DEF Crash
<1> QED
  BY <1>1, <1>2, <1>3, <1>4, <1>5, <1>6, <1>7, <1>8 DEF Next

(* Faults are counted, up to the bound. *)
LEMMA FaultsAreCounted ==
  ASSUME TypeOK, [Next]_vars
  PROVE  faults' \in 0..MaxFaults /\ faults <= faults'
<1> USE DEF inboxVars, reconcileVars, taskVars, reportVars, callVars, EndJob
<1> SUFFICES UNCHANGED faults \/ Fault
  BY NetelipBounds DEF TypeOK, Fault
<1>1. CASE UNCHANGED vars
  BY <1>1 DEF vars
<1>2. CASE \E c \in Calls, kind \in {"recording"} \cup Forms : Accept(kind, c)
  BY <1>2 DEF Accept
<1>3. CASE InboxStep \/ FailRow \/ InboxFails \/ \E i \in Ids : RowDue(i)
  BY <1>3 DEF InboxStep, ClaimRows, TakeRow, HandleRow, FinishRow, FailRow, InboxFails, RowDue
<1>4. CASE WorkerStep \/ \E w \in Workers : NotTranscribed(w) \/ TranscriptionFails(w)
  BY <1>4 DEF WorkerStep, ClaimTranscript, Transcribed, NotTranscribed, TranscriptionFails
<1>5. CASE RecoveryStep \/ RecoveryFails
  BY <1>5 DEF RecoveryStep, RecoveryFails, StartRecovery, RecoveryPresent, NotOnVdrive, Recover
<1>6. CASE ReconcileStep \/ ReconciliationFails
  BY <1>6 DEF ReconcileStep, ReconciliationFails, StartReconciliation, Judge, WriteVerdict, Notify
<1>7. CASE \E c \in Calls : Passing(c) \/ RemoveTranscript(c)
  BY <1>7 DEF Passing, TranscriptDue, Aged, RemoveTranscript
<1>8. CASE Crash
  BY <1>8 DEF Crash
<1> QED
  BY <1>1, <1>2, <1>3, <1>4, <1>5, <1>6, <1>7, <1>8 DEF Next

-----------------------------------------------------------------------------
(* While the inbox is not full there is a free row to take. *)
LEMMA FreeRow ==
  ASSUME Cardinality(Rows) < MaxRows
  PROVE  Ids \ Rows # {}
<1>1. IsFiniteSet(Ids) /\ Cardinality(Ids) = MaxRows
  BY FS_Interval, NetelipBounds DEF Ids
<1>2. Rows # Ids
  BY <1>1, NetelipBounds
<1> QED
  BY <1>2 DEF Rows

(* What a webhook becomes in one step: nothing, a new row, one more attempt *)
(* of a due row, settled or put back by the task that holds it, or due.     *)
RowChange(i) ==
  \/ row'[i] = row[i]
  \/ /\ i \notin Rows
     /\ row'[i] \in [kind : {"recording"} \cup Forms, call : Calls, status : {"pending"},
                     attempts : {0}, due : {TRUE}]
  \/ /\ i \in Rows /\ batch = {} /\ row[i].status = "pending"
     /\ row'[i] = [row[i] EXCEPT !.attempts = @ + 1, !.due = FALSE]
  \/ i = item /\ item # 0 /\ Handled /\ row'[i] = [row[i] EXCEPT !.status = "done"]
  \/ /\ i = item /\ item # 0
     /\ row'[i] = [row[i] EXCEPT !.status =
                     IF row[i].attempts >= InboxAttempts THEN "failed" ELSE "pending"]
  \/ i \in Rows /\ row[i].status = "pending" /\ row'[i] = [row[i] EXCEPT !.due = TRUE]

(* Every step changes each webhook in one of those ways. *)
LEMMA RowChanges ==
  ASSUME TypeOK, [Next]_vars, NEW i \in Ids
  PROVE  RowChange(i)
<1> USE DEF TypeOK, RowChange
<1>1. ASSUME NEW c \in Calls, NEW kind \in {"recording"} \cup Forms, Accept(kind, c)
      PROVE  RowChange(i)
  <2> DEFINE n == CHOOSE k \in Ids \ Rows : TRUE
  <2>1. n \in Ids \ Rows
    BY <1>1, FreeRow DEF Accept
  <2>2. row' = [row EXCEPT ![n] = [kind |-> kind, call |-> c, status |-> "pending",
                                   attempts |-> 0, due |-> TRUE]]
    BY <1>1 DEF Accept
  <2> HIDE DEF n
  <2> QED
    BY <2>1, <2>2
<1>2. CASE ClaimRows
  BY <1>2 DEF ClaimRows, Claimable
<1>3. CASE FinishRow
  BY <1>3 DEF FinishRow, Update, Handled, Rows
<1>4. CASE FailRow
  BY <1>4 DEF FailRow, Update, Rows
<1>5. ASSUME NEW k \in Ids, RowDue(k)
      PROVE  RowChange(i)
  BY <1>5 DEF RowDue, Update, Rows
<1>6. CASE (\E k \in Ids : TakeRow(k)) \/ HandleRow \/ InboxFails \/ Crash
           \/ UNCHANGED <<row, batch, item, ingested>>
  BY <1>6 DEF TakeRow, HandleRow, InboxFails, Crash
<1> QED
  BY <1>1, <1>2, <1>3, <1>4, <1>5, <1>6, InboxSteps

(* Webhooks keep their type: the attempts stay in their range because no   *)
(* claim takes a row that has used them up.                                *)
LEMMA RowTypes ==
  ASSUME TypeOK, RowsAreBounded, [Next]_vars
  PROVE  row' \in [Ids -> RowStates \cup {None}] /\ Rows \subseteq Rows'
<1>1. ASSUME NEW i \in Ids
      PROVE  row'[i] \in RowStates \cup {None} /\ (i \in Rows => row'[i] \in RowStates)
  <2>1. RowChange(i)
    BY RowChanges
  <2>2. i \in Rows => row[i] \in RowStates
    BY DEF TypeOK, Rows
  <2>3. i \notin Rows => row[i] = None
    BY DEF Rows
  <2>4. faults \in 0..MaxFaults /\ (item # 0 => item \in Rows)
    BY DEF TypeOK
  <2>5. CASE row'[i] = row[i]
    BY <2>2, <2>3, <2>5
  <2>6. CASE row'[i] \in [kind : {"recording"} \cup Forms, call : Calls, status : {"pending"},
                          attempts : {0}, due : {TRUE}] /\ i \notin Rows
    <3>1. 0 \in 0..(InboxAttempts + MaxFaults)
      BY NetelipBounds
    <3> QED
      BY <3>1, <2>6 DEF RowStates
  <2>7. CASE /\ i \in Rows /\ batch = {} /\ row[i].status = "pending"
             /\ row'[i] = [row[i] EXCEPT !.attempts = @ + 1, !.due = FALSE]
    <3>1. row[i].attempts < InboxAttempts + faults
      BY <2>7 DEF RowsAreBounded
    <3>2. row[i].attempts + 1 \in 0..(InboxAttempts + MaxFaults)
      BY <3>1, <2>2, <2>4, <2>7, NetelipBounds DEF RowStates
    <3> QED
      BY <3>2, <2>2, <2>7 DEF RowStates
  <2>8. CASE i = item /\ item # 0 /\ row'[i] = [row[i] EXCEPT !.status = "done"]
    BY <2>2, <2>4, <2>8 DEF RowStates
  <2>9. CASE /\ i = item /\ item # 0
             /\ row'[i] = [row[i] EXCEPT !.status =
                             IF row[i].attempts >= InboxAttempts THEN "failed" ELSE "pending"]
    BY <2>2, <2>4, <2>9 DEF RowStates
  <2>10. CASE i \in Rows /\ row'[i] = [row[i] EXCEPT !.due = TRUE]
    BY <2>2, <2>10 DEF RowStates
  <2> QED
    BY <2>1, <2>5, <2>6, <2>7, <2>8, <2>9, <2>10 DEF RowChange
<1>2. row' = [i \in Ids |-> row'[i]]
  BY InboxSteps DEF Accept, ClaimRows, TakeRow, HandleRow, FinishRow, FailRow, InboxFails, RowDue,
                    Update, Crash, TypeOK
<1> QED
  BY <1>1, <1>2, NoneAssumption DEF Rows, TypeOK

(* The task holds rows that exist, and works on one of them. *)
LEMMA HandTypes ==
  ASSUME TypeOK, RowsAreBounded, [Next]_vars
  PROVE  batch' \subseteq Rows' /\ item' \in batch' \cup {0} /\ ingested' \in BOOLEAN
<1>1. Rows \subseteq Rows'
  BY RowTypes
<1>2. /\ batch' \subseteq batch \cup Rows
      /\ item' \in batch' \cup {0} /\ ingested' \in BOOLEAN
  <2> USE DEF TypeOK
  <2>1. CASE (\E c \in Calls, kind \in {"recording"} \cup Forms : Accept(kind, c))
             \/ (\E i \in Ids : RowDue(i)) \/ HandleRow \/ UNCHANGED <<row, batch, item, ingested>>
    BY <2>1 DEF Accept, RowDue, HandleRow, taskVars, inboxVars
  <2>2. CASE ClaimRows
    BY <2>2 DEF ClaimRows, Claimable
  <2>3. CASE (\E i \in Ids : TakeRow(i)) \/ FinishRow \/ FailRow \/ InboxFails \/ Crash
    BY <2>3 DEF TakeRow, FinishRow, FailRow, InboxFails, Crash, LeaveRow
  <2> QED
    BY <2>1, <2>2, <2>3, InboxSteps
<1> QED
  BY <1>1, <1>2 DEF TypeOK

-----------------------------------------------------------------------------
(* A webhook that exists keeps what it says, and counts one more attempt   *)
(* only when it is claimed.                                                *)
LEMMA RowsKeep ==
  ASSUME TypeOK, [Next]_vars, NEW i \in Rows
  PROVE  row'[i].kind = row[i].kind /\ row'[i].call = row[i].call
<1>1. row[i] \in RowStates
  BY DEF TypeOK, Rows
<1> QED
  BY <1>1, RowChanges DEF RowChange, RowStates, Rows

(* What is stored stays stored, and a report that came stays. *)
LEMMA NothingIsForgotten ==
  ASSUME TypeOK, [Next]_vars
  PROVE  stored \subseteq stored' /\ \A c \in Calls : report[c] # "none" => report'[c] # "none"
<1> USE DEF TypeOK, Ingest
<1>1. stored \subseteq stored'
  BY CallSteps DEF HandleRow, ClaimTranscript, Transcribed, NotTranscribed, TranscriptionFails,
       EndJob, TranscriptDue, RemoveTranscript, Recover, Judge, Restore, Crash, callVars
<1>2. ASSUME NEW c \in Calls, report[c] # "none"
      PROVE  report'[c] # "none"
  <2>1. CASE HandleRow
    <3>1. row[item] \in RowStates
      BY <2>1 DEF HandleRow, Rows
    <3> QED
      BY <1>2, <2>1, <3>1 DEF HandleRow, RowStates, Forms, Results
  <2>2. CASE \E d \in Calls : RecoveryPresent(d) \/ Recover(d)
    BY <1>2, <2>2 DEF RecoveryPresent, Recover, Close
  <2>3. CASE WriteVerdict
    BY <1>2, <2>3 DEF WriteVerdict, Close, Results
  <2> QED
    BY <1>2, <2>1, <2>2, <2>3, ReportSteps
<1> QED
  BY <1>1, <1>2

(* What a webhook asked for stays done. *)
LEMMA CarriedStays ==
  ASSUME TypeOK, [Next]_vars, NEW i \in Rows, Carried(i)
  PROVE  Carried(i)'
<1>1. row[i].call \in Calls
  BY DEF TypeOK, Rows, RowStates
<1> QED
  BY <1>1, RowsKeep, NothingIsForgotten DEF Carried

(* The rows in hand stay pending, and the one being handled is carried out *)
(* before the task may say that it is done.                                *)
LEMMA HandStep ==
  ASSUME TypeOK, RowsInHand, [Next]_vars
  PROVE  RowsInHand'
<1> USE DEF RowsInHand, TypeOK
<1>1. ASSUME UNCHANGED <<item, ingested>>
      PROVE  (ingested => item # 0 /\ Carried(item))'
  <2>1. CASE ingested
    <3>1. item \in Rows /\ Carried(item)
      BY <2>1
    <3>2. ASSUME NEW i \in Rows, i = item
          PROVE  Carried(i)'
      BY <3>1, <3>2, CarriedStays
    <3> QED
      BY <2>1, <3>1, <3>2, <1>1 DEF Carried
  <2> QED
    BY <2>1, <1>1
<1>2. ASSUME NEW c \in Calls, NEW kind \in {"recording"} \cup Forms, Accept(kind, c)
      PROVE  RowsInHand'
  <2> DEFINE n == CHOOSE k \in Ids \ Rows : TRUE
  <2>1. n \in Ids \ Rows
    BY <1>2, FreeRow DEF Accept
  <2>2. row' = [row EXCEPT ![n] = [kind |-> kind, call |-> c, status |-> "pending",
                                   attempts |-> 0, due |-> TRUE]]
    BY <1>2 DEF Accept
  <2> HIDE DEF n
  <2>3. UNCHANGED <<batch, item, ingested>>
    BY <1>2 DEF Accept, taskVars, inboxVars
  <2> QED
    BY <1>1, <2>1, <2>2, <2>3 DEF Rows
<1>3. ASSUME NEW k \in Ids, RowDue(k)
      PROVE  RowsInHand'
  <2>1. UNCHANGED <<batch, item, ingested>>
    BY <1>3 DEF RowDue, taskVars, inboxVars
  <2>2. ASSUME NEW i \in batch
        PROVE  row'[i].status = "pending"
    BY <1>3 DEF RowDue, Update, Rows, RowStates
  <2> QED
    BY <1>1, <2>1, <2>2
<1>4. CASE ClaimRows
  <2>1. UNCHANGED <<item, ingested>>
    BY <1>4 DEF ClaimRows
  <2>2. ASSUME NEW i \in batch'
        PROVE  row'[i].status = "pending"
    BY <1>4 DEF ClaimRows, Claimable, Rows, RowStates
  <2> QED
    BY <1>1, <2>1, <2>2
<1>5. CASE HandleRow
  <2>1. item \in Rows /\ row[item] \in RowStates
    BY <1>5 DEF HandleRow, Rows
  <2>2. Carried(item)'
    BY <1>5, <2>1 DEF HandleRow, Carried, Ingest, RowStates, Forms, Results
  <2> QED
    BY <1>5, <2>2 DEF HandleRow
<1>6. CASE FinishRow \/ FailRow
  <2>1. item' = 0 /\ batch' = batch \ {item} /\ ~ingested'
    BY <1>6 DEF FinishRow, FailRow, LeaveRow
  <2>2. \A i \in batch : i # item => row'[i] = row[i]
    BY <1>6 DEF FinishRow, FailRow, Update, Rows
  <2> QED
    BY <2>1, <2>2
<1>7. CASE \E i \in Ids : TakeRow(i)
  <2>1. UNCHANGED <<row, batch, ingested>> /\ item = 0
    BY <1>7 DEF TakeRow
  <2> QED
    BY <1>7, <2>1 DEF TakeRow
<1>8. CASE InboxFails \/ Crash
  <2>1. batch' = {} /\ item' = 0 /\ ~ingested'
    BY <1>8 DEF InboxFails, Crash
  <2> QED
    BY <2>1
<1>9. CASE UNCHANGED <<row, batch, item, ingested>>
  BY <1>1, <1>9
<1> QED
  BY <1>2, <1>3, <1>4, <1>5, <1>6, <1>7, <1>8, <1>9, InboxSteps

(* A row counts more attempts than allowed only by the failures that kept  *)
(* its outcome from being written.                                         *)
LEMMA RowBoundStep ==
  ASSUME TypeOK, RowsAreBounded, RowsInHand, [Next]_vars
  PROVE  RowsAreBounded'
<1> USE NetelipBounds
<1> DEFINE B == InboxAttempts + faults
<1>1. faults \in Nat /\ faults' \in Nat /\ faults <= faults'
  BY FaultsAreCounted DEF TypeOK
<1>2. ASSUME NEW i \in Rows'
      PROVE  /\ row'[i].attempts <= InboxAttempts + faults'
             /\ row'[i].status = "pending" /\ i \notin batch'
                  => row'[i].attempts < InboxAttempts + faults'
  <2> USE <1>1 DEF RowsAreBounded
  <2>0. i \in Ids /\ RowChange(i)
    BY RowChanges DEF Rows
  <2>1. CASE i \notin Rows
    <3>0. i # item
      BY <2>0, <2>1 DEF Ids, TypeOK
    <3>1. row[i] = None /\ row'[i] # None
      BY <2>0, <2>1 DEF Rows
    <3>2. row'[i].attempts = 0
      BY <2>0, <2>1, <3>0, <3>1, NoneAssumption DEF RowChange
    <3> QED
      BY <3>2
  <2>2. CASE i \in Rows
    <3>1. row[i] \in RowStates /\ row[i].attempts \in Nat
      BY <2>2 DEF TypeOK, Rows, RowStates
    <3>2. CASE (\E c \in Calls, kind \in {"recording"} \cup Forms : Accept(kind, c))
               \/ HandleRow \/ (\E k \in Ids : TakeRow(k))
               \/ UNCHANGED <<row, batch, item, ingested>>
      <4>1. batch' = batch
        BY <3>2 DEF Accept, HandleRow, TakeRow, taskVars, inboxVars
      <4>2. row'[i] = row[i]
        BY <2>2, <3>2, FreeRow DEF Accept, HandleRow, TakeRow, Rows, TypeOK
      <4> QED
        BY <2>2, <3>1, <4>1, <4>2
    <3>3. CASE ClaimRows
      <4>1. CASE i \in Claimable
        <5>1. row'[i].attempts = row[i].attempts + 1 /\ i \in batch' /\ row[i].attempts < B
          BY <2>0, <2>2, <3>1, <3>3, <4>1 DEF ClaimRows, Claimable, RowStates
        <5> QED
          BY <3>1, <5>1
      <4>2. CASE i \notin Claimable
        BY <2>0, <2>2, <3>1, <3>3, <4>2 DEF ClaimRows
      <4> QED
        BY <4>1, <4>2
    <3>4. CASE FinishRow \/ FailRow
      <4>1. CASE i = item
        <5>1. /\ row'[i].attempts = row[i].attempts
              /\ row'[i].status = "pending" => row[i].attempts < InboxAttempts
          BY <2>0, <2>2, <3>1, <3>4, <4>1 DEF FinishRow, FailRow, Update, TypeOK, RowStates
        <5> QED
          BY <2>2, <3>1, <5>1
      <4>2. CASE i # item
        <5>1. row'[i] = row[i] /\ batch' = batch \ {item}
          BY <2>0, <2>2, <3>4, <4>2 DEF FinishRow, FailRow, Update, LeaveRow, TypeOK
        <5> QED
          BY <2>2, <3>1, <4>2, <5>1
      <4> QED
        BY <4>1, <4>2
    <3>5. CASE InboxFails \/ Crash
      <4>1. row'[i] = row[i] /\ faults' = faults + 1
        BY <3>5 DEF InboxFails, Crash, Fault
      <4> QED
        BY <2>2, <3>1, <4>1
    <3>6. ASSUME NEW k \in Ids, RowDue(k)
          PROVE  /\ row'[i].attempts = row[i].attempts /\ row'[i].status = row[i].status
                 /\ batch' = batch
      BY <2>0, <2>2, <3>1, <3>6 DEF RowDue, Update, taskVars, inboxVars, TypeOK, RowStates
    <3>7. CASE \E k \in Ids : RowDue(k)
      BY <2>2, <3>1, <3>6, <3>7
    <3> QED
      BY <3>2, <3>3, <3>4, <3>5, <3>7, InboxSteps
  <2> QED
    BY <2>1, <2>2
<1> QED
  BY <1>2 DEF RowsAreBounded

(* A row is taken as done only by the task that holds it, after it has     *)
(* carried it out; and what was carried out stays.                         *)
LEMMA DoneStep ==
  ASSUME TypeOK, RowsInHand, DoneMeansStored, [Next]_vars
  PROVE  DoneMeansStored'
<1>1. ASSUME NEW i \in Rows', row'[i].status = "done"
      PROVE  i \in Rows /\ Carried(i)
  <2>1. i \in Ids /\ RowChange(i)
    BY RowChanges DEF Rows
  <2>2. i \in Rows => row[i] \in RowStates
    BY DEF TypeOK, Rows
  <2>3. i \notin Rows => row[i] = None
    BY <2>1 DEF Rows
  <2>4. row'[i] # None
    BY DEF Rows
  <2>5. item # 0 => item \in Rows
    BY DEF TypeOK
  <2>6. CASE row'[i] = row[i]
    BY <1>1, <2>3, <2>4, <2>6 DEF DoneMeansStored, Carried
  <2>7. CASE i = item /\ item # 0 /\ Handled
    BY <2>5, <2>7 DEF Handled, RowsInHand
  <2> QED
    BY <1>1, <2>1, <2>2, <2>5, <2>6, <2>7 DEF RowChange, RowStates
<1>2. ASSUME NEW i \in Rows', row'[i].status = "done"
      PROVE  Carried(i)'
  BY <1>1, <1>2, CarriedStays
<1> QED
  BY <1>2 DEF DoneMeansStored, Carried

-----------------------------------------------------------------------------
(* What the calls and their transcriptions keep, whichever task moves them. *)
CallsKept ==
  /\ stored \subseteq Calls /\ removed \subseteq stored
  /\ transcript \in [Calls -> [status : Statuses, attempts : 0..TranscriptionAttempts,
                               due : BOOLEAN]]
  /\ TranscriptionsAreBounded
  /\ OnlyRemovedAreMissing

(* It is kept when a call is stored: only a call that was never stored gets *)
(* a pending transcription, and nothing stored is touched.                 *)
LEMMA IngestKeeps ==
  ASSUME CallsKept, NEW c \in Calls,
         Ingest(c) \/ UNCHANGED <<stored, transcript>>, UNCHANGED removed
  PROVE  CallsKept' /\ \A d \in stored : transcript'[d] = transcript[d]
<1> USE NetelipBounds DEF CallsKept
<1>1. CASE UNCHANGED <<stored, transcript>> \/ (Ingest(c) /\ c \in stored)
  <2>1. UNCHANGED <<stored, transcript, removed>>
    BY <1>1 DEF Ingest, Creates
  <2> QED
    BY <2>1 DEF TranscriptionsAreBounded, OnlyRemovedAreMissing
<1>2. CASE Ingest(c) /\ c \notin stored
  <2>1. stored' = stored \cup {c} /\ transcript' = [transcript EXCEPT ![c] = Pending]
    BY <1>2 DEF Ingest, Creates
  <2>2. Pending \in [status : Statuses, attempts : 0..TranscriptionAttempts, due : BOOLEAN]
    BY DEF Pending, Statuses
  <2>3. Pending # Absent /\ Pending.attempts < TranscriptionAttempts
    BY DEF Pending, Absent
  <2>4. transcript'[c] = Pending /\ \A d \in Calls : d # c => transcript'[d] = transcript[d]
    BY <2>1
  <2>5. transcript' \in [Calls -> [status : Statuses, attempts : 0..TranscriptionAttempts,
                                   due : BOOLEAN]]
    BY <2>1, <2>2
  <2>6. TranscriptionsAreBounded'
    BY <2>3, <2>4 DEF TranscriptionsAreBounded
  <2>7. OnlyRemovedAreMissing'
    BY <1>2, <2>1, <2>3, <2>4 DEF OnlyRemovedAreMissing
  <2> QED
    BY <1>2, <2>1, <2>4, <2>5, <2>6, <2>7
<1> QED
  BY <1>1, <1>2

(* A step that changes one transcription, present before and after, keeps   *)
(* it when the attempts left allow the new status.                         *)
LEMMA OneChangeKeeps ==
  ASSUME CallsKept, NEW c \in Calls,
         NEW t \in [status : Statuses, attempts : 0..TranscriptionAttempts, due : BOOLEAN],
         transcript[c] # Absent, t.status # "none",
         t.status \in {"pending", "processing"} => t.attempts < TranscriptionAttempts,
         transcript' = [transcript EXCEPT ![c] = t], UNCHANGED <<stored, removed>>
  PROVE  CallsKept'
<1> USE DEF CallsKept
<1>1. transcript'[c] = t /\ \A d \in Calls : d # c => transcript'[d] = transcript[d]
  OBVIOUS
<1>2. t # Absent
  BY DEF Absent
<1>3. TranscriptionsAreBounded'
  BY <1>1 DEF TranscriptionsAreBounded
<1>4. OnlyRemovedAreMissing'
  BY <1>1, <1>2 DEF OnlyRemovedAreMissing
<1> QED
  BY <1>3, <1>4

(* Every step keeps the calls. *)
LEMMA CallsStep ==
  ASSUME TypeOK, TranscriptionsAreBounded, JobsInProcess, OnlyRemovedAreMissing, [Next]_vars
  PROVE  CallsKept'
<1> USE NetelipBounds
<1>0. CallsKept
  BY DEF CallsKept, TypeOK
<1>1. CASE HandleRow
  <2>1. item \in Rows /\ row[item] \in RowStates
    BY <1>1 DEF HandleRow, TypeOK, Rows
  <2>2. row[item].call \in Calls
    BY <2>1 DEF RowStates
  <2> QED
    BY <1>0, <1>1, <2>2, IngestKeeps DEF HandleRow
<1>2. ASSUME NEW c \in Calls, Recover(c) \/ Judge(c)
      PROVE  CallsKept'
  BY <1>0, <1>2, IngestKeeps DEF Recover, Judge, Restore
<1>3. ASSUME NEW w \in Workers, NEW c \in Calls, ClaimTranscript(w, c)
      PROVE  CallsKept'
  <2> DEFINE t == [transcript[c] EXCEPT !.status = "processing", !.due = FALSE]
  <2>1. /\ transcript[c].status \in {"pending", "processing"}
        /\ transcript' = [transcript EXCEPT ![c] = t] /\ UNCHANGED <<stored, removed>>
    BY <1>3 DEF ClaimTranscript, Due, TypeOK
  <2>2. /\ t \in [status : Statuses, attempts : 0..TranscriptionAttempts, due : BOOLEAN]
        /\ t.status = "processing" /\ t.attempts < TranscriptionAttempts
    BY <2>1 DEF TypeOK, Statuses, TranscriptionsAreBounded
  <2>3. transcript[c] # Absent
    BY <2>1 DEF Absent
  <2> QED
    BY <1>0, <2>1, <2>2, <2>3, OneChangeKeeps
<1>4. ASSUME NEW w \in Workers, Transcribed(w) \/ NotTranscribed(w)
      PROVE  CallsKept'
  <2>1. /\ job[w] \in Calls /\ UNCHANGED <<stored, removed>>
        /\ transcript[job[w]] # Absent => transcript[job[w]].status = "processing"
    BY <1>4 DEF Transcribed, NotTranscribed, EndJob, TypeOK, JobsInProcess
  <2>2. CASE transcript[job[w]] = Absent
    BY <1>0, <1>4, <2>1, <2>2 DEF Transcribed, NotTranscribed, Write, CallsKept,
         TranscriptionsAreBounded, OnlyRemovedAreMissing
  <2>3. CASE transcript[job[w]] # Absent
    <3> DEFINE n == transcript[job[w]].attempts + 1
    <3>1. n \in 0..TranscriptionAttempts
      BY <2>1, <2>3 DEF TypeOK, TranscriptionsAreBounded
    <3>2. PICK u \in {"completed", "failed", "pending"} :
            /\ transcript' = [transcript EXCEPT ![job[w]] =
                                [status |-> u, attempts |-> n, due |-> FALSE]]
            /\ u = "pending" => ~(n >= TranscriptionAttempts)
      BY <1>4, <2>3 DEF Transcribed, NotTranscribed, Write
    <3> DEFINE t == [status |-> u, attempts |-> n, due |-> FALSE]
    <3>3. /\ t \in [status : Statuses, attempts : 0..TranscriptionAttempts, due : BOOLEAN]
          /\ t.status = u /\ t.attempts = n
      BY <3>1 DEF Statuses
    <3>4. u \in {"pending", "processing"} => n < TranscriptionAttempts
      BY <3>1, <3>2
    <3> HIDE DEF n
    <3>5. transcript' = [transcript EXCEPT ![job[w]] = t]
      BY <3>2
    <3> HIDE DEF t
    <3> QED
      BY <1>0, <2>1, <2>3, <3>3, <3>4, <3>5, OneChangeKeeps
  <2> QED
    BY <2>2, <2>3
<1>5. ASSUME NEW c \in Calls, TranscriptDue(c)
      PROVE  CallsKept'
  <2> DEFINE t == [transcript[c] EXCEPT !.due = TRUE]
  <2>1. /\ transcript[c].status \in {"pending", "processing"}
        /\ transcript' = [transcript EXCEPT ![c] = t] /\ UNCHANGED <<stored, removed>>
    BY <1>5 DEF TranscriptDue, TypeOK
  <2>2. /\ t \in [status : Statuses, attempts : 0..TranscriptionAttempts, due : BOOLEAN]
        /\ t.status = transcript[c].status /\ t.attempts < TranscriptionAttempts
    BY <2>1 DEF TypeOK, Statuses, TranscriptionsAreBounded
  <2>3. transcript[c] # Absent
    BY <2>1 DEF Absent
  <2> QED
    BY <1>0, <2>1, <2>2, <2>3, OneChangeKeeps
<1>6. ASSUME NEW c \in Calls, RemoveTranscript(c)
      PROVE  CallsKept'
  <2>1. /\ transcript' = [transcript EXCEPT ![c] = Absent]
        /\ removed' = removed \cup {c} /\ stored' = stored /\ c \in stored
    BY <1>6 DEF RemoveTranscript
  <2>2. Absent \in [status : Statuses, attempts : 0..TranscriptionAttempts, due : BOOLEAN]
    BY DEF Absent, Statuses
  <2>3. transcript'[c] = Absent /\ \A d \in Calls : d # c => transcript'[d] = transcript[d]
    BY <2>1 DEF TypeOK
  <2>4. TranscriptionsAreBounded'
    BY <2>3 DEF TranscriptionsAreBounded, Absent
  <2>5. OnlyRemovedAreMissing'
    BY <2>1, <2>3 DEF OnlyRemovedAreMissing
  <2> QED
    BY <1>0, <2>1, <2>2, <2>4, <2>5 DEF CallsKept
<1>7. CASE (\E w \in Workers : TranscriptionFails(w)) \/ Crash
           \/ UNCHANGED <<stored, transcript, removed, job>>
  <2>1. UNCHANGED <<stored, transcript, removed>>
    BY <1>7 DEF TranscriptionFails, EndJob, Crash, callVars
  <2> QED
    BY <1>0, <2>1 DEF CallsKept, TranscriptionsAreBounded, OnlyRemovedAreMissing
<1> QED
  BY <1>1, <1>2, <1>3, <1>4, <1>5, <1>6, <1>7, CallSteps

(* One execution transcribes at a time, a call that stays in process or    *)
(* whose transcription has been removed meanwhile.                         *)
LEMMA JobsStep ==
  ASSUME TypeOK, TranscriptionsAreBounded, JobsInProcess, OnlyRemovedAreMissing, [Next]_vars
  PROVE  job' \in [Workers -> Calls \cup {None}] /\ JobsInProcess'
<1> USE CallAssumption DEF JobsInProcess
<1>0. CallsKept /\ job \in [Workers -> Calls \cup {None}]
  BY DEF CallsKept, TypeOK
<1>1. ASSUME NEW c \in Calls, UNCHANGED <<job, removed>>,
             Ingest(c) \/ UNCHANGED <<stored, transcript>>
      PROVE  JobsInProcess'
  <2>1. \A d \in stored : transcript'[d] = transcript[d]
    BY <1>0, <1>1, IngestKeeps
  <2>2. stored \subseteq stored'
    BY <1>1 DEF Ingest
  <2> QED
    BY <1>1, <2>1, <2>2
<1>2. CASE HandleRow
  <2>1. item \in Rows /\ row[item] \in RowStates
    BY <1>2 DEF HandleRow, TypeOK, Rows
  <2>2. row[item].call \in Calls
    BY <2>1 DEF RowStates
  <2> QED
    BY <1>0, <1>1, <1>2, <2>2 DEF HandleRow
<1>3. ASSUME NEW c \in Calls, Recover(c) \/ Judge(c)
      PROVE  UNCHANGED job /\ JobsInProcess'
  BY <1>1, <1>3 DEF Recover, Judge, Restore, reconcileVars
<1>4. ASSUME NEW w \in Workers, NEW c \in Calls, ClaimTranscript(w, c)
      PROVE  job' \in [Workers -> Calls \cup {None}] /\ JobsInProcess'
  <2>1. /\ job' = [job EXCEPT ![w] = c] /\ \A v \in Workers : job[v] = None
        /\ transcript'[c].status = "processing" /\ stored' = stored
        /\ transcript[c].status \in {"pending", "processing"}
    BY <1>4 DEF ClaimTranscript, Single, Due, TypeOK
  <2>2. c \in stored
    BY <2>1 DEF OnlyRemovedAreMissing, Absent
  <2> QED
    BY <1>0, <2>1, <2>2
<1>5. ASSUME NEW w \in Workers, Transcribed(w) \/ NotTranscribed(w) \/ TranscriptionFails(w)
      PROVE  job' \in [Workers -> Calls \cup {None}] /\ JobsInProcess'
  <2>1. job' = [job EXCEPT ![w] = None] /\ job[w] # None
    BY <1>5 DEF Transcribed, NotTranscribed, TranscriptionFails, EndJob
  <2>2. \A v \in Workers : job'[v] = None
    BY <1>0, <2>1
  <2> QED
    BY <1>0, <2>1, <2>2
<1>6. ASSUME NEW c \in Calls, TranscriptDue(c) \/ RemoveTranscript(c)
      PROVE  UNCHANGED job /\ JobsInProcess'
  <2>1. UNCHANGED <<job, stored>>
    BY <1>6 DEF TranscriptDue, RemoveTranscript, taskVars
  <2>2. ASSUME NEW d \in Calls
        PROVE  transcript'[d] = Absent \/ transcript'[d].status = transcript[d].status
    <3>1. CASE TranscriptDue(c)
      BY <1>0, <3>1 DEF TranscriptDue, CallsKept
    <3>2. CASE RemoveTranscript(c)
      BY <1>0, <3>2 DEF RemoveTranscript, CallsKept
    <3> QED
      BY <1>6, <3>1, <3>2
  <2>3. ASSUME NEW d \in Calls, transcript[d] = Absent
        PROVE  transcript'[d] = Absent
    <3>1. transcript[d].status = "none"
      BY <2>3 DEF Absent
    <3>2. CASE TranscriptDue(c)
      BY <1>0, <2>3, <3>1, <3>2 DEF TranscriptDue, CallsKept
    <3>3. CASE RemoveTranscript(c)
      BY <1>0, <2>3, <3>3 DEF RemoveTranscript, CallsKept
    <3> QED
      BY <1>6, <3>2, <3>3
  <2> QED
    BY <1>0, <2>1, <2>2, <2>3
<1>7. CASE Crash
  <2>1. job' = [w \in Workers |-> None]
    BY <1>7 DEF Crash
  <2> QED
    BY <2>1
<1>8. CASE UNCHANGED <<stored, transcript, removed, job>>
  BY <1>0, <1>8
<1> QED
  BY <1>0, <1>2, <1>3, <1>4, <1>5, <1>6, <1>7, <1>8, CallSteps DEF HandleRow

-----------------------------------------------------------------------------
(* What the reports, the recovery and the reconciliation keep in type. *)
LEMMA ReportTypes ==
  ASSUME TypeOK, [Next]_vars
  PROVE  /\ report' \in [Calls -> Results \cup Forms \cup {"none"}]
         /\ old' \subseteq Calls /\ alerted' \subseteq Calls
         /\ checking' \subseteq Calls /\ missing' \subseteq Calls /\ reconciling' \in BOOLEAN
         /\ verdict' \in (Calls \X Results) \cup {None}
         /\ seeking' \subseteq Calls
<1> USE DEF TypeOK, inboxVars, reconcileVars, taskVars, reportVars, callVars, EndJob
<1>1. CASE UNCHANGED vars
  BY <1>1 DEF vars
<1>2. CASE \E c \in Calls, kind \in {"recording"} \cup Forms : Accept(kind, c)
  BY <1>2 DEF Accept
<1>3. CASE HandleRow
  <2>1. item \in Rows /\ row[item] \in RowStates
    BY <1>3 DEF HandleRow, Rows
  <2>2. report' \in [Calls -> Results \cup Forms \cup {"none"}]
    BY <1>3, <2>1 DEF HandleRow, RowStates
  <2> QED
    BY <1>3, <2>2 DEF HandleRow
<1>4. CASE ClaimRows \/ (\E i \in Ids : TakeRow(i)) \/ FinishRow \/ FailRow \/ InboxFails
           \/ \E i \in Ids : RowDue(i)
  BY <1>4 DEF ClaimRows, TakeRow, FinishRow, FailRow, InboxFails, RowDue
<1>5. CASE WorkerStep \/ \E w \in Workers : NotTranscribed(w) \/ TranscriptionFails(w)
  BY <1>5 DEF WorkerStep, ClaimTranscript, Transcribed, NotTranscribed, TranscriptionFails
<1>6. CASE StartRecovery \/ RecoveryFails \/ \E c \in Calls : NotOnVdrive(c)
  BY <1>6 DEF RecoveryFails, StartRecovery, NotOnVdrive, RecoveryEnds
<1>7. ASSUME NEW c \in Calls, RecoveryPresent(c) \/ Recover(c)
      PROVE  /\ report' \in [Calls -> Results \cup Forms \cup {"none"}]
             /\ seeking' \subseteq Calls /\ UNCHANGED <<old, alerted, reconcileVars>>
  BY <1>7 DEF RecoveryPresent, Recover, RecoveryEnds, Close, Results
<1>8. ASSUME NEW c \in Calls, Judge(c)
      PROVE  /\ verdict' \in Calls \X Results /\ missing' \subseteq Calls
             /\ UNCHANGED <<reportVars, checking, reconciling, seeking>>
  BY <1>8 DEF Judge, Judgement, Results
<1>9. CASE WriteVerdict
  <2>1. verdict \in Calls \X Results
    BY <1>9 DEF WriteVerdict
  <2> QED
    BY <1>9, <2>1 DEF WriteVerdict, Close
<1>10. CASE StartReconciliation \/ Notify \/ ReconciliationFails \/ Crash
  BY <1>10 DEF StartReconciliation, Notify, ReconciliationFails, StopReconciling, Crash
<1>11. CASE \E c \in Calls : Passing(c) \/ RemoveTranscript(c)
  BY <1>11 DEF Passing, TranscriptDue, Aged, RemoveTranscript
<1> QED
  BY <1>1, <1>2, <1>3, <1>4, <1>5, <1>6, <1>7, <1>8, <1>9, <1>10, <1>11
     DEF Next, InboxStep, RecoveryStep, ReconcileStep

(* A verdict of present or recovered has its call, which stays stored. *)
LEMMA VerdictStep ==
  ASSUME TypeOK, VerdictsAreTrue, [Next]_vars
  PROVE  VerdictsAreTrue'
<1> USE DEF VerdictsAreTrue
<1>1. stored \subseteq stored'
  BY NothingIsForgotten
<1>2. ASSUME NEW c \in Calls, Judge(c)
      PROVE  VerdictsAreTrue'
  <2>1. verdict' = <<c, Judgement(c)>> /\ Restore(c)
    BY <1>2 DEF Judge
  <2>2. Judgement(c) # "reported" => c \in stored'
    BY <1>1, <2>1 DEF Judgement, Restore, Ingest
  <2> QED
    BY <2>1, <2>2
<1>3. CASE verdict' = verdict \/ verdict' = None
  BY <1>1, <1>3
<1>4. (\E c \in Calls : Judge(c)) \/ verdict' = verdict \/ verdict' = None
  <2> USE DEF inboxVars, reconcileVars, taskVars, reportVars, callVars, EndJob
  <2>1. CASE UNCHANGED vars
    BY <2>1 DEF vars
  <2>2. CASE \E c \in Calls, kind \in {"recording"} \cup Forms : Accept(kind, c)
    BY <2>2 DEF Accept
  <2>3. CASE InboxStep \/ FailRow \/ InboxFails \/ \E i \in Ids : RowDue(i)
    BY <2>3 DEF InboxStep, ClaimRows, TakeRow, HandleRow, FinishRow, FailRow, InboxFails, RowDue
  <2>4. CASE WorkerStep \/ \E w \in Workers : NotTranscribed(w) \/ TranscriptionFails(w)
    BY <2>4 DEF WorkerStep, ClaimTranscript, Transcribed, NotTranscribed, TranscriptionFails
  <2>5. CASE RecoveryStep \/ RecoveryFails
    BY <2>5 DEF RecoveryStep, RecoveryFails, StartRecovery, RecoveryPresent, NotOnVdrive, Recover
  <2>6. CASE ReconcileStep \/ ReconciliationFails \/ Crash
    BY <2>6 DEF ReconcileStep, ReconciliationFails, StartReconciliation, WriteVerdict, Notify,
                StopReconciling, Crash
  <2>7. CASE \E c \in Calls : Passing(c) \/ RemoveTranscript(c)
    BY <2>7 DEF Passing, TranscriptDue, Aged, RemoveTranscript
  <2> QED
    BY <2>1, <2>2, <2>3, <2>4, <2>5, <2>6, <2>7 DEF Next
<1> QED
  BY <1>2, <1>3, <1>4

(* A report is closed as present or recovered with its call stored. *)
LEMMA ClosedStep ==
  ASSUME TypeOK, VerdictsAreTrue, ClosedReportsAreTrue, [Next]_vars
  PROVE  ClosedReportsAreTrue'
<1> USE DEF ClosedReportsAreTrue, TypeOK
<1>1. stored \subseteq stored'
  BY NothingIsForgotten
<1>2. CASE HandleRow
  <2>1. item \in Rows /\ row[item] \in RowStates
    BY <1>2 DEF HandleRow, Rows
  <2> QED
    BY <1>1, <1>2, <2>1 DEF HandleRow, RowStates, Forms, Results
<1>3. ASSUME NEW c \in Calls, RecoveryPresent(c) \/ Recover(c)
      PROVE  ClosedReportsAreTrue'
  <2>1. c \in stored'
    BY <1>1, <1>3 DEF RecoveryPresent, Recover, Ingest
  <2>2. \A d \in Calls : d # c => report'[d] = report[d]
    BY <1>3 DEF RecoveryPresent, Recover, Close
  <2> QED
    BY <1>1, <2>1, <2>2
<1>4. CASE WriteVerdict
  <2>1. verdict \in Calls \X Results
    BY <1>4 DEF WriteVerdict
  <2>2. report' = [report EXCEPT ![verdict[1]] = verdict[2]]
    BY <1>4 DEF WriteVerdict, Close
  <2>3. verdict[2] \in {"present", "recovered"} => verdict[1] \in stored'
    BY <1>1, <1>4 DEF WriteVerdict, VerdictsAreTrue
  <2> QED
    BY <1>1, <2>1, <2>2, <2>3
<1> QED
  BY <1>1, <1>2, <1>3, <1>4, ReportSteps

-----------------------------------------------------------------------------
(* The strengthening holds at the start. *)
LEMMA CallsInit ==
  ASSUME Init
  PROVE  CallsInv
<1> USE NetelipBounds, CallAssumption DEF Init
<1>1. Rows = {}
  BY DEF Rows
<1>2. TypeOK
  <2>1. Absent \in [status : Statuses, attempts : 0..TranscriptionAttempts, due : BOOLEAN]
    BY DEF Absent, Statuses
  <2>2. transcript \in [Calls -> [status : Statuses, attempts : 0..TranscriptionAttempts,
                                  due : BOOLEAN]]
    BY <2>1
  <2>3. row \in [Ids -> RowStates \cup {None}]
    OBVIOUS
  <2>4. faults \in 0..MaxFaults
    OBVIOUS
  <2> QED
    BY <1>1, <2>2, <2>3, <2>4 DEF TypeOK
<1> QED
  BY <1>1, <1>2 DEF CallsInv, RowsAreBounded, TranscriptionsAreBounded, RowsInHand, JobsInProcess,
     VerdictsAreTrue, DoneMeansStored, OnlyRemovedAreMissing, ClosedReportsAreTrue, Absent

(* And every step keeps it. *)
LEMMA CallsInvStep ==
  ASSUME CallsInv, [Next]_vars
  PROVE  CallsInv'
<1> USE DEF CallsInv
<1>1. CallsKept' /\ job' \in [Workers -> Calls \cup {None}] /\ JobsInProcess'
  BY CallsStep, JobsStep
<1>2. RowsAreBounded' /\ RowsInHand' /\ DoneMeansStored'
  BY RowBoundStep, HandStep, DoneStep
<1>3. VerdictsAreTrue' /\ ClosedReportsAreTrue'
  BY VerdictStep, ClosedStep
<1>4. TypeOK'
  BY <1>1, RowTypes, HandTypes, ReportTypes, FaultsAreCounted DEF TypeOK, CallsKept
<1> QED
  BY <1>1, <1>2, <1>3, <1>4 DEF CallsKept

(* The inductive invariant of the calls, types included, always holds. *)
THEOREM CallsInvariant == Spec => []CallsInv
<1>1. Init => CallsInv
  BY CallsInit
<1>2. CallsInv /\ [Next]_vars => CallsInv'
  BY CallsInvStep
<1> QED
  BY <1>1, <1>2, PTL DEF Spec

(* Types: a webhook counts at most its attempts and the failures, and a    *)
(* transcription is never tried more often than allowed.                   *)
THEOREM CallsTypeCorrect == Spec => []TypeOK
<1>1. CallsInv => TypeOK
  BY DEF CallsInv
<1> QED
  BY <1>1, CallsInvariant, PTL

(* What the inbox took as done was carried out, through retries, repeated  *)
(* webhooks, failures and crashes.                                         *)
THEOREM DoneIsStored == Spec => []DoneMeansStored
<1>1. CallsInv => DoneMeansStored
  BY DEF CallsInv
<1> QED
  BY <1>1, CallsInvariant, PTL

(* Every call stored has its transcription, in whatever state, unless it   *)
(* was erased or expired, and then it does not come back.                  *)
THEOREM RemovedStayMissing == Spec => []OnlyRemovedAreMissing
<1>1. CallsInv => OnlyRemovedAreMissing
  BY DEF CallsInv
<1> QED
  BY <1>1, CallsInvariant, PTL

(* A report closed as present or recovered has its call. *)
THEOREM ClosedAreTrue == Spec => []ClosedReportsAreTrue
<1>1. CallsInv => ClosedReportsAreTrue
  BY DEF CallsInv
<1> QED
  BY <1>1, CallsInvariant, PTL

(* A completed transcription is never undone, unless its call is removed:  *)
(* no second execution takes it, and no repeated storage resets it.        *)
THEOREM CompletedStays == Spec => CompletedForGood
<1> DEFINE Kept == \A c \in Calls : transcript[c].status = "completed"
                     => transcript'[c].status = "completed" \/ c \in removed'
<1>1. ASSUME CallsInv, [Next]_vars
      PROVE  Kept
  <2> SUFFICES ASSUME NEW c \in Calls, transcript[c].status = "completed"
               PROVE  transcript'[c].status = "completed" \/ c \in removed'
    OBVIOUS
  <2> USE <1>1 DEF CallsInv, TypeOK
  <2>1. c \in stored /\ CallsKept
    BY DEF OnlyRemovedAreMissing, Absent, CallsKept
  <2>2. ASSUME NEW d \in Calls, Ingest(d) \/ UNCHANGED <<stored, transcript>>, UNCHANGED removed
        PROVE  transcript'[c].status = "completed"
    BY <2>1, <2>2, IngestKeeps
  <2>3. CASE HandleRow
    <3>1. item \in Rows /\ row[item] \in RowStates
      BY <2>3 DEF HandleRow, Rows
    <3>2. row[item].call \in Calls
      BY <3>1 DEF RowStates
    <3> QED
      BY <2>2, <2>3, <3>2 DEF HandleRow
  <2>4. CASE \E d \in Calls : Recover(d) \/ Judge(d)
    BY <2>2, <2>4 DEF Recover, Judge, Restore
  <2>5. CASE \E w \in Workers, d \in Calls : ClaimTranscript(w, d)
    BY <2>5 DEF ClaimTranscript, Due
  <2>6. ASSUME NEW w \in Workers, Transcribed(w) \/ NotTranscribed(w) \/ TranscriptionFails(w)
        PROVE  transcript'[c].status = "completed"
    <3>1. job[w] # c
      BY <2>6 DEF Transcribed, NotTranscribed, TranscriptionFails, EndJob, JobsInProcess, Absent
    <3> QED
      BY <2>6, <3>1 DEF Transcribed, NotTranscribed, TranscriptionFails, Write
  <2>7. CASE \E d \in Calls : TranscriptDue(d) \/ RemoveTranscript(d)
    BY <2>7 DEF TranscriptDue, RemoveTranscript
  <2>8. CASE Crash \/ UNCHANGED <<stored, transcript, removed, job>>
    BY <2>8 DEF Crash, callVars
  <2> QED
    BY <2>3, <2>4, <2>5, <2>6, <2>7, <2>8, CallSteps
<1>2. CallsInv /\ [Next]_vars => [Kept]_vars
  BY <1>1
<1> QED
  BY <1>2, CallsInvariant, PTL DEF Spec, CompletedForGood
=============================================================================
