---------------------------- MODULE NetelipCalls ----------------------------
(***************************************************************************)
(* Telephone calls of Netelip (backend/netelip): the durable inbox of      *)
(* webhooks, the calls and their transcriptions, the report of calls with  *)
(* its recovery from vDrive and its reconciliation after 24 hours, and the *)
(* erasure and retention of what was said.                                 *)
(*                                                                         *)
(* Each background task of the process runs one execution at a time        *)
(* (singleFlight); requests of the API and other tasks run beside it. An   *)
(* action is one statement or transaction, or one answer of an outer       *)
(* service. Clocks are abstract: a delay is a flag that may turn on.       *)
(***************************************************************************)
EXTENDS Naturals, FiniteSets

CONSTANTS
  Calls,     \* answered, recorded calls with the outside, by the id of Netelip
  Workers,   \* executions of the transcription task that might coexist
  None,
  InboxAttempts,         \* INBOX_MAX_ATTEMPTS (10)
  TranscriptionAttempts, \* MAX_TRANSCRIPTION_ATTEMPTS (3)
  MaxRows,   \* bound: webhooks ever stored in the inbox
  MaxFaults  \* bound: failing statements and services, and process deaths

ASSUME CallAssumption == None \notin Calls
ASSUME NetelipBounds ==
  /\ InboxAttempts \in Nat \ {0} /\ TranscriptionAttempts \in Nat \ {0}
  /\ MaxRows \in Nat /\ MaxFaults \in Nat

VARIABLES
  row,        \* netelip_inbox, None where there is no row
  stored,     \* netelip_calls
  transcript, \* netelip_call_transcriptions: status, attempts, and due
  removed,    \* calls whose transcription was erased or expired
  report,     \* netelip_call_reports: none, a form if it is open, or its result
  old,        \* reports of more than 24 hours
  alerted,    \* calls told to the technical team as missing
  batch,      \* rows the inbox task has claimed and not finished
  item,       \* the row it handles, 0 for none
  ingested,   \* whether the call of that row has been stored
  job,        \* the call each transcription execution works on
  checking,   \* reports the reconciliation still has to see
  verdict,    \* its result for one of them, before it is written
  missing,    \* the calls it will tell the technical team about
  reconciling,\* whether it is under way
  seeking,    \* reports the recovery still has to see
  faults

inboxVars     == <<batch, item, ingested>>
reconcileVars == <<checking, verdict, missing, reconciling>>
taskVars      == <<inboxVars, job, reconcileVars, seeking>>
callVars      == <<stored, transcript, removed>>
reportVars    == <<report, old, alerted>>
vars == <<row, callVars, reportVars, taskVars, faults>>

-----------------------------------------------------------------------------
Ids     == 1..MaxRows
Rows    == {i \in Ids : row[i] # None}
(* A report row carries the ID of its call, or the documented form, which  *)
(* has its audio.                                                          *)
Forms   == {"listed", "audio"}
Results == {"present", "recovered", "reported"}
Open(c) == report[c] \in Forms
Absent  == [status |-> "none", attempts |-> 0, due |-> FALSE]
Pending == [status |-> "pending", attempts |-> 0, due |-> TRUE]

Init ==
  /\ row = [i \in Ids |-> None]
  /\ stored = {} /\ removed = {}
  /\ transcript = [c \in Calls |-> Absent]
  /\ report = [c \in Calls |-> "none"]
  /\ old = {} /\ alerted = {}
  /\ batch = {} /\ item = 0 /\ ingested = FALSE
  /\ job = [w \in Workers |-> None]
  /\ checking = {} /\ verdict = None /\ missing = {} /\ reconciling = FALSE
  /\ seeking = {}
  /\ faults = 0

Fault == faults < MaxFaults /\ faults' = faults + 1

(* insertCall: one transaction under a lock by id. A call that exists is   *)
(* left as it is; a new one gets its pending transcription.                *)
Creates(c) == c \notin stored
Ingest(c) ==
  /\ stored' = stored \cup {c}
  /\ transcript' = IF Creates(c) THEN [transcript EXCEPT ![c] = Pending] ELSE transcript

-----------------------------------------------------------------------------
(* The receiver: one row per webhook, repeated or not. *)
Accept(kind, c) ==
  /\ Cardinality(Rows) < MaxRows
  /\ LET i == CHOOSE k \in Ids \ Rows : TRUE IN
       row' = [row EXCEPT ![i] = [kind |-> kind, call |-> c, status |-> "pending",
                                  attempts |-> 0, due |-> TRUE]]
  /\ UNCHANGED <<callVars, reportVars, taskVars, faults>>

Update(i, f, v) == row' = [row EXCEPT ![i][f] = v]

(* processInbox: the due rows are claimed for five minutes. *)
Claimable == {i \in Rows : row[i].status = "pending" /\ row[i].due}
ClaimRows ==
  /\ batch = {} /\ Claimable # {}
  /\ batch' = Claimable
  /\ row' = [i \in Ids |-> IF i \in Claimable
                           THEN [row[i] EXCEPT !.attempts = @ + 1, !.due = FALSE]
                           ELSE row[i]]
  /\ UNCHANGED <<item, ingested, job, reconcileVars, seeking, callVars, reportVars, faults>>

TakeRow(i) ==
  /\ i \in batch /\ item = 0
  /\ item' = i
  /\ UNCHANGED <<row, batch, ingested, job, reconcileVars, seeking, callVars, reportVars, faults>>

(* A recording becomes a call. A report row is stored for reconciliation,  *)
(* over the one of its call; the result of a closed one stays.             *)
HandleRow ==
  /\ item # 0 /\ ~ingested
  /\ ingested' = TRUE
  /\ LET c == row[item].call IN
       IF row[item].kind = "recording"
       THEN Ingest(c) /\ report' = report
       ELSE /\ report' = [report EXCEPT ![c] = IF @ \in Results THEN @ ELSE row[item].kind]
            /\ UNCHANGED <<stored, transcript>>
  /\ UNCHANGED <<row, removed, old, alerted, batch, item, job, reconcileVars, seeking, faults>>

LeaveRow == batch' = batch \ {item} /\ item' = 0 /\ ingested' = FALSE

Handled == item # 0 /\ ingested
FinishRow ==
  /\ Handled
  /\ Update(item, "status", "done")
  /\ LeaveRow
  /\ UNCHANGED <<job, reconcileVars, seeking, callVars, reportVars, faults>>

FailRow ==
  /\ Fault /\ item # 0
  /\ Update(item, "status", IF row[item].attempts >= InboxAttempts THEN "failed" ELSE "pending")
  /\ LeaveRow
  /\ UNCHANGED <<job, reconcileVars, seeking, callVars, reportVars>>

(* Its failure cannot be written either: the rest of the batch is dropped. *)
InboxFails ==
  /\ Fault /\ item # 0
  /\ batch' = {} /\ item' = 0 /\ ingested' = FALSE
  /\ UNCHANGED <<row, job, reconcileVars, seeking, callVars, reportVars>>

(* The lease or the retry delay of a row passes. *)
RowDue(i) ==
  /\ i \in Rows /\ row[i].status = "pending" /\ ~row[i].due
  /\ Update(i, "due", TRUE)
  /\ UNCHANGED <<callVars, reportVars, taskVars, faults>>

-----------------------------------------------------------------------------
(* processNextTranscription, in a loop that does not overlap itself: the   *)
(* attempts it has read are still the ones in the row when it ends. What   *)
(* was being transcribed when the process stopped is due after its lease.  *)
MutDue(c) == transcript[c].status = "pending" /\ transcript[c].due
Due(c) == transcript[c].status \in {"pending", "processing"} /\ transcript[c].due
Single(w) == \A v \in Workers : job[v] = None
ClaimTranscript(w, c) ==
  /\ Single(w) /\ Due(c)
  /\ job' = [job EXCEPT ![w] = c]
  /\ transcript' = [transcript EXCEPT ![c].status = "processing", ![c].due = FALSE]
  /\ UNCHANGED <<row, stored, removed, reportVars, inboxVars, reconcileVars, seeking, faults>>

(* An UPDATE of the row of the call, if it is still there. *)
MutWrite(c, t) == transcript' = [transcript EXCEPT ![c] = t]
Write(c, t) ==
  transcript' = IF transcript[c] = Absent THEN transcript ELSE [transcript EXCEPT ![c] = t]

EndJob(w) ==
  /\ job[w] # None /\ job' = [job EXCEPT ![w] = None]
  /\ UNCHANGED <<row, stored, removed, reportVars, inboxVars, reconcileVars, seeking>>

Transcribed(w) ==
  /\ EndJob(w)
  /\ Write(job[w], [status |-> "completed", attempts |-> transcript[job[w]].attempts + 1,
                    due |-> FALSE])
  /\ UNCHANGED faults

NotTranscribed(w) ==
  /\ Fault /\ EndJob(w)
  /\ LET attempt == transcript[job[w]].attempts + 1 IN
       Write(job[w], [status |-> IF attempt >= TranscriptionAttempts THEN "failed" ELSE "pending",
                      attempts |-> attempt, due |-> FALSE])

(* The outcome cannot be written: the row stays in process, with its lease. *)
TranscriptionFails(w) == Fault /\ EndJob(w) /\ UNCHANGED transcript

TranscriptDue(c) ==
  /\ transcript[c].status \in {"pending", "processing"} /\ ~transcript[c].due
  /\ transcript' = [transcript EXCEPT ![c].due = TRUE]
  /\ UNCHANGED <<row, stored, removed, reportVars, taskVars, faults>>

(* eraseCalls, or the retention of a call that has become too old.         *)
RemoveTranscript(c) ==
  /\ c \in stored /\ c \notin removed
  /\ removed' = removed \cup {c}
  /\ transcript' = [transcript EXCEPT ![c] = Absent]
  /\ UNCHANGED <<row, stored, reportVars, taskVars, faults>>

-----------------------------------------------------------------------------
(* recoverFromVdrive: open reports that carry an ID are looked up in vDrive,*)
(* where a recording may not be, or not be yet.                            *)
Close(c, result) == report' = [report EXCEPT ![c] = result]

StartRecovery ==
  /\ seeking = {}
  /\ seeking' = {c \in Calls : report[c] = "listed"} /\ seeking' # {}
  /\ UNCHANGED <<row, callVars, reportVars, inboxVars, job, reconcileVars, faults>>

RecoveryEnds(c) == seeking' = seeking \ {c}
RecoveryPresent(c) ==
  /\ c \in seeking \cap stored
  /\ Close(c, "present")
  /\ RecoveryEnds(c)
  /\ UNCHANGED <<row, callVars, old, alerted, inboxVars, job, reconcileVars, faults>>

NotOnVdrive(c) ==
  /\ c \in seeking \ stored
  /\ RecoveryEnds(c)
  /\ UNCHANGED <<row, callVars, reportVars, inboxVars, job, reconcileVars, faults>>

(* The call is stored, then its report is closed: the process may stop     *)
(* between both, and the next execution finds the call present.            *)
MutRecover(c) ==
  /\ c \in seeking
  /\ Close(c, "recovered") /\ RecoveryEnds(c)
  /\ UNCHANGED <<row, callVars, old, alerted, inboxVars, job, reconcileVars, faults>>
Recover(c) ==
  /\ c \in seeking
  /\ Ingest(c)
  /\ \/ Close(c, IF Creates(c) THEN "recovered" ELSE "present") /\ RecoveryEnds(c)
        /\ UNCHANGED faults
     \/ Fault /\ seeking' = {} /\ report' = report
  /\ UNCHANGED <<row, removed, old, alerted, inboxVars, job, reconcileVars>>

-----------------------------------------------------------------------------
(* reconcile: what is still open after 24 hours is judged one by one, and  *)
(* the technical team is told of the missing calls when all have been.     *)
Aged(c) ==
  /\ report[c] # "none" /\ c \notin old
  /\ old' = old \cup {c}
  /\ UNCHANGED <<row, callVars, report, alerted, taskVars, faults>>

StartReconciliation ==
  /\ ~reconciling /\ reconciling' = TRUE
  /\ checking' = {c \in old : Open(c)} /\ checking' # {}
  /\ UNCHANGED <<row, callVars, reportVars, inboxVars, job, verdict, missing, seeking, faults>>

Judgement(c) ==
  IF c \in stored THEN "present"
  ELSE IF report[c] = "audio" THEN "recovered"
  ELSE "reported"

Restore(c) ==
  IF Judgement(c) = "recovered" THEN Ingest(c) ELSE UNCHANGED <<stored, transcript>>
Judge(c) ==
  /\ c \in checking /\ verdict = None
  /\ Restore(c)
  /\ verdict' = <<c, Judgement(c)>>
  /\ missing' = IF Judgement(c) = "reported" THEN missing \cup {c} ELSE missing
  /\ UNCHANGED <<row, removed, reportVars, inboxVars, job, checking, reconciling, seeking, faults>>

WriteVerdict ==
  /\ verdict # None
  /\ Close(verdict[1], verdict[2])
  /\ checking' = checking \ {verdict[1]}
  /\ verdict' = None
  /\ UNCHANGED <<row, callVars, old, alerted, inboxVars, job, missing, reconciling, seeking, faults>>

Notify ==
  /\ reconciling /\ checking = {} /\ verdict = None
  /\ reconciling' = FALSE /\ missing' = {}
  /\ alerted' = alerted \cup missing
  /\ UNCHANGED <<row, callVars, report, old, inboxVars, job, checking, verdict, seeking, faults>>

-----------------------------------------------------------------------------
StopReconciling == checking' = {} /\ verdict' = None /\ missing' = {} /\ reconciling' = FALSE

(* A statement of the reconciliation fails: its execution is abandoned.    *)
ReconciliationFails ==
  /\ Fault /\ reconciling
  /\ StopReconciling
  /\ UNCHANGED <<row, callVars, reportVars, inboxVars, job, seeking>>

RecoveryFails ==
  /\ Fault /\ seeking # {}
  /\ seeking' = {}
  /\ UNCHANGED <<row, callVars, reportVars, inboxVars, job, reconcileVars>>

Crash ==
  /\ Fault
  /\ batch' = {} /\ item' = 0 /\ ingested' = FALSE
  /\ job' = [w \in Workers |-> None]
  /\ seeking' = {}
  /\ StopReconciling
  /\ UNCHANGED <<row, callVars, reportVars>>

InboxStep     == ClaimRows \/ (\E i \in Ids : TakeRow(i)) \/ HandleRow \/ FinishRow
WorkerStep    == \E w \in Workers : (\E c \in Calls : ClaimTranscript(w, c)) \/ Transcribed(w)
RecoveryStep  == StartRecovery \/ \E c \in Calls : RecoveryPresent(c) \/ NotOnVdrive(c) \/ Recover(c)
ReconcileStep == StartReconciliation \/ (\E c \in Calls : Judge(c)) \/ WriteVerdict \/ Notify
Passing(c)    == TranscriptDue(c) \/ Aged(c)

Next ==
  \/ \E c \in Calls, kind \in {"recording"} \cup Forms : Accept(kind, c)
  \/ InboxStep \/ FailRow \/ InboxFails
  \/ WorkerStep \/ (\E w \in Workers : NotTranscribed(w) \/ TranscriptionFails(w))
  \/ RecoveryStep \/ RecoveryFails
  \/ ReconcileStep \/ ReconciliationFails
  \/ \E i \in Ids : RowDue(i)
  \/ \E c \in Calls : Passing(c) \/ RemoveTranscript(c)
  \/ Crash

Spec == Init /\ [][Next]_vars

(* The timers of startNetelipWorkers fire, awaits end and time passes.     *)
FairSpec ==
  /\ Spec
  /\ WF_vars(InboxStep) /\ WF_vars(WorkerStep) /\ WF_vars(ReconcileStep)
  /\ \A i \in Ids : WF_vars(RowDue(i))
  /\ \A c \in Calls : WF_vars(TranscriptDue(c)) /\ WF_vars(Aged(c))

-----------------------------------------------------------------------------
RowStates == [kind : {"recording"} \cup Forms, call : Calls,
              status : {"pending", "done", "failed"},
              attempts : 0..(InboxAttempts + MaxFaults), due : BOOLEAN]
Statuses == {"none", "pending", "processing", "completed", "failed"}

ASSUME NoneAssumption == None \notin RowStates /\ None \notin Calls \X Results

(* Types; and a transcription is tried a bounded number of times.          *)
TypeOK ==
  /\ row \in [Ids -> RowStates \cup {None}]
  /\ stored \subseteq Calls /\ removed \subseteq stored
  /\ transcript \in [Calls -> [status : Statuses, attempts : 0..TranscriptionAttempts,
                               due : BOOLEAN]]
  /\ report \in [Calls -> Results \cup Forms \cup {"none"}]
  /\ old \subseteq Calls /\ alerted \subseteq Calls
  /\ batch \subseteq Rows /\ item \in batch \cup {0} /\ ingested \in BOOLEAN
  /\ job \in [Workers -> Calls \cup {None}]
  /\ checking \subseteq Calls /\ missing \subseteq Calls /\ reconciling \in BOOLEAN
  /\ verdict \in (Calls \X Results) \cup {None}
  /\ seeking \subseteq Calls
  /\ faults \in 0..MaxFaults

(* What the inbox took as done was carried out: however often it failed,   *)
(* was repeated or was cut short, the call is there.                       *)
DoneMeansStored ==
  \A i \in Rows : row[i].status = "done" =>
    IF row[i].kind = "recording" THEN row[i].call \in stored
    ELSE report[row[i].call] # "none"

(* A call that is stored again by a repeated webhook, by the recovery and  *)
(* by the reconciliation together keeps its one transcription, and what    *)
(* has been erased or has expired never comes back, not even from a        *)
(* transcription that was under way.                                       *)
OnlyRemovedAreMissing ==
  \A c \in Calls : (transcript[c] # Absent) <=> (c \in stored \ removed)

(* A completed transcription is not undone by another execution. *)
CompletedForGood ==
  [][\A c \in Calls : transcript[c].status = "completed"
       => transcript'[c].status = "completed" \/ c \in removed']_vars

(* A report closed as present or recovered has its call. *)
ClosedReportsAreTrue ==
  \A c \in Calls : report[c] \in {"present", "recovered"} => c \in stored

(* What the comment of reconcile says: a recorded call that is not stored  *)
(* after 24 hours is recovered or told to the technical team. The code     *)
(* closes the reports one by one and tells the team at the end, so an      *)
(* execution that fails or dies in between tells nobody, ever.             *)
MissingAreTold ==
  \A c \in Calls : report[c] = "reported" => c \in alerted \/ c \in missing

(* Every webhook taken is settled, every transcription ends and every      *)
(* report is reconciled, through crashes and failures.                     *)
AllSettles ==
  /\ \A i \in Ids : (i \in Rows) ~> (i \in Rows /\ row[i].status \in {"done", "failed"})
  /\ \A c \in Calls : (c \in stored)
       ~> (c \in removed \/ transcript[c].status \in {"completed", "failed"})
  /\ \A c \in Calls : Open(c) ~> (report[c] \in Results)

-----------------------------------------------------------------------------
(* What the tasks rely on between two of their statements. A row counts    *)
(* more attempts than allowed only by as many as failures kept its outcome *)
(* from being written; a claimed row is pending; what is ingested is there *)
(* before the row says so; a transcription under way belongs to one        *)
(* execution; a verdict of present or recovered has its call.              *)
RowsAreBounded ==
  \A i \in Rows : /\ row[i].attempts <= InboxAttempts + faults
                  /\ row[i].status = "pending" /\ i \notin batch
                       => row[i].attempts < InboxAttempts + faults

TranscriptionsAreBounded ==
  \A c \in Calls : transcript[c].status \in {"pending", "processing"}
                     => transcript[c].attempts < TranscriptionAttempts

Carried(i) ==
  IF row[i].kind = "recording" THEN row[i].call \in stored ELSE report[row[i].call] # "none"
RowsInHand ==
  /\ \A i \in batch : row[i].status = "pending"
  /\ ingested => item # 0 /\ Carried(item)

JobsInProcess ==
  /\ \A v, w \in Workers : job[v] # None /\ job[w] # None => v = w
  /\ \A w \in Workers : job[w] # None =>
       /\ job[w] \in stored
       /\ transcript[job[w]] = Absent \/ transcript[job[w]].status = "processing"

VerdictsAreTrue ==
  verdict # None /\ verdict[2] # "reported" => verdict[1] \in stored

(* The inductive invariant of the calls. *)
CallsInv ==
  /\ TypeOK
  /\ RowsAreBounded
  /\ TranscriptionsAreBounded
  /\ RowsInHand
  /\ JobsInProcess
  /\ VerdictsAreTrue
  /\ DoneMeansStored
  /\ OnlyRemovedAreMissing
  /\ ClosedReportsAreTrue
=============================================================================
