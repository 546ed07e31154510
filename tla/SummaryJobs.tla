---------------------------- MODULE SummaryJobs ----------------------------
(***************************************************************************)
(* The durable queue of global summaries (backend/summary-jobs.ts), the    *)
(* work it runs for each job (prepareGlobalSummary in backend/server.ts)   *)
(* and the individual summary route, which competes with it for the same   *)
(* pending messages under one PostgreSQL advisory lock per account.        *)
(*                                                                         *)
(* Every action is one database statement, one committed transaction or    *)
(* one in-memory step between two awaits, so other actors run in between.  *)
(* A process may die after any of them.                                    *)
(***************************************************************************)
EXTENDS Naturals, Sequences, FiniteSets

CONSTANTS
  Accounts,     \* WhatsApp accounts
  Specialists,  \* AI roles a report can be written with
  Chats,        \* group chats
  Messages,     \* incoming group texts that may be received
  OwnerOf,      \* Chats -> Accounts
  ChatOf,       \* Messages -> Chats
  Runners,      \* backend processes, each with its single-flight queue runner
  Posts,        \* requests POST /api/chat/global-summary, one shot each
  Summaries,    \* requests POST /api/chat/summary, one shot each
  None,         \* nobody / nothing
  CandidateLimit, \* jobs listed by one pass of the runner (20)
  ReadLimit,    \* texts one individual summary takes (PENDING_CONTEXT_MESSAGE_LIMIT)
  MaxJobs,      \* bound: rows of summary_jobs ever created
  MaxFaults     \* bound: process deaths, upgrades and failing bookkeeping statements

ASSUME ChatAssumption ==
  /\ OwnerOf \in [Chats -> Accounts]
  /\ ChatOf \in [Messages -> Chats]
ASSUME SessionAssumption ==
  /\ None \notin Runners \cup Summaries \cup Accounts \cup Specialists \cup Chats
  /\ Runners \cap (Posts \cup Summaries) = {}
  /\ Posts \cap Summaries = {}
  /\ Nat \cap Summaries = {}
ASSUME BoundAssumption ==
  /\ MaxJobs \in Nat
  /\ MaxFaults \in Nat
  /\ CandidateLimit \in Nat \ {0}
  /\ ReadLimit \in Nat \ {0}

VARIABLES
  arrived,   \* texts stored in mensajes
  reviewed,  \* summary_reviewed_messages
  skipped,   \* summary_skipped_messages
  reports,   \* resumenes_globales_chat and resumenes_chat, in order of commit
  status, attempts, owner, specialist,  \* summary_jobs, by job number
  context,   \* summary_job_contexts: the captured selection, {} when no row
  stale,     \* jobs whose context was captured under an earlier selectionVersion
  batches,   \* summary_job_batches: captured texts whose analysis is stored
  lock,      \* session holding the advisory lock summary:<account>
  step, listed, job, selection, omitted, \* locals of each queue runner
  rstep, raccount, rspecialist, rchat, rselection, \* locals of each request
  faults

messageVars == <<arrived, reviewed, skipped, reports>>
jobVars     == <<status, attempts, owner, specialist>>
cacheVars   == <<context, stale, batches>>
runnerVars  == <<step, listed, job, selection, omitted>>
requestVars == <<rstep, raccount, rspecialist, rchat, rselection>>
vars == <<messageVars, jobVars, cacheVars, lock, runnerVars, requestVars, faults>>

-----------------------------------------------------------------------------
JobIds   == 1..MaxJobs
Requests == Posts \cup Summaries
Sessions == Runners \cup Summaries
Active   == {"queued", "running"}
MaxAttempts == 3

AccountOf(m) == OwnerOf[ChatOf[m]]

(* Mutants: what plausible slips in the definition that follows would do. *)
MutReportAll(author, verified, unverified) ==
  [author |-> author, verified |-> verified \cup unverified, omitted |-> unverified]
Report(author, verified, unverified) ==
  [author |-> author, verified |-> verified, omitted |-> unverified]

(* getAvailableAnalysisMessages: stored texts in neither table. *)
Available(a) ==
  {m \in arrived \ (reviewed \cup skipped) : AccountOf(m) = a}

JobsOf(a) == {j \in JobIds : status[j] # "absent" /\ owner[j] = a}

MutIsLatest(j) == TRUE
IsLatest(j) == \A k \in JobsOf(owner[j]) : k <= j

HasActive(a) == \E j \in JobsOf(a) : status[j] \in Active

(* pg_try_advisory_lock succeeds. *)
MutUnlocked(a) == TRUE
Unlocked(a) == lock[a] = None

Init ==
  /\ arrived = {} /\ reviewed = {} /\ skipped = {} /\ reports = <<>>
  /\ status = [j \in JobIds |-> "absent"]
  /\ attempts = [j \in JobIds |-> 0]
  /\ owner = [j \in JobIds |-> None]
  /\ specialist = [j \in JobIds |-> None]
  /\ context = [j \in JobIds |-> {}]
  /\ stale = {}
  /\ batches = [j \in JobIds |-> {}]
  /\ lock = [a \in Accounts |-> None]
  /\ step = [w \in Runners |-> "idle"]
  /\ listed = [w \in Runners |-> {}]
  /\ job = [w \in Runners |-> 0]
  /\ selection = [w \in Runners |-> {}]
  /\ omitted = [w \in Runners |-> {}]
  /\ rstep = [r \in Requests |-> "idle"]
  /\ raccount = [r \in Requests |-> None]
  /\ rspecialist = [r \in Requests |-> None]
  /\ rchat = [r \in Requests |-> None]
  /\ rselection = [r \in Requests |-> {}]
  /\ faults = 0

(* The locals of a loop iteration or of a request go out of scope. *)
Forget(w) ==
  /\ job' = [job EXCEPT ![w] = 0]
  /\ selection' = [selection EXCEPT ![w] = {}]
  /\ omitted' = [omitted EXCEPT ![w] = {}]

Answer(r) ==
  /\ rstep' = [rstep EXCEPT ![r] = "done"]
  /\ raccount' = [raccount EXCEPT ![r] = None]
  /\ rspecialist' = [rspecialist EXCEPT ![r] = None]
  /\ rchat' = [rchat EXCEPT ![r] = None]
  /\ rselection' = [rselection EXCEPT ![r] = {}]

-----------------------------------------------------------------------------
(* A text arrives and is stored by the webhook. *)
Arrive(m) ==
  /\ m \notin arrived
  /\ arrived' = arrived \cup {m}
  /\ UNCHANGED <<reviewed, skipped, reports, jobVars, cacheVars, lock,
                 runnerVars, requestVars, faults>>

-----------------------------------------------------------------------------
(* POST /api/chat/global-summary calls enqueue, two statements.            *)
(* The first one resumes the account's latest job when it failed under the *)
(* same specialist, still has its context and nothing else is active.      *)
Resumable(j, s) ==
  /\ status[j] = "failed"
  /\ specialist[j] = s
  /\ IsLatest(j)
  /\ context[j] # {}
  /\ ~HasActive(owner[j])

PostResume(p, a, s) ==
  /\ rstep[p] = "idle"
  /\ \E j \in JobsOf(a) :
       /\ Resumable(j, s)
       /\ status' = [status EXCEPT ![j] = "queued"]
       /\ attempts' = [attempts EXCEPT ![j] = 0]
  /\ Answer(p)
  /\ UNCHANGED <<messageVars, owner, specialist, cacheVars, lock, runnerVars,
                 faults>>

PostNothingToResume(p, a, s) ==
  /\ rstep[p] = "idle"
  /\ ~\E j \in JobsOf(a) : Resumable(j, s)
  /\ rstep' = [rstep EXCEPT ![p] = "insert"]
  /\ raccount' = [raccount EXCEPT ![p] = a]
  /\ rspecialist' = [rspecialist EXCEPT ![p] = s]
  /\ UNCHANGED <<messageVars, jobVars, cacheVars, lock, runnerVars,
                 rchat, rselection, faults>>

(* The second statement inserts a job, or answers with the active one. *)
PostInsert(p) ==
  /\ rstep[p] = "insert"
  /\ ~HasActive(raccount[p])
  /\ \E j \in JobIds :
       /\ status[j] = "absent"
       /\ \A k \in JobIds : k < j => status[k] # "absent"
       /\ status' = [status EXCEPT ![j] = "queued"]
       /\ owner' = [owner EXCEPT ![j] = raccount[p]]
       /\ specialist' = [specialist EXCEPT ![j] = rspecialist[p]]
  /\ Answer(p)
  /\ UNCHANGED <<messageVars, attempts, cacheVars, lock, runnerVars,
                 faults>>

PostAlreadyActive(p) ==
  /\ rstep[p] = "insert"
  /\ HasActive(raccount[p])
  /\ Answer(p)
  /\ UNCHANGED <<messageVars, jobVars, cacheVars, lock, runnerVars,
                 faults>>

-----------------------------------------------------------------------------
(* createSummaryQueue.run: one pass over the listed candidates. *)
(* A running job is due as well: its process may have died. *)
MutDue(j) == status[j] = "queued"
Due(j) == status[j] \in Active

ListCandidates(w) ==
  LET due == {j \in JobIds : Due(j)} IN
  /\ step[w] = "idle"
  /\ due # {}
  /\ \E js \in SUBSET due :
       /\ Cardinality(js) = IF Cardinality(due) < CandidateLimit
                            THEN Cardinality(due) ELSE CandidateLimit
       /\ listed' = [listed EXCEPT ![w] = js]
  /\ step' = [step EXCEPT ![w] = "next"]
  /\ UNCHANGED <<messageVars, jobVars, cacheVars, lock, job, selection, omitted,
                 requestVars, faults>>

EndRun(w) ==
  /\ step[w] = "next"
  /\ listed[w] = {}
  /\ step' = [step EXCEPT ![w] = "idle"]
  /\ UNCHANGED <<messageVars, jobVars, cacheVars, lock, listed, job, selection,
                 omitted, requestVars, faults>>

(* acquireSummaryLock: try-lock, never waits. *)
LockCandidate(w, j) ==
  /\ step[w] = "next"
  /\ j \in listed[w]
  /\ Unlocked(owner[j])
  /\ lock' = [lock EXCEPT ![owner[j]] = w]
  /\ listed' = [listed EXCEPT ![w] = @ \ {j}]
  /\ job' = [job EXCEPT ![w] = j]
  /\ step' = [step EXCEPT ![w] = "claim"]
  /\ UNCHANGED <<messageVars, jobVars, cacheVars, selection, omitted,
                 requestVars, faults>>

SkipCandidate(w, j) ==
  /\ step[w] = "next"
  /\ j \in listed[w]
  /\ ~Unlocked(owner[j])
  /\ listed' = [listed EXCEPT ![w] = @ \ {j}]
  /\ UNCHANGED <<messageVars, jobVars, cacheVars, lock, step, job, selection,
                 omitted, requestVars, faults>>

MutClaimable(j) == TRUE
Claimable(j) == status[j] \in Active

(* The claim counts the attempt; the fourth one fails without working. *)
Claim(w) ==
  LET j == job[w] IN
  /\ step[w] = "claim"
  /\ Claimable(j)
  /\ status' = [status EXCEPT ![j] = "running"]
  /\ attempts' = [attempts EXCEPT ![j] = @ + 1]
  /\ step' = [step EXCEPT ![w] =
                IF attempts[j] + 1 > MaxAttempts THEN "fail" ELSE "prepare"]
  /\ UNCHANGED <<messageVars, owner, specialist, cacheVars, lock, listed, job,
                 selection, omitted, requestVars, faults>>

(* Another process settled the job after it was listed. *)
ClaimLost(w) ==
  /\ step[w] = "claim"
  /\ ~Claimable(job[w])
  /\ step' = [step EXCEPT ![w] = "release"]
  /\ UNCHANGED <<messageVars, jobVars, cacheVars, lock, listed, job, selection,
                 omitted, requestVars, faults>>

(* The claiming statement fails: nothing was claimed, nothing is recorded. *)
ClaimErrs(w) ==
  /\ step[w] = "claim"
  /\ faults < MaxFaults
  /\ faults' = faults + 1
  /\ step' = [step EXCEPT ![w] = "release"]
  /\ UNCHANGED <<messageVars, jobVars, cacheVars, lock, listed, job, selection,
                 omitted, requestVars>>

(* prepareGlobalSummary: the stored selection is reused ... *)
MutReusable(j) == FALSE
Reusable(j) == context[j] # {} /\ j \notin stale

ReuseContext(w) ==
  LET j == job[w] IN
  /\ step[w] = "prepare"
  /\ Reusable(j)
  /\ selection' = [selection EXCEPT ![w] = context[j]]
  /\ omitted' = [omitted EXCEPT ![w] = {}]
  /\ step' = [step EXCEPT ![w] = "analyze"]
  /\ UNCHANGED <<messageVars, jobVars, cacheVars, lock, listed, job,
                 requestVars, faults>>

(* ... unless there is none or an earlier policy captured it, in which     *)
(* case its batches are dropped and it is rebuilt.                         *)
MutKeepBatches(w) ==
  /\ step[w] = "prepare"
  /\ ~Reusable(job[w])
  /\ step' = [step EXCEPT ![w] = "select"]
  /\ UNCHANGED <<messageVars, jobVars, cacheVars, lock, listed, job,
                 selection, omitted, requestVars, faults>>

DropBatches(w) ==
  LET j == job[w] IN
  /\ step[w] = "prepare"
  /\ ~Reusable(j)
  /\ batches' = IF context[j] # {} THEN [batches EXCEPT ![j] = {}] ELSE batches
  /\ step' = [step EXCEPT ![w] = "select"]
  /\ UNCHANGED <<messageVars, jobVars, context, stale, lock, listed, job,
                 selection, omitted, requestVars, faults>>

SelectPending(w) ==
  LET pending == Available(owner[job[w]]) IN
  /\ step[w] = "select"
  /\ pending # {}
  /\ selection' = [selection EXCEPT ![w] = pending]
  /\ omitted' = [omitted EXCEPT ![w] = {}]
  /\ step' = [step EXCEPT ![w] = "store"]
  /\ UNCHANGED <<messageVars, jobVars, cacheVars, lock, listed, job,
                 requestVars, faults>>

StoreContext(w) ==
  /\ step[w] = "store"
  /\ context' = [context EXCEPT ![job[w]] = selection[w]]
  /\ stale' = stale \ {job[w]}
  /\ step' = [step EXCEPT ![w] = "analyze"]
  /\ UNCHANGED <<messageVars, jobVars, batches, lock, listed, job, selection,
                 omitted, requestVars, faults>>

(* A text's analysis is audited and stored, or the text proves impossible  *)
(* to verify and is left out.                                              *)
VerifyText(w, m) ==
  /\ step[w] = "analyze"
  /\ m \in selection[w] \ (batches[job[w]] \cup omitted[w])
  /\ batches' = [batches EXCEPT ![job[w]] = @ \cup {m}]
  /\ UNCHANGED <<messageVars, jobVars, context, stale, lock, runnerVars,
                 requestVars, faults>>

OmitText(w, m) ==
  /\ step[w] = "analyze"
  /\ m \in selection[w] \ (batches[job[w]] \cup omitted[w])
  /\ omitted' = [omitted EXCEPT ![w] = @ \cup {m}]
  /\ UNCHANGED <<messageVars, jobVars, cacheVars, lock, step, listed, job,
                 selection, requestVars, faults>>

(* One transaction: the report, the reviewed and skipped rows, the job's   *)
(* completion and the removal of its context and batches.                  *)
SaveReport(w) ==
  LET j == job[w]
      verified == selection[w] \ omitted[w] IN
  /\ step[w] = "analyze"
  /\ selection[w] \subseteq batches[j] \cup omitted[w]
  /\ reports' = Append(reports, Report(j, verified, omitted[w]))
  /\ reviewed' = reviewed \cup verified
  /\ skipped' = skipped \cup omitted[w]
  /\ status' = [status EXCEPT ![j] = "completed"]
  /\ batches' = [batches EXCEPT ![j] = {}]
  /\ context' = [context EXCEPT ![j] = {}]
  /\ step' = [step EXCEPT ![w] = "release"]
  /\ UNCHANGED <<arrived, attempts, owner, specialist, stale, lock, listed, job,
                 selection, omitted, requestVars, faults>>

(* Missing account or specialist, no pending text, AI or database error,   *)
(* failed commit: whatever was open is rolled back.                        *)
WorkFails(w) ==
  /\ step[w] \in {"prepare", "select", "store", "analyze"}
  /\ step' = [step EXCEPT ![w] = "fail"]
  /\ UNCHANGED <<messageVars, jobVars, cacheVars, lock, listed, job, selection,
                 omitted, requestVars, faults>>

MarkFailed(w) ==
  LET j == job[w] IN
  /\ step[w] = "fail"
  /\ status' = IF status[j] = "running"
               THEN [status EXCEPT ![j] = "failed"] ELSE status
  /\ step' = [step EXCEPT ![w] = "release"]
  /\ UNCHANGED <<messageVars, attempts, owner, specialist, cacheVars, lock,
                 listed, job, selection, omitted, requestVars, faults>>

(* The statement that records the failure fails: the exception leaves the  *)
(* whole pass, the finally block still gives the lock back.                *)
PassAborts(w) ==
  /\ step[w] = "fail"
  /\ faults < MaxFaults
  /\ faults' = faults + 1
  /\ lock' = [lock EXCEPT ![owner[job[w]]] = None]
  /\ listed' = [listed EXCEPT ![w] = {}]
  /\ step' = [step EXCEPT ![w] = "idle"]
  /\ Forget(w)
  /\ UNCHANGED <<messageVars, jobVars, cacheVars, requestVars>>

Release(w) ==
  /\ step[w] = "release"
  /\ lock' = [lock EXCEPT ![owner[job[w]]] = None]
  /\ step' = [step EXCEPT ![w] = "next"]
  /\ Forget(w)
  /\ UNCHANGED <<messageVars, jobVars, cacheVars, listed, requestVars, faults>>

-----------------------------------------------------------------------------
(* POST /api/chat/summary, the individual summary of one chat. *)
LockChat(r, c) ==
  /\ rstep[r] = "idle"
  /\ Unlocked(OwnerOf[c])
  /\ lock' = [lock EXCEPT ![OwnerOf[c]] = r]
  /\ rchat' = [rchat EXCEPT ![r] = c]
  /\ rstep' = [rstep EXCEPT ![r] = "locked"]
  /\ UNCHANGED <<messageVars, jobVars, cacheVars, runnerVars, raccount,
                 rspecialist, rselection, faults>>

(* 409: the account has a report in progress. *)
RefuseChat(r, c) ==
  /\ rstep[r] = "idle"
  /\ ~Unlocked(OwnerOf[c])
  /\ Answer(r)
  /\ UNCHANGED <<messageVars, jobVars, cacheVars, lock, runnerVars, faults>>

ChatPending(c) == {m \in Available(OwnerOf[c]) : ChatOf[m] = c}

SelectChatTexts(r) ==
  /\ rstep[r] = "locked"
  /\ \E ms \in SUBSET ChatPending(rchat[r]) :
       /\ ms # {} /\ Cardinality(ms) <= ReadLimit
       /\ rselection' = [rselection EXCEPT ![r] = ms]
  /\ rstep' = [rstep EXCEPT ![r] = "generate"]
  /\ UNCHANGED <<messageVars, jobVars, cacheVars, lock, runnerVars, raccount,
                 rspecialist, rchat, faults>>

(* One transaction: the report and its reviewed rows. *)
SaveChatReport(r) ==
  /\ rstep[r] = "generate"
  /\ reports' = Append(reports, Report(r, rselection[r], {}))
  /\ reviewed' = reviewed \cup rselection[r]
  /\ rstep' = [rstep EXCEPT ![r] = "release"]
  /\ UNCHANGED <<arrived, skipped, jobVars, cacheVars, lock, runnerVars,
                 raccount, rspecialist, rchat, rselection, faults>>

(* 422 without pending texts, 502 or 500 when the AI or the save fails. *)
ChatReportFails(r) ==
  /\ rstep[r] \in {"locked", "generate"}
  /\ rstep' = [rstep EXCEPT ![r] = "release"]
  /\ UNCHANGED <<messageVars, jobVars, cacheVars, lock, runnerVars, raccount,
                 rspecialist, rchat, rselection, faults>>

ReleaseChat(r) ==
  /\ rstep[r] = "release"
  /\ lock' = [lock EXCEPT ![OwnerOf[rchat[r]]] = None]
  /\ Answer(r)
  /\ UNCHANGED <<messageVars, jobVars, cacheVars, runnerVars, faults>>

-----------------------------------------------------------------------------
(* A process dies: PostgreSQL ends its sessions, so its locks are free.    *)
Without(sessions) ==
  [a \in Accounts |-> IF lock[a] \in sessions THEN None ELSE lock[a]]

Crash(w) ==
  /\ faults < MaxFaults
  /\ step[w] # "idle"
  /\ faults' = faults + 1
  /\ lock' = Without({w})
  /\ step' = [step EXCEPT ![w] = "idle"]
  /\ listed' = [listed EXCEPT ![w] = {}]
  /\ Forget(w)
  /\ UNCHANGED <<messageVars, jobVars, cacheVars, requestVars>>

(* The process serving a request dies with it. *)
RequestDies(r) ==
  /\ faults < MaxFaults
  /\ rstep[r] \notin {"idle", "done"}
  /\ faults' = faults + 1
  /\ lock' = Without({r})
  /\ Answer(r)
  /\ UNCHANGED <<messageVars, jobVars, cacheVars, runnerVars>>

(* A deployment with a new selectionVersion: every process is restarted    *)
(* and the contexts captured so far are no longer reusable.                *)
Upgrade ==
  /\ faults < MaxFaults
  /\ faults' = faults + 1
  /\ stale' = {j \in JobIds : context[j] # {}}
  /\ stale' # stale
  /\ lock' = [a \in Accounts |-> None]
  /\ step' = [w \in Runners |-> "idle"]
  /\ listed' = [w \in Runners |-> {}]
  /\ job' = [w \in Runners |-> 0]
  /\ selection' = [w \in Runners |-> {}]
  /\ omitted' = [w \in Runners |-> {}]
  /\ rstep' = [r \in Requests |-> IF rstep[r] = "idle" THEN "idle" ELSE "done"]
  /\ raccount' = [r \in Requests |-> None]
  /\ rspecialist' = [r \in Requests |-> None]
  /\ rchat' = [r \in Requests |-> None]
  /\ rselection' = [r \in Requests |-> {}]
  /\ UNCHANGED <<messageVars, jobVars, context, batches>>

-----------------------------------------------------------------------------
RunnerStep(w) ==
  \/ ListCandidates(w) \/ EndRun(w)
  \/ \E j \in JobIds : LockCandidate(w, j) \/ SkipCandidate(w, j)
  \/ Claim(w) \/ ClaimLost(w)
  \/ ReuseContext(w) \/ DropBatches(w) \/ SelectPending(w) \/ StoreContext(w)
  \/ \E m \in Messages : VerifyText(w, m) \/ OmitText(w, m)
  \/ SaveReport(w) \/ WorkFails(w) \/ MarkFailed(w) \/ Release(w)

PostStep(p) == PostInsert(p) \/ PostAlreadyActive(p)

SummaryStep(r) ==
  SelectChatTexts(r) \/ SaveChatReport(r) \/ ChatReportFails(r) \/ ReleaseChat(r)

Next ==
  \/ \E m \in Messages : Arrive(m)
  \/ \E p \in Posts, a \in Accounts, s \in Specialists :
       PostResume(p, a, s) \/ PostNothingToResume(p, a, s)
  \/ \E p \in Posts : PostStep(p)
  \/ \E w \in Runners : RunnerStep(w) \/ ClaimErrs(w) \/ PassAborts(w) \/ Crash(w)
  \/ \E r \in Summaries, c \in Chats : LockChat(r, c) \/ RefuseChat(r, c)
  \/ \E r \in Summaries : SummaryStep(r)
  \/ \E r \in Requests : RequestDies(r)
  \/ Upgrade

Spec == Init /\ [][Next]_vars

(* The five-second timer restarts the runner and every await of the        *)
(* runner and of a request ends, by result, error or timeout.              *)
FairSpec ==
  /\ Spec
  /\ \A w \in Runners : WF_vars(RunnerStep(w))
  /\ \A p \in Posts : WF_vars(PostStep(p))
  /\ \A r \in Summaries : WF_vars(SummaryStep(r))

-----------------------------------------------------------------------------
RunnerSteps == {"idle", "next", "claim", "prepare", "select", "store",
                "analyze", "fail", "release"}
RequestSteps == {"idle", "insert", "locked", "generate", "release", "done"}

(* The variables keep their types (summary_jobs and the in-memory locals). *)
TypeOK ==
  /\ arrived \subseteq Messages
  /\ reviewed \subseteq arrived
  /\ skipped \subseteq arrived
  /\ reports \in Seq([author : JobIds \cup Summaries,
                      verified : SUBSET Messages, omitted : SUBSET Messages])
  /\ status \in [JobIds -> {"absent", "queued", "running", "failed", "completed"}]
  /\ attempts \in [JobIds -> Nat]
  /\ owner \in [JobIds -> Accounts \cup {None}]
  /\ specialist \in [JobIds -> Specialists \cup {None}]
  /\ context \in [JobIds -> SUBSET Messages]
  /\ stale \subseteq JobIds
  /\ batches \in [JobIds -> SUBSET Messages]
  /\ lock \in [Accounts -> Sessions \cup {None}]
  /\ step \in [Runners -> RunnerSteps]
  /\ listed \in [Runners -> SUBSET JobIds]
  /\ job \in [Runners -> JobIds \cup {0}]
  /\ selection \in [Runners -> SUBSET Messages]
  /\ omitted \in [Runners -> SUBSET Messages]
  /\ rstep \in [Requests -> RequestSteps]
  /\ raccount \in [Requests -> Accounts \cup {None}]
  /\ rspecialist \in [Requests -> Specialists \cup {None}]
  /\ rchat \in [Requests -> Chats \cup {None}]
  /\ rselection \in [Requests -> SUBSET Messages]
  /\ faults \in 0..MaxFaults

Reports == {reports[i] : i \in DOMAIN reports}

(* A text leaves the pending set only through the transaction that saves   *)
(* the report it is in: after any crash, failure or retry, the reviewed    *)
(* and skipped rows are exactly what the saved reports say.                *)
ConsumptionIsReported ==
  /\ reviewed = UNION {r.verified : r \in Reports}
  /\ skipped = UNION {r.omitted : r \in Reports}

(* A job that was retried, resumed, reclaimed after a crash or run by two  *)
(* processes saves exactly one report if it completed and none otherwise.  *)
CompletedIffReportedOnce ==
  \A j \in JobIds :
    Cardinality({i \in DOMAIN reports : reports[i].author = j})
      = IF status[j] = "completed" THEN 1 ELSE 0

(* At most one job of an account is queued or running, and it is the       *)
(* latest one: resuming never revives a job that a newer one replaced.     *)
ActiveJobIsLatest ==
  \A j \in JobIds : status[j] \in Active => IsLatest(j)

(* Whoever works on an account's texts holds that account's lock.          *)
WorkersHoldTheLock ==
  /\ \A w \in Runners : step[w] \notin {"idle", "next"} => lock[owner[job[w]]] = w
  /\ \A r \in Summaries : rstep[r] \in {"locked", "generate", "release"}
                            => lock[OwnerOf[rchat[r]]] = r

(* What was read as pending under the lock is still pending when it is     *)
(* used: no other report consumed it in between.                           *)
SelectionsStayPending ==
  /\ \A w \in Runners : step[w] = "store"
       => selection[w] \cap (reviewed \cup skipped) = {}
  /\ \A r \in Summaries : rstep[r] = "generate"
       => rselection[r] \cap (reviewed \cup skipped) = {}

IsGlobal(i) == reports[i].author \in JobIds
Content(i) == reports[i].verified \cup reports[i].omitted

(* No text is in two global reports, whatever was resumed or rebuilt.      *)
GlobalReportsDisjoint ==
  \A i, k \in DOMAIN reports :
    i # k /\ IsGlobal(i) /\ IsGlobal(k) => Content(i) \cap Content(k) = {}

(* An intermediate result always belongs to the selection it was made      *)
(* from, and a completed job leaves neither.                               *)
CacheMatchesSelection ==
  \A j \in JobIds : /\ batches[j] \subseteq context[j]
                    /\ status[j] = "completed" => context[j] = {}

(* A captured selection is what the report covers: it changes only when    *)
(* the job completes with a report of exactly that selection or when an    *)
(* upgrade made it unusable. Later arrivals wait for the next report.      *)
SelectionIsReported ==
  [][\A j \in JobIds : context[j] # {} /\ context'[j] # context[j] =>
        \/ j \in stale /\ j \notin stale'
        \/ /\ Len(reports') = Len(reports) + 1
           /\ reports'[Len(reports')].author = j
           /\ reports'[Len(reports')].verified
                \cup reports'[Len(reports')].omitted = context[j]]_vars

(* The ledger of reports that this queue implements.                       *)
Phase(j) == CASE status[j] = "absent"    -> "none"
              [] status[j] \in Active    -> "open"
              [] status[j] = "failed"    -> "failed"
              [] status[j] = "completed" -> "done"

Ledger == INSTANCE SummaryLedger WITH
            Jobs <- JobIds, Authors <- JobIds \cup Summaries,
            phase <- [j \in JobIds |-> Phase(j)]
LedgerSpec == Ledger!FairSpec

-----------------------------------------------------------------------------
(* What the proofs add: the locals of runners and requests refer to rows   *)
(* that exist, and what they hold belongs to the account they locked.      *)
Working(w) == step[w] \notin {"idle", "next"}
Serving(r) == rstep[r] \in {"locked", "generate", "release"}

JobsHaveOwners ==
  \A j \in JobIds : status[j] = "absent" <=> owner[j] = None

RunnersKnowTheirJob ==
  \A w \in Runners :
    /\ \A j \in listed[w] : status[j] # "absent"
    /\ Working(w) => job[w] \in JobIds /\ status[job[w]] # "absent"

RequestsKnowTheirTarget ==
  \A r \in Requests :
    /\ rstep[r] = "insert" => raccount[r] \in Accounts /\ rspecialist[r] \in Specialists
    /\ Serving(r) => r \in Summaries /\ rchat[r] \in Chats

TextsOf(a) == {m \in arrived : AccountOf(m) = a}

SelectionsBelong ==
  /\ \A j \in JobIds : context[j] \subseteq TextsOf(owner[j])
  /\ \A w \in Runners : /\ omitted[w] \subseteq selection[w]
                        /\ ~Working(w) => selection[w] = {}
                        /\ Working(w) => selection[w] \subseteq TextsOf(owner[job[w]])
  /\ \A r \in Summaries : /\ ~Serving(r) => rselection[r] = {}
                          /\ Serving(r) => rselection[r] \subseteq TextsOf(OwnerOf[rchat[r]])

(* The inductive invariant behind the consumption of texts. *)
ConsumptionInv ==
  /\ TypeOK
  /\ JobsHaveOwners
  /\ RunnersKnowTheirJob
  /\ RequestsKnowTheirTarget
  /\ SelectionsBelong
  /\ WorkersHoldTheLock
  /\ SelectionsStayPending
  /\ ConsumptionIsReported

(* What keeps global reports apart: rows are numbered in order, a worker's *)
(* job stays running and keeps the context it works from, and the context  *)
(* a latest job could still report from holds nothing reported before.     *)
JobsInOrder ==
  \A j, k \in JobIds : j < k /\ status[j] = "absent" => status[k] = "absent"

WorkersOwnTheirJob ==
  \A w \in Runners :
    /\ step[w] \in {"prepare", "select", "store", "analyze"} => status[job[w]] = "running"
    /\ step[w] = "analyze" => selection[w] = context[job[w]]

GlobalTexts ==
  UNION {r.verified \cup r.omitted : r \in {x \in Reports : x.author \in JobIds}}

FreshContexts ==
  \A j \in JobIds :
    status[j] # "completed" /\ IsLatest(j) => context[j] \cap GlobalTexts = {}

(* The inductive invariant behind the separation of global reports. *)
ReportsInv ==
  /\ ConsumptionInv
  /\ JobsInOrder
  /\ ActiveJobIsLatest
  /\ WorkersOwnTheirJob
  /\ FreshContexts
  /\ GlobalReportsDisjoint

(* What keeps the cache and the selection together: a selection is rebuilt *)
(* only over an empty cache and for want of a usable context, and is never *)
(* empty.                                                                  *)
RebuildsStartClean ==
  \A w \in Runners : step[w] \in {"select", "store"} =>
    batches[job[w]] = {} /\ (context[job[w]] # {} => job[w] \in stale)

SelectionsHaveTexts ==
  /\ \A w \in Runners : step[w] \in {"store", "analyze"} => selection[w] # {}
  /\ \A r \in Summaries : rstep[r] = "generate" => rselection[r] # {}

(* The inductive invariant behind the cache and the ledger. *)
CacheInv ==
  /\ ReportsInv
  /\ CacheMatchesSelection
  /\ RebuildsStartClean
  /\ SelectionsHaveTexts
=============================================================================
