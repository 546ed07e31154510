------------------------ MODULE SummaryJobs_proofs ------------------------
(***************************************************************************)
(* Proofs about the summary queue, for any accounts, chats, processes and  *)
(* requests and any bounds.                                                *)
(***************************************************************************)
EXTENDS SummaryJobs, SequenceTheorems, FiniteSetTheorems, TLAPS

(* Every step of the queue is one of these actions, or stutters. *)
LEMMA StepCases ==
  ASSUME [Next]_vars
  PROVE  \/ \E m \in Messages : Arrive(m)
         \/ \E p \in Posts, a \in Accounts, s \in Specialists :
              PostResume(p, a, s) \/ PostNothingToResume(p, a, s)
         \/ \E p \in Posts : PostInsert(p) \/ PostAlreadyActive(p)
         \/ \E w \in Runners :
              \/ ListCandidates(w) \/ EndRun(w) \/ Claim(w) \/ ClaimLost(w)
              \/ ClaimErrs(w) \/ ReuseContext(w) \/ DropBatches(w)
              \/ SelectPending(w) \/ StoreContext(w) \/ SaveReport(w)
              \/ WorkFails(w) \/ MarkFailed(w) \/ PassAborts(w) \/ Release(w)
              \/ Crash(w)
         \/ \E w \in Runners, j \in JobIds : LockCandidate(w, j) \/ SkipCandidate(w, j)
         \/ \E w \in Runners, m \in Messages : VerifyText(w, m) \/ OmitText(w, m)
         \/ \E r \in Summaries, c \in Chats : LockChat(r, c) \/ RefuseChat(r, c)
         \/ \E r \in Summaries : \/ SelectChatTexts(r) \/ SaveChatReport(r)
                                 \/ ChatReportFails(r) \/ ReleaseChat(r)
         \/ \E r \in Requests : RequestDies(r)
         \/ Upgrade
         \/ UNCHANGED vars
BY DEF Next, RunnerStep, PostStep, SummaryStep

(* Types are preserved; reviewed and skipped texts are stored ones because every selection was read from mensajes. *)
LEMMA TypeStep ==
  ASSUME TypeOK, RunnersKnowTheirJob, RequestsKnowTheirTarget, SelectionsBelong, [Next]_vars
  PROVE  TypeOK'
<1> USE ChatAssumption, SessionAssumption, BoundAssumption DEF TypeOK, Requests, Sessions, RunnerSteps, RequestSteps, Forget, Answer, messageVars, jobVars, cacheVars, runnerVars, requestVars
<1>1. ASSUME NEW m \in Messages, Arrive(m)
      PROVE  TypeOK'
  BY <1>1 DEF Arrive
<1>2. ASSUME NEW p \in Posts, NEW a \in Accounts, NEW s \in Specialists, PostResume(p, a, s)
      PROVE  TypeOK'
  <2>1. PICK j \in JobIds : /\ status' = [status EXCEPT ![j] = "queued"]
                           /\ attempts' = [attempts EXCEPT ![j] = 0]
    BY <1>2 DEF PostResume, JobsOf
  <2> QED
    BY <1>2, <2>1 DEF PostResume
<1>3. ASSUME NEW p \in Posts, NEW a \in Accounts, NEW s \in Specialists, PostNothingToResume(p, a, s)
      PROVE  TypeOK'
  BY <1>3 DEF PostNothingToResume
<1>4. ASSUME NEW p \in Posts, PostInsert(p)
      PROVE  TypeOK'
  BY <1>4 DEF PostInsert, RequestsKnowTheirTarget
<1>5. ASSUME NEW p \in Posts, PostAlreadyActive(p)
      PROVE  TypeOK'
  BY <1>5 DEF PostAlreadyActive
<1>6. ASSUME NEW w \in Runners, ListCandidates(w)
      PROVE  TypeOK'
  BY <1>6 DEF ListCandidates
<1>7. ASSUME NEW w \in Runners, EndRun(w)
      PROVE  TypeOK'
  BY <1>7 DEF EndRun
<1>8. ASSUME NEW w \in Runners, Claim(w)
      PROVE  TypeOK'
  <2>1. job[w] \in JobIds
    BY <1>8 DEF Claim, RunnersKnowTheirJob, Working
  <2>2. attempts' \in [JobIds -> Nat] /\ status' \in [JobIds -> {"absent", "queued", "running", "failed", "completed"}]
    BY <1>8, <2>1 DEF Claim
  <2>3. step' \in [Runners -> {"idle", "next", "claim", "prepare", "select", "store",
                               "analyze", "fail", "release"}]
    BY <1>8 DEF Claim
  <2> QED
    BY <1>8, <2>2, <2>3 DEF Claim
<1>9. ASSUME NEW w \in Runners, ClaimLost(w)
      PROVE  TypeOK'
  BY <1>9 DEF ClaimLost
<1>10. ASSUME NEW w \in Runners, ClaimErrs(w)
      PROVE  TypeOK'
  BY <1>10 DEF ClaimErrs
<1>11. ASSUME NEW w \in Runners, ReuseContext(w)
      PROVE  TypeOK'
  <2>1. context[job[w]] \in SUBSET Messages
    BY <1>11 DEF ReuseContext, RunnersKnowTheirJob, Working
  <2> QED
    BY <1>11, <2>1 DEF ReuseContext
<1>12. ASSUME NEW w \in Runners, DropBatches(w)
      PROVE  TypeOK'
  <2>1. batches' \in [JobIds -> SUBSET Messages]
    BY <1>12 DEF DropBatches
  <2> QED
    BY <1>12, <2>1 DEF DropBatches
<1>13. ASSUME NEW w \in Runners, SelectPending(w)
      PROVE  TypeOK'
  BY <1>13 DEF SelectPending, Available
<1>14. ASSUME NEW w \in Runners, StoreContext(w)
      PROVE  TypeOK'
  BY <1>14 DEF StoreContext
<1>15. ASSUME NEW w \in Runners, SaveReport(w)
      PROVE  TypeOK'
  <2>1. job[w] \in JobIds /\ selection[w] \subseteq arrived /\ omitted[w] \subseteq arrived
    BY <1>15 DEF SaveReport, RunnersKnowTheirJob, SelectionsBelong, Working, TextsOf
  <2> DEFINE r == Report(job[w], selection[w] \ omitted[w], omitted[w])
  <2>2. r \in [author : JobIds \cup Summaries,
               verified : SUBSET Messages, omitted : SUBSET Messages]
    BY <2>1 DEF Report
  <2>3. reports' = Append(reports, r)
    BY <1>15 DEF SaveReport
  <2> HIDE DEF r
  <2>4. reports' \in Seq([author : JobIds \cup Summaries,
                         verified : SUBSET Messages, omitted : SUBSET Messages])
    BY <2>2, <2>3, AppendProperties
  <2>5. status' \in [JobIds -> {"absent", "queued", "running", "failed", "completed"}]
    BY <1>15 DEF SaveReport
  <2>6. /\ batches' \in [JobIds -> SUBSET Messages]
        /\ context' \in [JobIds -> SUBSET Messages]
        /\ step' \in [Runners -> {"idle", "next", "claim", "prepare", "select", "store",
                                  "analyze", "fail", "release"}]
    BY <1>15 DEF SaveReport
  <2> QED
    BY <1>15, <2>1, <2>4, <2>5, <2>6 DEF SaveReport
<1>16. ASSUME NEW w \in Runners, WorkFails(w)
      PROVE  TypeOK'
  BY <1>16 DEF WorkFails
<1>17. ASSUME NEW w \in Runners, MarkFailed(w)
      PROVE  TypeOK'
  BY <1>17 DEF MarkFailed
<1>18. ASSUME NEW w \in Runners, PassAborts(w)
      PROVE  TypeOK'
  <2>1. lock' \in [Accounts -> Runners \cup Summaries \cup {None}]
    BY <1>18 DEF PassAborts
  <2>2. faults' \in 0..MaxFaults
    BY <1>18 DEF PassAborts
  <2> QED
    BY <1>18, <2>1, <2>2 DEF PassAborts
<1>19. ASSUME NEW w \in Runners, Release(w)
      PROVE  TypeOK'
  BY <1>19 DEF Release
<1>20. ASSUME NEW w \in Runners, Crash(w)
      PROVE  TypeOK'
  BY <1>20 DEF Crash, Without
<1>21. ASSUME NEW w \in Runners, NEW j \in JobIds, LockCandidate(w, j)
      PROVE  TypeOK'
  BY <1>21 DEF LockCandidate
<1>22. ASSUME NEW w \in Runners, NEW j \in JobIds, SkipCandidate(w, j)
      PROVE  TypeOK'
  BY <1>22 DEF SkipCandidate
<1>23. ASSUME NEW w \in Runners, NEW m \in Messages, VerifyText(w, m)
      PROVE  TypeOK'
  <2>1. batches' \in [JobIds -> SUBSET Messages]
    BY <1>23 DEF VerifyText
  <2> QED
    BY <1>23, <2>1 DEF VerifyText
<1>24. ASSUME NEW w \in Runners, NEW m \in Messages, OmitText(w, m)
      PROVE  TypeOK'
  BY <1>24 DEF OmitText
<1>25. ASSUME NEW r \in Summaries, NEW c \in Chats, LockChat(r, c)
      PROVE  TypeOK'
  BY <1>25 DEF LockChat
<1>26. ASSUME NEW r \in Summaries, NEW c \in Chats, RefuseChat(r, c)
      PROVE  TypeOK'
  BY <1>26 DEF RefuseChat
<1>27. ASSUME NEW r \in Summaries, SelectChatTexts(r)
      PROVE  TypeOK'
  BY <1>27 DEF SelectChatTexts, ChatPending, Available
<1>28. ASSUME NEW r \in Summaries, SaveChatReport(r)
      PROVE  TypeOK'
  <2>1. rselection[r] \subseteq arrived
    BY <1>28 DEF SaveChatReport, SelectionsBelong, Serving, TextsOf
  <2>2. Report(r, rselection[r], {}) \in [author : JobIds \cup Summaries,
               verified : SUBSET Messages, omitted : SUBSET Messages]
    BY <2>1 DEF Report
  <2>3. reports' \in Seq([author : JobIds \cup Summaries,
                         verified : SUBSET Messages, omitted : SUBSET Messages])
    BY <1>28, <2>2, AppendProperties DEF SaveChatReport
  <2> QED
    BY <1>28, <2>1, <2>3 DEF SaveChatReport
<1>29. ASSUME NEW r \in Summaries, ChatReportFails(r)
      PROVE  TypeOK'
  BY <1>29 DEF ChatReportFails
<1>30. ASSUME NEW r \in Summaries, ReleaseChat(r)
      PROVE  TypeOK'
  BY <1>30 DEF ReleaseChat
<1>31. ASSUME NEW r \in Requests, RequestDies(r)
      PROVE  TypeOK'
  BY <1>31 DEF RequestDies, Without
<1>32. CASE Upgrade
  BY <1>32 DEF Upgrade
<1>33. CASE UNCHANGED vars
  BY <1>33 DEF vars
<1> QED
  BY <1>1, <1>2, <1>3, <1>4, <1>5, <1>6, <1>7, <1>8, <1>9, <1>10, <1>11,
     <1>12, <1>13, <1>14, <1>15, <1>16, <1>17, <1>18, <1>19, <1>20, <1>21,
     <1>22, <1>23, <1>24, <1>25, <1>26, <1>27, <1>28, <1>29, <1>30, <1>31,
     <1>32, <1>33, StepCases

(* A job has an account from the statement that inserts it. *)
LEMMA OwnersStep ==
  ASSUME TypeOK, RunnersKnowTheirJob, RequestsKnowTheirTarget, JobsHaveOwners, [Next]_vars
  PROVE  JobsHaveOwners'
<1> USE ChatAssumption, SessionAssumption, BoundAssumption DEF TypeOK, JobsHaveOwners, RunnersKnowTheirJob, Working, RequestsKnowTheirTarget, Forget, Answer, Requests, messageVars, jobVars, cacheVars, runnerVars, requestVars
<1>1. ASSUME NEW m \in Messages, Arrive(m)
      PROVE  JobsHaveOwners'
  BY <1>1 DEF Arrive
<1>2. ASSUME NEW p \in Posts, NEW a \in Accounts, NEW s \in Specialists, PostResume(p, a, s)
      PROVE  JobsHaveOwners'
  BY <1>2 DEF PostResume, JobsOf
<1>3. ASSUME NEW p \in Posts, NEW a \in Accounts, NEW s \in Specialists, PostNothingToResume(p, a, s)
      PROVE  JobsHaveOwners'
  BY <1>3 DEF PostNothingToResume
<1>4. ASSUME NEW p \in Posts, PostInsert(p)
      PROVE  JobsHaveOwners'
  BY <1>4 DEF PostInsert
<1>5. ASSUME NEW p \in Posts, PostAlreadyActive(p)
      PROVE  JobsHaveOwners'
  BY <1>5 DEF PostAlreadyActive
<1>6. ASSUME NEW w \in Runners, ListCandidates(w)
      PROVE  JobsHaveOwners'
  BY <1>6 DEF ListCandidates
<1>7. ASSUME NEW w \in Runners, EndRun(w)
      PROVE  JobsHaveOwners'
  BY <1>7 DEF EndRun
<1>8. ASSUME NEW w \in Runners, Claim(w)
      PROVE  JobsHaveOwners'
  BY <1>8 DEF Claim
<1>9. ASSUME NEW w \in Runners, ClaimLost(w)
      PROVE  JobsHaveOwners'
  BY <1>9 DEF ClaimLost
<1>10. ASSUME NEW w \in Runners, ClaimErrs(w)
      PROVE  JobsHaveOwners'
  BY <1>10 DEF ClaimErrs
<1>11. ASSUME NEW w \in Runners, ReuseContext(w)
      PROVE  JobsHaveOwners'
  BY <1>11 DEF ReuseContext
<1>12. ASSUME NEW w \in Runners, DropBatches(w)
      PROVE  JobsHaveOwners'
  BY <1>12 DEF DropBatches
<1>13. ASSUME NEW w \in Runners, SelectPending(w)
      PROVE  JobsHaveOwners'
  BY <1>13 DEF SelectPending
<1>14. ASSUME NEW w \in Runners, StoreContext(w)
      PROVE  JobsHaveOwners'
  BY <1>14 DEF StoreContext
<1>15. ASSUME NEW w \in Runners, SaveReport(w)
      PROVE  JobsHaveOwners'
  BY <1>15 DEF SaveReport
<1>16. ASSUME NEW w \in Runners, WorkFails(w)
      PROVE  JobsHaveOwners'
  BY <1>16 DEF WorkFails
<1>17. ASSUME NEW w \in Runners, MarkFailed(w)
      PROVE  JobsHaveOwners'
  BY <1>17 DEF MarkFailed
<1>18. ASSUME NEW w \in Runners, PassAborts(w)
      PROVE  JobsHaveOwners'
  BY <1>18 DEF PassAborts
<1>19. ASSUME NEW w \in Runners, Release(w)
      PROVE  JobsHaveOwners'
  BY <1>19 DEF Release
<1>20. ASSUME NEW w \in Runners, Crash(w)
      PROVE  JobsHaveOwners'
  BY <1>20 DEF Crash
<1>21. ASSUME NEW w \in Runners, NEW j \in JobIds, LockCandidate(w, j)
      PROVE  JobsHaveOwners'
  BY <1>21 DEF LockCandidate
<1>22. ASSUME NEW w \in Runners, NEW j \in JobIds, SkipCandidate(w, j)
      PROVE  JobsHaveOwners'
  BY <1>22 DEF SkipCandidate
<1>23. ASSUME NEW w \in Runners, NEW m \in Messages, VerifyText(w, m)
      PROVE  JobsHaveOwners'
  BY <1>23 DEF VerifyText
<1>24. ASSUME NEW w \in Runners, NEW m \in Messages, OmitText(w, m)
      PROVE  JobsHaveOwners'
  BY <1>24 DEF OmitText
<1>25. ASSUME NEW r \in Summaries, NEW c \in Chats, LockChat(r, c)
      PROVE  JobsHaveOwners'
  BY <1>25 DEF LockChat
<1>26. ASSUME NEW r \in Summaries, NEW c \in Chats, RefuseChat(r, c)
      PROVE  JobsHaveOwners'
  BY <1>26 DEF RefuseChat
<1>27. ASSUME NEW r \in Summaries, SelectChatTexts(r)
      PROVE  JobsHaveOwners'
  BY <1>27 DEF SelectChatTexts
<1>28. ASSUME NEW r \in Summaries, SaveChatReport(r)
      PROVE  JobsHaveOwners'
  BY <1>28 DEF SaveChatReport
<1>29. ASSUME NEW r \in Summaries, ChatReportFails(r)
      PROVE  JobsHaveOwners'
  BY <1>29 DEF ChatReportFails
<1>30. ASSUME NEW r \in Summaries, ReleaseChat(r)
      PROVE  JobsHaveOwners'
  BY <1>30 DEF ReleaseChat
<1>31. ASSUME NEW r \in Requests, RequestDies(r)
      PROVE  JobsHaveOwners'
  BY <1>31 DEF RequestDies
<1>32. CASE Upgrade
  BY <1>32 DEF Upgrade
<1>33. CASE UNCHANGED vars
  BY <1>33 DEF vars
<1> QED
  BY <1>1, <1>2, <1>3, <1>4, <1>5, <1>6, <1>7, <1>8, <1>9, <1>10, <1>11,
     <1>12, <1>13, <1>14, <1>15, <1>16, <1>17, <1>18, <1>19, <1>20, <1>21,
     <1>22, <1>23, <1>24, <1>25, <1>26, <1>27, <1>28, <1>29, <1>30, <1>31,
     <1>32, <1>33, StepCases

(* What a pass listed or works on is a row that exists. *)
LEMMA RunnersStep ==
  ASSUME TypeOK, RunnersKnowTheirJob, [Next]_vars
  PROVE  RunnersKnowTheirJob'
<1> USE ChatAssumption, SessionAssumption, BoundAssumption DEF TypeOK, RunnersKnowTheirJob, Working, Forget, Answer, RunnerSteps, messageVars, jobVars, cacheVars, runnerVars, requestVars
<1>1. ASSUME NEW m \in Messages, Arrive(m)
      PROVE  RunnersKnowTheirJob'
  BY <1>1 DEF Arrive
<1>2. ASSUME NEW p \in Posts, NEW a \in Accounts, NEW s \in Specialists, PostResume(p, a, s)
      PROVE  RunnersKnowTheirJob'
  BY <1>2 DEF PostResume
<1>3. ASSUME NEW p \in Posts, NEW a \in Accounts, NEW s \in Specialists, PostNothingToResume(p, a, s)
      PROVE  RunnersKnowTheirJob'
  BY <1>3 DEF PostNothingToResume
<1>4. ASSUME NEW p \in Posts, PostInsert(p)
      PROVE  RunnersKnowTheirJob'
  BY <1>4 DEF PostInsert
<1>5. ASSUME NEW p \in Posts, PostAlreadyActive(p)
      PROVE  RunnersKnowTheirJob'
  BY <1>5 DEF PostAlreadyActive
<1>6. ASSUME NEW w \in Runners, ListCandidates(w)
      PROVE  RunnersKnowTheirJob'
  BY <1>6 DEF ListCandidates, Due, Active
<1>7. ASSUME NEW w \in Runners, EndRun(w)
      PROVE  RunnersKnowTheirJob'
  BY <1>7 DEF EndRun
<1>8. ASSUME NEW w \in Runners, Claim(w)
      PROVE  RunnersKnowTheirJob'
  BY <1>8 DEF Claim
<1>9. ASSUME NEW w \in Runners, ClaimLost(w)
      PROVE  RunnersKnowTheirJob'
  BY <1>9 DEF ClaimLost
<1>10. ASSUME NEW w \in Runners, ClaimErrs(w)
      PROVE  RunnersKnowTheirJob'
  BY <1>10 DEF ClaimErrs
<1>11. ASSUME NEW w \in Runners, ReuseContext(w)
      PROVE  RunnersKnowTheirJob'
  BY <1>11 DEF ReuseContext
<1>12. ASSUME NEW w \in Runners, DropBatches(w)
      PROVE  RunnersKnowTheirJob'
  BY <1>12 DEF DropBatches
<1>13. ASSUME NEW w \in Runners, SelectPending(w)
      PROVE  RunnersKnowTheirJob'
  BY <1>13 DEF SelectPending
<1>14. ASSUME NEW w \in Runners, StoreContext(w)
      PROVE  RunnersKnowTheirJob'
  BY <1>14 DEF StoreContext
<1>15. ASSUME NEW w \in Runners, SaveReport(w)
      PROVE  RunnersKnowTheirJob'
  BY <1>15 DEF SaveReport
<1>16. ASSUME NEW w \in Runners, WorkFails(w)
      PROVE  RunnersKnowTheirJob'
  BY <1>16 DEF WorkFails
<1>17. ASSUME NEW w \in Runners, MarkFailed(w)
      PROVE  RunnersKnowTheirJob'
  BY <1>17 DEF MarkFailed
<1>18. ASSUME NEW w \in Runners, PassAborts(w)
      PROVE  RunnersKnowTheirJob'
  BY <1>18 DEF PassAborts
<1>19. ASSUME NEW w \in Runners, Release(w)
      PROVE  RunnersKnowTheirJob'
  BY <1>19 DEF Release
<1>20. ASSUME NEW w \in Runners, Crash(w)
      PROVE  RunnersKnowTheirJob'
  BY <1>20 DEF Crash
<1>21. ASSUME NEW w \in Runners, NEW j \in JobIds, LockCandidate(w, j)
      PROVE  RunnersKnowTheirJob'
  BY <1>21 DEF LockCandidate
<1>22. ASSUME NEW w \in Runners, NEW j \in JobIds, SkipCandidate(w, j)
      PROVE  RunnersKnowTheirJob'
  BY <1>22 DEF SkipCandidate
<1>23. ASSUME NEW w \in Runners, NEW m \in Messages, VerifyText(w, m)
      PROVE  RunnersKnowTheirJob'
  BY <1>23 DEF VerifyText
<1>24. ASSUME NEW w \in Runners, NEW m \in Messages, OmitText(w, m)
      PROVE  RunnersKnowTheirJob'
  BY <1>24 DEF OmitText
<1>25. ASSUME NEW r \in Summaries, NEW c \in Chats, LockChat(r, c)
      PROVE  RunnersKnowTheirJob'
  BY <1>25 DEF LockChat
<1>26. ASSUME NEW r \in Summaries, NEW c \in Chats, RefuseChat(r, c)
      PROVE  RunnersKnowTheirJob'
  BY <1>26 DEF RefuseChat
<1>27. ASSUME NEW r \in Summaries, SelectChatTexts(r)
      PROVE  RunnersKnowTheirJob'
  BY <1>27 DEF SelectChatTexts
<1>28. ASSUME NEW r \in Summaries, SaveChatReport(r)
      PROVE  RunnersKnowTheirJob'
  BY <1>28 DEF SaveChatReport
<1>29. ASSUME NEW r \in Summaries, ChatReportFails(r)
      PROVE  RunnersKnowTheirJob'
  BY <1>29 DEF ChatReportFails
<1>30. ASSUME NEW r \in Summaries, ReleaseChat(r)
      PROVE  RunnersKnowTheirJob'
  BY <1>30 DEF ReleaseChat
<1>31. ASSUME NEW r \in Requests, RequestDies(r)
      PROVE  RunnersKnowTheirJob'
  BY <1>31 DEF RequestDies
<1>32. CASE Upgrade
  BY <1>32 DEF Upgrade
<1>33. CASE UNCHANGED vars
  BY <1>33 DEF vars
<1> QED
  BY <1>1, <1>2, <1>3, <1>4, <1>5, <1>6, <1>7, <1>8, <1>9, <1>10, <1>11,
     <1>12, <1>13, <1>14, <1>15, <1>16, <1>17, <1>18, <1>19, <1>20, <1>21,
     <1>22, <1>23, <1>24, <1>25, <1>26, <1>27, <1>28, <1>29, <1>30, <1>31,
     <1>32, <1>33, StepCases

(* A request that waits for its second statement or holds a lock still knows its account. *)
LEMMA RequestsStep ==
  ASSUME TypeOK, RequestsKnowTheirTarget, [Next]_vars
  PROVE  RequestsKnowTheirTarget'
<1> USE ChatAssumption, SessionAssumption, BoundAssumption DEF TypeOK, RequestsKnowTheirTarget, Serving, Forget, Answer, Requests, RequestSteps, messageVars, jobVars, cacheVars, runnerVars, requestVars
<1>1. ASSUME NEW m \in Messages, Arrive(m)
      PROVE  RequestsKnowTheirTarget'
  BY <1>1 DEF Arrive
<1>2. ASSUME NEW p \in Posts, NEW a \in Accounts, NEW s \in Specialists, PostResume(p, a, s)
      PROVE  RequestsKnowTheirTarget'
  BY <1>2 DEF PostResume
<1>3. ASSUME NEW p \in Posts, NEW a \in Accounts, NEW s \in Specialists, PostNothingToResume(p, a, s)
      PROVE  RequestsKnowTheirTarget'
  BY <1>3 DEF PostNothingToResume
<1>4. ASSUME NEW p \in Posts, PostInsert(p)
      PROVE  RequestsKnowTheirTarget'
  BY <1>4 DEF PostInsert
<1>5. ASSUME NEW p \in Posts, PostAlreadyActive(p)
      PROVE  RequestsKnowTheirTarget'
  BY <1>5 DEF PostAlreadyActive
<1>6. ASSUME NEW w \in Runners, ListCandidates(w)
      PROVE  RequestsKnowTheirTarget'
  BY <1>6 DEF ListCandidates
<1>7. ASSUME NEW w \in Runners, EndRun(w)
      PROVE  RequestsKnowTheirTarget'
  BY <1>7 DEF EndRun
<1>8. ASSUME NEW w \in Runners, Claim(w)
      PROVE  RequestsKnowTheirTarget'
  BY <1>8 DEF Claim
<1>9. ASSUME NEW w \in Runners, ClaimLost(w)
      PROVE  RequestsKnowTheirTarget'
  BY <1>9 DEF ClaimLost
<1>10. ASSUME NEW w \in Runners, ClaimErrs(w)
      PROVE  RequestsKnowTheirTarget'
  BY <1>10 DEF ClaimErrs
<1>11. ASSUME NEW w \in Runners, ReuseContext(w)
      PROVE  RequestsKnowTheirTarget'
  BY <1>11 DEF ReuseContext
<1>12. ASSUME NEW w \in Runners, DropBatches(w)
      PROVE  RequestsKnowTheirTarget'
  BY <1>12 DEF DropBatches
<1>13. ASSUME NEW w \in Runners, SelectPending(w)
      PROVE  RequestsKnowTheirTarget'
  BY <1>13 DEF SelectPending
<1>14. ASSUME NEW w \in Runners, StoreContext(w)
      PROVE  RequestsKnowTheirTarget'
  BY <1>14 DEF StoreContext
<1>15. ASSUME NEW w \in Runners, SaveReport(w)
      PROVE  RequestsKnowTheirTarget'
  BY <1>15 DEF SaveReport
<1>16. ASSUME NEW w \in Runners, WorkFails(w)
      PROVE  RequestsKnowTheirTarget'
  BY <1>16 DEF WorkFails
<1>17. ASSUME NEW w \in Runners, MarkFailed(w)
      PROVE  RequestsKnowTheirTarget'
  BY <1>17 DEF MarkFailed
<1>18. ASSUME NEW w \in Runners, PassAborts(w)
      PROVE  RequestsKnowTheirTarget'
  BY <1>18 DEF PassAborts
<1>19. ASSUME NEW w \in Runners, Release(w)
      PROVE  RequestsKnowTheirTarget'
  BY <1>19 DEF Release
<1>20. ASSUME NEW w \in Runners, Crash(w)
      PROVE  RequestsKnowTheirTarget'
  BY <1>20 DEF Crash
<1>21. ASSUME NEW w \in Runners, NEW j \in JobIds, LockCandidate(w, j)
      PROVE  RequestsKnowTheirTarget'
  BY <1>21 DEF LockCandidate
<1>22. ASSUME NEW w \in Runners, NEW j \in JobIds, SkipCandidate(w, j)
      PROVE  RequestsKnowTheirTarget'
  BY <1>22 DEF SkipCandidate
<1>23. ASSUME NEW w \in Runners, NEW m \in Messages, VerifyText(w, m)
      PROVE  RequestsKnowTheirTarget'
  BY <1>23 DEF VerifyText
<1>24. ASSUME NEW w \in Runners, NEW m \in Messages, OmitText(w, m)
      PROVE  RequestsKnowTheirTarget'
  BY <1>24 DEF OmitText
<1>25. ASSUME NEW r \in Summaries, NEW c \in Chats, LockChat(r, c)
      PROVE  RequestsKnowTheirTarget'
  BY <1>25 DEF LockChat
<1>26. ASSUME NEW r \in Summaries, NEW c \in Chats, RefuseChat(r, c)
      PROVE  RequestsKnowTheirTarget'
  BY <1>26 DEF RefuseChat
<1>27. ASSUME NEW r \in Summaries, SelectChatTexts(r)
      PROVE  RequestsKnowTheirTarget'
  BY <1>27 DEF SelectChatTexts
<1>28. ASSUME NEW r \in Summaries, SaveChatReport(r)
      PROVE  RequestsKnowTheirTarget'
  BY <1>28 DEF SaveChatReport
<1>29. ASSUME NEW r \in Summaries, ChatReportFails(r)
      PROVE  RequestsKnowTheirTarget'
  BY <1>29 DEF ChatReportFails
<1>30. ASSUME NEW r \in Summaries, ReleaseChat(r)
      PROVE  RequestsKnowTheirTarget'
  BY <1>30 DEF ReleaseChat
<1>31. ASSUME NEW r \in Requests, RequestDies(r)
      PROVE  RequestsKnowTheirTarget'
  BY <1>31 DEF RequestDies
<1>32. CASE Upgrade
  BY <1>32 DEF Upgrade
<1>33. CASE UNCHANGED vars
  BY <1>33 DEF vars
<1> QED
  BY <1>1, <1>2, <1>3, <1>4, <1>5, <1>6, <1>7, <1>8, <1>9, <1>10, <1>11,
     <1>12, <1>13, <1>14, <1>15, <1>16, <1>17, <1>18, <1>19, <1>20, <1>21,
     <1>22, <1>23, <1>24, <1>25, <1>26, <1>27, <1>28, <1>29, <1>30, <1>31,
     <1>32, <1>33, StepCases

(* Contexts and selections hold stored texts of the account they were read for. *)
LEMMA BelongStep ==
  ASSUME TypeOK, JobsHaveOwners, RunnersKnowTheirJob, RequestsKnowTheirTarget, SelectionsBelong, [Next]_vars
  PROVE  SelectionsBelong'
<1> USE ChatAssumption, SessionAssumption, BoundAssumption DEF TypeOK, JobsHaveOwners, RunnersKnowTheirJob, RequestsKnowTheirTarget, SelectionsBelong, TextsOf, Working, Serving, Forget, Answer, Requests, messageVars, jobVars, cacheVars, runnerVars, requestVars
<1>1. ASSUME NEW m \in Messages, Arrive(m)
      PROVE  SelectionsBelong'
  BY <1>1 DEF Arrive
<1>2. ASSUME NEW p \in Posts, NEW a \in Accounts, NEW s \in Specialists, PostResume(p, a, s)
      PROVE  SelectionsBelong'
  BY <1>2 DEF PostResume
<1>3. ASSUME NEW p \in Posts, NEW a \in Accounts, NEW s \in Specialists, PostNothingToResume(p, a, s)
      PROVE  SelectionsBelong'
  BY <1>3 DEF PostNothingToResume
<1>4. ASSUME NEW p \in Posts, PostInsert(p)
      PROVE  SelectionsBelong'
  <2>1. PICK j \in JobIds : /\ status[j] = "absent"
                           /\ owner' = [owner EXCEPT ![j] = raccount[p]]
    BY <1>4 DEF PostInsert
  <2>2. TextsOf(None) = {}
    BY DEF AccountOf
  <2>3. context[j] = {}
    BY <2>1, <2>2
  <2>4. \A w \in Runners : Working(w) => job[w] # j
    BY <2>1
  <2>5. \A k \in JobIds : context'[k] \subseteq TextsOf(owner'[k])
    <3>1. \A k \in JobIds : k # j => owner'[k] = owner[k]
      BY <2>1
    <3> QED
      BY <1>4, <2>3, <3>1 DEF PostInsert
  <2>6. \A w \in Runners : Working(w) => owner'[job[w]] = owner[job[w]]
    BY <2>1, <2>4
  <2> QED
    BY <1>4, <2>5, <2>6 DEF PostInsert
<1>5. ASSUME NEW p \in Posts, PostAlreadyActive(p)
      PROVE  SelectionsBelong'
  BY <1>5 DEF PostAlreadyActive
<1>6. ASSUME NEW w \in Runners, ListCandidates(w)
      PROVE  SelectionsBelong'
  BY <1>6 DEF ListCandidates
<1>7. ASSUME NEW w \in Runners, EndRun(w)
      PROVE  SelectionsBelong'
  BY <1>7 DEF EndRun
<1>8. ASSUME NEW w \in Runners, Claim(w)
      PROVE  SelectionsBelong'
  BY <1>8 DEF Claim
<1>9. ASSUME NEW w \in Runners, ClaimLost(w)
      PROVE  SelectionsBelong'
  BY <1>9 DEF ClaimLost
<1>10. ASSUME NEW w \in Runners, ClaimErrs(w)
      PROVE  SelectionsBelong'
  BY <1>10 DEF ClaimErrs
<1>11. ASSUME NEW w \in Runners, ReuseContext(w)
      PROVE  SelectionsBelong'
  BY <1>11 DEF ReuseContext
<1>12. ASSUME NEW w \in Runners, DropBatches(w)
      PROVE  SelectionsBelong'
  BY <1>12 DEF DropBatches
<1>13. ASSUME NEW w \in Runners, SelectPending(w)
      PROVE  SelectionsBelong'
  BY <1>13 DEF SelectPending, Available
<1>14. ASSUME NEW w \in Runners, StoreContext(w)
      PROVE  SelectionsBelong'
  <2>1. selection[w] \subseteq TextsOf(owner[job[w]]) /\ job[w] \in JobIds
    BY <1>14 DEF StoreContext
  <2>2. \A j \in JobIds : context'[j] \subseteq TextsOf(owner[j])
    BY <1>14, <2>1 DEF StoreContext
  <2> QED
    BY <1>14, <2>2 DEF StoreContext
<1>15. ASSUME NEW w \in Runners, SaveReport(w)
      PROVE  SelectionsBelong'
  BY <1>15 DEF SaveReport
<1>16. ASSUME NEW w \in Runners, WorkFails(w)
      PROVE  SelectionsBelong'
  BY <1>16 DEF WorkFails
<1>17. ASSUME NEW w \in Runners, MarkFailed(w)
      PROVE  SelectionsBelong'
  BY <1>17 DEF MarkFailed
<1>18. ASSUME NEW w \in Runners, PassAborts(w)
      PROVE  SelectionsBelong'
  BY <1>18 DEF PassAborts
<1>19. ASSUME NEW w \in Runners, Release(w)
      PROVE  SelectionsBelong'
  BY <1>19 DEF Release
<1>20. ASSUME NEW w \in Runners, Crash(w)
      PROVE  SelectionsBelong'
  BY <1>20 DEF Crash
<1>21. ASSUME NEW w \in Runners, NEW j \in JobIds, LockCandidate(w, j)
      PROVE  SelectionsBelong'
  BY <1>21 DEF LockCandidate
<1>22. ASSUME NEW w \in Runners, NEW j \in JobIds, SkipCandidate(w, j)
      PROVE  SelectionsBelong'
  BY <1>22 DEF SkipCandidate
<1>23. ASSUME NEW w \in Runners, NEW m \in Messages, VerifyText(w, m)
      PROVE  SelectionsBelong'
  BY <1>23 DEF VerifyText
<1>24. ASSUME NEW w \in Runners, NEW m \in Messages, OmitText(w, m)
      PROVE  SelectionsBelong'
  BY <1>24 DEF OmitText
<1>25. ASSUME NEW r \in Summaries, NEW c \in Chats, LockChat(r, c)
      PROVE  SelectionsBelong'
  BY <1>25 DEF LockChat
<1>26. ASSUME NEW r \in Summaries, NEW c \in Chats, RefuseChat(r, c)
      PROVE  SelectionsBelong'
  BY <1>26 DEF RefuseChat
<1>27. ASSUME NEW r \in Summaries, SelectChatTexts(r)
      PROVE  SelectionsBelong'
  BY <1>27 DEF SelectChatTexts, ChatPending, Available
<1>28. ASSUME NEW r \in Summaries, SaveChatReport(r)
      PROVE  SelectionsBelong'
  BY <1>28 DEF SaveChatReport
<1>29. ASSUME NEW r \in Summaries, ChatReportFails(r)
      PROVE  SelectionsBelong'
  BY <1>29 DEF ChatReportFails
<1>30. ASSUME NEW r \in Summaries, ReleaseChat(r)
      PROVE  SelectionsBelong'
  BY <1>30 DEF ReleaseChat
<1>31. ASSUME NEW r \in Requests, RequestDies(r)
      PROVE  SelectionsBelong'
  BY <1>31 DEF RequestDies
<1>32. CASE Upgrade
  BY <1>32 DEF Upgrade
<1>33. CASE UNCHANGED vars
  BY <1>33 DEF vars
<1> QED
  BY <1>1, <1>2, <1>3, <1>4, <1>5, <1>6, <1>7, <1>8, <1>9, <1>10, <1>11,
     <1>12, <1>13, <1>14, <1>15, <1>16, <1>17, <1>18, <1>19, <1>20, <1>21,
     <1>22, <1>23, <1>24, <1>25, <1>26, <1>27, <1>28, <1>29, <1>30, <1>31,
     <1>32, <1>33, StepCases

(* Only the session that holds an account's lock works on it, and only that session or its end gives it back. *)
LEMMA LockStep ==
  ASSUME TypeOK, JobsHaveOwners, RunnersKnowTheirJob, RequestsKnowTheirTarget, WorkersHoldTheLock, [Next]_vars
  PROVE  WorkersHoldTheLock'
<1> USE ChatAssumption, SessionAssumption, BoundAssumption DEF TypeOK, JobsHaveOwners, RunnersKnowTheirJob, RequestsKnowTheirTarget, WorkersHoldTheLock, Working, Serving, Forget, Answer, Requests, Sessions, messageVars, jobVars, cacheVars, runnerVars, requestVars
<1>1. ASSUME NEW m \in Messages, Arrive(m)
      PROVE  WorkersHoldTheLock'
  BY <1>1 DEF Arrive
<1>2. ASSUME NEW p \in Posts, NEW a \in Accounts, NEW s \in Specialists, PostResume(p, a, s)
      PROVE  WorkersHoldTheLock'
  BY <1>2 DEF PostResume
<1>3. ASSUME NEW p \in Posts, NEW a \in Accounts, NEW s \in Specialists, PostNothingToResume(p, a, s)
      PROVE  WorkersHoldTheLock'
  BY <1>3 DEF PostNothingToResume
<1>4. ASSUME NEW p \in Posts, PostInsert(p)
      PROVE  WorkersHoldTheLock'
  BY <1>4 DEF PostInsert
<1>5. ASSUME NEW p \in Posts, PostAlreadyActive(p)
      PROVE  WorkersHoldTheLock'
  BY <1>5 DEF PostAlreadyActive
<1>6. ASSUME NEW w \in Runners, ListCandidates(w)
      PROVE  WorkersHoldTheLock'
  BY <1>6 DEF ListCandidates
<1>7. ASSUME NEW w \in Runners, EndRun(w)
      PROVE  WorkersHoldTheLock'
  BY <1>7 DEF EndRun
<1>8. ASSUME NEW w \in Runners, Claim(w)
      PROVE  WorkersHoldTheLock'
  BY <1>8 DEF Claim
<1>9. ASSUME NEW w \in Runners, ClaimLost(w)
      PROVE  WorkersHoldTheLock'
  BY <1>9 DEF ClaimLost
<1>10. ASSUME NEW w \in Runners, ClaimErrs(w)
      PROVE  WorkersHoldTheLock'
  BY <1>10 DEF ClaimErrs
<1>11. ASSUME NEW w \in Runners, ReuseContext(w)
      PROVE  WorkersHoldTheLock'
  BY <1>11 DEF ReuseContext
<1>12. ASSUME NEW w \in Runners, DropBatches(w)
      PROVE  WorkersHoldTheLock'
  BY <1>12 DEF DropBatches
<1>13. ASSUME NEW w \in Runners, SelectPending(w)
      PROVE  WorkersHoldTheLock'
  BY <1>13 DEF SelectPending
<1>14. ASSUME NEW w \in Runners, StoreContext(w)
      PROVE  WorkersHoldTheLock'
  BY <1>14 DEF StoreContext
<1>15. ASSUME NEW w \in Runners, SaveReport(w)
      PROVE  WorkersHoldTheLock'
  BY <1>15 DEF SaveReport
<1>16. ASSUME NEW w \in Runners, WorkFails(w)
      PROVE  WorkersHoldTheLock'
  BY <1>16 DEF WorkFails
<1>17. ASSUME NEW w \in Runners, MarkFailed(w)
      PROVE  WorkersHoldTheLock'
  BY <1>17 DEF MarkFailed
<1>18. ASSUME NEW w \in Runners, PassAborts(w)
      PROVE  WorkersHoldTheLock'
  <2>1. job[w] \in JobIds /\ Working(w)
    BY <1>18 DEF PassAborts
  <2>2. lock' = [lock EXCEPT ![owner[job[w]]] = None]
    BY <1>18 DEF PassAborts
  <2>3. \A v \in Runners : v # w /\ Working(v) => owner[job[v]] # owner[job[w]]
    BY <2>1
  <2>4. \A r \in Summaries : Serving(r) => OwnerOf[rchat[r]] # owner[job[w]]
    BY <2>1
  <2>5. \A v \in Runners : Working(v)' => v # w /\ Working(v) /\ job'[v] = job[v]
    BY <1>18 DEF PassAborts
  <2>6. \A v \in Runners : Working(v)' => lock'[owner[job[v]]] = v
    BY <2>2, <2>3, <2>5
  <2>7. \A r \in Summaries : Serving(r) => lock'[OwnerOf[rchat[r]]] = r
    BY <2>2, <2>4
  <2> QED
    BY <1>18, <2>5, <2>6, <2>7 DEF PassAborts
<1>19. ASSUME NEW w \in Runners, Release(w)
      PROVE  WorkersHoldTheLock'
  <2>1. job[w] \in JobIds /\ Working(w)
    BY <1>19 DEF Release
  <2>2. lock' = [lock EXCEPT ![owner[job[w]]] = None]
    BY <1>19 DEF Release
  <2>3. \A v \in Runners : v # w /\ Working(v) => owner[job[v]] # owner[job[w]]
    BY <2>1
  <2>4. \A r \in Summaries : Serving(r) => OwnerOf[rchat[r]] # owner[job[w]]
    BY <2>1
  <2>5. \A v \in Runners : Working(v)' => v # w /\ Working(v) /\ job'[v] = job[v]
    BY <1>19 DEF Release
  <2>6. \A v \in Runners : Working(v)' => lock'[owner[job[v]]] = v
    BY <2>2, <2>3, <2>5
  <2>7. \A r \in Summaries : Serving(r) => lock'[OwnerOf[rchat[r]]] = r
    BY <2>2, <2>4
  <2> QED
    BY <1>19, <2>5, <2>6, <2>7 DEF Release
<1>20. ASSUME NEW w \in Runners, Crash(w)
      PROVE  WorkersHoldTheLock'
  BY <1>20 DEF Crash, Without
<1>21. ASSUME NEW w \in Runners, NEW j \in JobIds, LockCandidate(w, j)
      PROVE  WorkersHoldTheLock'
  BY <1>21 DEF LockCandidate, Unlocked
<1>22. ASSUME NEW w \in Runners, NEW j \in JobIds, SkipCandidate(w, j)
      PROVE  WorkersHoldTheLock'
  BY <1>22 DEF SkipCandidate
<1>23. ASSUME NEW w \in Runners, NEW m \in Messages, VerifyText(w, m)
      PROVE  WorkersHoldTheLock'
  BY <1>23 DEF VerifyText
<1>24. ASSUME NEW w \in Runners, NEW m \in Messages, OmitText(w, m)
      PROVE  WorkersHoldTheLock'
  BY <1>24 DEF OmitText
<1>25. ASSUME NEW r \in Summaries, NEW c \in Chats, LockChat(r, c)
      PROVE  WorkersHoldTheLock'
  BY <1>25 DEF LockChat, Unlocked
<1>26. ASSUME NEW r \in Summaries, NEW c \in Chats, RefuseChat(r, c)
      PROVE  WorkersHoldTheLock'
  BY <1>26 DEF RefuseChat
<1>27. ASSUME NEW r \in Summaries, SelectChatTexts(r)
      PROVE  WorkersHoldTheLock'
  BY <1>27 DEF SelectChatTexts
<1>28. ASSUME NEW r \in Summaries, SaveChatReport(r)
      PROVE  WorkersHoldTheLock'
  BY <1>28 DEF SaveChatReport
<1>29. ASSUME NEW r \in Summaries, ChatReportFails(r)
      PROVE  WorkersHoldTheLock'
  BY <1>29 DEF ChatReportFails
<1>30. ASSUME NEW r \in Summaries, ReleaseChat(r)
      PROVE  WorkersHoldTheLock'
  BY <1>30 DEF ReleaseChat
<1>31. ASSUME NEW r \in Requests, RequestDies(r)
      PROVE  WorkersHoldTheLock'
  BY <1>31 DEF RequestDies, Without
<1>32. CASE Upgrade
  BY <1>32 DEF Upgrade
<1>33. CASE UNCHANGED vars
  BY <1>33 DEF vars
<1> QED
  BY <1>1, <1>2, <1>3, <1>4, <1>5, <1>6, <1>7, <1>8, <1>9, <1>10, <1>11,
     <1>12, <1>13, <1>14, <1>15, <1>16, <1>17, <1>18, <1>19, <1>20, <1>21,
     <1>22, <1>23, <1>24, <1>25, <1>26, <1>27, <1>28, <1>29, <1>30, <1>31,
     <1>32, <1>33, StepCases

(* Texts are consumed under the lock of their account only, so what another session read under that lock stays pending. *)
LEMMA PendingStep ==
  ASSUME TypeOK, JobsHaveOwners, RunnersKnowTheirJob, RequestsKnowTheirTarget, SelectionsBelong, WorkersHoldTheLock, SelectionsStayPending, [Next]_vars
  PROVE  SelectionsStayPending'
<1> USE ChatAssumption, SessionAssumption, BoundAssumption DEF TypeOK, JobsHaveOwners, RunnersKnowTheirJob, RequestsKnowTheirTarget, SelectionsBelong, WorkersHoldTheLock, SelectionsStayPending, TextsOf, Working, Serving, Forget, Answer, Requests, messageVars, jobVars, cacheVars, runnerVars, requestVars
<1>1. ASSUME NEW m \in Messages, Arrive(m)
      PROVE  SelectionsStayPending'
  BY <1>1 DEF Arrive
<1>2. ASSUME NEW p \in Posts, NEW a \in Accounts, NEW s \in Specialists, PostResume(p, a, s)
      PROVE  SelectionsStayPending'
  BY <1>2 DEF PostResume
<1>3. ASSUME NEW p \in Posts, NEW a \in Accounts, NEW s \in Specialists, PostNothingToResume(p, a, s)
      PROVE  SelectionsStayPending'
  BY <1>3 DEF PostNothingToResume
<1>4. ASSUME NEW p \in Posts, PostInsert(p)
      PROVE  SelectionsStayPending'
  BY <1>4 DEF PostInsert
<1>5. ASSUME NEW p \in Posts, PostAlreadyActive(p)
      PROVE  SelectionsStayPending'
  BY <1>5 DEF PostAlreadyActive
<1>6. ASSUME NEW w \in Runners, ListCandidates(w)
      PROVE  SelectionsStayPending'
  BY <1>6 DEF ListCandidates
<1>7. ASSUME NEW w \in Runners, EndRun(w)
      PROVE  SelectionsStayPending'
  BY <1>7 DEF EndRun
<1>8. ASSUME NEW w \in Runners, Claim(w)
      PROVE  SelectionsStayPending'
  BY <1>8 DEF Claim
<1>9. ASSUME NEW w \in Runners, ClaimLost(w)
      PROVE  SelectionsStayPending'
  BY <1>9 DEF ClaimLost
<1>10. ASSUME NEW w \in Runners, ClaimErrs(w)
      PROVE  SelectionsStayPending'
  BY <1>10 DEF ClaimErrs
<1>11. ASSUME NEW w \in Runners, ReuseContext(w)
      PROVE  SelectionsStayPending'
  BY <1>11 DEF ReuseContext
<1>12. ASSUME NEW w \in Runners, DropBatches(w)
      PROVE  SelectionsStayPending'
  BY <1>12 DEF DropBatches
<1>13. ASSUME NEW w \in Runners, SelectPending(w)
      PROVE  SelectionsStayPending'
  BY <1>13 DEF SelectPending, Available
<1>14. ASSUME NEW w \in Runners, StoreContext(w)
      PROVE  SelectionsStayPending'
  BY <1>14 DEF StoreContext
<1>15. ASSUME NEW w \in Runners, SaveReport(w)
      PROVE  SelectionsStayPending'
  <2>1. step[w] = "analyze" /\ job[w] \in JobIds /\ lock[owner[job[w]]] = w
          /\ status[job[w]] # "absent"
    BY <1>15 DEF SaveReport
  <2>8. owner[job[w]] \in Accounts
    BY <2>1
  <2>2. reviewed' \cup skipped' \subseteq reviewed \cup skipped \cup TextsOf(owner[job[w]])
    BY <1>15, <2>1, <2>8 DEF SaveReport
  <2>3. \A v \in Runners : step'[v] = "store" =>
          /\ step[v] = "store" /\ selection'[v] = selection[v]
          /\ job[v] \in JobIds /\ lock[owner[job[v]]] = v
          /\ selection[v] \subseteq TextsOf(owner[job[v]])
          /\ owner[job[v]] \in Accounts /\ v # w
    <3>1. \A v \in Runners : step'[v] = "store" => step[v] = "store" /\ v # w
      BY <1>15, <2>1 DEF SaveReport
    <3>2. \A v \in Runners : step[v] = "store" =>
            /\ job[v] \in JobIds /\ status[job[v]] # "absent"
            /\ lock[owner[job[v]]] = v /\ selection[v] \subseteq TextsOf(owner[job[v]])
      OBVIOUS
    <3>3. \A j \in JobIds : status[j] # "absent" => owner[j] \in Accounts
      OBVIOUS
    <3>4. \A v \in Runners : step'[v] = "store" => selection'[v] = selection[v]
      BY <1>15 DEF SaveReport
    <3> QED
      BY <3>1, <3>2, <3>3, <3>4
  <2>4. \A q \in Summaries : rstep'[q] = "generate" =>
          /\ rstep[q] = "generate" /\ rselection'[q] = rselection[q]
          /\ rchat[q] \in Chats /\ lock[OwnerOf[rchat[q]]] = q
          /\ rselection[q] \subseteq TextsOf(OwnerOf[rchat[q]])
          /\ OwnerOf[rchat[q]] \in Accounts /\ q # w
    <3>1. \A q \in Summaries : rstep'[q] = "generate" => rstep[q] = "generate" /\ q # w
      BY <1>15, <2>1 DEF SaveReport
    <3> QED
      BY <1>15, <3>1 DEF SaveReport
  <2>5. \A a \in Accounts, b \in Accounts :
          a # b => TextsOf(a) \cap TextsOf(b) = {}
    OBVIOUS
  <2>6. \A v \in Runners : step'[v] = "store" =>
          selection'[v] \cap (reviewed' \cup skipped') = {}
    <3>1. \A v \in Runners : step'[v] = "store" =>
            TextsOf(owner[job[v]]) \cap TextsOf(owner[job[w]]) = {}
      BY <2>1, <2>8, <2>3, <2>5
    <3>2. \A v \in Runners : step[v] = "store" => selection[v] \cap (reviewed \cup skipped) = {}
      OBVIOUS
    <3> QED
      BY <2>2, <2>3, <3>1, <3>2
  <2>7. \A q \in Summaries : rstep'[q] = "generate" =>
          rselection'[q] \cap (reviewed' \cup skipped') = {}
    <3>1. \A q \in Summaries : rstep'[q] = "generate" =>
            TextsOf(OwnerOf[rchat[q]]) \cap TextsOf(owner[job[w]]) = {}
      BY <2>1, <2>8, <2>4, <2>5
    <3>2. \A q \in Summaries : rstep[q] = "generate" => rselection[q] \cap (reviewed \cup skipped) = {}
      OBVIOUS
    <3> QED
      BY <2>2, <2>4, <3>1, <3>2
  <2> QED
    BY <2>6, <2>7
<1>16. ASSUME NEW w \in Runners, WorkFails(w)
      PROVE  SelectionsStayPending'
  BY <1>16 DEF WorkFails
<1>17. ASSUME NEW w \in Runners, MarkFailed(w)
      PROVE  SelectionsStayPending'
  BY <1>17 DEF MarkFailed
<1>18. ASSUME NEW w \in Runners, PassAborts(w)
      PROVE  SelectionsStayPending'
  BY <1>18 DEF PassAborts
<1>19. ASSUME NEW w \in Runners, Release(w)
      PROVE  SelectionsStayPending'
  BY <1>19 DEF Release
<1>20. ASSUME NEW w \in Runners, Crash(w)
      PROVE  SelectionsStayPending'
  BY <1>20 DEF Crash
<1>21. ASSUME NEW w \in Runners, NEW j \in JobIds, LockCandidate(w, j)
      PROVE  SelectionsStayPending'
  BY <1>21 DEF LockCandidate
<1>22. ASSUME NEW w \in Runners, NEW j \in JobIds, SkipCandidate(w, j)
      PROVE  SelectionsStayPending'
  BY <1>22 DEF SkipCandidate
<1>23. ASSUME NEW w \in Runners, NEW m \in Messages, VerifyText(w, m)
      PROVE  SelectionsStayPending'
  BY <1>23 DEF VerifyText
<1>24. ASSUME NEW w \in Runners, NEW m \in Messages, OmitText(w, m)
      PROVE  SelectionsStayPending'
  BY <1>24 DEF OmitText
<1>25. ASSUME NEW r \in Summaries, NEW c \in Chats, LockChat(r, c)
      PROVE  SelectionsStayPending'
  BY <1>25 DEF LockChat
<1>26. ASSUME NEW r \in Summaries, NEW c \in Chats, RefuseChat(r, c)
      PROVE  SelectionsStayPending'
  BY <1>26 DEF RefuseChat
<1>27. ASSUME NEW r \in Summaries, SelectChatTexts(r)
      PROVE  SelectionsStayPending'
  BY <1>27 DEF SelectChatTexts, ChatPending, Available
<1>28. ASSUME NEW r \in Summaries, SaveChatReport(r)
      PROVE  SelectionsStayPending'
  <2>1. rstep[r] = "generate" /\ rchat[r] \in Chats /\ lock[OwnerOf[rchat[r]]] = r
    BY <1>28 DEF SaveChatReport
  <2>8. OwnerOf[rchat[r]] \in Accounts
    BY <2>1
  <2>2. reviewed' \cup skipped' \subseteq reviewed \cup skipped \cup TextsOf(OwnerOf[rchat[r]])
    BY <1>28, <2>1, <2>8 DEF SaveChatReport
  <2>3. \A v \in Runners : step'[v] = "store" =>
          /\ step[v] = "store" /\ selection'[v] = selection[v]
          /\ job[v] \in JobIds /\ lock[owner[job[v]]] = v
          /\ selection[v] \subseteq TextsOf(owner[job[v]])
          /\ owner[job[v]] \in Accounts /\ v # r
    <3>1. \A v \in Runners : step'[v] = "store" => step[v] = "store" /\ v # r
      BY <1>28, <2>1 DEF SaveChatReport
    <3>2. \A v \in Runners : step[v] = "store" =>
            /\ job[v] \in JobIds /\ status[job[v]] # "absent"
            /\ lock[owner[job[v]]] = v /\ selection[v] \subseteq TextsOf(owner[job[v]])
      OBVIOUS
    <3>3. \A j \in JobIds : status[j] # "absent" => owner[j] \in Accounts
      OBVIOUS
    <3>4. \A v \in Runners : step'[v] = "store" => selection'[v] = selection[v]
      BY <1>28 DEF SaveChatReport
    <3> QED
      BY <3>1, <3>2, <3>3, <3>4
  <2>4. \A q \in Summaries : rstep'[q] = "generate" =>
          /\ rstep[q] = "generate" /\ rselection'[q] = rselection[q]
          /\ rchat[q] \in Chats /\ lock[OwnerOf[rchat[q]]] = q
          /\ rselection[q] \subseteq TextsOf(OwnerOf[rchat[q]])
          /\ OwnerOf[rchat[q]] \in Accounts /\ q # r
    <3>1. \A q \in Summaries : rstep'[q] = "generate" => rstep[q] = "generate" /\ q # r
      BY <1>28, <2>1 DEF SaveChatReport
    <3> QED
      BY <1>28, <3>1 DEF SaveChatReport
  <2>5. \A a \in Accounts, b \in Accounts :
          a # b => TextsOf(a) \cap TextsOf(b) = {}
    OBVIOUS
  <2>6. \A v \in Runners : step'[v] = "store" =>
          selection'[v] \cap (reviewed' \cup skipped') = {}
    <3>1. \A v \in Runners : step'[v] = "store" =>
            TextsOf(owner[job[v]]) \cap TextsOf(OwnerOf[rchat[r]]) = {}
      BY <2>1, <2>8, <2>3, <2>5
    <3>2. \A v \in Runners : step[v] = "store" => selection[v] \cap (reviewed \cup skipped) = {}
      OBVIOUS
    <3> QED
      BY <2>2, <2>3, <3>1, <3>2
  <2>7. \A q \in Summaries : rstep'[q] = "generate" =>
          rselection'[q] \cap (reviewed' \cup skipped') = {}
    <3>1. \A q \in Summaries : rstep'[q] = "generate" =>
            TextsOf(OwnerOf[rchat[q]]) \cap TextsOf(OwnerOf[rchat[r]]) = {}
      BY <2>1, <2>8, <2>4, <2>5
    <3>2. \A q \in Summaries : rstep[q] = "generate" => rselection[q] \cap (reviewed \cup skipped) = {}
      OBVIOUS
    <3> QED
      BY <2>2, <2>4, <3>1, <3>2
  <2> QED
    BY <2>6, <2>7
<1>29. ASSUME NEW r \in Summaries, ChatReportFails(r)
      PROVE  SelectionsStayPending'
  BY <1>29 DEF ChatReportFails
<1>30. ASSUME NEW r \in Summaries, ReleaseChat(r)
      PROVE  SelectionsStayPending'
  BY <1>30 DEF ReleaseChat
<1>31. ASSUME NEW r \in Requests, RequestDies(r)
      PROVE  SelectionsStayPending'
  BY <1>31 DEF RequestDies
<1>32. CASE Upgrade
  BY <1>32 DEF Upgrade
<1>33. CASE UNCHANGED vars
  BY <1>33 DEF vars
<1> QED
  BY <1>1, <1>2, <1>3, <1>4, <1>5, <1>6, <1>7, <1>8, <1>9, <1>10, <1>11,
     <1>12, <1>13, <1>14, <1>15, <1>16, <1>17, <1>18, <1>19, <1>20, <1>21,
     <1>22, <1>23, <1>24, <1>25, <1>26, <1>27, <1>28, <1>29, <1>30, <1>31,
     <1>32, <1>33, StepCases

(* Appending a report adds it, and nothing else, to the set of reports. *)
LEMMA AppendedReports ==
  ASSUME NEW S, NEW s \in Seq(S), NEW r \in S, NEW t, t = Append(s, r)
  PROVE  {t[i] : i \in DOMAIN t} = {s[i] : i \in DOMAIN s} \cup {r}
<1>1. DOMAIN t = DOMAIN s \cup {Len(s) + 1} /\ Len(s) + 1 \notin DOMAIN s
  BY AppendProperties
<1>2. \A i \in DOMAIN s : t[i] = s[i]
  BY AppendProperties
<1>3. t[Len(s) + 1] = r
  BY AppendProperties
<1> QED
  BY <1>1, <1>2, <1>3

(* Committing a report consumes exactly what the report says.              *)
LEMMA CommittedReport ==
  ASSUME TypeOK, ConsumptionIsReported,
         NEW r \in [author : JobIds \cup Summaries,
                    verified : SUBSET Messages, omitted : SUBSET Messages],
         reports' = Append(reports, r),
         reviewed' = reviewed \cup r.verified,
         skipped' = skipped \cup r.omitted
  PROVE  ConsumptionIsReported'
<1>1. Reports' = Reports \cup {r}
  <2> DEFINE t == Append(reports, r)
             S == [author : JobIds \cup Summaries,
                   verified : SUBSET Messages, omitted : SUBSET Messages]
  <2>2. reports \in Seq(S) /\ r \in S
    BY DEF TypeOK
  <2> HIDE DEF S
  <2>3. \A u : u = Append(reports, r)
              => {u[i] : i \in DOMAIN u} = {reports[i] : i \in DOMAIN reports} \cup {r}
    BY <2>2, AppendedReports
  <2>1. {t[i] : i \in DOMAIN t} = {reports[i] : i \in DOMAIN reports} \cup {r}
    BY <2>3
  <2> QED
    BY <2>1, Zenon DEF Reports
<1>2. /\ UNION {x.verified : x \in Reports'} = (UNION {x.verified : x \in Reports}) \cup r.verified
      /\ UNION {x.omitted : x \in Reports'} = (UNION {x.omitted : x \in Reports}) \cup r.omitted
  BY <1>1
<1> QED
  BY <1>2 DEF ConsumptionIsReported

(* Only the two committing transactions touch the consumed texts. *)
LEMMA ConsumptionStep ==
  ASSUME TypeOK, RunnersKnowTheirJob, SelectionsBelong, ConsumptionIsReported, [Next]_vars
  PROVE  ConsumptionIsReported'
<1> USE DEF ConsumptionIsReported, Reports, Answer, Forget, messageVars, jobVars, cacheVars, runnerVars, requestVars
<1>1. ASSUME NEW m \in Messages, Arrive(m)
      PROVE  ConsumptionIsReported'
  BY <1>1 DEF Arrive
<1>2. ASSUME NEW p \in Posts, NEW a \in Accounts, NEW s \in Specialists, PostResume(p, a, s)
      PROVE  ConsumptionIsReported'
  BY <1>2 DEF PostResume
<1>3. ASSUME NEW p \in Posts, NEW a \in Accounts, NEW s \in Specialists, PostNothingToResume(p, a, s)
      PROVE  ConsumptionIsReported'
  BY <1>3 DEF PostNothingToResume
<1>4. ASSUME NEW p \in Posts, PostInsert(p)
      PROVE  ConsumptionIsReported'
  BY <1>4 DEF PostInsert
<1>5. ASSUME NEW p \in Posts, PostAlreadyActive(p)
      PROVE  ConsumptionIsReported'
  BY <1>5 DEF PostAlreadyActive
<1>6. ASSUME NEW w \in Runners, ListCandidates(w)
      PROVE  ConsumptionIsReported'
  BY <1>6 DEF ListCandidates
<1>7. ASSUME NEW w \in Runners, EndRun(w)
      PROVE  ConsumptionIsReported'
  BY <1>7 DEF EndRun
<1>8. ASSUME NEW w \in Runners, Claim(w)
      PROVE  ConsumptionIsReported'
  BY <1>8 DEF Claim
<1>9. ASSUME NEW w \in Runners, ClaimLost(w)
      PROVE  ConsumptionIsReported'
  BY <1>9 DEF ClaimLost
<1>10. ASSUME NEW w \in Runners, ClaimErrs(w)
      PROVE  ConsumptionIsReported'
  BY <1>10 DEF ClaimErrs
<1>11. ASSUME NEW w \in Runners, ReuseContext(w)
      PROVE  ConsumptionIsReported'
  BY <1>11 DEF ReuseContext
<1>12. ASSUME NEW w \in Runners, DropBatches(w)
      PROVE  ConsumptionIsReported'
  BY <1>12 DEF DropBatches
<1>13. ASSUME NEW w \in Runners, SelectPending(w)
      PROVE  ConsumptionIsReported'
  BY <1>13 DEF SelectPending
<1>14. ASSUME NEW w \in Runners, StoreContext(w)
      PROVE  ConsumptionIsReported'
  BY <1>14 DEF StoreContext
<1>15. ASSUME NEW w \in Runners, SaveReport(w)
      PROVE  ConsumptionIsReported'
  <2> DEFINE r == Report(job[w], selection[w] \ omitted[w], omitted[w])
  <2>1. job[w] \in JobIds
    BY <1>15 DEF SaveReport, RunnersKnowTheirJob, Working
  <2>2. r \in [author : JobIds \cup Summaries,
               verified : SUBSET Messages, omitted : SUBSET Messages]
    BY <2>1 DEF Report, TypeOK
  <2>3. reports' = Append(reports, r)
    BY <1>15 DEF SaveReport
  <2>4. reviewed' = reviewed \cup r.verified /\ skipped' = skipped \cup r.omitted
    BY <1>15 DEF SaveReport, Report
  <2> HIDE DEF r
  <2> QED
    BY <2>2, <2>3, <2>4, CommittedReport
<1>16. ASSUME NEW w \in Runners, WorkFails(w)
      PROVE  ConsumptionIsReported'
  BY <1>16 DEF WorkFails
<1>17. ASSUME NEW w \in Runners, MarkFailed(w)
      PROVE  ConsumptionIsReported'
  BY <1>17 DEF MarkFailed
<1>18. ASSUME NEW w \in Runners, PassAborts(w)
      PROVE  ConsumptionIsReported'
  BY <1>18 DEF PassAborts
<1>19. ASSUME NEW w \in Runners, Release(w)
      PROVE  ConsumptionIsReported'
  BY <1>19 DEF Release
<1>20. ASSUME NEW w \in Runners, Crash(w)
      PROVE  ConsumptionIsReported'
  BY <1>20 DEF Crash
<1>21. ASSUME NEW w \in Runners, NEW j \in JobIds, LockCandidate(w, j)
      PROVE  ConsumptionIsReported'
  BY <1>21 DEF LockCandidate
<1>22. ASSUME NEW w \in Runners, NEW j \in JobIds, SkipCandidate(w, j)
      PROVE  ConsumptionIsReported'
  BY <1>22 DEF SkipCandidate
<1>23. ASSUME NEW w \in Runners, NEW m \in Messages, VerifyText(w, m)
      PROVE  ConsumptionIsReported'
  BY <1>23 DEF VerifyText
<1>24. ASSUME NEW w \in Runners, NEW m \in Messages, OmitText(w, m)
      PROVE  ConsumptionIsReported'
  BY <1>24 DEF OmitText
<1>25. ASSUME NEW r \in Summaries, NEW c \in Chats, LockChat(r, c)
      PROVE  ConsumptionIsReported'
  BY <1>25 DEF LockChat
<1>26. ASSUME NEW r \in Summaries, NEW c \in Chats, RefuseChat(r, c)
      PROVE  ConsumptionIsReported'
  BY <1>26 DEF RefuseChat
<1>27. ASSUME NEW r \in Summaries, SelectChatTexts(r)
      PROVE  ConsumptionIsReported'
  BY <1>27 DEF SelectChatTexts
<1>28. ASSUME NEW r \in Summaries, SaveChatReport(r)
      PROVE  ConsumptionIsReported'
  <2> DEFINE x == Report(r, rselection[r], {})
  <2>1. x \in [author : JobIds \cup Summaries,
               verified : SUBSET Messages, omitted : SUBSET Messages]
    BY DEF Report, TypeOK, Requests
  <2>2. reports' = Append(reports, x)
    BY <1>28 DEF SaveChatReport
  <2>3. reviewed' = reviewed \cup x.verified /\ skipped' = skipped \cup x.omitted
    BY <1>28 DEF SaveChatReport, Report
  <2> HIDE DEF x
  <2> QED
    BY <2>1, <2>2, <2>3, CommittedReport
<1>29. ASSUME NEW r \in Summaries, ChatReportFails(r)
      PROVE  ConsumptionIsReported'
  BY <1>29 DEF ChatReportFails
<1>30. ASSUME NEW r \in Summaries, ReleaseChat(r)
      PROVE  ConsumptionIsReported'
  BY <1>30 DEF ReleaseChat
<1>31. ASSUME NEW r \in Requests, RequestDies(r)
      PROVE  ConsumptionIsReported'
  BY <1>31 DEF RequestDies
<1>32. CASE Upgrade
  BY <1>32 DEF Upgrade
<1>33. CASE UNCHANGED vars
  BY <1>33 DEF vars
<1> QED
  BY <1>1, <1>2, <1>3, <1>4, <1>5, <1>6, <1>7, <1>8, <1>9, <1>10, <1>11,
     <1>12, <1>13, <1>14, <1>15, <1>16, <1>17, <1>18, <1>19, <1>20, <1>21,
     <1>22, <1>23, <1>24, <1>25, <1>26, <1>27, <1>28, <1>29, <1>30, <1>31,
     <1>32, <1>33, StepCases

(* The queue starts with nothing stored and nobody working. *)
LEMMA ConsumptionInit == Init => ConsumptionInv
<1> SUFFICES ASSUME Init PROVE ConsumptionInv
  OBVIOUS
<1> USE ChatAssumption, SessionAssumption, BoundAssumption DEF Init
<1>1. TypeOK
  <2>1. reports \in Seq([author : JobIds \cup Summaries,
                        verified : SUBSET Messages, omitted : SUBSET Messages])
    BY EmptySeq
  <2> QED
    BY <2>1 DEF TypeOK, RunnerSteps, RequestSteps
<1>2. JobsHaveOwners /\ RunnersKnowTheirJob /\ RequestsKnowTheirTarget
  BY DEF JobsHaveOwners, RunnersKnowTheirJob, RequestsKnowTheirTarget, Working, Serving
<1>3. SelectionsBelong
  <2>1. \A j \in JobIds : context[j] \subseteq TextsOf(owner[j])
    OBVIOUS
  <2>2. \A w \in Runners : omitted[w] = {} /\ selection[w] = {} /\ ~Working(w)
    BY DEF Working
  <2>3. \A r \in Summaries : rselection[r] = {} /\ ~Serving(r)
    BY DEF Serving, Requests
  <2> QED
    BY <2>1, <2>2, <2>3 DEF SelectionsBelong
<1>5. WorkersHoldTheLock /\ SelectionsStayPending
  BY DEF WorkersHoldTheLock, SelectionsStayPending, Requests
<1>4. ConsumptionIsReported
  <2>1. Reports = {}
    BY DEF Reports
  <2> QED
    BY <2>1 DEF ConsumptionIsReported
<1> QED
  BY <1>1, <1>2, <1>3, <1>4, <1>5 DEF ConsumptionInv

(* The queue never leaves the inductive invariant. *)
THEOREM ConsumptionInvariant == Spec => []ConsumptionInv
<1>1. ConsumptionInv /\ [Next]_vars => ConsumptionInv'
  <2> SUFFICES ASSUME ConsumptionInv, [Next]_vars PROVE ConsumptionInv'
    OBVIOUS
  <2> USE DEF ConsumptionInv
  <2>1. TypeOK'
    BY TypeStep
  <2>2. JobsHaveOwners'
    BY OwnersStep
  <2>3. RunnersKnowTheirJob'
    BY RunnersStep
  <2>4. RequestsKnowTheirTarget'
    BY RequestsStep
  <2>5. SelectionsBelong'
    BY BelongStep
  <2>6. WorkersHoldTheLock'
    BY LockStep
  <2>7. SelectionsStayPending'
    BY PendingStep
  <2>8. ConsumptionIsReported'
    BY ConsumptionStep
  <2> QED
    BY <2>1, <2>2, <2>3, <2>4, <2>5, <2>6, <2>7, <2>8
<1> QED
  BY <1>1, ConsumptionInit, PTL DEF Spec

(* Every variable of the queue keeps its type, for any number of accounts, *)
(* processes, requests, texts and faults.                                  *)
THEOREM TypeCorrect == Spec => []TypeOK
<1>1. ConsumptionInv => TypeOK
  BY DEF ConsumptionInv
<1> QED
  BY <1>1, ConsumptionInvariant, PTL

(* Texts are consumed by saved reports only: whatever crashes, retries and *)
(* resumptions happen, the reviewed and skipped rows are what the saved    *)
(* reports list.                                                           *)
THEOREM Consumption == Spec => []ConsumptionIsReported
<1>1. ConsumptionInv => ConsumptionIsReported
  BY DEF ConsumptionInv
<1> QED
  BY <1>1, ConsumptionInvariant, PTL

(* Mutual exclusion of report work per account: whoever is past acquiring  *)
(* the lock of an account, runner or request, is its only holder.          *)
THEOREM MutualExclusion == Spec => []WorkersHoldTheLock
<1>1. ConsumptionInv => WorkersHoldTheLock
  BY DEF ConsumptionInv
<1> QED
  BY <1>1, ConsumptionInvariant, PTL

(* A selection read under the lock is still pending when it is stored or   *)
(* reported, so an individual and a global report never take the same text *)
(* because they overlapped.                                                *)
THEOREM SelectionsAreFresh == Spec => []SelectionsStayPending
<1>1. ConsumptionInv => SelectionsStayPending
  BY DEF ConsumptionInv
<1> QED
  BY <1>1, ConsumptionInvariant, PTL

(* Rows of summary_jobs are numbered in the order they are inserted. *)
LEMMA OrderStep ==
  ASSUME TypeOK, RunnersKnowTheirJob, JobsInOrder, [Next]_vars
  PROVE  JobsInOrder'
<1> USE ChatAssumption, SessionAssumption, BoundAssumption DEF TypeOK, RunnersKnowTheirJob, Working, JobsInOrder, JobIds, Forget, Answer, messageVars, jobVars, cacheVars, runnerVars, requestVars
<1>1. ASSUME NEW m \in Messages, Arrive(m)
      PROVE  JobsInOrder'
  BY <1>1 DEF Arrive
<1>2. ASSUME NEW p \in Posts, NEW a \in Accounts, NEW s \in Specialists, PostResume(p, a, s)
      PROVE  JobsInOrder'
  BY <1>2 DEF PostResume, JobsOf
<1>3. ASSUME NEW p \in Posts, NEW a \in Accounts, NEW s \in Specialists, PostNothingToResume(p, a, s)
      PROVE  JobsInOrder'
  BY <1>3 DEF PostNothingToResume
<1>4. ASSUME NEW p \in Posts, PostInsert(p)
      PROVE  JobsInOrder'
  BY <1>4 DEF PostInsert
<1>5. ASSUME NEW p \in Posts, PostAlreadyActive(p)
      PROVE  JobsInOrder'
  BY <1>5 DEF PostAlreadyActive
<1>6. ASSUME NEW w \in Runners, ListCandidates(w)
      PROVE  JobsInOrder'
  BY <1>6 DEF ListCandidates
<1>7. ASSUME NEW w \in Runners, EndRun(w)
      PROVE  JobsInOrder'
  BY <1>7 DEF EndRun
<1>8. ASSUME NEW w \in Runners, Claim(w)
      PROVE  JobsInOrder'
  BY <1>8 DEF Claim
<1>9. ASSUME NEW w \in Runners, ClaimLost(w)
      PROVE  JobsInOrder'
  BY <1>9 DEF ClaimLost
<1>10. ASSUME NEW w \in Runners, ClaimErrs(w)
      PROVE  JobsInOrder'
  BY <1>10 DEF ClaimErrs
<1>11. ASSUME NEW w \in Runners, ReuseContext(w)
      PROVE  JobsInOrder'
  BY <1>11 DEF ReuseContext
<1>12. ASSUME NEW w \in Runners, DropBatches(w)
      PROVE  JobsInOrder'
  BY <1>12 DEF DropBatches
<1>13. ASSUME NEW w \in Runners, SelectPending(w)
      PROVE  JobsInOrder'
  BY <1>13 DEF SelectPending
<1>14. ASSUME NEW w \in Runners, StoreContext(w)
      PROVE  JobsInOrder'
  BY <1>14 DEF StoreContext
<1>15. ASSUME NEW w \in Runners, SaveReport(w)
      PROVE  JobsInOrder'
  BY <1>15 DEF SaveReport
<1>16. ASSUME NEW w \in Runners, WorkFails(w)
      PROVE  JobsInOrder'
  BY <1>16 DEF WorkFails
<1>17. ASSUME NEW w \in Runners, MarkFailed(w)
      PROVE  JobsInOrder'
  BY <1>17 DEF MarkFailed
<1>18. ASSUME NEW w \in Runners, PassAborts(w)
      PROVE  JobsInOrder'
  BY <1>18 DEF PassAborts
<1>19. ASSUME NEW w \in Runners, Release(w)
      PROVE  JobsInOrder'
  BY <1>19 DEF Release
<1>20. ASSUME NEW w \in Runners, Crash(w)
      PROVE  JobsInOrder'
  BY <1>20 DEF Crash
<1>21. ASSUME NEW w \in Runners, NEW j \in JobIds, LockCandidate(w, j)
      PROVE  JobsInOrder'
  BY <1>21 DEF LockCandidate
<1>22. ASSUME NEW w \in Runners, NEW j \in JobIds, SkipCandidate(w, j)
      PROVE  JobsInOrder'
  BY <1>22 DEF SkipCandidate
<1>23. ASSUME NEW w \in Runners, NEW m \in Messages, VerifyText(w, m)
      PROVE  JobsInOrder'
  BY <1>23 DEF VerifyText
<1>24. ASSUME NEW w \in Runners, NEW m \in Messages, OmitText(w, m)
      PROVE  JobsInOrder'
  BY <1>24 DEF OmitText
<1>25. ASSUME NEW r \in Summaries, NEW c \in Chats, LockChat(r, c)
      PROVE  JobsInOrder'
  BY <1>25 DEF LockChat
<1>26. ASSUME NEW r \in Summaries, NEW c \in Chats, RefuseChat(r, c)
      PROVE  JobsInOrder'
  BY <1>26 DEF RefuseChat
<1>27. ASSUME NEW r \in Summaries, SelectChatTexts(r)
      PROVE  JobsInOrder'
  BY <1>27 DEF SelectChatTexts
<1>28. ASSUME NEW r \in Summaries, SaveChatReport(r)
      PROVE  JobsInOrder'
  BY <1>28 DEF SaveChatReport
<1>29. ASSUME NEW r \in Summaries, ChatReportFails(r)
      PROVE  JobsInOrder'
  BY <1>29 DEF ChatReportFails
<1>30. ASSUME NEW r \in Summaries, ReleaseChat(r)
      PROVE  JobsInOrder'
  BY <1>30 DEF ReleaseChat
<1>31. ASSUME NEW r \in Requests, RequestDies(r)
      PROVE  JobsInOrder'
  BY <1>31 DEF RequestDies
<1>32. CASE Upgrade
  BY <1>32 DEF Upgrade
<1>33. CASE UNCHANGED vars
  BY <1>33 DEF vars
<1> QED
  BY <1>1, <1>2, <1>3, <1>4, <1>5, <1>6, <1>7, <1>8, <1>9, <1>10, <1>11,
     <1>12, <1>13, <1>14, <1>15, <1>16, <1>17, <1>18, <1>19, <1>20, <1>21,
     <1>22, <1>23, <1>24, <1>25, <1>26, <1>27, <1>28, <1>29, <1>30, <1>31,
     <1>32, <1>33, StepCases

(* Two workers never have jobs of the same account in hand. *)
LEMMA WorkersApart ==
  ASSUME TypeOK, JobsHaveOwners, RunnersKnowTheirJob, WorkersHoldTheLock,
         NEW w \in Runners, Working(w)
  PROVE  /\ job[w] \in JobIds /\ owner[job[w]] \in Accounts
         /\ \A v \in Runners : v # w /\ Working(v) =>
              job[v] # job[w] /\ owner[job[v]] # owner[job[w]]
<1>1. \A v \in Runners : Working(v) =>
        job[v] \in JobIds /\ owner[job[v]] \in Accounts /\ lock[owner[job[v]]] = v
  BY DEF TypeOK, JobsHaveOwners, RunnersKnowTheirJob, WorkersHoldTheLock, Working
<1> QED
  BY <1>1

(* Nobody else settles a job or replaces its context while its worker holds the lock. *)
LEMMA OwnJobStep ==
  ASSUME TypeOK, JobsHaveOwners, RunnersKnowTheirJob, RequestsKnowTheirTarget, SelectionsBelong, WorkersHoldTheLock, WorkersOwnTheirJob, [Next]_vars
  PROVE  WorkersOwnTheirJob'
<1> USE ChatAssumption, SessionAssumption, BoundAssumption DEF TypeOK, JobsHaveOwners, RunnersKnowTheirJob, RequestsKnowTheirTarget, WorkersHoldTheLock, WorkersOwnTheirJob, Working, Forget, Answer, messageVars, jobVars, cacheVars, runnerVars, requestVars
<1>1. ASSUME NEW m \in Messages, Arrive(m)
      PROVE  WorkersOwnTheirJob'
  BY <1>1 DEF Arrive
<1>2. ASSUME NEW p \in Posts, NEW a \in Accounts, NEW s \in Specialists, PostResume(p, a, s)
      PROVE  WorkersOwnTheirJob'
  BY <1>2 DEF PostResume, JobsOf, Resumable
<1>3. ASSUME NEW p \in Posts, NEW a \in Accounts, NEW s \in Specialists, PostNothingToResume(p, a, s)
      PROVE  WorkersOwnTheirJob'
  BY <1>3 DEF PostNothingToResume
<1>4. ASSUME NEW p \in Posts, PostInsert(p)
      PROVE  WorkersOwnTheirJob'
  BY <1>4 DEF PostInsert
<1>5. ASSUME NEW p \in Posts, PostAlreadyActive(p)
      PROVE  WorkersOwnTheirJob'
  BY <1>5 DEF PostAlreadyActive
<1>6. ASSUME NEW w \in Runners, ListCandidates(w)
      PROVE  WorkersOwnTheirJob'
  BY <1>6 DEF ListCandidates
<1>7. ASSUME NEW w \in Runners, EndRun(w)
      PROVE  WorkersOwnTheirJob'
  BY <1>7 DEF EndRun
<1>8. ASSUME NEW w \in Runners, Claim(w)
      PROVE  WorkersOwnTheirJob'
  <2>1. Working(w)
    BY <1>8 DEF Claim
  <2>2. job[w] \in JobIds
    BY <2>1, WorkersApart
  <2>3. \A v \in Runners : v # w /\ Working(v) => job[v] # job[w]
    BY <2>1, WorkersApart
  <2>4. \A v \in Runners : v # w =>
          /\ step[v] \in {"prepare", "select", "store", "analyze"}
                => Working(v) /\ status'[job[v]] = "running"
          /\ step[v] = "analyze" => selection'[v] = context'[job[v]]
    BY <1>8, <2>2, <2>3 DEF Claim
  <2>5. /\ step'[w] \in {"prepare", "select", "store", "analyze"} => status'[job[w]] = "running"
        /\ step'[w] = "analyze" => selection'[w] = context'[job[w]]
    BY <1>8, <2>2 DEF Claim
  <2> QED
    BY <1>8, <2>4, <2>5 DEF Claim
<1>9. ASSUME NEW w \in Runners, ClaimLost(w)
      PROVE  WorkersOwnTheirJob'
  BY <1>9 DEF ClaimLost
<1>10. ASSUME NEW w \in Runners, ClaimErrs(w)
      PROVE  WorkersOwnTheirJob'
  BY <1>10 DEF ClaimErrs
<1>11. ASSUME NEW w \in Runners, ReuseContext(w)
      PROVE  WorkersOwnTheirJob'
  BY <1>11 DEF ReuseContext
<1>12. ASSUME NEW w \in Runners, DropBatches(w)
      PROVE  WorkersOwnTheirJob'
  BY <1>12 DEF DropBatches
<1>13. ASSUME NEW w \in Runners, SelectPending(w)
      PROVE  WorkersOwnTheirJob'
  BY <1>13 DEF SelectPending
<1>14. ASSUME NEW w \in Runners, StoreContext(w)
      PROVE  WorkersOwnTheirJob'
  <2>1. Working(w)
    BY <1>14 DEF StoreContext
  <2>2. job[w] \in JobIds
    BY <2>1, WorkersApart
  <2>3. \A v \in Runners : v # w /\ Working(v) => job[v] # job[w]
    BY <2>1, WorkersApart
  <2>4. \A v \in Runners : v # w =>
          /\ step[v] \in {"prepare", "select", "store", "analyze"}
                => Working(v) /\ status'[job[v]] = "running"
          /\ step[v] = "analyze" => selection'[v] = context'[job[v]]
    BY <1>14, <2>2, <2>3 DEF StoreContext
  <2>5. /\ step'[w] \in {"prepare", "select", "store", "analyze"} => status'[job[w]] = "running"
        /\ step'[w] = "analyze" => selection'[w] = context'[job[w]]
    BY <1>14, <2>2 DEF StoreContext
  <2> QED
    BY <1>14, <2>4, <2>5 DEF StoreContext
<1>15. ASSUME NEW w \in Runners, SaveReport(w)
      PROVE  WorkersOwnTheirJob'
  <2>1. Working(w)
    BY <1>15 DEF SaveReport
  <2>2. job[w] \in JobIds
    BY <2>1, WorkersApart
  <2>3. \A v \in Runners : v # w /\ Working(v) => job[v] # job[w]
    BY <2>1, WorkersApart
  <2>4. \A v \in Runners : v # w =>
          /\ step[v] \in {"prepare", "select", "store", "analyze"}
                => Working(v) /\ status'[job[v]] = "running"
          /\ step[v] = "analyze" => selection'[v] = context'[job[v]]
    BY <1>15, <2>2, <2>3 DEF SaveReport
  <2>5. /\ step'[w] \in {"prepare", "select", "store", "analyze"} => status'[job[w]] = "running"
        /\ step'[w] = "analyze" => selection'[w] = context'[job[w]]
    BY <1>15, <2>2 DEF SaveReport
  <2> QED
    BY <1>15, <2>4, <2>5 DEF SaveReport
<1>16. ASSUME NEW w \in Runners, WorkFails(w)
      PROVE  WorkersOwnTheirJob'
  BY <1>16 DEF WorkFails
<1>17. ASSUME NEW w \in Runners, MarkFailed(w)
      PROVE  WorkersOwnTheirJob'
  <2>1. Working(w)
    BY <1>17 DEF MarkFailed
  <2>2. job[w] \in JobIds
    BY <2>1, WorkersApart
  <2>3. \A v \in Runners : v # w /\ Working(v) => job[v] # job[w]
    BY <2>1, WorkersApart
  <2>4. \A v \in Runners : v # w =>
          /\ step[v] \in {"prepare", "select", "store", "analyze"}
                => Working(v) /\ status'[job[v]] = "running"
          /\ step[v] = "analyze" => selection'[v] = context'[job[v]]
    BY <1>17, <2>2, <2>3 DEF MarkFailed
  <2>5. /\ step'[w] \in {"prepare", "select", "store", "analyze"} => status'[job[w]] = "running"
        /\ step'[w] = "analyze" => selection'[w] = context'[job[w]]
    BY <1>17, <2>2 DEF MarkFailed
  <2> QED
    BY <1>17, <2>4, <2>5 DEF MarkFailed
<1>18. ASSUME NEW w \in Runners, PassAborts(w)
      PROVE  WorkersOwnTheirJob'
  BY <1>18 DEF PassAborts
<1>19. ASSUME NEW w \in Runners, Release(w)
      PROVE  WorkersOwnTheirJob'
  BY <1>19 DEF Release
<1>20. ASSUME NEW w \in Runners, Crash(w)
      PROVE  WorkersOwnTheirJob'
  BY <1>20 DEF Crash
<1>21. ASSUME NEW w \in Runners, NEW j \in JobIds, LockCandidate(w, j)
      PROVE  WorkersOwnTheirJob'
  BY <1>21 DEF LockCandidate
<1>22. ASSUME NEW w \in Runners, NEW j \in JobIds, SkipCandidate(w, j)
      PROVE  WorkersOwnTheirJob'
  BY <1>22 DEF SkipCandidate
<1>23. ASSUME NEW w \in Runners, NEW m \in Messages, VerifyText(w, m)
      PROVE  WorkersOwnTheirJob'
  BY <1>23 DEF VerifyText
<1>24. ASSUME NEW w \in Runners, NEW m \in Messages, OmitText(w, m)
      PROVE  WorkersOwnTheirJob'
  BY <1>24 DEF OmitText
<1>25. ASSUME NEW r \in Summaries, NEW c \in Chats, LockChat(r, c)
      PROVE  WorkersOwnTheirJob'
  BY <1>25 DEF LockChat
<1>26. ASSUME NEW r \in Summaries, NEW c \in Chats, RefuseChat(r, c)
      PROVE  WorkersOwnTheirJob'
  BY <1>26 DEF RefuseChat
<1>27. ASSUME NEW r \in Summaries, SelectChatTexts(r)
      PROVE  WorkersOwnTheirJob'
  BY <1>27 DEF SelectChatTexts
<1>28. ASSUME NEW r \in Summaries, SaveChatReport(r)
      PROVE  WorkersOwnTheirJob'
  BY <1>28 DEF SaveChatReport
<1>29. ASSUME NEW r \in Summaries, ChatReportFails(r)
      PROVE  WorkersOwnTheirJob'
  BY <1>29 DEF ChatReportFails
<1>30. ASSUME NEW r \in Summaries, ReleaseChat(r)
      PROVE  WorkersOwnTheirJob'
  BY <1>30 DEF ReleaseChat
<1>31. ASSUME NEW r \in Requests, RequestDies(r)
      PROVE  WorkersOwnTheirJob'
  BY <1>31 DEF RequestDies
<1>32. CASE Upgrade
  BY <1>32 DEF Upgrade
<1>33. CASE UNCHANGED vars
  BY <1>33 DEF vars
<1> QED
  BY <1>1, <1>2, <1>3, <1>4, <1>5, <1>6, <1>7, <1>8, <1>9, <1>10, <1>11,
     <1>12, <1>13, <1>14, <1>15, <1>16, <1>17, <1>18, <1>19, <1>20, <1>21,
     <1>22, <1>23, <1>24, <1>25, <1>26, <1>27, <1>28, <1>29, <1>30, <1>31,
     <1>32, <1>33, StepCases

(* A job becomes active only while its account has no other active one, and then it is the newest. *)
LEMMA LatestStep ==
  ASSUME TypeOK, JobsHaveOwners, RunnersKnowTheirJob, RequestsKnowTheirTarget, SelectionsBelong, WorkersHoldTheLock, JobsInOrder, ActiveJobIsLatest, [Next]_vars
  PROVE  ActiveJobIsLatest'
<1> USE ChatAssumption, SessionAssumption, BoundAssumption DEF TypeOK, JobsHaveOwners, RunnersKnowTheirJob, RequestsKnowTheirTarget, JobsInOrder, ActiveJobIsLatest, IsLatest, JobsOf, Active, Working, Forget, Answer, messageVars, jobVars, cacheVars, runnerVars, requestVars
<1>1. ASSUME NEW m \in Messages, Arrive(m)
      PROVE  ActiveJobIsLatest'
  BY <1>1 DEF Arrive
<1>2. ASSUME NEW p \in Posts, NEW a \in Accounts, NEW s \in Specialists, PostResume(p, a, s)
      PROVE  ActiveJobIsLatest'
  BY <1>2 DEF PostResume, Resumable, HasActive
<1>3. ASSUME NEW p \in Posts, NEW a \in Accounts, NEW s \in Specialists, PostNothingToResume(p, a, s)
      PROVE  ActiveJobIsLatest'
  BY <1>3 DEF PostNothingToResume
<1>4. ASSUME NEW p \in Posts, PostInsert(p)
      PROVE  ActiveJobIsLatest'
  <2>1. PICK j \in JobIds :
          /\ status[j] = "absent"
          /\ \A k \in JobIds : k < j => status[k] # "absent"
          /\ status' = [status EXCEPT ![j] = "queued"]
          /\ owner' = [owner EXCEPT ![j] = raccount[p]]
    BY <1>4 DEF PostInsert
  <2>2. raccount[p] \in Accounts /\ raccount[p] # None
    BY <1>4 DEF PostInsert, Requests
  <2>3. \A k \in JobIds : k > j => status[k] = "absent"
    BY <2>1 DEF JobIds
  <2>4. \A k \in JobIds : status'[k] # "absent" => k <= j
    BY <2>1, <2>3 DEF JobIds
  <2>5. \A k \in JobIds : k # j /\ status[k] \in {"queued", "running"} => owner[k] # raccount[p]
    BY <1>4 DEF PostInsert, HasActive
  <2>6. \A k \in JobIds : k # j => status'[k] = status[k] /\ owner'[k] = owner[k]
    BY <2>1
  <2>7. ASSUME NEW k \in JobIds, status'[k] \in {"queued", "running"}, k # j,
               NEW i \in JobIds, status'[i] # "absent", owner'[i] = owner'[k]
        PROVE  i <= k
    <3>1. i # j
      BY <2>1, <2>5, <2>6, <2>7
    <3> QED
      BY <2>6, <2>7, <3>1
  <2>8. \A k \in JobIds, i \in JobIds :
          /\ status'[k] \in {"queued", "running"}
          /\ status'[i] # "absent" /\ owner'[i] = owner'[k]
          => i <= k
    <3> SUFFICES ASSUME NEW k \in JobIds, NEW i \in JobIds,
                        status'[k] \in {"queued", "running"},
                        status'[i] # "absent", owner'[i] = owner'[k]
                 PROVE  i <= k
      OBVIOUS
    <3>1. CASE k = j
      BY <2>4, <3>1
    <3>2. CASE k # j
      BY <2>7, <3>2
    <3> QED
      BY <3>1, <3>2
  <2> QED
    BY <2>8
<1>5. ASSUME NEW p \in Posts, PostAlreadyActive(p)
      PROVE  ActiveJobIsLatest'
  BY <1>5 DEF PostAlreadyActive
<1>6. ASSUME NEW w \in Runners, ListCandidates(w)
      PROVE  ActiveJobIsLatest'
  BY <1>6 DEF ListCandidates
<1>7. ASSUME NEW w \in Runners, EndRun(w)
      PROVE  ActiveJobIsLatest'
  BY <1>7 DEF EndRun
<1>8. ASSUME NEW w \in Runners, Claim(w)
      PROVE  ActiveJobIsLatest'
  BY <1>8 DEF Claim, Claimable
<1>9. ASSUME NEW w \in Runners, ClaimLost(w)
      PROVE  ActiveJobIsLatest'
  BY <1>9 DEF ClaimLost
<1>10. ASSUME NEW w \in Runners, ClaimErrs(w)
      PROVE  ActiveJobIsLatest'
  BY <1>10 DEF ClaimErrs
<1>11. ASSUME NEW w \in Runners, ReuseContext(w)
      PROVE  ActiveJobIsLatest'
  BY <1>11 DEF ReuseContext
<1>12. ASSUME NEW w \in Runners, DropBatches(w)
      PROVE  ActiveJobIsLatest'
  BY <1>12 DEF DropBatches
<1>13. ASSUME NEW w \in Runners, SelectPending(w)
      PROVE  ActiveJobIsLatest'
  BY <1>13 DEF SelectPending
<1>14. ASSUME NEW w \in Runners, StoreContext(w)
      PROVE  ActiveJobIsLatest'
  BY <1>14 DEF StoreContext
<1>15. ASSUME NEW w \in Runners, SaveReport(w)
      PROVE  ActiveJobIsLatest'
  BY <1>15 DEF SaveReport
<1>16. ASSUME NEW w \in Runners, WorkFails(w)
      PROVE  ActiveJobIsLatest'
  BY <1>16 DEF WorkFails
<1>17. ASSUME NEW w \in Runners, MarkFailed(w)
      PROVE  ActiveJobIsLatest'
  BY <1>17 DEF MarkFailed
<1>18. ASSUME NEW w \in Runners, PassAborts(w)
      PROVE  ActiveJobIsLatest'
  BY <1>18 DEF PassAborts
<1>19. ASSUME NEW w \in Runners, Release(w)
      PROVE  ActiveJobIsLatest'
  BY <1>19 DEF Release
<1>20. ASSUME NEW w \in Runners, Crash(w)
      PROVE  ActiveJobIsLatest'
  BY <1>20 DEF Crash
<1>21. ASSUME NEW w \in Runners, NEW j \in JobIds, LockCandidate(w, j)
      PROVE  ActiveJobIsLatest'
  BY <1>21 DEF LockCandidate
<1>22. ASSUME NEW w \in Runners, NEW j \in JobIds, SkipCandidate(w, j)
      PROVE  ActiveJobIsLatest'
  BY <1>22 DEF SkipCandidate
<1>23. ASSUME NEW w \in Runners, NEW m \in Messages, VerifyText(w, m)
      PROVE  ActiveJobIsLatest'
  BY <1>23 DEF VerifyText
<1>24. ASSUME NEW w \in Runners, NEW m \in Messages, OmitText(w, m)
      PROVE  ActiveJobIsLatest'
  BY <1>24 DEF OmitText
<1>25. ASSUME NEW r \in Summaries, NEW c \in Chats, LockChat(r, c)
      PROVE  ActiveJobIsLatest'
  BY <1>25 DEF LockChat
<1>26. ASSUME NEW r \in Summaries, NEW c \in Chats, RefuseChat(r, c)
      PROVE  ActiveJobIsLatest'
  BY <1>26 DEF RefuseChat
<1>27. ASSUME NEW r \in Summaries, SelectChatTexts(r)
      PROVE  ActiveJobIsLatest'
  BY <1>27 DEF SelectChatTexts
<1>28. ASSUME NEW r \in Summaries, SaveChatReport(r)
      PROVE  ActiveJobIsLatest'
  BY <1>28 DEF SaveChatReport
<1>29. ASSUME NEW r \in Summaries, ChatReportFails(r)
      PROVE  ActiveJobIsLatest'
  BY <1>29 DEF ChatReportFails
<1>30. ASSUME NEW r \in Summaries, ReleaseChat(r)
      PROVE  ActiveJobIsLatest'
  BY <1>30 DEF ReleaseChat
<1>31. ASSUME NEW r \in Requests, RequestDies(r)
      PROVE  ActiveJobIsLatest'
  BY <1>31 DEF RequestDies
<1>32. CASE Upgrade
  BY <1>32 DEF Upgrade
<1>33. CASE UNCHANGED vars
  BY <1>33 DEF vars
<1> QED
  BY <1>1, <1>2, <1>3, <1>4, <1>5, <1>6, <1>7, <1>8, <1>9, <1>10, <1>11,
     <1>12, <1>13, <1>14, <1>15, <1>16, <1>17, <1>18, <1>19, <1>20, <1>21,
     <1>22, <1>23, <1>24, <1>25, <1>26, <1>27, <1>28, <1>29, <1>30, <1>31,
     <1>32, <1>33, StepCases

(* What a global report lists is consumed. *)
LEMMA GlobalTextsConsumed ==
  ASSUME ConsumptionIsReported
  PROVE  GlobalTexts \subseteq reviewed \cup skipped
BY DEF ConsumptionIsReported, GlobalTexts

(* The texts of global reports after one more report. *)
LEMMA AppendedGlobalTexts ==
  ASSUME TypeOK,
         NEW r \in [author : JobIds \cup Summaries,
                    verified : SUBSET Messages, omitted : SUBSET Messages],
         reports' = Append(reports, r)
  PROVE  GlobalTexts' = IF r.author \in JobIds
                        THEN GlobalTexts \cup r.verified \cup r.omitted
                        ELSE GlobalTexts
<1> DEFINE S == [author : JobIds \cup Summaries,
                 verified : SUBSET Messages, omitted : SUBSET Messages]
<1>1. reports \in Seq(S) /\ r \in S
  BY DEF TypeOK
<1> HIDE DEF S
<1>2. \A u : u = Append(reports, r)
        => {u[i] : i \in DOMAIN u} = {reports[i] : i \in DOMAIN reports} \cup {r}
  BY <1>1, AppendedReports
<1>3. Reports' = Reports \cup {r}
  <2>1. {reports'[i] : i \in DOMAIN reports'} = {reports[i] : i \in DOMAIN reports} \cup {r}
    BY <1>2
  <2> QED
    BY <2>1, Zenon DEF Reports
<1>4. {x \in Reports' : x.author \in JobIds}
        = IF r.author \in JobIds THEN {x \in Reports : x.author \in JobIds} \cup {r}
                                 ELSE {x \in Reports : x.author \in JobIds}
  BY <1>3
<1> QED
  BY <1>4 DEF GlobalTexts

(* A worker's report covers exactly its job's context, texts of the job's  *)
(* account that no global report has listed.                               *)
LEMMA SavedContent ==
  ASSUME ReportsInv, NEW w \in Runners, SaveReport(w)
  PROVE  /\ job[w] \in JobIds /\ status[job[w]] = "running"
         /\ owner[job[w]] \in Accounts /\ IsLatest(job[w])
         /\ Report(job[w], selection[w] \ omitted[w], omitted[w])
              \in [author : JobIds \cup Summaries,
                   verified : SUBSET Messages, omitted : SUBSET Messages]
         /\ (selection[w] \ omitted[w]) \cup omitted[w] = context[job[w]]
         /\ context[job[w]] \subseteq TextsOf(owner[job[w]])
         /\ context[job[w]] \cap GlobalTexts = {}
<1> USE DEF ReportsInv, ConsumptionInv
<1>1. step[w] = "analyze" /\ Working(w)
  BY DEF SaveReport, Working
<1>2. job[w] \in JobIds /\ owner[job[w]] \in Accounts
  BY <1>1, WorkersApart
<1>3. status[job[w]] = "running" /\ selection[w] = context[job[w]]
  BY <1>1 DEF WorkersOwnTheirJob
<1>4. IsLatest(job[w])
  BY <1>2, <1>3 DEF ActiveJobIsLatest, Active
<1>5. context[job[w]] \cap GlobalTexts = {}
  BY <1>2, <1>3, <1>4 DEF FreshContexts
<1>6. context[job[w]] \subseteq TextsOf(owner[job[w]]) /\ omitted[w] \subseteq selection[w]
  BY <1>2 DEF SelectionsBelong
<1>7. Report(job[w], selection[w] \ omitted[w], omitted[w])
        \in [author : JobIds \cup Summaries,
             verified : SUBSET Messages, omitted : SUBSET Messages]
  BY <1>2 DEF Report, TypeOK
<1> QED
  BY <1>2, <1>3, <1>4, <1>5, <1>6, <1>7

(* Steps that save nothing, capture nothing and create nothing.            *)
LEMMA FreshKept ==
  ASSUME FreshContexts, UNCHANGED <<reports, owner, context>>,
         \A j \in JobIds : status'[j] \in {"absent", "completed"}
                             \/ status[j] \in {"absent", "completed"}
                           => status'[j] = status[j]
  PROVE  FreshContexts'
<1>1. GlobalTexts' = GlobalTexts
  BY DEF GlobalTexts, Reports
<1>2. \A a : JobsOf(a)' = JobsOf(a)
  BY DEF JobsOf
<1>3. \A j \in JobIds : IsLatest(j)' = IsLatest(j)
  BY <1>2 DEF IsLatest
<1> QED
  BY <1>1, <1>3 DEF FreshContexts

(* A global report lists texts of its account's latest job, which completes with it; contexts captured later hold pending texts only. *)
LEMMA FreshStep ==
  ASSUME ReportsInv, [Next]_vars
  PROVE  FreshContexts'
<1> USE FreshKept DEF ReportsInv, ConsumptionInv, TypeOK, RunnersKnowTheirJob, Working, Active, JobsOf, Forget, Answer, messageVars, jobVars, cacheVars, runnerVars, requestVars
<1>1. ASSUME NEW m \in Messages, Arrive(m)
      PROVE  FreshContexts'
  BY <1>1 DEF Arrive
<1>2. ASSUME NEW p \in Posts, NEW a \in Accounts, NEW s \in Specialists, PostResume(p, a, s)
      PROVE  FreshContexts'
  BY <1>2 DEF PostResume, Resumable
<1>3. ASSUME NEW p \in Posts, NEW a \in Accounts, NEW s \in Specialists, PostNothingToResume(p, a, s)
      PROVE  FreshContexts'
  BY <1>3 DEF PostNothingToResume
<1>4. ASSUME NEW p \in Posts, PostInsert(p)
      PROVE  FreshContexts'
  <2>1. PICK j \in JobIds :
          /\ status[j] = "absent"
          /\ status' = [status EXCEPT ![j] = "queued"]
          /\ owner' = [owner EXCEPT ![j] = raccount[p]]
    BY <1>4 DEF PostInsert
  <2>2. context[j] = {}
    <3>1. TextsOf(None) = {}
      BY ChatAssumption, SessionAssumption DEF TextsOf, AccountOf
    <3> QED
      BY <2>1, <3>1 DEF JobsHaveOwners, SelectionsBelong
  <2>3. GlobalTexts' = GlobalTexts /\ context' = context
    BY <1>4 DEF PostInsert, GlobalTexts, Reports
  <2>4. \A k \in JobIds : k # j => status'[k] = status[k] /\ owner'[k] = owner[k]
    BY <2>1
  <2>5. ASSUME NEW k \in JobIds, k # j, IsLatest(k)' PROVE IsLatest(k)
    BY <2>1, <2>4, <2>5 DEF IsLatest
  <2> QED
    BY <2>2, <2>3, <2>4, <2>5 DEF FreshContexts
<1>5. ASSUME NEW p \in Posts, PostAlreadyActive(p)
      PROVE  FreshContexts'
  BY <1>5 DEF PostAlreadyActive
<1>6. ASSUME NEW w \in Runners, ListCandidates(w)
      PROVE  FreshContexts'
  BY <1>6 DEF ListCandidates
<1>7. ASSUME NEW w \in Runners, EndRun(w)
      PROVE  FreshContexts'
  BY <1>7 DEF EndRun
<1>8. ASSUME NEW w \in Runners, Claim(w)
      PROVE  FreshContexts'
  BY <1>8 DEF Claim, Claimable
<1>9. ASSUME NEW w \in Runners, ClaimLost(w)
      PROVE  FreshContexts'
  BY <1>9 DEF ClaimLost
<1>10. ASSUME NEW w \in Runners, ClaimErrs(w)
      PROVE  FreshContexts'
  BY <1>10 DEF ClaimErrs
<1>11. ASSUME NEW w \in Runners, ReuseContext(w)
      PROVE  FreshContexts'
  BY <1>11 DEF ReuseContext
<1>12. ASSUME NEW w \in Runners, DropBatches(w)
      PROVE  FreshContexts'
  BY <1>12 DEF DropBatches
<1>13. ASSUME NEW w \in Runners, SelectPending(w)
      PROVE  FreshContexts'
  BY <1>13 DEF SelectPending
<1>14. ASSUME NEW w \in Runners, StoreContext(w)
      PROVE  FreshContexts'
  <2>1. job[w] \in JobIds /\ selection[w] \cap (reviewed \cup skipped) = {}
    BY <1>14 DEF StoreContext, SelectionsStayPending
  <2>2. selection[w] \cap GlobalTexts = {}
    BY <2>1, GlobalTextsConsumed
  <2>3. GlobalTexts' = GlobalTexts /\ \A k \in JobIds : IsLatest(k)' = IsLatest(k)
    BY <1>14 DEF StoreContext, GlobalTexts, Reports, IsLatest
  <2>4. context' = [context EXCEPT ![job[w]] = selection[w]] /\ status' = status
    BY <1>14 DEF StoreContext
  <2> QED
    BY <2>1, <2>2, <2>3, <2>4 DEF FreshContexts
<1>15. ASSUME NEW w \in Runners, SaveReport(w)
      PROVE  FreshContexts'
  <2> DEFINE r == Report(job[w], selection[w] \ omitted[w], omitted[w])
  <2>1. /\ r.author = job[w] /\ r.verified \cup r.omitted = context[job[w]]
        /\ r \in [author : JobIds \cup Summaries,
                 verified : SUBSET Messages, omitted : SUBSET Messages]
        /\ job[w] \in JobIds /\ IsLatest(job[w]) /\ status[job[w]] = "running"
        /\ context[job[w]] \subseteq TextsOf(owner[job[w]])
    BY <1>15, SavedContent DEF Report
  <2>2. reports' = Append(reports, r)
    BY <1>15 DEF SaveReport
  <2> HIDE DEF r
  <2>3. GlobalTexts' = GlobalTexts \cup context[job[w]]
    BY <2>1, <2>2, AppendedGlobalTexts
  <2>4. /\ status' = [status EXCEPT ![job[w]] = "completed"]
        /\ context' = [context EXCEPT ![job[w]] = {}]
        /\ owner' = owner
    BY <1>15 DEF SaveReport
  <2>5. \A k \in JobIds : (status'[k] = "absent") = (status[k] = "absent")
    BY <2>1, <2>4
  <2>6. \A k \in JobIds : IsLatest(k)' = IsLatest(k)
    BY <2>4, <2>5 DEF IsLatest
  <2>7. ASSUME NEW k \in JobIds, status'[k] # "completed", IsLatest(k), k # job[w]
        PROVE  context[k] \cap context[job[w]] = {}
    <3>1. CASE owner[k] = owner[job[w]]
      <4>1. status[k] # "absent"
        BY <2>1, <3>1 DEF JobsHaveOwners
      <4>2. k <= job[w] /\ job[w] <= k
        BY <2>1, <2>7, <3>1, <4>1 DEF IsLatest
      <4> QED
        BY <2>1, <2>7, <4>2 DEF JobIds
    <3>2. CASE owner[k] # owner[job[w]]
      BY <2>1, <3>2 DEF SelectionsBelong, TextsOf
    <3> QED
      BY <3>1, <3>2
  <2>8. ASSUME NEW k \in JobIds, status'[k] # "completed", IsLatest(k)
        PROVE  context'[k] \cap GlobalTexts' = {}
    <3>1. k # job[w] /\ status[k] # "completed"
      BY <2>1, <2>4, <2>8
    <3>2. context[k] \cap GlobalTexts = {}
      BY <2>8, <3>1 DEF FreshContexts
    <3> QED
      BY <2>3, <2>4, <2>7, <2>8, <3>1, <3>2
  <2> QED
    BY <2>6, <2>8 DEF FreshContexts
<1>16. ASSUME NEW w \in Runners, WorkFails(w)
      PROVE  FreshContexts'
  BY <1>16 DEF WorkFails
<1>17. ASSUME NEW w \in Runners, MarkFailed(w)
      PROVE  FreshContexts'
  BY <1>17 DEF MarkFailed
<1>18. ASSUME NEW w \in Runners, PassAborts(w)
      PROVE  FreshContexts'
  BY <1>18 DEF PassAborts
<1>19. ASSUME NEW w \in Runners, Release(w)
      PROVE  FreshContexts'
  BY <1>19 DEF Release
<1>20. ASSUME NEW w \in Runners, Crash(w)
      PROVE  FreshContexts'
  BY <1>20 DEF Crash
<1>21. ASSUME NEW w \in Runners, NEW j \in JobIds, LockCandidate(w, j)
      PROVE  FreshContexts'
  BY <1>21 DEF LockCandidate
<1>22. ASSUME NEW w \in Runners, NEW j \in JobIds, SkipCandidate(w, j)
      PROVE  FreshContexts'
  BY <1>22 DEF SkipCandidate
<1>23. ASSUME NEW w \in Runners, NEW m \in Messages, VerifyText(w, m)
      PROVE  FreshContexts'
  BY <1>23 DEF VerifyText
<1>24. ASSUME NEW w \in Runners, NEW m \in Messages, OmitText(w, m)
      PROVE  FreshContexts'
  BY <1>24 DEF OmitText
<1>25. ASSUME NEW r \in Summaries, NEW c \in Chats, LockChat(r, c)
      PROVE  FreshContexts'
  BY <1>25 DEF LockChat
<1>26. ASSUME NEW r \in Summaries, NEW c \in Chats, RefuseChat(r, c)
      PROVE  FreshContexts'
  BY <1>26 DEF RefuseChat
<1>27. ASSUME NEW r \in Summaries, SelectChatTexts(r)
      PROVE  FreshContexts'
  BY <1>27 DEF SelectChatTexts
<1>28. ASSUME NEW r \in Summaries, SaveChatReport(r)
      PROVE  FreshContexts'
  <2> DEFINE x == Report(r, rselection[r], {})
  <2>1. x \in [author : JobIds \cup Summaries,
               verified : SUBSET Messages, omitted : SUBSET Messages]
    BY DEF Report, Requests
  <2>2. x.author \notin JobIds
    BY SessionAssumption DEF Report, JobIds
  <2>3. reports' = Append(reports, x)
    BY <1>28 DEF SaveChatReport
  <2> HIDE DEF x
  <2>4. GlobalTexts' = GlobalTexts
    BY <2>1, <2>2, <2>3, AppendedGlobalTexts
  <2> QED
    BY <1>28, <2>4 DEF SaveChatReport, FreshContexts, IsLatest
<1>29. ASSUME NEW r \in Summaries, ChatReportFails(r)
      PROVE  FreshContexts'
  BY <1>29 DEF ChatReportFails
<1>30. ASSUME NEW r \in Summaries, ReleaseChat(r)
      PROVE  FreshContexts'
  BY <1>30 DEF ReleaseChat
<1>31. ASSUME NEW r \in Requests, RequestDies(r)
      PROVE  FreshContexts'
  BY <1>31 DEF RequestDies
<1>32. CASE Upgrade
  BY <1>32 DEF Upgrade
<1>33. CASE UNCHANGED vars
  BY <1>33 DEF vars
<1> QED
  BY <1>1, <1>2, <1>3, <1>4, <1>5, <1>6, <1>7, <1>8, <1>9, <1>10, <1>11,
     <1>12, <1>13, <1>14, <1>15, <1>16, <1>17, <1>18, <1>19, <1>20, <1>21,
     <1>22, <1>23, <1>24, <1>25, <1>26, <1>27, <1>28, <1>29, <1>30, <1>31,
     <1>32, <1>33, StepCases

(* No text is in two global reports: the step that would break it.         *)
LEMMA DisjointStep ==
  ASSUME ReportsInv, [Next]_vars
  PROVE  GlobalReportsDisjoint'
<1> USE DEF ReportsInv, ConsumptionInv
<1> DEFINE S == [author : JobIds \cup Summaries,
                 verified : SUBSET Messages, omitted : SUBSET Messages]
<1>1. ASSUME UNCHANGED reports PROVE GlobalReportsDisjoint'
  BY <1>1 DEF GlobalReportsDisjoint, IsGlobal, Content
<1>2. ASSUME NEW r \in S, reports' = Append(reports, r),
             r.author \in JobIds => (r.verified \cup r.omitted) \cap GlobalTexts = {}
      PROVE  GlobalReportsDisjoint'
  <2>1. reports \in Seq(S)
    BY DEF TypeOK
  <2> HIDE DEF S
  <2>7. PICK n : n = Len(reports) + 1
    OBVIOUS
  <2>2. /\ DOMAIN reports' = DOMAIN reports \cup {n}
        /\ reports'[n] = r
        /\ \A i \in DOMAIN reports : reports'[i] = reports[i]
    BY <1>2, <2>1, <2>7, AppendProperties
  <2>3. \A i \in DOMAIN reports : IsGlobal(i) => Content(i) \subseteq GlobalTexts
    BY DEF IsGlobal, Content, GlobalTexts, Reports
  <2>4. \A i \in DOMAIN reports : IsGlobal(i)' = IsGlobal(i) /\ Content(i)' = Content(i)
    BY <2>2 DEF IsGlobal, Content
  <2>5. IsGlobal(n)' =>
          \A i \in DOMAIN reports :
            IsGlobal(i) => Content(i) \cap Content(n)' = {}
    BY <1>2, <2>2, <2>3 DEF IsGlobal, Content
  <2>6. ASSUME NEW i \in DOMAIN reports', NEW k \in DOMAIN reports',
               i # k, IsGlobal(i)', IsGlobal(k)'
        PROVE  Content(i)' \cap Content(k)' = {}
    <3>1. CASE i \in DOMAIN reports /\ k \in DOMAIN reports
      BY <2>4, <2>6, <3>1 DEF GlobalReportsDisjoint
    <3>2. CASE i \in DOMAIN reports /\ k = n
      BY <2>4, <2>5, <2>6, <3>2
    <3>3. CASE k \in DOMAIN reports /\ i = n
      BY <2>4, <2>5, <2>6, <3>3
    <3> QED
      BY <2>2, <2>6, <3>1, <3>2, <3>3
  <2> QED
    BY <2>6 DEF GlobalReportsDisjoint
<1>3. ASSUME NEW w \in Runners, SaveReport(w) PROVE GlobalReportsDisjoint'
  <2> DEFINE x == Report(job[w], selection[w] \ omitted[w], omitted[w])
  <2>1. x \in S /\ (x.verified \cup x.omitted) \cap GlobalTexts = {}
    BY <1>3, SavedContent DEF Report
  <2>2. reports' = Append(reports, x)
    BY <1>3 DEF SaveReport
  <2> HIDE DEF S, x
  <2> QED
    BY <1>2, <2>1, <2>2
<1>4. ASSUME NEW r \in Summaries, SaveChatReport(r) PROVE GlobalReportsDisjoint'
  <2> DEFINE x == Report(r, rselection[r], {})
  <2>1. x \in S
    BY DEF Report, TypeOK, Requests
  <2>2. x.author \notin JobIds
    BY SessionAssumption DEF Report, JobIds
  <2>3. reports' = Append(reports, x)
    BY <1>4 DEF SaveChatReport
  <2> HIDE DEF S, x
  <2> QED
    BY <1>2, <2>1, <2>2, <2>3
<1>5. \/ UNCHANGED reports
      \/ \E w \in Runners : SaveReport(w)
      \/ \E r \in Summaries : SaveChatReport(r)
  BY StepCases DEF Arrive, PostResume, PostNothingToResume, PostInsert,
       PostAlreadyActive, ListCandidates, EndRun, LockCandidate, SkipCandidate,
       Claim, ClaimLost, ClaimErrs, ReuseContext, DropBatches, SelectPending,
       StoreContext, VerifyText, OmitText, WorkFails, MarkFailed, PassAborts,
       Release, LockChat, RefuseChat, SelectChatTexts, ChatReportFails,
       ReleaseChat, Crash, RequestDies, Upgrade, vars, messageVars
<1> QED
  BY <1>1, <1>3, <1>4, <1>5

(* The queue starts with no report and no captured context. *)
LEMMA ReportsInit == Init => ReportsInv
<1> SUFFICES ASSUME Init PROVE ReportsInv
  OBVIOUS
<1>1. ConsumptionInv
  BY ConsumptionInit
<1> USE DEF Init
<1>2. JobsInOrder /\ ActiveJobIsLatest
  BY DEF JobsInOrder, ActiveJobIsLatest, Active
<1>3. WorkersOwnTheirJob
  BY DEF WorkersOwnTheirJob
<1>4. FreshContexts
  BY DEF FreshContexts
<1>5. GlobalReportsDisjoint
  BY DEF GlobalReportsDisjoint
<1> QED
  BY <1>1, <1>2, <1>3, <1>4, <1>5 DEF ReportsInv

(* The queue never leaves the inductive invariant of its reports. *)
THEOREM ReportsInvariant == Spec => []ReportsInv
<1>1. ConsumptionInv /\ [Next]_vars /\ ConsumptionInv' /\ ReportsInv => ReportsInv'
  <2> SUFFICES ASSUME ConsumptionInv, [Next]_vars, ConsumptionInv', ReportsInv
               PROVE  ReportsInv'
    OBVIOUS
  <2>1. /\ TypeOK /\ JobsHaveOwners /\ RunnersKnowTheirJob /\ RequestsKnowTheirTarget
        /\ SelectionsBelong /\ WorkersHoldTheLock
    BY DEF ConsumptionInv
  <2>2. JobsInOrder'
    BY <2>1, OrderStep DEF ReportsInv
  <2>3. ActiveJobIsLatest'
    BY <2>1, LatestStep DEF ReportsInv
  <2>4. WorkersOwnTheirJob'
    BY <2>1, OwnJobStep DEF ReportsInv
  <2>5. FreshContexts'
    BY FreshStep
  <2>6. GlobalReportsDisjoint'
    BY DisjointStep
  <2> QED
    BY <2>2, <2>3, <2>4, <2>5, <2>6 DEF ReportsInv
<1> QED
  BY <1>1, ReportsInit, ConsumptionInvariant, PTL DEF Spec

(* No text is in two global reports of any account, whatever jobs failed,  *)
(* were resumed, replaced, reclaimed after a crash or rebuilt after an     *)
(* upgrade, and however many processes run the queue.                      *)
THEOREM GlobalReportsApart == Spec => []GlobalReportsDisjoint
<1>1. ReportsInv => GlobalReportsDisjoint
  BY DEF ReportsInv
<1> QED
  BY <1>1, ReportsInvariant, PTL

(* An account has at most one queued or running job, its newest one. *)
THEOREM OneActiveJob == Spec => []ActiveJobIsLatest
<1>1. ReportsInv => ActiveJobIsLatest
  BY DEF ReportsInv
<1> QED
  BY <1>1, ReportsInvariant, PTL

(* A saved report is its job's only one: the job was running, hence had    *)
(* none, and is completed by the same transaction.                         *)
LEMMA OnceStep ==
  ASSUME ReportsInv, CompletedIffReportedOnce, [Next]_vars
  PROVE  CompletedIffReportedOnce'
<1> USE DEF ReportsInv, ConsumptionInv
<1> DEFINE S == [author : JobIds \cup Summaries,
                 verified : SUBSET Messages, omitted : SUBSET Messages]
           Signed(j) == {i \in DOMAIN reports : reports[i].author = j}
<1>1. reports \in Seq(S)
  BY DEF TypeOK
<1>2. \A j \in JobIds : IsFiniteSet(Signed(j))
  <2>1. DOMAIN reports = 1..Len(reports) /\ Len(reports) \in Nat
    BY <1>1
  <2>2. IsFiniteSet(DOMAIN reports)
    BY <2>1, FS_Interval
  <2> QED
    BY <2>2, FS_Subset
<1>3. ASSUME UNCHANGED reports,
             \A j \in JobIds : (status'[j] = "completed") = (status[j] = "completed")
      PROVE  CompletedIffReportedOnce'
  BY <1>3 DEF CompletedIffReportedOnce
<1>4. ASSUME NEW r \in S, reports' = Append(reports, r)
      PROVE  \A j \in JobIds : /\ r.author # j => Signed(j)' = Signed(j)
                               /\ r.author = j => Cardinality(Signed(j)') = Cardinality(Signed(j)) + 1
  <2> HIDE DEF S
  <2>1. PICK n : n = Len(reports) + 1
    OBVIOUS
  <2>2. /\ DOMAIN reports' = DOMAIN reports \cup {n} /\ n \notin DOMAIN reports
        /\ reports'[n] = r
        /\ \A i \in DOMAIN reports : reports'[i] = reports[i]
    BY <1>1, <1>4, <2>1, AppendProperties
  <2>3. ASSUME NEW j \in JobIds
        PROVE  Signed(j)' = IF r.author = j THEN Signed(j) \cup {n} ELSE Signed(j)
    BY <2>2
  <2>4. ASSUME NEW j \in JobIds, r.author = j
        PROVE  Cardinality(Signed(j)') = Cardinality(Signed(j)) + 1
    <3>1. n \notin Signed(j)
      BY <2>2
    <3>2. Cardinality(Signed(j) \cup {n}) = Cardinality(Signed(j)) + 1
      BY <1>2, <3>1, FS_AddElement
    <3> QED
      BY <2>3, <2>4, <3>2
  <2> QED
    BY <2>3, <2>4
<1>5. ASSUME NEW w \in Runners, SaveReport(w) PROVE CompletedIffReportedOnce'
  <2> DEFINE x == Report(job[w], selection[w] \ omitted[w], omitted[w])
  <2>1. x \in S /\ job[w] \in JobIds /\ status[job[w]] = "running"
    BY <1>5, SavedContent
  <2>2. x.author = job[w]
    BY DEF Report
  <2>3. reports' = Append(reports, x) /\ status' = [status EXCEPT ![job[w]] = "completed"]
    BY <1>5 DEF SaveReport
  <2> HIDE DEF x, S
  <2>4. \A j \in JobIds : /\ job[w] # j => Signed(j)' = Signed(j)
                          /\ job[w] = j => Cardinality(Signed(j)') = Cardinality(Signed(j)) + 1
    BY <1>4, <2>1, <2>2, <2>3
  <2>5. \A j \in JobIds : Cardinality(Signed(j)) = IF status[j] = "completed" THEN 1 ELSE 0
    BY DEF CompletedIffReportedOnce
  <2>6. \A j \in JobIds : status'[j] = IF j = job[w] THEN "completed" ELSE status[j]
    BY <2>1, <2>3 DEF TypeOK
  <2>7. \A j \in JobIds : Cardinality(Signed(j)') = IF status'[j] = "completed" THEN 1 ELSE 0
    <3> SUFFICES ASSUME NEW j \in JobIds
                 PROVE  Cardinality(Signed(j)') = IF status'[j] = "completed" THEN 1 ELSE 0
      OBVIOUS
    <3>1. CASE j = job[w]
      <4>1. Cardinality(Signed(j)) = 0
        BY <2>1, <2>5, <3>1
      <4>2. Cardinality(Signed(j)') = Cardinality(Signed(j)) + 1
        BY <2>4, <3>1
      <4> QED
        BY <2>6, <3>1, <4>1, <4>2
    <3>2. CASE j # job[w]
      BY <2>4, <2>5, <2>6, <3>2
    <3> QED
      BY <3>1, <3>2
  <2> QED
    BY <2>7 DEF CompletedIffReportedOnce
<1>6. ASSUME NEW r \in Summaries, SaveChatReport(r) PROVE CompletedIffReportedOnce'
  <2> DEFINE x == Report(r, rselection[r], {})
  <2>1. x \in S
    BY DEF Report, TypeOK, Requests
  <2>2. x.author \notin JobIds
    BY SessionAssumption DEF Report, JobIds
  <2>3. reports' = Append(reports, x) /\ status' = status
    BY <1>6 DEF SaveChatReport, jobVars
  <2> HIDE DEF x, S
  <2>4. \A j \in JobIds : Signed(j)' = Signed(j)
    BY <1>4, <2>1, <2>2, <2>3
  <2> QED
    BY <2>3, <2>4 DEF CompletedIffReportedOnce
<1>7. \/ /\ UNCHANGED reports
         /\ \A j \in JobIds : (status'[j] = "completed") = (status[j] = "completed")
      \/ \E w \in Runners : SaveReport(w)
      \/ \E r \in Summaries : SaveChatReport(r)
  <2> USE DEF TypeOK, messageVars, jobVars
  <2>1. ASSUME NEW p \in Posts, NEW a \in Accounts, NEW s \in Specialists,
               PostResume(p, a, s) \/ PostNothingToResume(p, a, s)
        PROVE  <1>7!1
    BY <2>1 DEF PostResume, PostNothingToResume, Resumable
  <2>2. ASSUME NEW p \in Posts, PostInsert(p) \/ PostAlreadyActive(p)
        PROVE  <1>7!1
    BY <2>2 DEF PostInsert, PostAlreadyActive
  <2>3. ASSUME NEW w \in Runners, Claim(w) \/ MarkFailed(w)
        PROVE  <1>7!1
    BY <2>3 DEF Claim, MarkFailed, Claimable, Active
  <2> QED
    BY <2>1, <2>2, <2>3, StepCases
    DEF Arrive, ListCandidates, EndRun, LockCandidate, SkipCandidate, ClaimLost,
        ClaimErrs, ReuseContext, DropBatches, SelectPending, StoreContext,
        VerifyText, OmitText, WorkFails, PassAborts, Release, LockChat,
        RefuseChat, SelectChatTexts, ChatReportFails, ReleaseChat, Crash,
        RequestDies, Upgrade, vars
<1> QED
  BY <1>3, <1>5, <1>6, <1>7

(* A completed job has exactly one report and any other job none, for any  *)
(* number of processes and faults.                                         *)
THEOREM OneReportPerJob == Spec => []CompletedIffReportedOnce
<1>1. Init => CompletedIffReportedOnce
  <2> SUFFICES ASSUME Init PROVE CompletedIffReportedOnce
    OBVIOUS
  <2>1. \A j \in JobIds : {i \in DOMAIN reports : reports[i].author = j} = {}
    BY DEF Init
  <2> QED
    BY <2>1, FS_EmptySet DEF Init, CompletedIffReportedOnce
<1> QED
  BY <1>1, OnceStep, ReportsInvariant, PTL DEF Spec

-----------------------------------------------------------------------------
(* Steps that leave the cache alone and bring no worker to a selection.    *)
CacheIsKept ==
  /\ context' = context /\ batches' = batches
  /\ \A j \in JobIds : status'[j] = "completed" => status[j] = "completed"
  /\ \A w \in Runners :
       /\ step'[w] \in {"select", "store"} =>
            step[w] \in {"select", "store"} /\ job'[w] = job[w] /\ stale' = stale
       /\ step'[w] \in {"store", "analyze"} =>
            step[w] \in {"store", "analyze"} /\ selection'[w] = selection[w]
  /\ \A r \in Summaries : rstep'[r] = "generate" => rstep[r] = "generate" /\ rselection'[r] = rselection[r]

(* What the other steps are.                                               *)
LEMMA CacheCases ==
  ASSUME TypeOK, [Next]_vars
  PROVE  \/ CacheIsKept
         \/ \E w \in Runners :
              \/ ReuseContext(w) \/ DropBatches(w) \/ SelectPending(w) \/ StoreContext(w) \/ SaveReport(w)
              \/ \E m \in Messages : VerifyText(w, m)
         \/ \E r \in Summaries : SelectChatTexts(r)
<1> USE DEF CacheIsKept, TypeOK, Requests, messageVars, jobVars, cacheVars, runnerVars, requestVars
<1>1. ASSUME NEW p \in Posts, NEW a \in Accounts, NEW s \in Specialists,
             PostResume(p, a, s) \/ PostNothingToResume(p, a, s)
      PROVE  CacheIsKept
  BY <1>1, SessionAssumption DEF PostResume, PostNothingToResume, Answer
<1>2. ASSUME NEW p \in Posts, PostInsert(p) \/ PostAlreadyActive(p)
      PROVE  CacheIsKept
  BY <1>2, SessionAssumption DEF PostInsert, PostAlreadyActive, Answer
<1>3. ASSUME NEW w \in Runners, Claim(w) \/ MarkFailed(w)
      PROVE  CacheIsKept
  BY <1>3 DEF Claim, MarkFailed
<1>4. ASSUME NEW w \in Runners, ListCandidates(w) \/ EndRun(w) \/ ClaimLost(w) \/ ClaimErrs(w) \/ WorkFails(w)
      PROVE  CacheIsKept
  BY <1>4 DEF ListCandidates, EndRun, ClaimLost, ClaimErrs, WorkFails
<1>5. ASSUME NEW w \in Runners, PassAborts(w) \/ Release(w) \/ Crash(w)
      PROVE  CacheIsKept
  BY <1>5 DEF PassAborts, Release, Crash, Forget
<1>6. ASSUME NEW w \in Runners, NEW j \in JobIds, LockCandidate(w, j) \/ SkipCandidate(w, j)
      PROVE  CacheIsKept
  BY <1>6 DEF LockCandidate, SkipCandidate
<1>7. ASSUME NEW w \in Runners, NEW m \in Messages, OmitText(w, m)
      PROVE  CacheIsKept
  BY <1>7 DEF OmitText
<1>8. ASSUME NEW r \in Summaries, NEW c \in Chats, LockChat(r, c) \/ RefuseChat(r, c)
      PROVE  CacheIsKept
  BY <1>8 DEF LockChat, RefuseChat, Answer
<1>9. ASSUME NEW r \in Summaries, SaveChatReport(r) \/ ChatReportFails(r) \/ ReleaseChat(r)
      PROVE  CacheIsKept
  BY <1>9 DEF SaveChatReport, ChatReportFails, ReleaseChat, Answer
<1>10. ASSUME NEW r \in Requests, RequestDies(r) PROVE CacheIsKept
  BY <1>10 DEF RequestDies, Answer
<1>11. ASSUME Upgrade \/ UNCHANGED vars PROVE CacheIsKept
  BY <1>11 DEF Upgrade, vars
<1>12. ASSUME NEW m \in Messages, Arrive(m) PROVE CacheIsKept
  BY <1>12 DEF Arrive
<1> QED
  BY <1>1, <1>2, <1>3, <1>4, <1>5, <1>6, <1>7, <1>8, <1>9, <1>10, <1>11, <1>12, StepCases

(* A worker's cache is its own: it alone writes what is stored of its job. *)
LEMMA CacheStep ==
  ASSUME CacheInv, [Next]_vars
  PROVE  CacheMatchesSelection' /\ RebuildsStartClean' /\ SelectionsHaveTexts'
<1>1. ReportsInv /\ ConsumptionInv /\ TypeOK
  BY DEF CacheInv, ReportsInv, ConsumptionInv
<1>2. /\ \A w \in Runners : Working(w) =>
           /\ job[w] \in JobIds
           /\ \A v \in Runners : v # w /\ Working(v) => job[v] # job[w]
  BY <1>1, WorkersApart DEF ConsumptionInv
<1> USE DEF CacheMatchesSelection, RebuildsStartClean, SelectionsHaveTexts, Working
<1>3. CASE CacheIsKept
  BY <1>1, <1>2, <1>3 DEF CacheIsKept, CacheInv
<1>4. ASSUME NEW w \in Runners, ReuseContext(w)
      PROVE  CacheMatchesSelection' /\ RebuildsStartClean' /\ SelectionsHaveTexts'
  BY <1>1, <1>4 DEF ReuseContext, Reusable, CacheInv, TypeOK, messageVars, jobVars, cacheVars, requestVars
<1>5. ASSUME NEW w \in Runners, DropBatches(w)
      PROVE  CacheMatchesSelection' /\ RebuildsStartClean' /\ SelectionsHaveTexts'
  <2>1. job[w] \in JobIds /\ \A v \in Runners : v # w /\ Working(v) => job[v] # job[w]
    BY <1>2, <1>5 DEF DropBatches
  <2>2. /\ context' = context /\ stale' = stale /\ job' = job /\ status' = status /\ selection' = selection
        /\ rstep' = rstep /\ rselection' = rselection
        /\ step' = [step EXCEPT ![w] = "select"]
        /\ context[job[w]] # {} => job[w] \in stale
    BY <1>5 DEF DropBatches, Reusable, jobVars, requestVars
  <2>3. batches'[job[w]] = {} /\ \A j \in JobIds \ {job[w]} : batches'[j] = batches[j]
    BY <1>1, <1>5, <2>1 DEF DropBatches, CacheInv, TypeOK
  <2> QED
    BY <1>1, <1>2, <2>1, <2>2, <2>3 DEF CacheInv, TypeOK
<1>6. ASSUME NEW w \in Runners, SelectPending(w)
      PROVE  CacheMatchesSelection' /\ RebuildsStartClean' /\ SelectionsHaveTexts'
  BY <1>1, <1>6 DEF SelectPending, CacheInv, TypeOK, jobVars, cacheVars, requestVars
<1>7. ASSUME NEW w \in Runners, StoreContext(w)
      PROVE  CacheMatchesSelection' /\ RebuildsStartClean' /\ SelectionsHaveTexts'
  <2>1. /\ job[w] \in JobIds /\ batches[job[w]] = {} /\ status[job[w]] # "completed"
        /\ \A v \in Runners : v # w /\ Working(v) => job[v] # job[w]
    BY <1>1, <1>2, <1>7 DEF StoreContext, CacheInv, ReportsInv, WorkersOwnTheirJob
  <2>2. /\ batches' = batches /\ job' = job /\ status' = status /\ selection' = selection
        /\ rstep' = rstep /\ rselection' = rselection
        /\ step[w] = "store" /\ step' = [step EXCEPT ![w] = "analyze"]
        /\ context' = [context EXCEPT ![job[w]] = selection[w]] /\ stale' = stale \ {job[w]}
    BY <1>7 DEF StoreContext, jobVars, requestVars
  <2> QED
    BY <1>1, <1>2, <2>1, <2>2 DEF CacheInv, TypeOK
<1>8. ASSUME NEW w \in Runners, SaveReport(w)
      PROVE  CacheMatchesSelection' /\ RebuildsStartClean' /\ SelectionsHaveTexts'
  <2>1. /\ job[w] \in JobIds
        /\ \A v \in Runners : v # w /\ Working(v) => job[v] # job[w]
    BY <1>2, <1>8 DEF SaveReport
  <2>2. /\ stale' = stale /\ job' = job /\ selection' = selection
        /\ rstep' = rstep /\ rselection' = rselection
        /\ step' = [step EXCEPT ![w] = "release"]
        /\ status' = [status EXCEPT ![job[w]] = "completed"]
        /\ context' = [context EXCEPT ![job[w]] = {}] /\ batches' = [batches EXCEPT ![job[w]] = {}]
    BY <1>8 DEF SaveReport, requestVars
  <2> QED
    BY <1>1, <1>2, <2>1, <2>2 DEF CacheInv, TypeOK
<1>9. ASSUME NEW w \in Runners, NEW m \in Messages, VerifyText(w, m)
      PROVE  CacheMatchesSelection' /\ RebuildsStartClean' /\ SelectionsHaveTexts'
  <2>1. /\ job[w] \in JobIds /\ m \in context[job[w]]
        /\ \A v \in Runners : v # w /\ Working(v) => job[v] # job[w]
    BY <1>1, <1>2, <1>9 DEF VerifyText, CacheInv, ReportsInv, WorkersOwnTheirJob
  <2>2. /\ context' = context /\ stale' = stale /\ job' = job /\ status' = status /\ selection' = selection
        /\ rstep' = rstep /\ rselection' = rselection /\ step' = step /\ step[w] = "analyze"
        /\ batches' = [batches EXCEPT ![job[w]] = @ \cup {m}]
    BY <1>9 DEF VerifyText, jobVars, requestVars, runnerVars
  <2> QED
    BY <1>1, <1>2, <2>1, <2>2 DEF CacheInv, TypeOK
<1>10. ASSUME NEW r \in Summaries, SelectChatTexts(r)
      PROVE  CacheMatchesSelection' /\ RebuildsStartClean' /\ SelectionsHaveTexts'
  BY <1>1, <1>10 DEF SelectChatTexts, CacheInv, TypeOK, Requests, messageVars, jobVars, cacheVars, runnerVars
<1> QED
  BY <1>1, <1>3, <1>4, <1>5, <1>6, <1>7, <1>8, <1>9, <1>10, CacheCases

(* The queue never leaves the inductive invariant of its cache.            *)
THEOREM CacheInvariant == Spec => []CacheInv
<1>1. Init => CacheMatchesSelection /\ RebuildsStartClean /\ SelectionsHaveTexts
  BY SessionAssumption DEF Init, CacheMatchesSelection, RebuildsStartClean, SelectionsHaveTexts, Requests
<1>2. Init => CacheInv
  BY <1>1, ReportsInit DEF CacheInv
<1>3. CacheInv /\ [Next]_vars /\ ReportsInv' => CacheInv'
  BY CacheStep DEF CacheInv
<1> QED
  BY <1>2, <1>3, ReportsInvariant, PTL DEF Spec

(* An analysis that is stored belongs to the selection it was made from,   *)
(* and a completed job leaves neither behind, whatever was retried,        *)
(* resumed, rebuilt or reclaimed by another process.                       *)
THEOREM CacheFollowsSelection == Spec => []CacheMatchesSelection
<1>1. CacheInv => CacheMatchesSelection
  BY DEF CacheInv
<1> QED
  BY <1>1, CacheInvariant, PTL

(* A captured selection is what the report covers: it goes away only with  *)
(* a report of exactly it, or is rebuilt because an upgrade made it        *)
(* unusable.                                                               *)
THEOREM SelectionsAreReported == Spec => SelectionIsReported
<1> DEFINE Kept ==
      \A j \in JobIds : context[j] # {} /\ context'[j] # context[j] =>
        \/ j \in stale /\ j \notin stale'
        \/ /\ Len(reports') = Len(reports) + 1
           /\ reports'[Len(reports')].author = j
           /\ reports'[Len(reports')].verified
                \cup reports'[Len(reports')].omitted = context[j]
<1>1. CacheInv /\ [Next]_vars => Kept
  <2> SUFFICES ASSUME CacheInv, [Next]_vars PROVE Kept
    OBVIOUS
  <2>1. TypeOK /\ ReportsInv /\ ConsumptionInv
    BY DEF CacheInv, ReportsInv, ConsumptionInv
  <2>2. CASE context' = context
    BY <2>2
  <2>3. ASSUME NEW w \in Runners, StoreContext(w) PROVE Kept
    <3>1. job[w] \in JobIds /\ (context[job[w]] # {} => job[w] \in stale)
      BY <2>1, <2>3, WorkersApart DEF StoreContext, Working, ConsumptionInv, CacheInv, RebuildsStartClean
    <3>2. context' = [context EXCEPT ![job[w]] = selection[w]] /\ stale' = stale \ {job[w]}
      BY <2>3 DEF StoreContext
    <3> QED
      BY <2>1, <3>1, <3>2 DEF TypeOK
  <2>4. ASSUME NEW w \in Runners, SaveReport(w) PROVE Kept
    <3> DEFINE x == Report(job[w], selection[w] \ omitted[w], omitted[w])
               S == [author : JobIds \cup Summaries, verified : SUBSET Messages, omitted : SUBSET Messages]
    <3>1. job[w] \in JobIds /\ x \in S /\ x.verified \cup x.omitted = context[job[w]] /\ x.author = job[w]
      BY <2>1, <2>4, SavedContent DEF Report
    <3>2. reports' = Append(reports, x) /\ context' = [context EXCEPT ![job[w]] = {}]
      BY <2>4 DEF SaveReport
    <3>3. reports \in Seq(S)
      BY <2>1 DEF TypeOK
    <3> HIDE DEF x, S
    <3>4. Len(reports') = Len(reports) + 1 /\ reports'[Len(reports')] = x
      BY <3>1, <3>2, <3>3, AppendProperties
    <3> QED
      BY <2>1, <3>1, <3>2, <3>4 DEF TypeOK
  <2> QED
    BY <2>1, <2>2, <2>3, <2>4, CacheCases
    DEF CacheIsKept, ReuseContext, DropBatches, SelectPending, VerifyText, SelectChatTexts, cacheVars
<1>2. CacheInv /\ [Next]_vars => [Kept]_vars
  BY <1>1
<1> QED
  BY <1>2, CacheInvariant, PTL DEF Spec, SelectionIsReported

-----------------------------------------------------------------------------
(* The queue implements the ledger.                                        *)
phases == [j \in JobIds |-> Phase(j)]

LEMMA PhaseIs ==
  ASSUME TypeOK, NEW j \in JobIds
  PROVE  /\ phases[j] = Phase(j)
         /\ status[j] = "absent" <=> Phase(j) = "none"
         /\ status[j] \in Active <=> Phase(j) = "open"
         /\ status[j] = "failed" <=> Phase(j) = "failed"
         /\ status[j] = "completed" <=> Phase(j) = "done"
BY DEF TypeOK, Phase, Active, phases

(* The phases after a step that moves one job, or none.                    *)
LEMMA PhaseMoves ==
  ASSUME TypeOK, TypeOK', NEW j \in JobIds,
         \A k \in JobIds \ {j} : status'[k] = status[k]
  PROVE  phases' = [phases EXCEPT ![j] = Phase(j)']
<1>1. \A k \in JobIds \ {j} : Phase(k)' = Phase(k)
  BY DEF Phase
<1> QED
  BY <1>1 DEF phases

LEMMA PhasesStay ==
  ASSUME TypeOK, TypeOK',
         \A k \in JobIds : status'[k] = status[k] \/ (status[k] \in Active /\ status'[k] \in Active)
  PROVE  phases' = phases
<1>1. \A k \in JobIds : Phase(k)' = Phase(k)
  BY DEF Phase, Active, TypeOK
<1> QED
  BY <1>1 DEF phases

(* The ledger's reports are those of the queue; what all of them list is   *)
(* what was consumed.                                                      *)
LEMMA LedgerReads ==
  ASSUME ReportsInv
  PROVE  /\ Ledger!Reported(JobIds) = GlobalTexts
         /\ Ledger!Reported(JobIds \cup Summaries) = reviewed \cup skipped
         /\ \A a : Ledger!Of(a) = TextsOf(a)
<1> DEFINE S == [author : JobIds \cup Summaries, verified : SUBSET Messages, omitted : SUBSET Messages]
<1>0. reports \in Seq(S)
  BY DEF ReportsInv, ConsumptionInv, TypeOK
<1>1. \A i \in DOMAIN reports : reports[i].author \in JobIds \cup Summaries
  <2>1. \A x \in S : x.author \in JobIds \cup Summaries
    OBVIOUS
  <2> HIDE DEF S
  <2>2. \A i \in DOMAIN reports : reports[i] \in S
    BY <1>0, LenProperties, ElementOfSeq
  <2> QED
    BY <2>1, <2>2
<1>2. Ledger!Reported(JobIds) = GlobalTexts
  BY DEF Ledger!Reported, Ledger!Texts, GlobalTexts, Reports
<1>3. Ledger!Reported(JobIds \cup Summaries) = UNION {r.verified \cup r.omitted : r \in Reports}
  BY <1>1 DEF Ledger!Reported, Ledger!Texts, Reports
<1>4. UNION {r.verified \cup r.omitted : r \in Reports} = reviewed \cup skipped
  BY DEF ReportsInv, ConsumptionInv, ConsumptionIsReported
<1> QED
  BY <1>2, <1>3, <1>4 DEF Ledger!Of, TextsOf

(* Steps that the ledger does not see.                                     *)
Unseen == UNCHANGED <<arrived, reports, owner>> /\ phases' = phases

LEMMA LedgerCases ==
  ASSUME TypeOK, TypeOK', [Next]_vars
  PROVE  \/ Unseen
         \/ \E m \in Messages : Arrive(m)
         \/ \E p \in Posts, a \in Accounts, s \in Specialists : PostResume(p, a, s)
         \/ \E p \in Posts : PostInsert(p)
         \/ \E w \in Runners : MarkFailed(w) \/ SaveReport(w)
         \/ \E r \in Summaries : SaveChatReport(r)
<1>1. ASSUME UNCHANGED <<arrived, reports, owner, status>> PROVE Unseen
  BY <1>1, PhasesStay DEF Unseen
<1>2. ASSUME NEW w \in Runners, Claim(w) PROVE Unseen
  <2>1. UNCHANGED <<arrived, reports, owner>>
    BY <1>2 DEF Claim, messageVars
  <2>2. \A k \in JobIds : status'[k] = status[k] \/ (status[k] \in Active /\ status'[k] \in Active)
    BY <1>2 DEF Claim, Claimable, TypeOK, Active
  <2> QED
    BY <2>1, <2>2, PhasesStay DEF Unseen
<1> QED
  BY <1>1, <1>2, StepCases
  DEF PostNothingToResume, PostAlreadyActive, ListCandidates, EndRun, LockCandidate, SkipCandidate,
      ClaimLost, ClaimErrs, ReuseContext, DropBatches, SelectPending, StoreContext, VerifyText,
      OmitText, WorkFails, PassAborts, Release, LockChat, RefuseChat, SelectChatTexts,
      ChatReportFails, ReleaseChat, Crash, RequestDies, Upgrade, vars, messageVars, jobVars

LEMMA LedgerStep ==
  ASSUME CacheInv, TypeOK', [Next]_vars
  PROVE  [Ledger!Next]_(Ledger!vars)
<1>1. ReportsInv /\ ConsumptionInv /\ TypeOK /\ JobsHaveOwners
  BY DEF CacheInv, ReportsInv, ConsumptionInv
<1>2. CASE Unseen
  BY <1>2 DEF Unseen, Ledger!vars, phases
<1>3. ASSUME NEW m \in Messages, Arrive(m) PROVE Ledger!Receive(m)
  <2>1. phases' = phases
    BY <1>1, <1>3, PhasesStay DEF Arrive, jobVars
  <2> QED
    BY <1>3, <2>1 DEF Arrive, Ledger!Receive, jobVars, phases
<1>4. ASSUME NEW p \in Posts, NEW a \in Accounts, NEW s \in Specialists, PostResume(p, a, s)
      PROVE  \E j \in JobIds : Ledger!Reopen(j)
  <2>1. PICK j \in JobsOf(a) : Resumable(j, s) /\ status' = [status EXCEPT ![j] = "queued"]
    BY <1>4 DEF PostResume
  <2>2. j \in JobIds /\ status[j] = "failed" /\ status'[j] = "queued"
    BY <1>1, <2>1 DEF JobsOf, Resumable, TypeOK
  <2>3. phases[j] = "failed" /\ phases' = [phases EXCEPT ![j] = "open"]
    <3>1. Phase(j)' = "open" /\ Phase(j) = "failed"
      BY <1>1, <2>2 DEF Phase, Active
    <3>2. \A k \in JobIds \ {j} : status'[k] = status[k]
      BY <1>1, <2>1 DEF TypeOK
    <3> QED
      BY <1>1, <2>2, <3>1, <3>2, PhaseMoves DEF phases
  <2>4. \A k \in JobIds : owner[k] = owner[j] => k <= j
    BY <1>1, <2>1, <2>2 DEF Resumable, IsLatest, JobsOf, JobsHaveOwners
  <2>5. UNCHANGED <<arrived, reports, owner>>
    BY <1>4 DEF PostResume, messageVars
  <2> QED
    BY <2>2, <2>3, <2>4, <2>5 DEF Ledger!Reopen, phases
<1>5. ASSUME NEW p \in Posts, PostInsert(p)
      PROVE  \E j \in JobIds, a \in Accounts : Ledger!Open(j, a)
  <2>1. PICK j \in JobIds : /\ status[j] = "absent"
                            /\ status' = [status EXCEPT ![j] = "queued"]
                            /\ owner' = [owner EXCEPT ![j] = raccount[p]]
    BY <1>5 DEF PostInsert
  <2>2. raccount[p] \in Accounts /\ ~HasActive(raccount[p])
    BY <1>1, <1>5 DEF PostInsert, ConsumptionInv, RequestsKnowTheirTarget, Requests
  <2>3. phases[j] = "none" /\ phases' = [phases EXCEPT ![j] = "open"]
    <3>1. Phase(j)' = "open" /\ Phase(j) = "none"
      BY <1>1, <2>1 DEF Phase, Active, TypeOK
    <3>2. \A k \in JobIds \ {j} : status'[k] = status[k]
      BY <1>1, <2>1 DEF TypeOK
    <3> QED
      BY <1>1, <2>1, <3>1, <3>2, PhaseMoves DEF phases
  <2>4. \A k \in JobIds : owner[k] = raccount[p] => phases[k] # "open"
    BY <1>1, <2>2, PhaseIs DEF HasActive, JobsOf, Active
  <2>5. UNCHANGED <<arrived, reports>>
    BY <1>5 DEF PostInsert, messageVars
  <2> QED
    BY <2>1, <2>2, <2>3, <2>4, <2>5 DEF Ledger!Open, Ledger!Quiet, phases
<1>6. ASSUME NEW w \in Runners, MarkFailed(w)
      PROVE  Unseen \/ \E j \in JobIds : Ledger!GiveUp(j)
  <2>1. job[w] \in JobIds
    BY <1>1, <1>6, WorkersApart DEF MarkFailed, Working, ConsumptionInv
  <2>2. UNCHANGED <<arrived, reports, owner>>
    BY <1>6 DEF MarkFailed, messageVars
  <2>3. CASE status[job[w]] # "running"
    BY <1>1, <1>6, <2>2, <2>3, PhasesStay DEF MarkFailed, Unseen
  <2>4. CASE status[job[w]] = "running"
    <3>1. status' = [status EXCEPT ![job[w]] = "failed"]
      BY <1>6, <2>4 DEF MarkFailed
    <3>2. Phase(job[w]) = "open" /\ Phase(job[w])' = "failed"
      <4>1. job' = job
        BY <1>6 DEF MarkFailed
      <4>2. status'[job[w]] = "failed"
        BY <1>1, <2>1, <3>1 DEF TypeOK
      <4> QED
        BY <2>4, <4>1, <4>2 DEF Phase, Active
    <3>3. PICK j \in JobIds : j = job[w]
      BY <2>1
    <3>4. job'[w] = j /\ \A k \in JobIds \ {j} : status'[k] = status[k]
      BY <1>1, <1>6, <3>1, <3>3 DEF TypeOK, MarkFailed
    <3>5. phases[j] = "open" /\ phases' = [phases EXCEPT ![j] = "failed"]
      BY <1>1, <3>2, <3>3, <3>4, PhaseMoves DEF phases
    <3> QED
      BY <2>2, <3>5 DEF Ledger!GiveUp, phases
  <2> QED
    BY <2>3, <2>4
<1>7. ASSUME NEW w \in Runners, SaveReport(w)
      PROVE  \E j \in JobIds : Ledger!PublishJob(j)
  <2>1. PICK j \in JobIds : j = job[w]
    BY <1>1, <1>7, SavedContent
  <2>2. /\ status[j] = "running" /\ context[j] \subseteq TextsOf(owner[j])
        /\ context[j] \cap GlobalTexts = {}
        /\ (selection[w] \ omitted[w]) \cup omitted[w] = context[j]
    BY <1>1, <1>7, <2>1, SavedContent
  <2>3. selection[w] # {} /\ selection[w] = context[j]
    BY <1>1, <1>7, <2>1 DEF SaveReport, CacheInv, SelectionsHaveTexts, ReportsInv, WorkersOwnTheirJob
  <2>4. /\ UNCHANGED <<arrived, owner>>
        /\ status' = [status EXCEPT ![j] = "completed"]
        /\ reports' = Append(reports, [author |-> j, verified |-> selection[w] \ omitted[w], omitted |-> omitted[w]])
    BY <1>7, <2>1 DEF SaveReport, Report
  <2>5. phases[j] = "open" /\ phases' = [phases EXCEPT ![j] = "done"]
    <3>1. Phase(j) = "open" /\ Phase(j)' = "done"
      BY <1>1, <2>2, <2>4 DEF Phase, Active, TypeOK
    <3>2. \A k \in JobIds \ {j} : status'[k] = status[k]
      BY <1>1, <2>4 DEF TypeOK
    <3> QED
      BY <1>1, <3>1, <3>2, PhaseMoves DEF phases
  <2>6. /\ selection[w] \ omitted[w] \in SUBSET (Ledger!Of(owner[j]) \ Ledger!Reported(JobIds))
        /\ omitted[w] \in SUBSET (Ledger!Of(owner[j]) \ Ledger!Reported(JobIds))
    BY <1>1, <2>2, LedgerReads
  <2>7. Ledger!Publish(j, selection[w] \ omitted[w], omitted[w])
    BY <2>2, <2>3, <2>4 DEF Ledger!Publish
  <2> QED
    BY <2>4, <2>5, <2>6, <2>7 DEF Ledger!PublishJob, phases
<1>8. ASSUME NEW r \in Summaries, SaveChatReport(r)
      PROVE  \E a \in Accounts : Ledger!PublishChat(r, a)
  <2>1. PICK a \in Accounts : a = OwnerOf[rchat[r]] /\ rselection[r] \subseteq TextsOf(a)
    BY <1>1, <1>8, ChatAssumption
    DEF SaveChatReport, ConsumptionInv, RequestsKnowTheirTarget, SelectionsBelong, Serving, Requests
  <2>2. rselection[r] # {} /\ rselection[r] \cap (reviewed \cup skipped) = {}
    BY <1>1, <1>8 DEF SaveChatReport, CacheInv, SelectionsHaveTexts, ConsumptionInv, SelectionsStayPending
  <2>3. /\ UNCHANGED <<arrived, owner>> /\ phases' = phases
        /\ reports' = Append(reports, [author |-> r, verified |-> rselection[r], omitted |-> {}])
    BY <1>1, <1>8, PhasesStay DEF SaveChatReport, Report, jobVars
  <2>4. r \notin JobIds
    BY SessionAssumption DEF JobIds
  <2>5. rselection[r] \in SUBSET (Ledger!Of(a) \ Ledger!Reported(JobIds \cup Summaries))
    BY <1>1, <2>1, <2>2, LedgerReads
  <2>6. Ledger!Publish(r, rselection[r], {})
    BY <2>2, <2>3 DEF Ledger!Publish
  <2> QED
    BY <2>3, <2>4, <2>5, <2>6 DEF Ledger!PublishChat, phases
<1> QED
  BY <1>1, <1>2, <1>3, <1>4, <1>5, <1>6, <1>7, <1>8, LedgerCases
  DEF Ledger!Next, Ledger!Settle

(* Every step of the queue, its retries, crashes and resumptions among     *)
(* them, opens, gives up, reopens or publishes in the ledger, or leaves it *)
(* as it is: a job is done by the step that publishes its one report,      *)
(* about texts of its account that no report of its kind has.              *)
THEOREM ImplementsLedger == Spec => Ledger!Spec
<1>1. Init => Ledger!Init
  <2> SUFFICES ASSUME Init PROVE Ledger!Init
    OBVIOUS
  <2>1. \A j \in JobIds : Phase(j) = "none"
    BY DEF Init, Phase, Active
  <2>2. phases = [j \in JobIds |-> "none"]
    BY <2>1 DEF phases
  <2> QED
    BY <2>2 DEF Init, Ledger!Init, phases
<1>2. CacheInv /\ CacheInv' /\ [Next]_vars => [Ledger!Next]_(Ledger!vars)
  BY LedgerStep DEF CacheInv, ReportsInv, ConsumptionInv
<1> QED
  BY <1>1, <1>2, CacheInvariant, PTL DEF Spec, Ledger!Spec
=============================================================================
