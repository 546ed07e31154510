--------------------------- MODULE MeetingAnalysis ---------------------------
(***************************************************************************)
(* The analysis of one meeting and its review before it has project        *)
(* branches (backend/server.ts).  A run claims the review, reads the text, *)
(* waits for the model up to a minute without a lock, and stores its       *)
(* result in a transaction that looks again.  Meanwhile the text changes   *)
(* in Drive, the origin is paused, people correct, assign, approve and     *)
(* return, the server dies, and the periodic worker takes back what has    *)
(* been in process for ten minutes.                                        *)
(*                                                                         *)
(* A text is named by the time of the change that wrote it, and is 0 when  *)
(* nothing readable is left.                                               *)
(* corrected says that people corrected the stored analysis; passed is     *)
(* history, the stages that approved since it was last returned.           *)
(***************************************************************************)
EXTENDS Naturals

CONSTANTS MaxActs, MaxRequests, MaxMishaps

VARIABLES
  modified,   \* google_drive_artifacts.source_modified_at
  text,       \* google_drive_artifacts.content_text
  origin,     \* the folder is enabled and the connection not revoked
  organizer,  \* meeting_artifact_organizers names an active employee
  review,     \* the row of meeting_reviews
  corrected, passed,
  run,        \* the worker and one analysis asked for by a person
  acts, requests, mishaps

analysisVars == <<modified, text, origin, organizer, review, corrected, passed, run, acts, requests, mishaps>>

Runs  == {"worker", "route"}
Idle  == [at |-> "idle", text |-> 0, modified |-> 0, versions |-> 0, paused |-> FALSE]
Chain == <<"agent", "organizer", "delineante", "pmc">>

(* ensureMeetingReview, on a review r that exists from the import on *)
Ensured(r, t) ==
  IF t = 0 /\ r.analysis # "completed"
  THEN [r EXCEPT !.analysis = "failed", !.status = "failed"]
  ELSE r

(* queueMeetingAiAnalysis *)
Queued(r, t, at) ==
  IF ~ r.protected /\ t # 0 /\ origin /\ r.of # at
  THEN [Ensured(r, t) EXCEPT !.analysis = "pending"]
  ELSE Ensured(r, t)

(* assertMeetingAnalysisAllowed *)
Allowed == origin /\ ~ review.protected

(* routeReadyMeetingReviews *)
Routed(r) ==
  IF r.status = "draft" /\ r.stage = "agent" /\ r.analysis = "completed" /\ organizer
  THEN [r EXCEPT !.status = "pending", !.stage = "organizer", !.versions = @ + 1]
  ELSE r

(***************************************************************************)
(* A cycle of the worker                                                   *)
(***************************************************************************)
(* processPendingMeetingAnalyses: old says whether what is in process has  *)
(* been so for ten minutes, which no run that is alive takes.              *)
MutExpired(r, old) == r
Expired(r, old) ==
  IF r.analysis = "processing" /\ old THEN [r EXCEPT !.analysis = "pending"] ELSE r

Poll(old) ==
  LET expired  == Expired(Routed(review), old)
      unread   == IF ~ expired.protected /\ expired.analysis = "pending" /\ text = 0
                  THEN [expired EXCEPT !.analysis = "failed"] ELSE expired
      outdated == IF ~ unread.protected /\ unread.analysis # "processing" /\ text # 0 /\ unread.of # modified
                  THEN [unread EXCEPT !.analysis = "pending"] ELSE unread
  IN /\ run["worker"].at = "idle"
     /\ old => run["route"].at = "idle"
     /\ review' = outdated
     /\ run' = [run EXCEPT !["worker"].at =
                  IF origin /\ ~ outdated.protected /\ outdated.analysis = "pending" /\ text # 0
                  THEN "listed" ELSE "idle"]
     /\ UNCHANGED <<modified, text, origin, organizer, corrected, passed, acts, requests, mishaps>>

(* What was listed may have changed while the ones before it were analysed.*)
Claim ==
  /\ run["worker"].at = "listed"
  /\ IF origin /\ review.analysis = "pending"
     THEN /\ review' = [review EXCEPT !.analysis = "processing"]
          /\ run' = [run EXCEPT !["worker"].at = "claimed"]
     ELSE /\ run' = [run EXCEPT !["worker"] = Idle]
          /\ UNCHANGED review
  /\ UNCHANGED <<modified, text, origin, organizer, corrected, passed, acts, requests, mishaps>>

(* POST /api/meetings/:artifactId/analyze *)
Request ==
  /\ requests < MaxRequests
  /\ run["route"].at = "idle"
  /\ text # 0 /\ Allowed
  /\ review.analysis # "processing"
  /\ review' = [review EXCEPT !.analysis = "processing"]
  /\ run' = [run EXCEPT !["route"].at = "claimed"]
  /\ requests' = requests + 1
  /\ UNCHANGED <<modified, text, origin, organizer, corrected, passed, acts, mishaps>>

(***************************************************************************)
(* A run (runMeetingAiAnalysis)                                            *)
(***************************************************************************)
Failing(r, paused) == [run EXCEPT ![r].at = "failing", ![r].paused = paused]

Read(r) ==
  /\ run[r].at = "claimed"
  /\ review' = IF Allowed THEN Ensured(review, text) ELSE review
  /\ run' = IF Allowed /\ text # 0
            THEN [run EXCEPT ![r] = [at |-> "waiting", text |-> text,
                                     modified |-> modified, versions |-> review.versions, paused |-> FALSE]]
            ELSE Failing(r, ~ Allowed)
  /\ UNCHANGED <<modified, text, origin, organizer, corrected, passed, acts, requests, mishaps>>

(* No answer, a fallback one or one that is not an analysis. *)
AnswerFails(r) ==
  /\ run[r].at = "waiting"
  /\ mishaps < MaxMishaps
  /\ run' = Failing(r, FALSE)
  /\ mishaps' = mishaps + 1
  /\ UNCHANGED <<modified, text, origin, organizer, review, corrected, passed, acts, requests>>

MutUnchanged(r) == run[r].text = text
Unchanged(r) ==
  /\ Allowed
  /\ run[r].versions = review.versions
  /\ run[r].text = text

(* The actions of the previous analysis are replaced, with what people     *)
(* assigned on them: it is not kept as a correction.                       *)
Store(r) ==
  /\ run[r].at = "waiting"
  /\ IF Unchanged(r)
     THEN /\ review' = Routed([review EXCEPT !.analysis = "completed", !.of = run[r].modified,
                                             !.done = TRUE, !.versions = @ + 1])
          /\ corrected' = FALSE
          /\ run' = [run EXCEPT ![r] = Idle]
     ELSE /\ run' = Failing(r, TRUE)
          /\ UNCHANGED <<review, corrected>>
  /\ UNCHANGED <<modified, text, origin, organizer, passed, acts, requests, mishaps>>

(* The handler of the error writes the state whoever holds the review now. *)
Fail(r) ==
  /\ run[r].at = "failing"
  /\ review' = [review EXCEPT !.analysis = IF ~ run[r].paused THEN "failed"
                                           ELSE IF review.done THEN "completed" ELSE "pending"]
  /\ run' = [run EXCEPT ![r] = Idle]
  /\ UNCHANGED <<modified, text, origin, organizer, corrected, passed, acts, requests, mishaps>>

AnalysisStops ==
  /\ mishaps < MaxMishaps
  /\ run' = [r \in Runs |-> Idle]
  /\ mishaps' = mishaps + 1
  /\ UNCHANGED <<modified, text, origin, organizer, review, corrected, passed, acts, requests>>

(***************************************************************************)
(* The document and its origin                                             *)
(***************************************************************************)
(* The synchronisation of Drive stores a later version, whose text may be  *)
(* another, the same one or unreadable, and asks for its analysis.         *)
TextChanges ==
  /\ origin
  /\ acts < MaxActs
  /\ modified' = modified + 1
  /\ text' \in {0, text, modified'}
  /\ review' = Queued(review, text', modified')
  /\ acts' = acts + 1
  /\ UNCHANGED <<origin, organizer, corrected, passed, run, requests, mishaps>>

SwitchOrigin ==
  /\ acts < MaxActs
  /\ origin' = ~ origin
  /\ acts' = acts + 1
  /\ UNCHANGED <<modified, text, organizer, review, corrected, passed, run, requests, mishaps>>

AssignOrganizer ==
  /\ ~ organizer
  /\ organizer' = TRUE
  /\ UNCHANGED <<modified, text, origin, review, corrected, passed, run, acts, requests, mishaps>>

(***************************************************************************)
(* People                                                                  *)
(***************************************************************************)
(* The contents of the meeting, and an action added, changed or removed: a *)
(* version of stage "edición", whose trigger protects the review.          *)
Correct ==
  /\ acts < MaxActs
  /\ review' = [Ensured(review, text) EXCEPT !.versions = @ + 1, !.protected = TRUE]
  /\ corrected' = TRUE
  /\ acts' = acts + 1
  /\ UNCHANGED <<modified, text, origin, organizer, passed, run, requests, mishaps>>

(* The responsible of an action: a version of stage "asignación", which    *)
(* the trigger lets pass.                                                  *)
Assign ==
  /\ acts < MaxActs
  /\ review.done
  /\ review' = [Ensured(review, text) EXCEPT !.versions = @ + 1]
  /\ acts' = acts + 1
  /\ UNCHANGED <<modified, text, origin, organizer, corrected, passed, run, requests, mishaps>>

(* POST /api/meetings/:artifactId/workflow.  complete says whether every   *)
(* pending action has a responsible, staffed whether the stage it goes to  *)
(* has somebody.                                                           *)
MutNextStage(stage) == CASE stage = "agent"     -> "organizer"
                     [] stage = "organizer" -> "pmc"
                     [] OTHER               -> stage
NextStage(stage) == CASE stage = "agent"      -> "organizer"
                  [] stage = "organizer"  -> "delineante"
                  [] stage = "delineante" -> "pmc"
                  [] OTHER                -> stage

Previous(stage) == CASE stage = "assigned"   -> "pmc"
                     [] stage = "pmc"        -> "delineante"
                     [] stage = "delineante" -> "organizer"
                     [] OTHER                -> stage

Moved(status, stage, protect) ==
  review' = [review EXCEPT !.status = status, !.stage = stage,
                           !.versions = @ + 1, !.protected = @ \/ protect]

WorkflowApprove(complete, staffed, recipient) ==
  /\ complete
  /\ review.status # "approved"
  /\ passed' = passed \cup {review.stage}
  /\ \/ /\ review.stage = "pmc" /\ recipient
        /\ Moved("pending", "assigned", TRUE)
     \/ /\ review.stage \in {"pmc", "assigned"} /\ ~ recipient
        /\ Moved("approved", review.stage, TRUE)
     \/ /\ review.stage \in {"agent", "organizer", "delineante"} /\ ~ recipient
        /\ staffed
        /\ Moved("pending", NextStage(review.stage), TRUE)

WorkflowReturn(staffed) ==
  /\ review.status # "approved"
  /\ Previous(review.stage) # review.stage
  /\ staffed
  /\ passed' = passed \ {review.stage, Previous(review.stage)}
  /\ Moved("returned", Previous(review.stage), TRUE)

(* Saving keeps the stage, but the first save sends it to the organizer. *)
WorkflowSave(staffed) ==
  /\ UNCHANGED passed
  /\ IF review.stage = "agent"
     THEN staffed /\ Moved("pending", "organizer", FALSE)
     ELSE Moved(review.status, review.stage, FALSE)

Workflow ==
  /\ acts < MaxActs
  /\ review.analysis = "completed"
  /\ \E complete, staffed, recipient \in BOOLEAN :
       WorkflowApprove(complete, staffed, recipient) \/ WorkflowReturn(staffed) \/ WorkflowSave(staffed)
  /\ acts' = acts + 1
  /\ UNCHANGED <<modified, text, origin, organizer, corrected, run, requests, mishaps>>

(***************************************************************************)
(* The specification                                                       *)
(***************************************************************************)
AnalysisInit ==
  /\ modified = 1 /\ text = 1
  /\ origin = TRUE
  /\ organizer \in BOOLEAN
  /\ review = [analysis |-> "pending", status |-> "draft", stage |-> "agent", of |-> 0,
               done |-> FALSE, protected |-> FALSE, versions |-> 1]
  /\ corrected = FALSE /\ passed = {}
  /\ run = [r \in Runs |-> Idle]
  /\ acts = 0 /\ requests = 0 /\ mishaps = 0

(* What an analysis does when its wait ends. *)
Follow(r) == Read(r) \/ Store(r) \/ Fail(r)

AnalysisNext ==
  \/ \E old \in BOOLEAN : Poll(old)
  \/ Claim \/ Request
  \/ \E r \in Runs : Follow(r) \/ AnswerFails(r)
  \/ AnalysisStops
  \/ TextChanges
  \/ SwitchOrigin \/ AssignOrganizer
  \/ Correct \/ Assign \/ Workflow

AnalysisSpec == AnalysisInit /\ [][AnalysisNext]_analysisVars

(* The worker is woken by a timer, what is in process grows old, and every *)
(* wait of a run has a timeout.                                            *)
AnalysisFairness ==
  /\ WF_analysisVars(Poll(TRUE))
  /\ WF_analysisVars(Claim)
  /\ \A r \in Runs : WF_analysisVars(Follow(r))

AnalysisFairSpec == AnalysisSpec /\ AnalysisFairness

(***************************************************************************)
(* Properties                                                              *)
(***************************************************************************)
(* "No se sobrescriben cambios manuales": what people corrected, whenever  *)
(* they did it while a run was reading, waiting or about to store, is      *)
(* never replaced by an analysis.                                          *)
CorrectionsStand == [][corrected => corrected']_analysisVars

(* However runs overlapped, failed, were taken back or died, a review that *)
(* nobody protected and whose origin is enabled ends up with the analysis  *)
(* of the text its document has, and is not left waiting for one.  (It may *)
(* show as failed: the error of a late run is written over the result.)    *)
AnalysisCatchesUp ==
  <>[](origin /\ ~ review.protected /\ text # 0 =>
         review.analysis \in {"completed", "failed"} /\ review.of = modified)

(* "No se omitirán etapas": an approved review was approved by the         *)
(* organizer, the delineante and the PMC, each after the last time it was  *)
(* returned to them.                                                       *)
NoStageIsSkipped ==
  review.status = "approved" => {"organizer", "delineante", "pmc"} \subseteq passed
=============================================================================
