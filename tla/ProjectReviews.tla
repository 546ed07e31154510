--------------------------- MODULE ProjectReviews ---------------------------
(***************************************************************************)
(* The review of one meeting by the projects it touches                    *)
(* (backend/meeting-project-workflow.ts).  The meeting has one branch per  *)
(* project of its actions; every branch climbs the review path of its      *)
(* project, and the meeting is approved by the last of the final           *)
(* reviewers.  Meanwhile the directory is synchronised, reviewers are      *)
(* designated, the feature is paused and resumed, and actions are edited:  *)
(* each of them is one transaction that holds the row of the review, and   *)
(* most end in syncProjectMeeting, here Synced.                            *)
(*                                                                         *)
(* The meeting is one record, because a transaction changes several of its *)
(* parts in turn.  legacy and seen are history: whether it was approved    *)
(* before it had branches, and which steps of each path have approved what *)
(* the branch now contains.                                                *)
(***************************************************************************)
EXTENDS ReviewPath

CONSTANTS
  Projects,
  Unlinked,     \* the project of the actions that have none
  Actions,
  Directors,
  Staffings,    \* Projects -> the staffings the directory may give it
  Selections,   \* the designations an administrator may store
  Analyses,     \* results of an analysis: [project, action]
  MaxEdits, MaxChanges, MaxFaults

VARIABLES
  site,           \* what the review depends on: the two flags of
                  \* meeting_project_feature (enabled, available), the directory
                  \* (staffing, active) and the designations (selection)
  directoryRun,   \* how far the synchronisation of the directory is
  meeting,
  edits, changes, faults

vars == <<site, directoryRun, meeting, edits, changes, faults>>

Scopes == Projects \cup {Unlinked}

(* What a branch may say of its project, an action and a branch. *)
Staff     == UNION {Staffings[p] : p \in Projects}
Snapshots == {Unclear(t, None) : t \in Staff \cup {[team |-> {}]}} \cup
             {DesignatedSnapshot(t, d) : t \in Staff, d \in Selections \cup {None}}
People    == Employees \cup {None} \cup {t.pmc : t \in Snapshots}
Origins   == {"new", "mentioned", "pmc_default", "unassigned", "manual"}
Item      == [project : Scopes, who : People, due : BOOLEAN, mentioned : People,
              origin : Origins, escalated : BOOLEAN, extra : SUBSET Employees]
Branch    == [snapshot : Snapshots, cursor : Nat \cup {Len(t.path) : t \in Snapshots},
              approved : BOOLEAN]

ASSUME ReviewsAssumption ==
  /\ None \notin Branch
  /\ \A t \in Staff : TypedStaff(t)
  /\ \A d \in Selections : TypedSelection(d)
  /\ \A r \in Analyses : r.project \in Scopes /\ r.action \in [Actions -> Item \cup {None}]

Present(m)  == {x \in Actions : m.action[x] # None}
Branches(m) == {p \in Scopes : m.branch[p] # None}

(***************************************************************************)
(* What a branch should say of its project now                             *)
(***************************************************************************)
Snapshot(s, p) ==
  IF p = Unlinked THEN Unclear([team |-> {}], None)
  ELSE IF p \notin s.active \/ ~ s.available THEN Unclear(s.staffing[p], None)
  ELSE DesignatedSnapshot(s.staffing[p], s.selection[p])

Wanted(m) ==
  IF Present(m) = {} THEN {m.project} ELSE {m.action[x].project : x \in Present(m)}

ResolveProjectResponsible(mentioned, snapshot) ==
  IF mentioned \in snapshot.staff.team THEN [who |-> mentioned, origin |-> "mentioned"]
  ELSE IF snapshot.pmc # None          THEN [who |-> snapshot.pmc, origin |-> "pmc_default"]
  ELSE                                      [who |-> None, origin |-> "unassigned"]

(***************************************************************************)
(* syncProjectMeeting                                                      *)
(***************************************************************************)
MutSkipped(s, m) == \/ ~ s.enabled
                    \/ ~ m.analysed
                    \/ m.drafted /\ ~ s.available
Skipped(s, m) ==
  \/ ~ s.enabled
  \/ ~ m.analysed
  \/ m.drafted /\ (m.status = "approved" \/ ~ s.available)

MutKept(s, m, p) == m.branch[p] # None
Kept(s, m, p)    == m.branch[p] # None /\ m.branch[p].snapshot = Snapshot(s, p)

WithBranches(s, m) ==
  [m EXCEPT
     !.branch = [p \in Scopes |->
       IF p \notin Wanted(m) THEN None
       ELSE IF Kept(s, m, p) THEN m.branch[p]
       ELSE [snapshot |-> Snapshot(s, p), cursor |-> 1, approved |-> FALSE]],
     !.seen = [p \in Scopes |-> IF p \in Wanted(m) /\ Kept(s, m, p) THEN m.seen[p] ELSE {}]]

WithResponsibles(m) ==
  LET Resolution(x) == ResolveProjectResponsible(m.action[x].mentioned,
                                                 m.branch[m.action[x].project].snapshot)
      Settled(x) ==
        \/ m.action[x].origin = "manual"
        \/ /\ m.action[x].origin = Resolution(x).origin
           /\ m.action[x].who = Resolution(x).who
  IN [m EXCEPT !.action = [x \in Actions |->
        IF x \notin Present(m) \/ Settled(x) THEN m.action[x]
        ELSE [m.action[x] EXCEPT !.who = Resolution(x).who,
                                 !.origin = Resolution(x).origin,
                                 !.extra = {}]]]

MutUnapproved(m) == m
Unapproved(m) ==
  [m EXCEPT !.branch = [p \in Scopes |->
     IF m.branch[p] = None THEN None ELSE [m.branch[p] EXCEPT !.approved = FALSE]]]

(* What the review of an already approved meeting keeps is who may read it.*)
Captured(m) ==
  [m EXCEPT !.branch = [p \in Scopes |->
     IF m.branch[p] = None THEN None
     ELSE [m.branch[p] EXCEPT !.approved = TRUE,
                              !.cursor = IF m.branch[p].snapshot.issue
                                         THEN 1 ELSE Len(m.branch[p].snapshot.path)]]]

Synced(s, m) ==
  LET aligned  == WithBranches(s, m)
      assigned == WithResponsibles(aligned)
  IN IF Skipped(s, m) THEN m
     ELSE IF m.status = "approved" THEN [Captured(aligned) EXCEPT !.drafted = TRUE]
     ELSE IF m.drafted /\ assigned = m THEN m
     ELSE [Unapproved(assigned) EXCEPT !.drafted = TRUE,
                                       !.status = "pending",
                                       !.protected = TRUE]

(***************************************************************************)
(* Who sees and who reviews                                                *)
(***************************************************************************)
AtFinal(b) == b.cursor = Len(b.snapshot.path)

BranchesReadyForPmc(m) ==
  /\ Branches(m) # {}
  /\ \A p \in Branches(m) :
       ~ m.branch[p].snapshot.issue /\ (m.branch[p].approved \/ AtFinal(m.branch[p]))

CanReviewBranch(m, p, e) ==
  LET b == m.branch[p]
  IN /\ p \in Branches(m)
     /\ ~ b.approved
     /\ ~ b.snapshot.issue
     /\ b.snapshot.path[b.cursor].who = e
     /\ AtFinal(b) => BranchesReadyForPmc(m)

CanSeeProjectBranch(m, p, e) ==
  LET b == m.branch[p]
  IN /\ p \in Branches(m)
     /\ e \in b.snapshot.staff.team
     /\ b.snapshot.pmc = e => BranchesReadyForPmc(m)

VisibleAction(m, x, e) ==
  IF e \in Directors
  THEN m.action[x].escalated \/ m.action[x].who = e \/ e \in m.action[x].extra
  ELSE CanSeeProjectBranch(m, m.action[x].project, e)

OwnBranches(m, e) ==
  IF e \in Directors THEN {} ELSE {p \in Scopes : CanSeeProjectBranch(m, p, e)}

(* The checks every write shares, once the review is locked.               *)
MayWrite(e) ==
  /\ site.enabled
  /\ meeting.drafted
  /\ meeting.status # "approved"
  /\ \/ \E x \in Present(meeting) : VisibleAction(meeting, x, e)
     \/ OwnBranches(meeting, e) # {}

Assignable(p) == meeting.branch[p].snapshot.staff.team \cup Directors \cup {None}

(* A change of contents sends the branch back to its first reviewer; any   *)
(* change takes the approvals of every branch away.                        *)
MutTouched(m, p, content) == Unapproved(IF content THEN [m EXCEPT !.seen[p] = {}] ELSE m)
Touched(m, p, content) ==
  Unapproved(IF content
             THEN [m EXCEPT !.branch[p].cursor = 1, !.seen[p] = {}]
             ELSE m)

(***************************************************************************)
(* Reviewing                                                               *)
(***************************************************************************)
Complete(m, p) ==
  \A x \in Present(m) : m.action[x].project = p => m.action[x].who # None /\ m.action[x].due

Approve(e, p) ==
  /\ MayWrite(e)
  /\ e \notin Directors
  /\ CanReviewBranch(meeting, p, e)
  /\ Complete(meeting, p)
  /\ LET final    == AtFinal(meeting.branch[p])
         advanced == [meeting EXCEPT
                        !.branch[p].cursor = IF final THEN @ ELSE @ + 1,
                        !.branch[p].approved = final,
                        !.seen[p] = @ \cup {meeting.branch[p].cursor}]
     IN meeting' = IF \A q \in Branches(advanced) : advanced.branch[q].approved
                   THEN [advanced EXCEPT !.status = "approved"]
                   ELSE advanced
  /\ UNCHANGED <<site, directoryRun, edits, changes, faults>>

Return(e, p) ==
  /\ edits < MaxEdits
  /\ MayWrite(e)
  /\ e \notin Directors
  /\ CanReviewBranch(meeting, p, e)
  /\ meeting.branch[p].cursor > 1
  /\ meeting' = Unapproved([meeting EXCEPT !.branch[p].cursor = @ - 1,
                                           !.seen[p] = @ \ {meeting.branch[p].cursor - 1}])
  /\ edits' = edits + 1
  /\ UNCHANGED <<site, directoryRun, changes, faults>>

(***************************************************************************)
(* Editing the actions of a branch, by somebody who MayWrite               *)
(***************************************************************************)
Write(m) ==
  /\ meeting' = m
  /\ edits' = edits + 1
  /\ UNCHANGED <<site, directoryRun, changes, faults>>

(* A responsible is kept when the request names none, and must then still  *)
(* belong to the project.                                                  *)
EditAction(e, x, retitled, due, assigned, who) ==
  /\ x \in Present(meeting) /\ VisibleAction(meeting, x, e)
  /\ LET a == meeting.action[x]
         p == a.project
     IN /\ p \in Branches(meeting)
        /\ ~ assigned => who = a.who
        /\ who \in Assignable(p)
        /\ Write(Touched([meeting EXCEPT !.action[x] =
                            IF assigned
                            THEN [a EXCEPT !.due = due, !.who = who, !.origin = "manual",
                                           !.extra = @ \ {who}]
                            ELSE [a EXCEPT !.due = due]],
                         p, retitled \/ due # a.due))

AddAction(e, p, x, due, assigned, who) ==
  /\ x \in Actions \ Present(meeting)
  /\ p \in Branches(meeting)
  /\ \/ p \in OwnBranches(meeting, e)
     \/ /\ e \in Directors
        /\ \E y \in Present(meeting) : meeting.action[y].project = p /\ VisibleAction(meeting, y, e)
  /\ ~ assigned => who = meeting.branch[p].snapshot.pmc
  /\ who \in Assignable(p)
  /\ Write(Touched([meeting EXCEPT !.action[x] =
                      [project |-> p, who |-> who, due |-> due, mentioned |-> None,
                       origin |-> IF assigned THEN "manual"
                                  ELSE IF who # None THEN "pmc_default" ELSE "unassigned",
                       escalated |-> FALSE, extra |-> {}]],
                   p, TRUE))

DeleteAction(e, x) ==
  /\ x \in Present(meeting) /\ VisibleAction(meeting, x, e)
  /\ LET p == meeting.action[x].project
     IN /\ p \in Branches(meeting)
        /\ e \in Directors \/ meeting.branch[p].snapshot.pmc = e
        /\ Write(Touched([meeting EXCEPT !.action[x] = None], p, TRUE))

EscalateAction(e, x, escalated) ==
  /\ x \in Present(meeting) /\ VisibleAction(meeting, x, e)
  /\ LET p == meeting.action[x].project
     IN /\ p \in Branches(meeting)
        /\ e \notin Directors /\ meeting.branch[p].snapshot.pmc = e
        /\ Write(Touched([meeting EXCEPT !.action[x].escalated = escalated], p, FALSE))

(* A replacement is a removal and an addition.                             *)
ShareAction(e, x, who, add) ==
  /\ x \in Present(meeting) /\ VisibleAction(meeting, x, e)
  /\ LET p == meeting.action[x].project
     IN /\ p \in Branches(meeting)
        /\ add => who \in Assignable(p)
        /\ Write(Touched([meeting EXCEPT
                            !.action[x].extra = IF add THEN @ \cup {who} ELSE @ \ {who},
                            !.action[x].origin = "manual"],
                         p, FALSE))

(***************************************************************************)
(* The analysis, and the workflow before projects                          *)
(***************************************************************************)
Analyse(result) ==
  /\ ~ meeting.protected
  /\ changes < MaxChanges
  /\ changes' = changes + 1
  /\ meeting' = Synced(site, [meeting EXCEPT !.analysed = TRUE,
                                       !.project = result.project,
                                       !.action = result.action])
  /\ UNCHANGED <<site, directoryRun, edits, faults>>

LegacyApprove ==
  /\ ~ site.enabled /\ ~ meeting.drafted
  /\ meeting.analysed /\ meeting.status = "pending"
  /\ meeting' = [meeting EXCEPT !.status = "approved", !.protected = TRUE, !.legacy = TRUE]
  /\ UNCHANGED <<site, directoryRun, edits, changes, faults>>

(***************************************************************************)
(* Administration                                                          *)
(***************************************************************************)
LinkActions(p, xs) ==
  /\ edits < MaxEdits
  /\ meeting.analysed /\ meeting.status # "approved"
  /\ site.available
  /\ p \in site.active
  /\ IF Present(meeting) = {} THEN xs = {} /\ meeting.project = Unlinked ELSE xs # {}
  /\ \A x \in xs : x \in Present(meeting) /\ meeting.action[x].project = Unlinked
  /\ LET linked == [meeting EXCEPT
                      !.project = IF Present(meeting) = {} THEN p ELSE @,
                      !.action = [x \in Actions |-> IF x \in xs
                                                    THEN [meeting.action[x] EXCEPT !.project = p]
                                                    ELSE meeting.action[x]]]
         synced == Synced(site, linked)
     IN meeting' = [Touched(synced, p, p \in Branches(synced))
                    EXCEPT !.status = "pending", !.protected = TRUE]
  /\ edits' = edits + 1
  /\ UNCHANGED <<site, directoryRun, changes, faults>>

(* The designation is stored only when it gives a review path, and then    *)
(* every pending meeting of the project is brought up to date with it.     *)
Designate(p, s) ==
  /\ changes < MaxChanges
  /\ p \in site.active /\ site.available
  /\ \A c \in Positions : s.reviewers[c] # None =>
       c \notin Direction /\ s.reviewers[c] \in site.staffing[p].holders[c]
  /\ s.start # None => site.staffing[p].holders[s.start] # {}
  /\ ~ DesignatedSnapshot(site.staffing[p], s).issue
  /\ site' = [site EXCEPT !.selection[p] = s]
  /\ LET affected == /\ meeting.status # "approved"
                     /\ \/ meeting.project = p
                        \/ \E x \in Present(meeting) : meeting.action[x].project = p
     IN meeting' = IF affected THEN Synced(site', meeting) ELSE meeting
  /\ changes' = changes + 1
  /\ UNCHANGED <<directoryRun, edits, faults>>

(* validateProjectMeetingActivation *)
Activable ==
  /\ site.available
  /\ meeting.analysed /\ meeting.status # "approved" =>
       /\ Unlinked \notin Wanted(meeting)
       /\ \A p \in Wanted(meeting) : ~ Snapshot(site, p).issue

Switch(on) ==
  /\ changes < MaxChanges
  /\ on /\ ~ site.enabled => Activable
  /\ site' = [site EXCEPT !.enabled = on]
  /\ meeting' = IF on THEN Synced(site', meeting) ELSE meeting
  /\ changes' = changes + 1
  /\ UNCHANGED <<directoryRun, edits, faults>>

(***************************************************************************)
(* The directory.  runSupabaseDirectorySync stores it, declares it         *)
(* available and refreshes the meetings; any failure on the way declares   *)
(* it unavailable, also when the directory had been stored.                *)
(***************************************************************************)
StoreDirectory(p, staff, alive) ==
  /\ directoryRun = "idle"
  /\ LET stored == [site EXCEPT !.staffing[p] = staff,
                                !.active = IF alive THEN @ \cup {p} ELSE @ \ {p}]
     IN /\ stored # site => changes < MaxChanges
        /\ changes' = IF stored # site THEN changes + 1 ELSE changes
        /\ site' = stored
  /\ directoryRun' = "stored"
  /\ UNCHANGED <<meeting, edits, faults>>

DeclareAvailable ==
  /\ directoryRun = "stored"
  /\ site' = [site EXCEPT !.available = TRUE]
  /\ directoryRun' = "declared"
  /\ UNCHANGED <<meeting, edits, changes, faults>>

RefreshProjectMeetings ==
  /\ directoryRun = "declared"
  /\ meeting' = Synced(site, meeting)
  /\ directoryRun' = "idle"
  /\ UNCHANGED <<site, edits, changes, faults>>

DirectoryFails ==
  /\ faults < MaxFaults
  /\ site' = [site EXCEPT !.available = FALSE]
  /\ directoryRun' = "idle"
  /\ faults' = faults + 1
  /\ UNCHANGED <<meeting, edits, changes>>

ServerStops ==
  /\ faults < MaxFaults
  /\ directoryRun # "idle"
  /\ directoryRun' = "idle"
  /\ faults' = faults + 1
  /\ UNCHANGED <<site, meeting, edits, changes>>

(* The dashboard assigns people to projects itself, with no refresh.       *)
AssignLocally(p, staff) ==
  /\ changes < MaxChanges
  /\ site' = [site EXCEPT !.staffing[p] = staff]
  /\ changes' = changes + 1
  /\ UNCHANGED <<directoryRun, meeting, edits, faults>>

(***************************************************************************)
(* The specification                                                       *)
(***************************************************************************)
Init ==
  /\ site \in [enabled: BOOLEAN, available: {TRUE}, active: {Projects},
               selection: {[p \in Projects |-> None]},
               staffing: {s \in [Projects -> UNION {Staffings[p] : p \in Projects}] :
                            \A p \in Projects : s[p] \in Staffings[p]}]
  /\ directoryRun = "idle"
  /\ meeting = [analysed |-> FALSE, status |-> "pending", drafted |-> FALSE,
                protected |-> FALSE, legacy |-> FALSE, project |-> Unlinked,
                action |-> [x \in Actions |-> None],
                branch |-> [p \in Scopes |-> None],
                seen |-> [p \in Scopes |-> {}]]
  /\ edits = 0 /\ changes = 0 /\ faults = 0

Review ==
  \E e \in Employees, p \in Projects : Approve(e, p) \/ Return(e, p)

Edit ==
  /\ edits < MaxEdits
  /\ \E e \in {f \in Employees : MayWrite(f)}, x \in Actions :
       \/ \E due, assigned \in BOOLEAN, who \in Employees \cup {None} :
            \/ \E retitled \in BOOLEAN : EditAction(e, x, retitled, due, assigned, who)
            \/ \E p \in Scopes : AddAction(e, p, x, due, assigned, who)
       \/ DeleteAction(e, x)
       \/ \E escalated \in BOOLEAN : EscalateAction(e, x, escalated)
       \/ \E who \in Employees, add \in BOOLEAN : ShareAction(e, x, who, add)

Administer ==
  \/ \E result \in Analyses : Analyse(result)
  \/ LegacyApprove
  \/ \E p \in Projects :
       \/ \E xs \in SUBSET Actions : LinkActions(p, xs)
       \/ \E s \in Selections : Designate(p, s)
  \/ \E on \in BOOLEAN : Switch(on)

Directory ==
  \/ \E p \in Projects : \E staff \in Staffings[p] :
       \/ \E alive \in BOOLEAN : StoreDirectory(p, staff, alive)
       \/ AssignLocally(p, staff)
  \/ DeclareAvailable
  \/ RefreshProjectMeetings
  \/ DirectoryFails
  \/ ServerStops

Next == Review \/ Edit \/ Administer \/ Directory

Spec == Init /\ [][Next]_vars

(* The directory is synchronised every few minutes, and a run goes on      *)
(* until it ends or fails; nobody is bound to approve or edit.             *)
DirectoryGoesOn == directoryRun' \in {"idle", "stored", "declared"}

FairSpec == Spec /\ WF_directoryRun(DirectoryGoesOn)

(***************************************************************************)
(* Properties                                                              *)
(***************************************************************************)
(* "No se pueden saltar revisores": whatever the directory says of the     *)
(* projects and whoever is designated, the path of each is sound.          *)
RulesAreSound == \A p \in Projects : PathIsSound(site.staffing[p], site.selection[p])

(* A meeting the workflow approved was approved whole: every step of every *)
(* branch approved the contents the branch has now, in an organisation     *)
(* chart without doubts, every action belongs to a branch and has its      *)
(* responsible and date.  What is edited, moved, reassigned or staffed     *)
(* again after a reviewer passed must have gone back to them.              *)
ApprovedIsReviewed ==
  meeting.status = "approved" /\ ~ meeting.legacy =>
    /\ \A p \in Branches(meeting) :
         LET path == meeting.branch[p].snapshot.path
         IN path # <<>> /\ 1..Len(path) \subseteq meeting.seen[p]
    /\ \A x \in Present(meeting) :
         meeting.action[x].project \in Branches(meeting) /\ Complete(meeting, meeting.action[x].project)

(* The final reviewers go last: one of them has approved only while no     *)
(* other branch is below its final step, whoever returned, edited or was   *)
(* replaced since.                                                         *)
FinalReviewersGoLast ==
  ~ meeting.legacy /\ (\E p \in Branches(meeting) : meeting.branch[p].approved) => BranchesReadyForPmc(meeting)

(* "El resultado aprobado es inmutable": once a meeting with branches is   *)
(* approved, neither people, nor the directory, nor a designation, nor     *)
(* switching the feature off and on changes its result.                    *)
ApprovedForGood ==
  [][meeting.status = "approved" /\ meeting.drafted => meeting' = meeting]_vars

(* Whatever happened to the directory, and however many of its runs        *)
(* failed, the branches of a pending meeting end up describing the people  *)
(* who are in its projects.                                                *)
BranchesFollowDirectory ==
  <>[](site.enabled /\ site.available /\ meeting.drafted /\ meeting.status # "approved" =>
         \A p \in Branches(meeting) : meeting.branch[p].snapshot = Snapshot(site, p))

(* "La rama del proyecto esta pendiente de tu revision": whoever has the   *)
(* turn, and is shown it in the pending work, can use it.  Not so for the  *)
(* PMC who also holds a position below somebody else's: the turn is theirs *)
(* by the path, the branch is not visible to them until it reaches its     *)
(* final step, and nobody else may pass it.                                *)
TurnIsOpenToReviewer ==
  site.enabled /\ meeting.drafted /\ meeting.status # "approved" =>
    \A e \in Employees \ Directors, p \in Projects : CanReviewBranch(meeting, p, e) => MayWrite(e)
=============================================================================
