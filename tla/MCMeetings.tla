----------------------------- MODULE MCMeetings -----------------------------
(***************************************************************************)
(* Small instances of the meetings for TLC.  The synchronisation of Drive, *)
(* the analysis of a meeting, the rules of a review path and the review of *)
(* a meeting by projects share no state that their properties are about,   *)
(* so a behaviour is of one of them, the part, while the others stand      *)
(* still with nothing to do.                                               *)
(***************************************************************************)
EXTENDS ProjectReviews, DriveSync, MeetingAnalysis, TLC

CONSTANTS del, apo, med, jefe, sola, obra, dire, gone, p1, p2, x1, x2, ana, luis, eva, rut,
          actas, videos, notes, clip

VARIABLE part

reviewVars == <<site, directoryRun, meeting, edits, changes, faults>>
allVars    == <<part, reviewVars, driveVars, analysisVars>>

-----------------------------------------------------------------------------
(* Two folders that share a file. *)
Hanging == (actas :> {notes, clip}) @@ (videos :> {notes})

(* Two lines, of a draughtsman and a supporter, meet below the PMC; one    *)
(* position more hangs from the direction, another from a position that is *)
(* no longer active.                                                       *)
Chart    == {del, apo, med, jefe, sola, obra, dire}
Climbing == (del :> med) @@ (apo :> med) @@ (med :> jefe) @@ (jefe :> dire) @@ (sola :> dire)
            @@ (obra :> gone) @@ (dire :> None)
Nobody   == [c \in Chart |-> None]

Staffing(h, l) == [team |-> UNION {h[c] : c \in Chart}, holders |-> h, latest |-> l]

(* Two projects; a project has positions for a draughtsman, one in between *)
(* and its PMC.                                                            *)
Staffed(d, m, j) ==
  Staffing([c \in Chart |-> CASE c = del -> d [] c = med -> m [] c = jefe -> j [] OTHER -> {}], Nobody)

SecondTeam == p2 :> {Staffed({}, {}, {eva})}
UsualTeams == (p1 :> {Staffed({ana}, {}, {luis}), Staffed({}, {}, {luis}), Staffed({ana, eva}, {}, {luis})})
              @@ SecondTeam
TwiceInTeam == (p1 :> {Staffed({luis}, {ana}, {luis})}) @@ SecondTeam

EvaFirst == {[start |-> None, reviewers |-> [Nobody EXCEPT ![del] = eva]]}

Found(p, who) == [project |-> p, who |-> None, due |-> TRUE, origin |-> "new", mentioned |-> who,
                  escalated |-> FALSE, extra |-> {}]
Results == {[project |-> p1, action |-> (x1 :> Found(p1, ana)) @@ (x2 :> Found(p2, None))],
            [project |-> Unlinked, action |-> (x1 :> Found(Unlinked, None)) @@ (x2 :> None)],
            [project |-> p1, action |-> (x1 :> None) @@ (x2 :> None)]}

(* The rules alone: two people who may hold, compete for and repeat the    *)
(* positions of the chart, and be designated for them.                     *)
Couple == {ana, luis}

Holders == {h \in [Chart -> SUBSET Couple] :
              /\ h[apo] # Couple
              /\ \A c \in {sola, obra, dire} : h[c] \subseteq {luis}}

Latest(h) == {[Nobody EXCEPT ![del] = d, ![med] = m] :
                d \in IF h[del] = Couple THEN Couple \cup {None} ELSE {None},
                m \in IF h[med] = Couple THEN Couple \cup {None} ELSE {None}}

Designations ==
  {None} \cup {[start |-> s, reviewers |-> [Nobody EXCEPT ![d] = e]] :
                 s \in {None, del, med, sola}, d \in {del, jefe}, e \in Couple}

-----------------------------------------------------------------------------
NoDrive ==
  /\ remote = None /\ enabled = {} /\ artifacts = <<>> /\ walk = None /\ cycle = None
  /\ revisions = 0 /\ pauses = 0 /\ failures = 0
NoReviews ==
  /\ directoryRun = None /\ meeting = [status |-> None, legacy |-> TRUE]
  /\ edits = 0 /\ changes = 0 /\ faults = 0
Only(staff, selection) ==
  site = [enabled |-> FALSE, staffing |-> [p \in Projects |-> staff],
          selection |-> [p \in Projects |-> selection]]
NoAnalysis ==
  /\ modified = None /\ text = None /\ origin = FALSE /\ organizer = None
  /\ review = [status |-> None]
  /\ corrected = FALSE /\ passed = {}
  /\ run = [r \in Runs |-> Idle]
  /\ acts = 0 /\ requests = 0 /\ mishaps = 0

MCInit ==
  \/ part = "reviews" /\ Init /\ NoDrive /\ NoAnalysis
  \/ /\ part \in {"drive", "analysis", "rules"} /\ NoReviews
     /\ \/ part = "drive"    /\ DriveInit    /\ NoAnalysis /\ Only(Staffed({}, {}, {}), None)
        \/ part = "analysis" /\ AnalysisInit /\ NoDrive    /\ Only(Staffed({}, {}, {}), None)
        \/ /\ part = "rules" /\ NoDrive /\ NoAnalysis
           /\ \E h \in Holders : \E l \in Latest(h), d \in Designations : Only(Staffing(h, l), d)

MCNext ==
  \/ part = "reviews"  /\ Next         /\ UNCHANGED <<part, driveVars, analysisVars>>
  \/ part = "drive"    /\ DriveNext    /\ UNCHANGED <<part, reviewVars, analysisVars>>
  \/ part = "analysis" /\ AnalysisNext /\ UNCHANGED <<part, reviewVars, driveVars>>

MCSpec == MCInit /\ [][MCNext]_allVars

(* What each module assumes, in the behaviours of its part. *)
MCFairness ==
  /\ WF_directoryRun(part = "reviews" /\ DirectoryGoesOn)
  /\ WF_driveVars(part = "drive" /\ CycleStarts)
  /\ WF_driveVars(part = "drive" /\ CycleSkips)
  /\ WF_driveVars(part = "drive" /\ CycleWalks)
  /\ \A d \in Folders : WF_driveVars(part = "drive" /\ Walk(d))
  /\ WF_analysisVars(part = "analysis" /\ Poll(TRUE))
  /\ WF_analysisVars(part = "analysis" /\ Claim)
  /\ \A r \in Runs : WF_analysisVars(part = "analysis" /\ Follow(r))

MCFairSpec == MCSpec /\ MCFairness

=============================================================================
