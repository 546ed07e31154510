------------------------------ MODULE DriveSync ------------------------------
(***************************************************************************)
(* The synchronisation of Google Drive (backend/server.ts 1530-1810 and    *)
(* google-drive-sync.ts).  Each folder is walked by one run at a time: the *)
(* cycle walks the enabled ones one after the other and a person may ask   *)
(* for one meanwhile.  A run takes a picture of the stored artifacts,      *)
(* lists the folder, and for every file that looks newer than the picture  *)
(* downloads its text and stores it under the lock of the file.  A file    *)
(* may hang from several folders, each read with its own connection, and   *)
(* changes while the runs read.                                            *)
(*                                                                         *)
(* A version of a file is the number of changes it has had; 0 is none.     *)
(***************************************************************************)
EXTENDS Naturals, Sequences, SequencesExt

CONSTANTS
  Folders, Files,
  Listed,       \* Listed[d]: the files that hang from folder d
  Readable,     \* the files whose text can be extracted
  NoFile,
  MaxRevisions, MaxPauses, MaxFailures

VARIABLES
  remote,       \* the version of each file in Drive
  enabled,      \* the folders that are enabled and their connection alive
  artifacts,    \* google_drive_artifacts with their reviews, oldest first
  walk,         \* googleDriveFolderSyncPromises
  cycle,        \* the folders googleDriveFolderSyncPromise has left
  revisions, pauses, failures

ASSUME DriveAssumption ==
  /\ Listed \in [Folders -> SUBSET Files]
  /\ NoFile \notin Files

driveVars == <<remote, enabled, artifacts, walk, cycle, revisions, pauses, failures>>

Unknown == [modified |-> 0, text |-> 0, reviewed |-> FALSE]
NoWalk  == [at |-> "idle", known |-> [f \in Files |-> Unknown], listed |-> [f \in Files |-> 0],
            left |-> {}, file |-> NoFile, text |-> 0]

(* The oldest artifact of a file, as DISTINCT ON and the lookup before a   *)
(* write find it; 0 when there is none.                                    *)
ArtifactOf(f) == SelectInSeq(artifacts, LAMBDA a : a.file = f)

Picture == [f \in Files |->
  IF ArtifactOf(f) = 0 THEN Unknown
  ELSE LET a == artifacts[ArtifactOf(f)]
       IN [modified |-> a.modified, text |-> a.text, reviewed |-> a.reviewed]]

(***************************************************************************)
(* Starting                                                                *)
(***************************************************************************)
(* syncEnabledGoogleDriveFolders: the list is read once. *)
CycleStarts ==
  /\ cycle = <<>>
  /\ enabled # {}
  /\ cycle' = SetToSeq(enabled)
  /\ UNCHANGED <<remote, enabled, artifacts, walk, revisions, pauses, failures>>

(* syncGoogleDriveFolder joins the run the folder has.  One that is not    *)
(* enabled any more has no run, and the cycle goes on with the next.       *)
Begun(d) == [NoWalk EXCEPT !.at = "listing", !.known = Picture]

CycleSkips ==
  /\ cycle # <<>> /\ Head(cycle) \notin enabled /\ walk[Head(cycle)].at = "idle"
  /\ cycle' = Tail(cycle)
  /\ UNCHANGED <<remote, enabled, artifacts, walk, revisions, pauses, failures>>

CycleWalks ==
  /\ cycle # <<>> /\ Head(cycle) \in enabled /\ walk[Head(cycle)].at = "idle"
  /\ walk' = [walk EXCEPT ![Head(cycle)] = Begun(Head(cycle))]
  /\ UNCHANGED <<remote, enabled, artifacts, cycle, revisions, pauses, failures>>

(* POST /api/google-drive/folders/:id/sync *)
Asked(d) ==
  /\ d \in enabled
  /\ walk[d].at = "idle"
  /\ pauses < MaxPauses
  /\ pauses' = pauses + 1
  /\ walk' = [walk EXCEPT ![d] = Begun(d)]
  /\ UNCHANGED <<remote, enabled, artifacts, cycle, revisions, failures>>

(***************************************************************************)
(* Walking                                                                 *)
(***************************************************************************)
(* The run ends, and a cycle that waited for it goes on with the next. *)
Ends(d) ==
  /\ walk' = [walk EXCEPT ![d] = NoWalk]
  /\ cycle' = IF cycle # <<>> /\ Head(cycle) = d THEN Tail(cycle) ELSE cycle

(* iterateGoogleDriveFolderFiles: the files and the time of their last     *)
(* change, as Drive gives them at once or with a part missing.             *)
List(d) ==
  /\ walk[d].at = "listing"
  /\ \E seen \in SUBSET Listed[d] :
       /\ seen # Listed[d] => failures < MaxFailures
       /\ failures' = IF seen = Listed[d] THEN failures ELSE failures + 1
       /\ walk' = [walk EXCEPT ![d].at = "walking", ![d].listed = remote, ![d].left = seen]
  /\ UNCHANGED <<remote, enabled, artifacts, cycle, revisions, pauses>>

(* The next file of the list.  One the picture already has is only given   *)
(* its review, if it had none.                                             *)
MutTake(d) ==
  /\ walk[d].at = "walking" /\ d \in enabled
  /\ \E f \in walk[d].left :
       walk' = [walk EXCEPT ![d].left = @ \ {f}, ![d].file = f,
                            ![d].at = IF walk[d].known[f].modified # walk[d].listed[f]
                                        THEN "reading" ELSE "walking"]
  /\ UNCHANGED <<remote, enabled, artifacts, cycle, revisions, pauses, failures>>
Take(d) ==
  /\ walk[d].at = "walking" /\ d \in enabled
  /\ \E f \in walk[d].left :
       LET known   == walk[d].known[f]
           changed == known.modified # walk[d].listed[f]
           missing == ~ changed /\ ~ known.reviewed /\ known.text # 0 /\ f \in Readable
       IN walk' = [walk EXCEPT ![d].left = @ \ {f},
                               ![d].file = IF changed \/ missing THEN f ELSE NoFile,
                               ![d].at = IF changed THEN "reading"
                                           ELSE IF missing THEN "queueing" ELSE "walking"]
  /\ UNCHANGED <<remote, enabled, artifacts, cycle, revisions, pauses, failures>>

(* readGoogleDriveText: the text of the version there is by now. *)
Download(d) ==
  /\ walk[d].at = "reading"
  /\ walk' = [walk EXCEPT ![d].at = "storing",
                          ![d].text = IF walk[d].file \in Readable THEN remote[walk[d].file] ELSE 0]
  /\ UNCHANGED <<remote, enabled, artifacts, cycle, revisions, pauses, failures>>

(* The transaction under pg_advisory_xact_lock: the artifact of the file   *)
(* is written whichever folder it came from, and is added only while this  *)
(* folder is enabled; what cannot be read keeps the text it had.           *)
Stored(a, text, modified) == [a EXCEPT !.modified = modified, !.text = IF text = 0 THEN @ ELSE text]

MutCommit(d) ==
  LET f   == walk[d].file
      new == [file |-> f, folder |-> d, modified |-> 0, text |-> 0, reviewed |-> FALSE]
  IN /\ walk[d].at = "storing" /\ d \in enabled
     /\ artifacts' = IF walk[d].known[f] # Unknown
                     THEN [artifacts EXCEPT ![ArtifactOf(f)] = Stored(@, walk[d].text, walk[d].listed[f])]
                     ELSE Append(artifacts, Stored(new, walk[d].text, walk[d].listed[f]))
     /\ walk' = [walk EXCEPT ![d].at = IF f \in Readable THEN "queueing" ELSE "walking"]
     /\ UNCHANGED <<remote, enabled, cycle, revisions, pauses, failures>>
Commit(d) ==
  LET f   == walk[d].file
      old == ArtifactOf(f)
      new == [file |-> f, folder |-> d, modified |-> 0, text |-> 0, reviewed |-> FALSE]
  IN /\ walk[d].at = "storing"
     /\ old # 0 \/ d \in enabled
     /\ artifacts' = IF old # 0
                     THEN [artifacts EXCEPT ![old] = Stored(@, walk[d].text, walk[d].listed[f])]
                     ELSE Append(artifacts, Stored(new, walk[d].text, walk[d].listed[f]))
     /\ walk' = [walk EXCEPT ![d].at = IF f \in Readable THEN "queueing" ELSE "walking"]
     /\ UNCHANGED <<remote, enabled, cycle, revisions, pauses, failures>>

(* queueMeetingAiAnalysis, whose review is inserted once.  (What it asks   *)
(* of the analysis is in MeetingAnalysis.)                                 *)
Queue(d) ==
  LET i == ArtifactOf(walk[d].file)
  IN /\ walk[d].at = "queueing"
     /\ artifacts' = [artifacts EXCEPT ![i].reviewed = @ \/ artifacts[i].text # 0]
     /\ walk' = [walk EXCEPT ![d].at = "walking"]
     /\ UNCHANGED <<remote, enabled, cycle, revisions, pauses, failures>>

(* An error in a file is noted and the walk goes on with the next. *)
FileFails(d) ==
  /\ walk[d].at \in {"reading", "storing", "queueing"}
  /\ failures < MaxFailures
  /\ failures' = failures + 1
  /\ walk' = [walk EXCEPT ![d].at = "walking"]
  /\ UNCHANGED <<remote, enabled, artifacts, cycle, revisions, pauses>>

(* Nothing left, or the folder is found disabled: before a file, or when   *)
(* its artifact could not be added.                                        *)
Stop(d) ==
  /\ \/ walk[d].at = "walking" /\ (walk[d].left = {} \/ d \notin enabled)
     \/ walk[d].at = "listing" /\ d \notin enabled
     \/ walk[d].at = "storing" /\ ArtifactOf(walk[d].file) = 0 /\ d \notin enabled
  /\ Ends(d)
  /\ UNCHANGED <<remote, enabled, artifacts, revisions, pauses, failures>>

(* The token or the root of the folder cannot be had. *)
FolderFails(d) ==
  /\ walk[d].at = "listing"
  /\ failures < MaxFailures
  /\ failures' = failures + 1
  /\ Ends(d)
  /\ UNCHANGED <<remote, enabled, artifacts, revisions, pauses>>

(***************************************************************************)
(* The rest of the world                                                   *)
(***************************************************************************)
FileChanges(f) ==
  /\ revisions < MaxRevisions
  /\ revisions' = revisions + 1
  /\ remote' = [remote EXCEPT ![f] = @ + 1]
  /\ UNCHANGED <<enabled, artifacts, walk, cycle, pauses, failures>>

(* DELETE and POST /api/google-drive/folders, DELETE .../connections/:id *)
SwitchFolder(d) ==
  /\ pauses < MaxPauses
  /\ pauses' = pauses + 1
  /\ enabled' = IF d \in enabled THEN enabled \ {d} ELSE enabled \cup {d}
  /\ UNCHANGED <<remote, artifacts, walk, cycle, revisions, failures>>

DriveStops ==
  /\ failures < MaxFailures
  /\ failures' = failures + 1
  /\ walk' = [d \in Folders |-> NoWalk]
  /\ cycle' = <<>>
  /\ UNCHANGED <<remote, enabled, artifacts, revisions, pauses>>

(***************************************************************************)
(* The specification                                                       *)
(***************************************************************************)
DriveInit ==
  /\ remote = [f \in Files |-> 1]
  /\ enabled = Folders
  /\ artifacts = <<>>
  /\ walk = [d \in Folders |-> NoWalk]
  /\ cycle = <<>>
  /\ revisions = 0 /\ pauses = 0 /\ failures = 0

Walk(d) == List(d) \/ Take(d) \/ Download(d) \/ Commit(d) \/ Queue(d) \/ Stop(d)

DriveNext ==
  \/ CycleStarts \/ CycleSkips \/ CycleWalks
  \/ \E d \in Folders : Asked(d) \/ Walk(d) \/ FileFails(d) \/ FolderFails(d) \/ SwitchFolder(d)
  \/ \E f \in Files : FileChanges(f)
  \/ DriveStops

DriveSpec == DriveInit /\ [][DriveNext]_driveVars

(* The cycle is on a timer, and every request of a run ends. *)
DriveFairness ==
  /\ WF_driveVars(CycleStarts) /\ WF_driveVars(CycleSkips) /\ WF_driveVars(CycleWalks)
  /\ \A d \in Folders : WF_driveVars(Walk(d))

DriveFairSpec == DriveSpec /\ DriveFairness

(***************************************************************************)
(* Properties                                                              *)
(***************************************************************************)
(* The runs of two folders that share a file, each with its own connection *)
(* and its own picture, store it once; and whatever was stored last, by    *)
(* whichever run, the text is never older than the version it is said to   *)
(* be of, which is what lets the next run see that there is a newer one.   *)
ArtifactsAreSound ==
  /\ \A i, j \in DOMAIN artifacts : artifacts[i].file = artifacts[j].file => i = j
  /\ \A i \in DOMAIN artifacts :
       artifacts[i].file \in Readable => artifacts[i].text >= artifacts[i].modified

(* However the runs overlapped, failed, were paused or died, every file of *)
(* an enabled folder ends up stored in its last version, with its text and *)
(* a review if it has one to read.                                         *)
FilesCatchUp ==
  \A f \in Files :
    <>[]((\E d \in enabled : f \in Listed[d]) =>
           \E i \in DOMAIN artifacts :
             /\ artifacts[i].file = f /\ artifacts[i].modified = remote[f]
             /\ f \in Readable => artifacts[i].text = remote[f] /\ artifacts[i].reviewed)
=============================================================================
