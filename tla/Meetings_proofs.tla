-------------------------- MODULE Meetings_proofs --------------------------
(***************************************************************************)
(* What reaches a meeting before its projects: the artifact that the runs  *)
(* of several folders share, and the analysis and the stages of its        *)
(* review, for any folders, files, people and failures.                    *)
(***************************************************************************)
EXTENDS DriveSync, MeetingAnalysis, SequenceTheorems, TLAPS

-----------------------------------------------------------------------------
(* The artifacts *)
Artifact == [file : Files, folder : Folders, modified : Nat, text : Nat, reviewed : BOOLEAN]

Walking == [at     : {"idle", "listing", "walking", "reading", "storing", "queueing"},
            known  : [Files -> [modified : Nat, text : Nat, reviewed : BOOLEAN]],
            listed : [Files -> Nat], left : SUBSET Files, file : Files \cup {NoFile}, text : Nat]

(* A file has one artifact. *)
OneEach(s) == \A i, j \in DOMAIN s : s[i].file = s[j].file => i = j

(* Its text is not older than the version it is said to be of. *)
Fresh(a) == a.file \in Readable => a.text >= a.modified

(* What a run was told of a file is not newer than the file is, nor than   *)
(* the text it is about to store.                                          *)
Honest(w, r) ==
  /\ w.at \in {"reading", "storing", "queueing"} => w.file \in Files
  /\ \A f \in Files : w.listed[f] <= r[f]
  /\ w.at = "storing" /\ w.file \in Readable => w.text >= w.listed[w.file]

Whole(s) == s \in Seq(Artifact) /\ OneEach(s) /\ \A i \in DOMAIN s : Fresh(s[i])

DriveInv ==
  /\ remote \in [Files -> Nat]
  /\ enabled \subseteq Folders
  /\ walk \in [Folders -> Walking]
  /\ \A d \in Folders : Honest(walk[d], remote)
  /\ Whole(artifacts)

(* The lookup before a write finds the artifact of a file, or none. *)
LEMMA ArtifactFound ==
  ASSUME artifacts \in Seq(Artifact), OneEach(artifacts), NEW f
  PROVE  /\ ArtifactOf(f) = 0 => \A i \in DOMAIN artifacts : artifacts[i].file # f
         /\ ArtifactOf(f) # 0 => ArtifactOf(f) \in DOMAIN artifacts /\ artifacts[ArtifactOf(f)].file = f
<1> DEFINE I == {i \in 1..Len(artifacts) : artifacts[i].file = f}
<1>1. Len(artifacts) \in Nat /\ DOMAIN artifacts = 1..Len(artifacts)
  BY LenProperties
<1>2. ArtifactOf(f) = IF I # {} THEN Min(I) ELSE 0
  BY DEF ArtifactOf, SelectInSeq
<1>3. CASE I = {}
  BY <1>1, <1>2, <1>3
<1>4. CASE I # {}
  <2>1. PICK i \in I : TRUE
    BY <1>4
  <2>2. \A j \in I : j = i
    BY <1>1, <2>1 DEF OneEach
  <2>3. i <= i
    BY <1>1, <2>1
  <2>4. \E k \in I : \A j \in I : k =< j
    BY <2>1, <2>2, <2>3
  <2>5. Min(I) \in I
    <3> HIDE DEF I
    <3> QED
      BY <2>4 DEF Min
  <2>6. i # 0
    BY <1>1, <2>1
  <2> QED
    BY <1>1, <1>2, <1>4, <2>2, <2>5, <2>6
<1> QED
  BY <1>3, <1>4

(* A step of one run that stores nothing. *)
LEMMA OneWalks ==
  ASSUME DriveInv, NEW d \in Folders, NEW w \in Walking, Honest(w, remote),
         walk' = [walk EXCEPT ![d] = w],
         remote' = remote, enabled' = enabled, artifacts' = artifacts
  PROVE  DriveInv'
<1>1. walk' \in [Folders -> Walking]
  BY DEF DriveInv
<1>2. \A c \in Folders : Honest(walk'[c], remote)
  BY DEF DriveInv
<1> QED
  BY <1>1, <1>2 DEF DriveInv, Whole, OneEach, Fresh, Honest

(* A run begins, and ends. *)
LEMMA NoWalkIsHonest == DriveInv => NoWalk \in Walking /\ Honest(NoWalk, remote)
<1> SUFFICES ASSUME DriveInv PROVE NoWalk \in Walking /\ Honest(NoWalk, remote)
  OBVIOUS
<1>1. NoWalk \in Walking
  BY DEF NoWalk, Walking, Unknown
<1>2. \A f \in Files : NoWalk.listed[f] = 0 /\ remote[f] \in Nat
  BY DEF NoWalk, DriveInv
<1>3. NoWalk.at = "idle"
  BY DEF NoWalk
<1> QED
  BY <1>1, <1>2, <1>3 DEF Honest

LEMMA BegunIsHonest ==
  ASSUME DriveInv, NEW d
  PROVE  Begun(d) \in Walking /\ Honest(Begun(d), remote)
<1>1. Picture \in [Files -> [modified : Nat, text : Nat, reviewed : BOOLEAN]]
  <2> SUFFICES ASSUME NEW f \in Files
               PROVE  Picture[f] \in [modified : Nat, text : Nat, reviewed : BOOLEAN]
    BY DEF Picture
  <2>1. CASE ArtifactOf(f) = 0
    BY <2>1 DEF Picture, Unknown
  <2>2. CASE ArtifactOf(f) # 0
    <3>1. artifacts[ArtifactOf(f)] \in Artifact
      BY <2>2, ArtifactFound, LenProperties, ElementOfSeq DEF DriveInv, Whole
    <3> QED
      BY <2>2, <3>1 DEF Picture, Artifact
  <2> QED
    BY <2>1, <2>2
<1>2. NoWalk \in Walking /\ Honest(NoWalk, remote)
  BY NoWalkIsHonest
<1>3. /\ Begun(d) \in Walking /\ Begun(d).at = "listing"
      /\ Begun(d).listed = NoWalk.listed
  BY <1>1, <1>2 DEF Begun, Walking
<1> QED
  BY <1>2, <1>3 DEF Honest

LEMMA StartKeeps ==
  ASSUME DriveInv, CycleStarts \/ CycleSkips \/ CycleWalks \/ (\E d \in Folders : Asked(d))
  PROVE  DriveInv'
<1>1. CASE CycleStarts \/ CycleSkips
  BY <1>1 DEF CycleStarts, CycleSkips, DriveInv, Whole, OneEach, Fresh, Honest
<1>2. CASE CycleWalks \/ (\E d \in Folders : Asked(d))
  <2>1. PICK d \in Folders : /\ walk' = [walk EXCEPT ![d] = Begun(d)]
                             /\ UNCHANGED <<remote, enabled, artifacts>>
    BY <1>2 DEF CycleWalks, Asked, DriveInv
  <2> QED
    BY <2>1, BegunIsHonest, OneWalks
<1> QED
  BY <1>1, <1>2

(* A listing gives the versions there are. *)
LEMMA ListKeeps ==
  ASSUME DriveInv, NEW d \in Folders, List(d)
  PROVE  DriveInv'
<1>1. PICK seen \in SUBSET Listed[d] :
        walk' = [walk EXCEPT ![d].at = "walking", ![d].listed = remote, ![d].left = seen]
  BY DEF List
<1> DEFINE w == [walk[d] EXCEPT !.at = "walking", !.listed = remote, !.left = seen]
<1>2. walk[d] \in Walking /\ remote \in [Files -> Nat] /\ seen \in SUBSET Files
  BY DriveAssumption DEF DriveInv
<1>3. w \in Walking /\ w.at = "walking" /\ w.listed = remote
  BY <1>2 DEF Walking
<1>4. walk' = [walk EXCEPT ![d] = w]
  BY <1>1 DEF DriveInv
<1> HIDE DEF w
<1>5. Honest(w, remote)
  BY <1>2, <1>3 DEF Honest
<1> QED
  BY <1>3, <1>4, <1>5, OneWalks DEF List

LEMMA TakeKeeps ==
  ASSUME DriveInv, NEW d \in Folders, Take(d)
  PROVE  DriveInv'
<1>1. PICK f \in walk[d].left :
        \E g \in {f, NoFile}, at \in {"reading", "queueing", "walking"} :
          /\ walk' = [walk EXCEPT ![d].left = @ \ {f}, ![d].file = g, ![d].at = at]
          /\ at # "walking" => g = f
  BY DEF Take
<1>2. PICK g \in {f, NoFile}, at \in {"reading", "queueing", "walking"} :
        /\ walk' = [walk EXCEPT ![d].left = @ \ {f}, ![d].file = g, ![d].at = at]
        /\ at # "walking" => g = f
  BY <1>1
<1> DEFINE w == [walk[d] EXCEPT !.left = @ \ {f}, !.file = g, !.at = at]
<1>3. walk[d] \in Walking /\ Honest(walk[d], remote) /\ f \in Files
  BY DEF DriveInv, Walking
<1>4. w \in Walking /\ w.at = at /\ w.file = g /\ w.listed = walk[d].listed
  BY <1>2, <1>3 DEF Walking
<1>5. walk' = [walk EXCEPT ![d] = w]
  BY <1>2 DEF DriveInv
<1> HIDE DEF w
<1>6. Honest(w, remote)
  BY <1>2, <1>3, <1>4 DEF Honest
<1> QED
  BY <1>4, <1>5, <1>6, OneWalks DEF Take

(* The text is of the version there is by now, which is not before the one *)
(* that was listed.                                                        *)
LEMMA DownloadKeeps ==
  ASSUME DriveInv, NEW d \in Folders, Download(d)
  PROVE  DriveInv'
<1> DEFINE t == IF walk[d].file \in Readable THEN remote[walk[d].file] ELSE 0
           w == [walk[d] EXCEPT !.at = "storing", !.text = t]
<1>1. /\ walk[d] \in Walking /\ Honest(walk[d], remote) /\ remote \in [Files -> Nat]
      /\ walk[d].file \in Files
  BY DEF DriveInv, Download, Honest
<1>2. t \in Nat
  BY <1>1
<1>3. w \in Walking /\ w.at = "storing" /\ w.text = t /\ w.file = walk[d].file /\ w.listed = walk[d].listed
  BY <1>1, <1>2 DEF Walking
<1>4. walk' = [walk EXCEPT ![d] = w]
  BY DEF DriveInv, Download
<1> HIDE DEF w
<1>5. Honest(w, remote)
  BY <1>1, <1>3 DEF Honest
<1> QED
  BY <1>3, <1>4, <1>5, OneWalks DEF Download

(* Only the step of a run changes. *)
LEMMA WalkMoves ==
  ASSUME DriveInv, NEW d \in Folders,
         NEW at \in {"walking", "queueing"},
         at = "queueing" => walk[d].at = "storing"
  PROVE  LET w == [walk[d] EXCEPT !.at = at]
         IN w \in Walking /\ Honest(w, remote) /\ [walk EXCEPT ![d].at = at] = [walk EXCEPT ![d] = w]
<1> DEFINE w == [walk[d] EXCEPT !.at = at]
<1>1. walk[d] \in Walking /\ Honest(walk[d], remote)
  BY DEF DriveInv
<1>2. w \in Walking /\ w.at = at /\ w.file = walk[d].file /\ w.listed = walk[d].listed
  BY <1>1 DEF Walking
<1>3. [walk EXCEPT ![d].at = at] = [walk EXCEPT ![d] = w]
  BY DEF DriveInv
<1> HIDE DEF w
<1>4. Honest(w, remote)
  BY <1>1, <1>2 DEF Honest
<1> QED
  BY <1>2, <1>3, <1>4 DEF w

LEMMA ArtifactRewritten ==
  ASSUME NEW s, Whole(s), NEW i \in DOMAIN s, NEW a \in Artifact, a.file = s[i].file, Fresh(a)
  PROVE  Whole([s EXCEPT ![i] = a])
<1> DEFINE n == [s EXCEPT ![i] = a]
<1>1. s \in Seq(Artifact) /\ s \in [1..Len(s) -> Artifact] /\ DOMAIN s = 1..Len(s) /\ Len(s) \in Nat
  BY LenProperties DEF Whole
<1>2. DOMAIN n = DOMAIN s /\ n[i] = a /\ \A j \in DOMAIN s : j # i => n[j] = s[j]
  BY <1>1
<1>3. n \in Seq(Artifact)
  BY <1>1, ExceptSeq
<1> HIDE DEF n
<1>4. \A j \in DOMAIN s : n[j].file = s[j].file
  BY <1>2
<1>5. OneEach(n)
  BY <1>2, <1>4 DEF OneEach, Whole
<1>6. \A j \in DOMAIN n : Fresh(n[j])
  BY <1>2 DEF Whole
<1> QED
  BY <1>3, <1>5, <1>6 DEF Whole, n

LEMMA ArtifactAdded ==
  ASSUME NEW s, Whole(s), NEW a \in Artifact, \A i \in DOMAIN s : s[i].file # a.file, Fresh(a)
  PROVE  Whole(Append(s, a))
<1> DEFINE n == Append(s, a)
<1>1. s \in Seq(Artifact) /\ DOMAIN s = 1..Len(s) /\ Len(s) \in Nat
  BY LenProperties DEF Whole
<1>2. /\ n \in Seq(Artifact) /\ Len(n) = Len(s) + 1 /\ n[Len(s) + 1] = a
      /\ \A i \in 1..Len(s) : n[i] = s[i]
  BY <1>1, AppendProperties
<1> HIDE DEF n
<1>3. DOMAIN n = 1..(Len(s) + 1)
  BY <1>2, LenProperties
<1>4. \A j \in DOMAIN n : (j \in DOMAIN s /\ n[j] = s[j]) \/ (j = Len(s) + 1 /\ n[j] = a)
  <2> DEFINE k == Len(s)
  <2>1. k \in Nat /\ DOMAIN s = 1..k /\ DOMAIN n = 1..(k + 1)
    BY <1>1, <1>3
  <2>2. n[k + 1] = a /\ \A j \in 1..k : n[j] = s[j]
    BY <1>2
  <2> HIDE DEF k
  <2>3. \A j \in 1..(k + 1) : j \in 1..k \/ j = k + 1
    BY <2>1
  <2>4. \A j \in DOMAIN n : (j \in DOMAIN s /\ n[j] = s[j]) \/ (j = k + 1 /\ n[j] = a)
    <3> SUFFICES ASSUME NEW j \in DOMAIN n
                 PROVE  (j \in DOMAIN s /\ n[j] = s[j]) \/ (j = k + 1 /\ n[j] = a)
      OBVIOUS
    <3>1. j \in 1..k \/ j = k + 1
      BY <2>1, <2>3
    <3>2. CASE j \in 1..k
      BY <2>1, <2>2, <3>2
    <3>3. CASE j = k + 1
      BY <2>2, <3>3
    <3> QED
      BY <3>1, <3>2, <3>3
  <2> QED
    BY <2>4 DEF k
<1>5. OneEach(n)
  BY <1>4 DEF OneEach, Whole
<1>6. \A j \in DOMAIN n : Fresh(n[j])
  BY <1>4 DEF Whole
<1> QED
  BY <1>2, <1>5, <1>6 DEF Whole, n

(* A run goes on while the artifacts stay whole. *)
LEMMA WritingWalks ==
  ASSUME DriveInv, NEW d \in Folders, NEW at \in {"walking", "queueing"},
         at = "queueing" => walk[d].at = "storing",
         walk' = [walk EXCEPT ![d].at = at],
         Whole(artifacts'), remote' = remote, enabled' = enabled
  PROVE  DriveInv'
<1> DEFINE w == [walk[d] EXCEPT !.at = at]
<1>1. w \in Walking /\ Honest(w, remote) /\ walk' = [walk EXCEPT ![d] = w]
  BY WalkMoves
<1> HIDE DEF w
<1>2. walk' \in [Folders -> Walking] /\ \A c \in Folders : Honest(walk'[c], remote)
  BY <1>1 DEF DriveInv
<1> QED
  BY <1>2 DEF DriveInv, Honest, Whole, OneEach, Fresh

LEMMA CommitKeeps ==
  ASSUME DriveInv, NEW d \in Folders, Commit(d)
  PROVE  DriveInv'
<1> DEFINE f    == walk[d].file
           body == walk[d].text
           at   == IF f \in Readable THEN "queueing" ELSE "walking"
           old  == ArtifactOf(f)
           new  == [file |-> f, folder |-> d, modified |-> 0, text |-> 0, reviewed |-> FALSE]
           a(b) == Stored(b, body, walk[d].listed[f])
<1>1. /\ walk[d] \in Walking /\ f \in Files /\ walk[d].at = "storing"
      /\ f \in Readable => body >= walk[d].listed[f]
      /\ Whole(artifacts)
  BY DEF DriveInv, Honest, Commit
<1>2. body \in Nat /\ walk[d].listed[f] \in Nat
  BY <1>1 DEF Walking
<1>3. ASSUME NEW b \in Artifact, b.file = f
      PROVE  a(b) \in Artifact /\ a(b).file = b.file /\ Fresh(a(b))
  <2> DEFINE t == IF body = 0 THEN b.text ELSE body
             n == [b EXCEPT !.modified = walk[d].listed[f], !.text = t]
  <2>1. a(b) = n
    BY <1>3 DEF Stored, Artifact
  <2>2. b.text \in Nat
    BY DEF Artifact
  <2>3. t \in Nat /\ (f \in Readable => t >= walk[d].listed[f])
    BY <1>1, <1>2, <2>2
  <2> HIDE DEF t
  <2>4. n \in Artifact /\ n.file = f /\ n.text = t /\ n.modified = walk[d].listed[f]
    BY <1>2, <1>3, <2>3 DEF Artifact
  <2> QED
    BY <1>3, <2>1, <2>3, <2>4 DEF Fresh
<1>4. CASE old # 0
  <2>1. old \in DOMAIN artifacts /\ artifacts[old].file = f /\ artifacts[old] \in Artifact
    BY <1>1, <1>4, ArtifactFound, LenProperties, ElementOfSeq DEF Whole
  <2>2. artifacts' = [artifacts EXCEPT ![old] = a(artifacts[old])]
    BY <1>4 DEF Commit
  <2>3. Whole(artifacts')
    <3> HIDE DEF a, old
    <3> QED
      BY <1>1, <1>3, <2>1, <2>2, ArtifactRewritten
  <2> QED
    BY <1>1, <2>3, WritingWalks DEF Commit
<1>5. CASE old = 0
  <2>1. \A i \in DOMAIN artifacts : artifacts[i].file # f
    BY <1>1, <1>5, ArtifactFound DEF Whole
  <2>2. artifacts' = Append(artifacts, a(new))
    BY <1>5 DEF Commit
  <2>3. new \in Artifact /\ new.file = f
    BY <1>1 DEF Artifact
  <2>4. Whole(artifacts')
    <3> HIDE DEF a, new
    <3> QED
      BY <1>1, <1>3, <2>1, <2>2, <2>3, ArtifactAdded
  <2> QED
    BY <1>1, <2>4, WritingWalks DEF Commit
<1> QED
  BY <1>4, <1>5

LEMMA QueueKeeps ==
  ASSUME DriveInv, NEW d \in Folders, Queue(d)
  PROVE  DriveInv'
<1> DEFINE i == ArtifactOf(walk[d].file)
           a == [artifacts[i] EXCEPT !.reviewed = @ \/ artifacts[i].text # 0]
<1>1. Whole(artifacts)
  BY DEF DriveInv
<1>2. Whole(artifacts')
  <2>1. CASE i \in DOMAIN artifacts
    <3>1. artifacts[i] \in Artifact /\ Fresh(artifacts[i])
      BY <1>1, <2>1, LenProperties, ElementOfSeq DEF Whole
    <3>2. a \in Artifact /\ a.file = artifacts[i].file /\ Fresh(a)
      BY <3>1 DEF Artifact, Fresh
    <3>3. artifacts' = [artifacts EXCEPT ![i] = a]
      BY DEF Queue
    <3> HIDE DEF i, a
    <3> QED
      BY <1>1, <2>1, <3>2, <3>3, ArtifactRewritten
  <2>2. CASE i \notin DOMAIN artifacts
    <3>1. artifacts' = artifacts
      <4>1. artifacts = [j \in DOMAIN artifacts |-> artifacts[j]]
        BY <1>1, LenProperties DEF Whole
      <4>2. artifacts' = [artifacts EXCEPT ![i] = a]
        BY DEF Queue
      <4> HIDE DEF i, a
      <4> QED
        BY <2>2, <4>1, <4>2
    <3> QED
      BY <1>1, <3>1
  <2> QED
    BY <2>1, <2>2
<1> QED
  BY <1>2, WritingWalks DEF Queue

LEMMA WalkEnds ==
  ASSUME DriveInv, NEW d \in Folders, Stop(d) \/ FileFails(d) \/ FolderFails(d)
  PROVE  DriveInv'
<1>1. CASE Stop(d) \/ FolderFails(d)
  BY <1>1, NoWalkIsHonest, OneWalks DEF Stop, FolderFails, Ends
<1>2. CASE FileFails(d)
  <2>1. Whole(artifacts')
    BY <1>2 DEF FileFails, DriveInv, Whole, OneEach, Fresh
  <2> QED
    BY <1>2, <2>1, WritingWalks DEF FileFails
<1> QED
  BY <1>1, <1>2

(* A file only grows newer than what was listed of it. *)
LEMMA WorldKeeps ==
  ASSUME DriveInv,
         (\E f \in Files : FileChanges(f)) \/ (\E d \in Folders : SwitchFolder(d)) \/ DriveStops
  PROVE  DriveInv'
<1>1. ASSUME NEW f \in Files, FileChanges(f) PROVE DriveInv'
  <2>1. remote \in [Files -> Nat] /\ remote' = [remote EXCEPT ![f] = @ + 1]
    BY <1>1 DEF DriveInv, FileChanges
  <2>2. remote' \in [Files -> Nat] /\ \A g \in Files : remote[g] <= remote'[g]
    BY <2>1
  <2>3. \A d \in Folders : Honest(walk[d], remote')
    <3> SUFFICES ASSUME NEW d \in Folders PROVE Honest(walk[d], remote')
      OBVIOUS
    <3>1. walk[d] \in Walking /\ Honest(walk[d], remote)
      BY DEF DriveInv
    <3>2. \A g \in Files : walk[d].listed[g] \in Nat /\ remote[g] \in Nat /\ remote'[g] \in Nat
      BY <2>1, <2>2, <3>1 DEF Walking
    <3>3. \A g \in Files : walk[d].listed[g] <= remote'[g]
      BY <2>2, <3>1, <3>2 DEF Honest
    <3> QED
      BY <3>1, <3>3 DEF Honest
  <2> QED
    BY <1>1, <2>2, <2>3 DEF DriveInv, FileChanges, Honest, Whole, OneEach, Fresh
<1>2. ASSUME NEW d \in Folders, SwitchFolder(d) PROVE DriveInv'
  <2>1. enabled' \subseteq Folders
    BY <1>2 DEF DriveInv, SwitchFolder
  <2> QED
    BY <1>2, <2>1 DEF DriveInv, SwitchFolder, Honest, Whole, OneEach, Fresh
<1>3. ASSUME DriveStops PROVE DriveInv'
  <2>1. walk' = [d \in Folders |-> NoWalk] /\ NoWalk \in Walking /\ Honest(NoWalk, remote)
    BY <1>3, NoWalkIsHonest DEF DriveStops
  <2>2. walk' \in [Folders -> Walking] /\ \A d \in Folders : Honest(walk'[d], remote)
    BY <2>1
  <2> QED
    BY <1>3, <2>2 DEF DriveInv, DriveStops, Honest, Whole, OneEach, Fresh
<1> QED
  BY <1>1, <1>2, <1>3

LEMMA InitDrive == DriveInit => DriveInv
<1> SUFFICES ASSUME DriveInit PROVE DriveInv
  OBVIOUS
<1>1. artifacts = <<>> /\ remote = [f \in Files |-> 1] /\ walk = [d \in Folders |-> NoWalk]
  BY DEF DriveInit
<1>2. Whole(artifacts)
  BY <1>1 DEF Whole, OneEach
<1>3. NoWalk \in Walking
  BY DEF NoWalk, Walking, Unknown
<1>4. NoWalk.at = "idle" /\ \A f \in Files : NoWalk.listed[f] = 0
  BY DEF NoWalk
<1>5. Honest(NoWalk, remote)
  BY <1>1, <1>4 DEF Honest
<1> QED
  BY <1>1, <1>2, <1>3, <1>5 DEF DriveInv, DriveInit

(* However the runs of the folders overlap, fail or die: what a run was    *)
(* told of a file is not newer than the file, and what it stores not newer *)
(* than its text.                                                          *)
THEOREM DriveInvariant == DriveSpec => []DriveInv
<1>1. DriveInv /\ [DriveNext]_driveVars => DriveInv'
  <2> SUFFICES ASSUME DriveInv, [DriveNext]_driveVars PROVE DriveInv'
    OBVIOUS
  <2>1. CASE CycleStarts \/ CycleSkips \/ CycleWalks \/ (\E d \in Folders : Asked(d))
    BY <2>1, StartKeeps
  <2>2. CASE \E d \in Folders : Walk(d)
    BY <2>2, ListKeeps, TakeKeeps, DownloadKeeps, CommitKeeps, QueueKeeps, WalkEnds DEF Walk
  <2>3. CASE \E d \in Folders : FileFails(d) \/ FolderFails(d)
    BY <2>3, WalkEnds
  <2>4. CASE (\E f \in Files : FileChanges(f)) \/ (\E d \in Folders : SwitchFolder(d)) \/ DriveStops
    BY <2>4, WorldKeeps
  <2>5. CASE UNCHANGED driveVars
    BY <2>5 DEF driveVars, DriveInv, Honest, Whole, OneEach, Fresh
  <2> QED
    BY <2>1, <2>2, <2>3, <2>4, <2>5 DEF DriveNext
<1> QED
  BY <1>1, InitDrive, PTL DEF DriveSpec

(* A file is stored once, whichever of its folders brought it, and its     *)
(* text is never older than the version it is said to be of.               *)
THEOREM OneSoundArtifact == DriveSpec => []ArtifactsAreSound
<1>1. DriveInv => ArtifactsAreSound
  BY DEF DriveInv, Whole, OneEach, Fresh, ArtifactsAreSound
<1> QED
  BY <1>1, DriveInvariant, PTL

-----------------------------------------------------------------------------
(* The analysis and the stages *)
Reviews == [analysis  : {"pending", "processing", "completed", "failed"},
            status    : {"draft", "pending", "returned", "approved", "failed"},
            stage     : {"agent", "organizer", "delineante", "pmc", "assigned"},
            of        : Nat, done : BOOLEAN, protected : BOOLEAN, versions : Nat]

Running == [at : {"idle", "listed", "claimed", "waiting", "failing"},
            text : Nat, modified : Nat, versions : Nat, paused : BOOLEAN]

(* The stages below the one a review is at have approved it. *)
Climbed(r, seen) ==
  /\ r.stage \in {"delineante", "pmc", "assigned"} => "organizer" \in seen
  /\ r.stage \in {"pmc", "assigned"} => "delineante" \in seen
  /\ r.stage = "assigned" => "pmc" \in seen
  /\ r.status = "approved" => {"organizer", "delineante", "pmc"} \subseteq seen

AnalysisInv ==
  /\ modified \in Nat /\ text \in Nat
  /\ run \in [Runs -> Running]
  /\ review \in Reviews
  /\ Climbed(review, passed)
  /\ corrected => review.protected

(* Everything but a step of the workflow leaves the stage and the approval *)
(* as they are, moves a draft from the agent to the organizer, or fails.   *)
Settles(n, r) ==
  /\ n \in Reviews
  /\ r.protected => n.protected
  /\ \/ n.stage = r.stage
     \/ r.stage = "agent" /\ n.stage = "organizer"
  /\ n.status = "approved" => r.status = "approved"

LEMMA SettledIsClimbed ==
  ASSUME NEW r, NEW n, NEW seen, Settles(n, r), Climbed(r, seen)
  PROVE  Climbed(n, seen)
BY DEF Settles, Climbed

LEMMA SettlesTwice ==
  ASSUME NEW r, NEW n, NEW k, Settles(n, r), Settles(k, n)
  PROVE  Settles(k, r)
BY DEF Settles

LEMMA ReviewHelpers ==
  ASSUME NEW r \in Reviews, NEW t, NEW at, NEW old
  PROVE  /\ Settles(r, r)
         /\ Settles(Ensured(r, t), r)
         /\ Settles(Queued(r, t, at), r)
         /\ Settles(Routed(r), r)
         /\ Settles(Expired(r, old), r)
<1>1. Settles(r, r) /\ Settles(Ensured(r, t), r)
  BY DEF Settles, Ensured, Reviews
<1>2. Settles(Queued(r, t, at), r)
  <2>1. Ensured(r, t) \in Reviews /\ Settles([Ensured(r, t) EXCEPT !.analysis = "pending"], Ensured(r, t))
    BY <1>1 DEF Settles, Reviews
  <2> QED
    BY <1>1, <2>1, SettlesTwice DEF Queued
<1>3. Settles(Routed(r), r)
  <2> DEFINE n == [r EXCEPT !.status = "pending", !.stage = "organizer", !.versions = @ + 1]
  <2>1. r.versions + 1 \in Nat
    BY DEF Reviews
  <2>2. n \in Reviews /\ n.protected = r.protected /\ n.status = "pending" /\ n.stage = "organizer"
    BY <2>1 DEF Reviews
  <2>3. Routed(r) = r \/ (Routed(r) = n /\ r.stage = "agent")
    BY DEF Routed
  <2> HIDE DEF n
  <2> QED
    BY <1>1, <2>2, <2>3 DEF Settles
<1>4. Settles(Expired(r, old), r)
  BY DEF Settles, Expired, Reviews
<1> QED
  BY <1>1, <1>2, <1>3, <1>4

(* A step that settles the review and leaves what people did. *)
LEMMA SettlingKeeps ==
  ASSUME AnalysisInv, NEW n, Settles(n, review), review' = n, passed' = passed,
         corrected' => corrected \/ n.protected,
         modified' \in Nat, text' \in Nat, run' \in [Runs -> Running]
  PROVE  AnalysisInv'
<1>1. n \in Reviews /\ Climbed(n, passed) /\ (corrected' => n.protected)
  BY SettledIsClimbed DEF AnalysisInv, Settles
<1> QED
  BY <1>1 DEF AnalysisInv, Climbed

LEMMA PollKeeps ==
  ASSUME AnalysisInv, NEW old, Poll(old)
  PROVE  AnalysisInv'
<1> DEFINE routed   == Routed(review)
           expired  == Expired(routed, old)
           unread   == IF ~ expired.protected /\ expired.analysis = "pending" /\ text = 0
                       THEN [expired EXCEPT !.analysis = "failed"] ELSE expired
           outdated == IF ~ unread.protected /\ unread.analysis # "processing" /\ text # 0 /\ unread.of # modified
                       THEN [unread EXCEPT !.analysis = "pending"] ELSE unread
<1>1. routed \in Reviews /\ Settles(routed, review)
  BY ReviewHelpers DEF AnalysisInv, Settles
<1> HIDE DEF routed
<1>2. expired \in Reviews /\ Settles(expired, review)
  BY <1>1, ReviewHelpers, SettlesTwice DEF Settles
<1> HIDE DEF expired
<1>3. unread \in Reviews /\ Settles(unread, expired)
  BY <1>2 DEF Settles, Reviews
<1> HIDE DEF unread
<1>4. outdated \in Reviews /\ Settles(outdated, unread)
  BY <1>3 DEF Settles, Reviews
<1>5. review' = outdated
  BY DEF Poll, outdated, unread, expired, routed
<1>6. \E at \in {"listed", "idle"} : run' = [run EXCEPT !["worker"].at = at]
  BY DEF Poll
<1> HIDE DEF outdated
<1>7. Settles(outdated, review)
  BY <1>2, <1>3, <1>4, SettlesTwice
<1>8. run' \in [Runs -> Running]
  BY <1>6 DEF AnalysisInv, Running
<1>9. corrected' = corrected /\ passed' = passed /\ modified' \in Nat /\ text' \in Nat
  BY DEF Poll, AnalysisInv
<1> QED
  BY <1>5, <1>7, <1>8, <1>9, SettlingKeeps

LEMMA ClaimKeeps ==
  ASSUME AnalysisInv, Claim \/ Request
  PROVE  AnalysisInv'
<1> DEFINE n == [review EXCEPT !.analysis = "processing"]
<1>1. Settles(n, review) /\ Settles(review, review)
  BY DEF AnalysisInv, Settles, Reviews
<1>2. run' \in [Runs -> Running]
  <2>1. /\ run \in [Runs -> Running] /\ Idle \in Running /\ "worker" \in Runs /\ "route" \in Runs
        /\ \A r \in Runs : [run[r] EXCEPT !.at = "claimed"] \in Running
    BY DEF AnalysisInv, Running, Idle, Runs
  <2>2. \/ run' = [run EXCEPT !["worker"] = [run["worker"] EXCEPT !.at = "claimed"]]
        \/ run' = [run EXCEPT !["route"] = [run["route"] EXCEPT !.at = "claimed"]]
        \/ run' = [run EXCEPT !["worker"] = Idle]
    BY <2>1 DEF Claim, Request
  <2> QED
    BY <2>1, <2>2
<1>3. /\ corrected' = corrected /\ passed' = passed /\ modified' \in Nat /\ text' \in Nat
      /\ review' = n \/ review' = review
  BY DEF Claim, Request, AnalysisInv
<1> HIDE DEF n
<1> QED
  BY <1>1, <1>2, <1>3, SettlingKeeps

LEMMA RunKeeps ==
  ASSUME AnalysisInv, NEW r \in Runs, Follow(r) \/ AnswerFails(r) \/ AnalysisStops
  PROVE  AnalysisInv'
<1>1. /\ review \in Reviews /\ run[r] \in Running /\ run \in [Runs -> Running]
      /\ modified \in Nat /\ text \in Nat
  BY DEF AnalysisInv
<1>2. /\ \A b \in BOOLEAN : Failing(r, b) \in [Runs -> Running]
      /\ [run EXCEPT ![r] = Idle] \in [Runs -> Running]
      /\ [s \in Runs |-> Idle] \in [Runs -> Running]
  BY <1>1 DEF Failing, Running, Idle
<1>3. Settles(review, review) /\ Settles(Ensured(review, text), review)
  BY <1>1, ReviewHelpers
<1>4. CASE Read(r)
  <2>1. [run EXCEPT ![r] = [at |-> "waiting", text |-> text, modified |-> modified,
                            versions |-> review.versions, paused |-> FALSE]] \in [Runs -> Running]
    BY <1>1 DEF Running, Reviews
  <2>2. run' \in [Runs -> Running]
    BY <1>2, <1>4, <2>1 DEF Read
  <2>3. review' = Ensured(review, text) \/ review' = review
    BY <1>4 DEF Read
  <2> QED
    BY <1>1, <1>3, <1>4, <2>2, <2>3, SettlingKeeps DEF Read
<1>5. CASE Store(r)
  <2> DEFINE n == [review EXCEPT !.analysis = "completed", !.of = run[r].modified,
                                 !.done = TRUE, !.versions = @ + 1]
  <2>1. review.versions + 1 \in Nat /\ run[r].modified \in Nat
    BY <1>1 DEF Reviews, Running
  <2>2. n \in Reviews /\ Settles(n, review)
    BY <1>1, <2>1 DEF Reviews, Settles
  <2>3. \/ review' = Routed(n) /\ ~ corrected' /\ run' = [run EXCEPT ![r] = Idle]
        \/ review' = review /\ corrected' = corrected /\ run' = Failing(r, TRUE)
    BY <1>5 DEF Store
  <2> HIDE DEF n
  <2>4. Settles(Routed(n), review)
    BY <2>2, ReviewHelpers, SettlesTwice
  <2>5. passed' = passed /\ modified' \in Nat /\ text' \in Nat /\ run' \in [Runs -> Running]
    BY <1>1, <1>2, <1>5, <2>3 DEF Store
  <2>6. CASE review' = Routed(n) /\ ~ corrected'
    BY <2>4, <2>5, <2>6, SettlingKeeps
  <2>7. CASE review' = review /\ corrected' = corrected
    BY <1>3, <2>5, <2>7, SettlingKeeps
  <2> QED
    BY <2>3, <2>6, <2>7
<1>6. CASE Fail(r)
  <2>1. PICK a \in {"failed", "completed", "pending"} : review' = [review EXCEPT !.analysis = a]
    BY <1>6 DEF Fail
  <2>2. Settles([review EXCEPT !.analysis = a], review)
    BY <1>1 DEF Settles, Reviews
  <2>3. /\ corrected' = corrected /\ passed' = passed /\ modified' \in Nat /\ text' \in Nat
        /\ run' \in [Runs -> Running]
    BY <1>1, <1>2, <1>6 DEF Fail
  <2> QED
    BY <2>1, <2>2, <2>3, SettlingKeeps
<1>7. CASE AnswerFails(r) \/ AnalysisStops
  <2>1. run' \in [Runs -> Running]
    BY <1>2, <1>7 DEF AnswerFails, AnalysisStops
  <2>2. review' = review /\ corrected' = corrected /\ passed' = passed /\ modified' \in Nat /\ text' \in Nat
    BY <1>1, <1>7 DEF AnswerFails, AnalysisStops
  <2> QED
    BY <1>3, <2>1, <2>2, SettlingKeeps
<1> QED
  BY <1>4, <1>5, <1>6, <1>7 DEF Follow

LEMMA OriginKeeps ==
  ASSUME AnalysisInv, TextChanges \/ SwitchOrigin \/ AssignOrganizer
  PROVE  AnalysisInv'
<1>1. review \in Reviews /\ modified \in Nat /\ text \in Nat /\ run' \in [Runs -> Running]
  BY DEF AnalysisInv, TextChanges, SwitchOrigin, AssignOrganizer
<1>2. passed' = passed /\ corrected' = corrected
  BY DEF TextChanges, SwitchOrigin, AssignOrganizer
<1>3. CASE TextChanges
  <2>1. PICK t \in {0, text, modified'} : text' = t /\ review' = Queued(review, t, modified')
    BY <1>3 DEF TextChanges
  <2>2. modified' \in Nat /\ text' \in Nat
    BY <1>1, <1>3, <2>1 DEF TextChanges
  <2>3. Settles(Queued(review, t, modified'), review)
    BY <1>1, ReviewHelpers
  <2> QED
    BY <1>1, <1>2, <2>1, <2>2, <2>3, SettlingKeeps
<1>4. CASE SwitchOrigin \/ AssignOrganizer
  <2>1. review' = review /\ modified' \in Nat /\ text' \in Nat /\ Settles(review, review)
    BY <1>1, <1>4, ReviewHelpers DEF SwitchOrigin, AssignOrganizer
  <2> QED
    BY <1>1, <1>2, <2>1, SettlingKeeps
<1> QED
  BY <1>3, <1>4

LEMMA PeopleKeep ==
  ASSUME AnalysisInv, Correct \/ Assign
  PROVE  AnalysisInv'
<1> DEFINE e == Ensured(review, text)
           c == [e EXCEPT !.versions = @ + 1, !.protected = TRUE]
           a == [e EXCEPT !.versions = @ + 1]
<1>1. e \in Reviews /\ Settles(e, review)
  BY ReviewHelpers DEF AnalysisInv, Settles
<1>2. /\ review' = c \/ (review' = a /\ corrected' = corrected)
      /\ passed' = passed /\ modified' \in Nat /\ text' \in Nat /\ run' \in [Runs -> Running]
  BY DEF Correct, Assign, AnalysisInv
<1> HIDE DEF e
<1>3. e.versions + 1 \in Nat
  BY <1>1 DEF Reviews
<1>4. Settles(c, e) /\ c.protected /\ Settles(a, e)
  BY <1>1, <1>3 DEF Reviews, Settles
<1> HIDE DEF a, c
<1>5. Settles(c, review) /\ Settles(a, review)
  BY <1>1, <1>4, SettlesTwice
<1> QED
  BY <1>2, <1>4, <1>5, SettlingKeeps

(* An approval adds its stage before the next one; a return takes away the *)
(* two it passes over.                                                     *)
LEMMA WorkflowKeeps ==
  ASSUME AnalysisInv, Workflow
  PROVE  AnalysisInv'
<1>1. /\ review \in Reviews /\ Climbed(review, passed)
      /\ modified' \in Nat /\ text' \in Nat /\ run' \in [Runs -> Running]
      /\ corrected' => review.protected
  BY DEF AnalysisInv, Workflow
<1>2. ASSUME NEW status \in {"draft", "pending", "returned", "approved", "failed"},
             NEW stage \in {"agent", "organizer", "delineante", "pmc", "assigned"},
             NEW protect \in BOOLEAN, Moved(status, stage, protect)
      PROVE  /\ review' \in Reviews /\ review'.status = status /\ review'.stage = stage
             /\ review.protected => review'.protected
  <2>1. review.versions + 1 \in Nat /\ (review.protected \/ protect) \in BOOLEAN
    BY <1>1 DEF Reviews
  <2>2. review' = [review EXCEPT !.status = status, !.stage = stage, !.versions = review.versions + 1,
                                 !.protected = review.protected \/ protect]
    BY <1>1, <1>2 DEF Moved, Reviews
  <2> QED
    BY <1>1, <2>1, <2>2 DEF Reviews
<1>3. ASSUME review' \in Reviews, Climbed(review', passed'), review.protected => review'.protected
      PROVE  AnalysisInv'
  BY <1>1, <1>3 DEF AnalysisInv, Climbed
<1>4. ASSUME NEW complete \in BOOLEAN, NEW staffed \in BOOLEAN, NEW recipient \in BOOLEAN,
             WorkflowApprove(complete, staffed, recipient)
      PROVE  AnalysisInv'
  <2>1. passed' = passed \cup {review.stage}
    BY <1>4 DEF WorkflowApprove
  <2>2. CASE review.stage = "pmc" /\ Moved("pending", "assigned", TRUE)
    BY <1>1, <1>2, <1>3, <2>1, <2>2 DEF Climbed
  <2>3. CASE review.stage \in {"pmc", "assigned"} /\ Moved("approved", review.stage, TRUE)
    BY <1>1, <1>2, <1>3, <2>1, <2>3 DEF Climbed
  <2>4. CASE review.stage \in {"agent", "organizer", "delineante"} /\ Moved("pending", NextStage(review.stage), TRUE)
    <3>1. NextStage(review.stage) = IF review.stage = "agent" THEN "organizer"
                                    ELSE IF review.stage = "organizer" THEN "delineante" ELSE "pmc"
      BY <2>4 DEF NextStage
    <3> QED
      BY <1>1, <1>2, <1>3, <2>1, <2>4, <3>1 DEF Climbed
  <2> QED
    BY <1>4, <2>2, <2>3, <2>4 DEF WorkflowApprove
<1>5. ASSUME NEW staffed \in BOOLEAN, WorkflowReturn(staffed)
      PROVE  AnalysisInv'
  <2>1. /\ passed' = passed \ {review.stage, Previous(review.stage)}
        /\ Moved("returned", Previous(review.stage), TRUE)
        /\ Previous(review.stage) # review.stage
    BY <1>5 DEF WorkflowReturn
  <2>2. \/ review.stage = "assigned" /\ Previous(review.stage) = "pmc"
        \/ review.stage = "pmc" /\ Previous(review.stage) = "delineante"
        \/ review.stage = "delineante" /\ Previous(review.stage) = "organizer"
    BY <1>1, <2>1 DEF Previous, Reviews
  <2> QED
    BY <1>1, <1>2, <1>3, <2>1, <2>2 DEF Climbed
<1>6. ASSUME NEW staffed \in BOOLEAN, WorkflowSave(staffed)
      PROVE  AnalysisInv'
  <2>1. passed' = passed
    BY <1>6 DEF WorkflowSave
  <2>2. CASE review.stage = "agent" /\ Moved("pending", "organizer", FALSE)
    BY <1>1, <1>2, <1>3, <2>1, <2>2 DEF Climbed
  <2>3. CASE Moved(review.status, review.stage, FALSE)
    <3>1. /\ review.status \in {"draft", "pending", "returned", "approved", "failed"}
          /\ review.stage \in {"agent", "organizer", "delineante", "pmc", "assigned"}
      BY <1>1 DEF Reviews
    <3> QED
      BY <1>1, <1>2, <1>3, <2>1, <2>3, <3>1 DEF Climbed
  <2> QED
    BY <1>6, <2>2, <2>3 DEF WorkflowSave
<1> QED
  BY <1>4, <1>5, <1>6 DEF Workflow

LEMMA InitAnalysis == AnalysisInit => AnalysisInv
  BY DEF AnalysisInit, AnalysisInv, Climbed, Reviews, Running, Idle

(* Whatever the runs, the origin and the people do in between: a stage is  *)
(* reached only through the approval of the ones below, and what people    *)
(* corrected is protected.                                                 *)
THEOREM AnalysisInvariant == AnalysisSpec => []AnalysisInv
<1>1. AnalysisInv /\ [AnalysisNext]_analysisVars => AnalysisInv'
  <2> SUFFICES ASSUME AnalysisInv, [AnalysisNext]_analysisVars PROVE AnalysisInv'
    OBVIOUS
  <2>1. CASE \E old \in BOOLEAN : Poll(old)
    BY <2>1, PollKeeps
  <2>2. CASE Claim \/ Request
    BY <2>2, ClaimKeeps
  <2>3. CASE (\E r \in Runs : Follow(r) \/ AnswerFails(r)) \/ AnalysisStops
    BY <2>3, RunKeeps DEF Runs
  <2>4. CASE TextChanges \/ SwitchOrigin \/ AssignOrganizer
    BY <2>4, OriginKeeps
  <2>5. CASE Correct \/ Assign
    BY <2>5, PeopleKeep
  <2>6. CASE Workflow
    BY <2>6, WorkflowKeeps
  <2>7. CASE UNCHANGED analysisVars
    BY <2>7 DEF analysisVars, AnalysisInv, Climbed
  <2> QED
    BY <2>1, <2>2, <2>3, <2>4, <2>5, <2>6, <2>7 DEF AnalysisNext
<1> QED
  BY <1>1, InitAnalysis, PTL DEF AnalysisSpec

(* An approved review was approved by the organizer, the delineante and    *)
(* the PMC, each after the last time it was returned to them.              *)
THEOREM StagesAreClimbed == AnalysisSpec => []NoStageIsSkipped
<1>1. AnalysisInv => NoStageIsSkipped
  BY DEF AnalysisInv, Climbed, NoStageIsSkipped
<1> QED
  BY <1>1, AnalysisInvariant, PTL

(* A run that ends after people corrected the analysis does not replace    *)
(* it, whenever it started.                                                *)
THEOREM CorrectionsStay == AnalysisSpec => CorrectionsStand
<1>1. AnalysisInv /\ [AnalysisNext]_analysisVars => [corrected => corrected']_analysisVars
  <2> SUFFICES ASSUME AnalysisInv, AnalysisNext, corrected PROVE corrected'
    OBVIOUS
  <2>1. \A r \in Runs : ~ Unchanged(r)
    BY DEF AnalysisInv, Unchanged, Allowed
  <2> QED
    BY <2>1 DEF AnalysisNext, Poll, Claim, Request, Follow, Read, Store, Fail, AnswerFails, AnalysisStops,
                TextChanges, SwitchOrigin, AssignOrganizer, Correct, Assign, Workflow
<1> QED
  BY <1>1, AnalysisInvariant, PTL DEF AnalysisSpec, CorrectionsStand
=============================================================================
