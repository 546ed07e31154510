--------------------------- MODULE ProtocolCorpus ---------------------------
(***************************************************************************)
(* The corpus of the protocol agent: the documents of one folder of Google *)
(* Drive, read every quarter of an hour by runProtocolSync and published   *)
(* together. Pages with tables are transcribed by a vision model whose     *)
(* answer is often rejected; accepted ones are kept by the hash of their   *)
(* image, so that a later synchronisation need not ask again. Scanned      *)
(* pages count only once somebody registered their transcription.          *)
(*                                                                         *)
(* An action is what happens between two answers of Drive, of the model or *)
(* of the database. Two processes meet during a deployment; each has its   *)
(* own single flight.                                                      *)
(***************************************************************************)
EXTENDS Naturals, FiniteSets, Functions

CONSTANTS
  Processes,
  Docs,      \* documents of a format it reads, with some text
  Fixed,     \* those of them that are always in the folder, some
  Tables,    \* pages with tables, <<document, number>>
  Scans,     \* other pages, without a layer of text
  MaxEdits,  \* bound: changes in the folder
  MaxFaults  \* bound: failures of Drive or of the extraction, restarts

ASSUME CorpusAssumption == Fixed \subseteq Docs

VARIABLES
  inside,  \* documents in the folder
  version, \* revision of each document in Drive
  image,   \* image of each page: the revision that changed it last
  corpus,  \* the active row of agente_protocolos_corpus: what it says of each document
  cache,   \* agente_protocolos_vision_cache: <<page, revision>> -> image
  sync,    \* where each process is
  previous, \* the corpus it began with
  listing,  \* what it listed and has not gone through
  accepted, \* what it has read
  reading,  \* the document it has downloaded, its pages left
  failed,   \* it could not read a document
  edits, faults

folder == <<inside, version, image, edits>>
local  == <<sync, previous, listing, accepted, reading, failed>>
corpusVars == <<folder, corpus, cache, local, faults>>

-----------------------------------------------------------------------------
Pages    == Tables \cup Scans
PagesOf(d) == {p \in Pages : p[1] = d}
Nothing  == [doc \in {} |-> 0]
NoPaper  == [doc |-> {}, text |-> 0, images |-> Nothing, left |-> {}, true |-> TRUE]

CorpusInit ==
  /\ inside = Fixed /\ edits = 0 /\ faults = 0
  /\ version = [d \in Docs |-> 1] /\ image = [p \in Pages |-> 1]
  /\ corpus = Nothing /\ cache = Nothing
  /\ sync = [w \in Processes |-> "idle"]
  /\ previous = [w \in Processes |-> Nothing]
  /\ listing = [w \in Processes |-> Nothing]
  /\ accepted = [w \in Processes |-> Nothing]
  /\ reading = [w \in Processes |-> NoPaper]
  /\ failed = [w \in Processes |-> FALSE]

Fault == faults < MaxFaults /\ faults' = faults + 1
Moves(w, from, to) == sync[w] = from /\ sync' = [sync EXCEPT ![w] = to]

-----------------------------------------------------------------------------
(* People change a document, and some of its pages, or move one in or out. *)
Change(d) == edits < MaxEdits /\ edits' = edits + 1 /\ version' = [version EXCEPT ![d] = @ + 1]

Edit(d) ==
  /\ d \in inside /\ Change(d)
  /\ \E ps \in SUBSET PagesOf(d) :
       image' = [p \in Pages |-> IF p \in ps THEN version'[d] ELSE image[p]]
  /\ UNCHANGED <<inside, corpus, cache, local, faults>>

MoveDocument(d) ==
  /\ d \notin Fixed /\ Change(d)
  /\ inside' = IF d \in inside THEN inside \ {d} ELSE inside \cup {d}
  /\ UNCHANGED <<image, corpus, cache, local, faults>>

(* Somebody reviews a scanned page as it is and registers what it says. *)
Put(p, r, i) == cache' = [k \in DOMAIN cache \cup {<<p, r>>} |-> IF k = <<p, r>> THEN i ELSE cache[k]]
Register(p) ==
  /\ p \in Scans
  /\ Put(p, version[p[1]], image[p])
  /\ UNCHANGED <<folder, corpus, local, faults>>

-----------------------------------------------------------------------------
(* runProtocolSync. *)
Start(w) ==
  /\ Moves(w, "idle", "start")
  /\ previous' = [previous EXCEPT ![w] = corpus]
  /\ UNCHANGED <<folder, corpus, cache, listing, accepted, reading, failed, faults>>

(* All the pages of the list, or none of it. *)
List(w) ==
  /\ Moves(w, "start", "listed")
  /\ listing' = [listing EXCEPT ![w] = Restrict(version, inside)]
  /\ accepted' = [accepted EXCEPT ![w] = Nothing]
  /\ failed' = [failed EXCEPT ![w] = FALSE]
  /\ UNCHANGED <<folder, corpus, cache, previous, reading, faults>>

Entries(w) == DOMAIN listing[w]
TakeOff(w, d) == listing' = [listing EXCEPT ![w] = Restrict(@, Entries(w) \ {d})]
Accept(w, d, paper) ==
  accepted' = [accepted EXCEPT ![w] =
    [x \in DOMAIN @ \cup {d} |-> IF x = d THEN paper ELSE @[x]]]

(* A document of the revision the corpus has is taken from it. *)
MutSame(w, d) == d \in DOMAIN previous[w]
Same(w, d) == d \in DOMAIN previous[w] /\ previous[w][d].revision = listing[w][d]
Reuse(w, d) ==
  /\ sync[w] = "listed" /\ d \in Entries(w) /\ Same(w, d)
  /\ Accept(w, d, previous[w][d])
  /\ TakeOff(w, d)
  /\ UNCHANGED <<folder, corpus, cache, sync, previous, reading, failed, faults>>

(* Another one is downloaded as it now is. *)
Download(w, d) ==
  /\ Moves(w, "listed", "reading")
  /\ d \in Entries(w) /\ ~Same(w, d) /\ d \in inside
  /\ reading' = [reading EXCEPT ![w] =
       [doc |-> {d}, text |-> version[d], images |-> Restrict(image, PagesOf(d)), left |-> PagesOf(d), true |-> TRUE]]
  /\ UNCHANGED <<folder, corpus, cache, previous, listing, accepted, failed, faults>>

Missed(w, d) ==
  /\ TakeOff(w, d)
  /\ failed' = [failed EXCEPT ![w] = TRUE]
  /\ reading' = [reading EXCEPT ![w] = NoPaper]
  /\ UNCHANGED <<folder, corpus, cache, previous, accepted>>

(* It left the folder since, Drive fails, or it cannot be extracted. *)
DownloadFails(w, d) ==
  /\ sync[w] = "listed" /\ d \in Entries(w) /\ ~Same(w, d)
  /\ IF d \in inside THEN Fault ELSE UNCHANGED faults
  /\ Missed(w, d)
  /\ UNCHANGED sync

-----------------------------------------------------------------------------
(* The pages of a document, scanned ones first; an image that is known     *)
(* from any revision needs no other transcription.                         *)
Mine(w, p) ==
  /\ sync[w] = "reading" /\ p \in reading[w].left
  /\ p \in Scans \/ reading[w].left \cap Scans = {}
  /\ \A q \in reading[w].left : (p \in Scans <=> q \in Scans) => p[2] <= q[2]

MutMatches(w, p, k) == k[1] = p /\ k[2] = listing[w][p[1]]
Matches(w, p, k) == k[1] = p /\ cache[k] = reading[w].images[p]
Known(w, p) == \E k \in DOMAIN cache : Matches(w, p, k)

(* The page is replaced by the transcription of an image. *)
Replace(w, p, i) ==
  reading' = [reading EXCEPT ![w].left = @ \ {p},
                             ![w].true = @ /\ i = reading[w].images[p]]

UseKnown(w, p) ==
  /\ Mine(w, p)
  /\ \E k \in DOMAIN cache : Matches(w, p, k) /\ Replace(w, p, cache[k])
  /\ UNCHANGED <<folder, corpus, cache, sync, previous, listing, accepted, failed, faults>>

MutKeep(w, p) == UNCHANGED cache
Keep(w, p) == Put(p, listing[w][p[1]], reading[w].images[p])
Transcribe(w, p) ==
  /\ p \in Tables /\ Mine(w, p) /\ ~Known(w, p)
  /\ Replace(w, p, reading[w].images[p])
  /\ Keep(w, p)
  /\ UNCHANGED <<folder, corpus, sync, previous, listing, accepted, failed, faults>>

(* The model fails or its answer is rejected; nobody registered the scan.  *)
PageFails(w, p) ==
  /\ Mine(w, p) /\ ~Known(w, p)
  /\ Moves(w, "reading", "listed")
  /\ \E d \in reading[w].doc : Missed(w, d)
  /\ UNCHANGED faults

EndDocument(w) ==
  /\ Moves(w, "reading", "listed")
  /\ reading[w].left = {}
  /\ \E d \in reading[w].doc :
       /\ Accept(w, d, [revision |-> listing[w][d], text |-> reading[w].text, true |-> reading[w].true])
       /\ TakeOff(w, d)
  /\ reading' = [reading EXCEPT ![w] = NoPaper]
  /\ UNCHANGED <<folder, corpus, cache, previous, failed, faults>>

-----------------------------------------------------------------------------
(* Everything was read: the corpus is replaced, unless it is the one the   *)
(* synchronisation began with; with something missing it stays.            *)
Rest(w) ==
  /\ previous' = [previous EXCEPT ![w] = Nothing]
  /\ accepted' = [accepted EXCEPT ![w] = Nothing]
  /\ failed' = [failed EXCEPT ![w] = FALSE]

MutComplete(w) == accepted[w] # Nothing
Complete(w) == ~failed[w] /\ accepted[w] # Nothing
Publish(w) ==
  /\ Moves(w, "listed", "idle")
  /\ Entries(w) = {}
  /\ corpus' = IF Complete(w) /\ accepted[w] # previous[w] THEN accepted[w] ELSE corpus
  /\ Rest(w)
  /\ UNCHANGED <<folder, cache, listing, reading, faults>>

(* The list, the database or the process fails. *)
Stop(w) ==
  /\ Fault
  /\ sync' = [sync EXCEPT ![w] = "idle"]
  /\ listing' = [listing EXCEPT ![w] = Nothing]
  /\ reading' = [reading EXCEPT ![w] = NoPaper]
  /\ Rest(w)
  /\ UNCHANGED <<folder, corpus, cache>>

SyncStep(w) ==
  \/ Start(w) \/ List(w) \/ EndDocument(w) \/ Publish(w)
  \/ \E d \in Docs : Reuse(w, d) \/ Download(w, d) \/ DownloadFails(w, d)
  \/ \E p \in Pages : UseKnown(w, p) \/ Transcribe(w, p) \/ PageFails(w, p)

CorpusNext ==
  \/ \E d \in Docs : Edit(d) \/ MoveDocument(d)
  \/ \E p \in Pages : Register(p)
  \/ \E w \in Processes : SyncStep(w) \/ Stop(w)

CorpusSpec == CorpusInit /\ [][CorpusNext]_corpusVars

(* The timer starts every process again and every request ends. Of the     *)
(* vision model only this is assumed: a page that it is asked again and    *)
(* again is transcribed acceptably in the end.                             *)
CorpusFairSpec ==
  /\ CorpusSpec
  /\ \A w \in Processes : WF_corpusVars(SyncStep(w))
  /\ \A p \in Tables : SF_corpusVars(\E w \in Processes : Transcribe(w, p))

-----------------------------------------------------------------------------
(* What is published is whole: it has every document that never left the   *)
(* folder, none with a text older than the revision it is quoted as, and   *)
(* each page transcribed from the very image it has in that text, though   *)
(* documents change between the list, the download and the transcription,  *)
(* processes publish over each other and any step fails.                   *)
CorpusIsWhole ==
  corpus # Nothing =>
    /\ Fixed \subseteq DOMAIN corpus
    /\ \A d \in DOMAIN corpus : corpus[d].text >= corpus[d].revision /\ corpus[d].true

(* Once the folder is quiet and its scanned pages are registered, the      *)
(* corpus becomes and stays what is in it. Pages that the model rejects    *)
(* in turn do not keep it from being published, because accepted ones are  *)
(* kept while the synchronisation fails.                                   *)
Registered ==
  \A p \in Scans : p[1] \in inside =>
    \E k \in DOMAIN cache : k[1] = p /\ cache[k] = image[p]
UpToDate ==
  /\ DOMAIN corpus = inside
  /\ \A d \in inside : corpus[d].text = version[d]
CorpusCatchesUp == <>[]Registered => <>[]UpToDate
=============================================================================
