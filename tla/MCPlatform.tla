----------------------------- MODULE MCPlatform -----------------------------
(***************************************************************************)
(* Small instances of three parts of the backend for TLC, with the         *)
(* fairness of each: the connections of PostgreSQL; the queue of summaries *)
(* with enough faults to exhaust the attempts of a job; and the corpus of  *)
(* the protocol agent, synchronised by two processes. A behaviour is of    *)
(* one of them, the part, while the others stand still with nothing to do. *)
(***************************************************************************)
EXTENDS MCConnectionPool, ProtocolCorpus

CONSTANTS None, c1, m1, w1, p1, p2, r1, fixed, moved, u1, u2

VARIABLES
  part,
  arrived, reviewed, skipped, reports, status, attempts, owner, specialist, context, stale, batches,
  accountLock, step, listed, job, selection, omitted, rstep, raccount, rspecialist, rchat, rselection, failures

summaryVars ==
  <<arrived, reviewed, skipped, reports, status, attempts, owner, specialist, context, stale, batches,
    accountLock, step, listed, job, selection, omitted, rstep, raccount, rspecialist, rchat, rselection, failures>>
allVars == <<part, vars, summaryVars, corpusVars>>

(* One process, two requests for a report and one for a summary. *)
Summary == INSTANCE SummaryJobs WITH
  Specialists <- {"role"}, Chats <- {c1}, Messages <- {m1},
  OwnerOf <- [c \in {c1} |-> a1], ChatOf <- [m \in {m1} |-> c1],
  Runners <- {w1}, Posts <- {p1, p2}, Summaries <- {r1},
  CandidateLimit <- 2, ReadLimit <- 1, MaxJobs <- 2, MaxFaults <- 4,
  lock <- accountLock, faults <- failures

(* A document that stays and has a table, and one that comes and goes and  *)
(* has a table and a scanned page; one change and one failure.             *)
PagesWithTables == {<<fixed, 1>>, <<moved, 2>>}
ScannedPages    == {<<moved, 1>>}

-----------------------------------------------------------------------------
MCInit == part \in {"pool", "summary", "corpus"} /\ Init /\ Summary!Init /\ CorpusInit

MCNext ==
  \/ part = "pool"    /\ Next         /\ UNCHANGED <<part, summaryVars, corpusVars>>
  \/ part = "summary" /\ Summary!Next /\ UNCHANGED <<part, vars, corpusVars>>
  \/ part = "corpus"  /\ CorpusNext   /\ UNCHANGED <<part, vars, summaryVars>>

MCSpec == MCInit /\ [][MCNext]_allVars

(* What each module assumes, in the behaviours of its part. *)
PoolIsFair ==
  /\ WF_vars(part = "pool" /\ Grant)
  /\ \A s \in Holders : WF_vars(part = "pool" /\ HolderStep(s))
  /\ \A q \in Queries : WF_vars(part = "pool" /\ EndQuery(q))
SummaryIsFair ==
  /\ WF_summaryVars(part = "summary" /\ Summary!RunnerStep(w1))
  /\ \A p \in {p1, p2} : WF_summaryVars(part = "summary" /\ Summary!PostStep(p))
  /\ WF_summaryVars(part = "summary" /\ Summary!SummaryStep(r1))
CorpusIsFair ==
  /\ \A u \in Processes : WF_corpusVars(part = "corpus" /\ SyncStep(u))
  /\ \A p \in Tables : SF_corpusVars(part = "corpus" /\ \E u \in Processes : Transcribe(u, p))

MCFairSpec == MCSpec /\ PoolIsFair /\ SummaryIsFair /\ CorpusIsFair

-----------------------------------------------------------------------------
(* The property of the queue, which holds of what stands still, and that   *)
(* of the corpus in the behaviours of its part.                            *)
LedgerSpec       == Summary!LedgerSpec
CorpusIsFollowed == part = "corpus" => CorpusCatchesUp
=============================================================================
