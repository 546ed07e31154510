--------------------------- MODULE SummaryLedger ---------------------------
(***************************************************************************)
(* What the summary features promise, without queues, locks, caches or     *)
(* crashes: texts arrive, jobs are opened, given up and reopened, and one  *)
(* step at a time a report is published that accounts for texts no other   *)
(* report of its kind accounts for.                                        *)
(***************************************************************************)
EXTENDS Naturals, Sequences

CONSTANTS
  Accounts, Messages, None,
  AccountOf(_),  \* the account a text was sent to
  Jobs,          \* global report requests, numbered in order of creation
  Authors        \* whatever may sign a report: jobs and individual requests

VARIABLES
  arrived,  \* texts received
  reports,  \* the published reports
  owner,    \* the account of each job
  phase     \* none, open, failed or done

vars == <<arrived, reports, owner, phase>>

Init ==
  /\ arrived = {}
  /\ reports = <<>>
  /\ owner = [j \in Jobs |-> None]
  /\ phase = [j \in Jobs |-> "none"]

Texts(i) == reports[i].verified \cup reports[i].omitted

Reported(authors) ==
  UNION {Texts(i) : i \in {k \in DOMAIN reports : reports[k].author \in authors}}

Of(a) == {m \in arrived : AccountOf(m) = a}

Publish(author, verified, omitted) ==
  /\ verified \cap omitted = {}
  /\ verified \cup omitted # {}
  /\ reports' = Append(reports, [author |-> author, verified |-> verified,
                                 omitted |-> omitted])

Receive(m) ==
  /\ arrived' = arrived \cup {m}
  /\ UNCHANGED <<reports, owner, phase>>

Quiet(a) == \A k \in Jobs : owner[k] = a => phase[k] # "open"

Open(j, a) ==
  /\ phase[j] = "none"
  /\ Quiet(a)
  /\ phase' = [phase EXCEPT ![j] = "open"]
  /\ owner' = [owner EXCEPT ![j] = a]
  /\ UNCHANGED <<arrived, reports>>

(* Only the newest job of an account may be taken up again. *)
Reopen(j) ==
  /\ phase[j] = "failed"
  /\ \A k \in Jobs : owner[k] = owner[j] => k <= j
  /\ phase' = [phase EXCEPT ![j] = "open"]
  /\ UNCHANGED <<arrived, reports, owner>>

GiveUp(j) ==
  /\ phase[j] = "open"
  /\ phase' = [phase EXCEPT ![j] = "failed"]
  /\ UNCHANGED <<arrived, reports, owner>>

(* A job is done by the very step that publishes its report, about texts   *)
(* of its account that no other job has reported.                          *)
PublishJob(j) ==
  /\ phase[j] = "open"
  /\ \E verified, omitted \in SUBSET (Of(owner[j]) \ Reported(Jobs)) :
       Publish(j, verified, omitted)
  /\ phase' = [phase EXCEPT ![j] = "done"]
  /\ UNCHANGED <<arrived, owner>>

(* An individual report is about texts that no report has accounted for.   *)
PublishChat(r, a) ==
  /\ r \notin Jobs
  /\ \E verified \in SUBSET (Of(a) \ Reported(Authors)) : Publish(r, verified, {})
  /\ UNCHANGED <<arrived, owner, phase>>

Settle(j) == GiveUp(j) \/ PublishJob(j)

Next ==
  \/ \E m \in Messages : Receive(m)
  \/ \E j \in Jobs : Reopen(j) \/ Settle(j) \/ \E a \in Accounts : Open(j, a)
  \/ \E r \in Authors, a \in Accounts : PublishChat(r, a)

Spec == Init /\ [][Next]_vars

FairSpec == Spec /\ \A j \in Jobs : WF_vars(Settle(j))
=============================================================================
