--------------------------- MODULE ConnectionPool ---------------------------
(***************************************************************************)
(* The PostgreSQL connections of the backend: one pg Pool that hands them  *)
(* out in order of arrival and lets a request wait without limit, and two  *)
(* kinds of work that keep a connection for an advisory lock while they    *)
(* ask the same pool for another one: summaries (acquireSummaryLock) and   *)
(* deliveries of received messages (deliver). Each kind bounds itself to   *)
(* half of the pool, with a counter of its own in memory.                  *)
(***************************************************************************)
EXTENDS Integers, FiniteSets, Sequences

CONSTANTS
  PoolSize,   \* connections of the pool (10)
  Accounts,   \* WhatsApp accounts
  Summaries,  \* summaries, individual or of the queue, that may run together
  Deliveries, \* deliveries that may run together
  Queries,    \* other requests: one pool.query at a time
  Account     \* the account of each summary and delivery

Holders  == Summaries \cup Deliveries
Sessions == Holders \cup Queries

ASSUME PoolAssumption ==
  /\ PoolSize \in Nat \ {0}
  /\ Account \in [Holders -> Accounts]
  /\ Summaries \cap Deliveries = {} /\ Holders \cap Queries = {}
  /\ IsFiniteSet(Sessions)

VARIABLES
  at,      \* what each session does
  queue,   \* sessions that wait for a connection, first come first served
  counter, \* activeLocks and activeDeliveries
  lock     \* advisory locks: <<kind, account>> -> its session, or none

vars == <<at, queue, counter, lock>>

-----------------------------------------------------------------------------
Kinds == {"summary", "inbox"}
Kind(s) == IF s \in Summaries THEN "summary" ELSE "inbox"
Key(s)  == <<Kind(s), Account[s]>>
Cap     == IF PoolSize < 2 THEN 1 ELSE PoolSize \div 2

(* Sessions with the connection they asked for first, and with a second.   *)
Connected == {s \in Sessions : at[s] \in {"held", "locked", "needing", "borrowing", "query"}}
Borrowing == {s \in Sessions : at[s] = "borrowing"}
FreeCount == PoolSize - Cardinality(Connected) - Cardinality(Borrowing)

Init ==
  /\ at = [s \in Sessions |-> "out"]
  /\ queue = <<>>
  /\ counter = [k \in Kinds |-> 0]
  /\ lock = [x \in Kinds \X Accounts |-> {}]

Move(s, from, to) == at[s] = from /\ at' = [at EXCEPT ![s] = to]
Ask(s) == queue' = Append(queue, s)
Count(s, d) == counter' = [counter EXCEPT ![Kind(s)] = @ + d]

-----------------------------------------------------------------------------
(* acquireSummaryLock and deliver: at the limit the work is not started.   *)
BelowCap(s) == counter[Kind(s)] < Cap
Enter(s) ==
  /\ Move(s, "out", "asking")
  /\ BelowCap(s)
  /\ Count(s, 1) /\ Ask(s)
  /\ UNCHANGED lock

(* The pool serves the first in the queue. *)
Waits(s) == at[s] \in {"asking", "needing", "waiting"}
Served == [asking |-> "held", needing |-> "borrowing", waiting |-> "query"]
MutGrant ==
  /\ queue # <<>> /\ FreeCount > 0
  /\ at' = [at EXCEPT ![queue[Len(queue)]] = Served[@]]
  /\ queue' = SubSeq(queue, 1, Len(queue) - 1)
  /\ UNCHANGED <<counter, lock>>
Grant ==
  /\ queue # <<>> /\ FreeCount > 0
  /\ at' = [at EXCEPT ![Head(queue)] = Served[@]]
  /\ queue' = Tail(queue)
  /\ UNCHANGED <<counter, lock>>

(* A connection could not be opened: the one who asked gets the error.     *)
MutGrantFails ==
  /\ queue # <<>> /\ FreeCount > 0
  /\ LET s == Head(queue) IN
       at' = [at EXCEPT ![s] = IF at[s] = "needing" THEN "locked" ELSE "out"]
  /\ queue' = Tail(queue)
  /\ UNCHANGED <<counter, lock>>
GrantFails ==
  /\ queue # <<>> /\ FreeCount > 0
  /\ LET s == Head(queue) IN
       /\ at' = [at EXCEPT ![s] = IF at[s] = "needing" THEN "locked" ELSE "out"]
       /\ counter' = IF at[s] = "asking" THEN [counter EXCEPT ![Kind(s)] = @ - 1] ELSE counter
  /\ queue' = Tail(queue)
  /\ UNCHANGED lock

MutLockFree(s) == TRUE
LockFree(s) == lock[Key(s)] = {}
TakeLock(s) ==
  /\ Move(s, "held", "locked")
  /\ LockFree(s)
  /\ lock' = [lock EXCEPT ![Key(s)] = @ \cup {s}]
  /\ UNCHANGED <<queue, counter>>

(* The lock is held by another, or asking for it fails. *)
LeaveUnlocked(s) ==
  /\ Move(s, "held", "out")
  /\ Count(s, -1)
  /\ UNCHANGED <<queue, lock>>

(* Under the lock the work asks the pool: pool.query of prepare or persist.*)
Need(s) ==
  /\ Move(s, "locked", "needing")
  /\ Ask(s)
  /\ UNCHANGED <<counter, lock>>

GiveBack(s) ==
  /\ Move(s, "borrowing", "locked")
  /\ UNCHANGED <<queue, counter, lock>>

(* releaseSummaryLock, or the finally of deliverLocked: whether the unlock *)
(* succeeds or the connection is destroyed, the lock is free.              *)
Release(s) ==
  /\ Move(s, "locked", "out")
  /\ lock' = [lock EXCEPT ![Key(s)] = @ \ {s}]
  /\ Count(s, -1)
  /\ UNCHANGED queue

-----------------------------------------------------------------------------
(* Any other request: one connection for one query. *)
AskQuery(q) ==
  /\ Move(q, "out", "waiting")
  /\ Ask(q)
  /\ UNCHANGED <<counter, lock>>

EndQuery(q) ==
  /\ Move(q, "query", "out")
  /\ UNCHANGED <<queue, counter, lock>>

HolderStep(s) == TakeLock(s) \/ LeaveUnlocked(s) \/ Need(s) \/ GiveBack(s) \/ Release(s)

Next ==
  \/ Grant \/ GrantFails
  \/ \E s \in Holders : Enter(s) \/ HolderStep(s)
  \/ \E q \in Queries : AskQuery(q) \/ EndQuery(q)

Spec == Init /\ [][Next]_vars

(* Queries and other awaits end, and a free connection is handed out.      *)
FairSpec ==
  /\ Spec
  /\ WF_vars(Grant)
  /\ \A s \in Holders : WF_vars(HolderStep(s))
  /\ \A q \in Queries : WF_vars(EndQuery(q))

-----------------------------------------------------------------------------
Steps == {"out", "asking", "held", "locked", "needing", "borrowing", "waiting", "query"}

TypeOK ==
  /\ at \in [Sessions -> Steps]
  /\ queue \in Seq(Sessions)
  /\ counter \in [Kinds -> Nat]
  /\ lock \in [Kinds \X Accounts -> SUBSET Holders]

UnderWay(k) == {s \in Holders : Kind(s) = k /\ at[s] # "out"}

(* However connecting, locking and working fail, the counter of a kind says *)
(* how many of its sessions are under way, never more than half of the     *)
(* pool, and the locks say which of them work: a drift would stop the work *)
(* of a kind or an account for ever, or let it take the whole pool.        *)
CountersAreTrue ==
  /\ \A k \in Kinds : counter[k] = Cardinality(UnderWay(k)) /\ counter[k] <= Cap
  /\ \A s \in Holders : s \in lock[Key(s)] <=> at[s] \in {"locked", "needing", "borrowing"}

(* What QA_CIERRE_TECNICO_20260927.md claims of the queue: the connections *)
(* are not exhausted. When somebody waits, one is free or is in the hands  *)
(* of a session that is not waiting for another. It holds while two locks  *)
(* per account leave a connection; with half of the pool for each kind and *)
(* enough accounts, every connection ends up behind a session that waits.  *)
NotExhausted ==
  queue # <<>> =>
    FreeCount > 0 \/ \E s \in Connected : at[s] # "needing"

(* Whoever asks the pool for a connection is eventually served. *)
AskersAreServed ==
  \A s \in Sessions : Waits(s) ~> ~Waits(s)
=============================================================================
