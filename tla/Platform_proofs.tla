-------------------------- MODULE Platform_proofs --------------------------
(***************************************************************************)
(* Proofs about two parts of the backend that share nothing: the           *)
(* connections of PostgreSQL and the corpus of the protocol agent.         *)
(*                                                                         *)
(* A pool with more connections than two per account is never exhausted:   *)
(* every session that waits for a second connection holds the lock of its  *)
(* kind and account, and a lock has one holder.  And the counters of the   *)
(* pool are true, whatever fails.                                          *)
(***************************************************************************)
EXTENDS ConnectionPool, ProtocolCorpus, FunctionTheorems, FiniteSetTheorems, TLAPS

Working == {"locked", "needing", "borrowing"}

(* The inductive invariant: types, waiting sessions in the queue once, and *)
(* one holder per lock, who works.                                         *)
PoolTypes ==
  /\ at \in [Sessions -> Steps]
  /\ queue \in Seq(Sessions)
  /\ lock \in [Kinds \X Accounts -> SUBSET Holders]
QueueWaits == \A i \in 1..Len(queue) : Waits(queue[i])
QueueOnce  == \A i, j \in 1..Len(queue) : queue[i] = queue[j] => i = j
WorkLocked == \A s \in Sessions : at[s] \in Working => s \in Holders /\ s \in lock[Key(s)]
OneHolder  == \A x \in Kinds \X Accounts : \A s, t \in lock[x] : s = t
PoolInv == PoolTypes /\ QueueWaits /\ QueueOnce /\ WorkLocked /\ OneHolder

(* A session asks for one of the locks there are. *)
LEMMA KeyInRange == \A s \in Holders : Key(s) \in Kinds \X Accounts
BY PoolAssumption DEF Key, Kind, Kinds, Holders

(* A pool nobody has asked anything of. *)
LEMMA PoolInit == Init => PoolInv
BY DEF Init, PoolInv, PoolTypes, QueueWaits, QueueOnce, WorkLocked, OneHolder, Steps, Working

(* Serving or refusing the head of the queue leaves the rest waiting.      *)
LEMMA HeadLeaves ==
  ASSUME PoolInv, queue # <<>>, NEW v \in Steps, v \in Working => at[Head(queue)] \in Working,
         at' = [at EXCEPT ![Head(queue)] = v], queue' = Tail(queue), lock' = lock
  PROVE  PoolInv'
<1> DEFINE h == Head(queue)
<1>1. /\ h \in Sessions /\ h = queue[1] /\ 1 \in 1..Len(queue)
      /\ Len(queue') = Len(queue) - 1 /\ queue' \in Seq(Sessions) /\ Len(queue) \in Nat
      /\ \A i \in 1..Len(queue') : queue'[i] = queue[i + 1] /\ i + 1 \in 1..Len(queue)
  BY DEF PoolInv, PoolTypes
<1>2. PoolTypes'
  BY <1>1 DEF PoolInv, PoolTypes
<1>3. QueueWaits'
  <2>1. SUFFICES ASSUME NEW i \in 1..Len(queue')
                 PROVE  at'[queue'[i]] \in {"asking", "needing", "waiting"}
    BY DEF QueueWaits, Waits
  <2>2. queue[i + 1] # h /\ queue'[i] = queue[i + 1] /\ queue[i + 1] \in Sessions
    BY <1>1 DEF PoolInv, PoolTypes, QueueOnce
  <2>3. at'[queue[i + 1]] = at[queue[i + 1]]
    BY <2>2 DEF PoolInv, PoolTypes
  <2>4. Waits(queue[i + 1])
    BY <1>1 DEF PoolInv, QueueWaits
  <2> QED BY <2>2, <2>3, <2>4 DEF Waits
<1>4. QueueOnce'
  BY <1>1 DEF PoolInv, QueueOnce
<1>5. WorkLocked'
  <2>1. SUFFICES ASSUME NEW s \in Sessions, at'[s] \in Working
                 PROVE  s \in Holders /\ s \in lock[Key(s)]
    BY DEF WorkLocked
  <2>2. at[s] \in Working
    BY <1>1, <2>1 DEF PoolInv, PoolTypes
  <2> QED BY <2>2 DEF PoolInv, WorkLocked
<1>6. OneHolder'
  BY DEF PoolInv, OneHolder
<1> QED BY <1>2, <1>3, <1>4, <1>5, <1>6 DEF PoolInv

(* A session that was not waiting joins the queue. *)
LEMMA AskKeeps ==
  ASSUME PoolInv, NEW s \in Sessions, ~Waits(s), NEW v \in {"asking", "needing", "waiting"},
         v = "needing" => at[s] \in Working,
         at' = [at EXCEPT ![s] = v], queue' = Append(queue, s), lock' = lock
  PROVE  PoolInv'
<1>1. /\ Len(queue') = Len(queue) + 1 /\ Len(queue) \in Nat /\ queue' \in Seq(Sessions)
      /\ \A i \in 1..Len(queue) : queue'[i] = queue[i]
      /\ queue'[Len(queue) + 1] = s
  BY DEF PoolInv, PoolTypes
<1>2. \A i \in 1..Len(queue) : queue[i] # s /\ queue[i] \in Sessions /\ at'[queue[i]] = at[queue[i]]
  BY DEF PoolInv, PoolTypes, QueueWaits
<1>3. at'[s] = v
  BY DEF PoolInv, PoolTypes
<1>4. PoolTypes'
  BY <1>1 DEF PoolInv, PoolTypes, Steps
<1>5. QueueWaits'
  <2>1. SUFFICES ASSUME NEW i \in 1..Len(queue')
                 PROVE  at'[queue'[i]] \in {"asking", "needing", "waiting"}
    BY DEF QueueWaits, Waits
  <2>2. CASE i = Len(queue) + 1
    BY <1>1, <1>3, <2>2 DEF Waits
  <2>3. CASE i # Len(queue) + 1
    <3>1. i \in 1..Len(queue)
      BY <1>1, <2>1, <2>3
    <3>2. Waits(queue[i])
      BY <3>1 DEF PoolInv, QueueWaits
    <3> QED BY <1>1, <1>2, <3>1, <3>2 DEF Waits
  <2> QED BY <2>2, <2>3
<1>6. QueueOnce'
  BY <1>1, <1>2 DEF PoolInv, QueueOnce
<1>7. WorkLocked'
  BY <1>3 DEF PoolInv, PoolTypes, WorkLocked, Working
<1>8. OneHolder'
  BY DEF PoolInv, OneHolder
<1> QED BY <1>4, <1>5, <1>6, <1>7, <1>8 DEF PoolInv

(* A session outside the queue goes on without it. *)
LEMMA QueueKept ==
  ASSUME PoolInv, NEW s \in Sessions, ~Waits(s), NEW v \in Steps,
         at' = [at EXCEPT ![s] = v], queue' = queue
  PROVE  QueueWaits' /\ QueueOnce'
<1>1. \A i \in 1..Len(queue) : queue[i] # s /\ queue[i] \in Sessions /\ at'[queue[i]] = at[queue[i]]
  BY DEF PoolInv, PoolTypes, QueueWaits
<1> QED BY <1>1 DEF PoolInv, QueueWaits, QueueOnce, Waits

(* Every step of a session or of the pool keeps the invariant. *)
LEMMA PoolStep == PoolInv /\ [Next]_vars => PoolInv'
<1> SUFFICES ASSUME PoolInv, [Next]_vars PROVE PoolInv'
  OBVIOUS
<1> USE DEF Working
<1>1. ASSUME NEW s \in Holders, Enter(s) PROVE PoolInv'
  BY <1>1, AskKeeps DEF Enter, Move, Ask, Waits, Sessions
<1>2. CASE Grant
  <2>1. Waits(Head(queue)) /\ Head(queue) \in Sessions
    BY <1>2 DEF Grant, PoolInv, PoolTypes, QueueWaits
  <2> DEFINE v == Served[at[Head(queue)]]
  <2>2. v \in Steps /\ (v \in Working => at[Head(queue)] \in Working)
    BY <2>1 DEF Served, Waits, Steps
  <2>3. at' = [at EXCEPT ![Head(queue)] = v]
    BY <1>2, <2>1 DEF Grant, PoolInv, PoolTypes
  <2> HIDE DEF v
  <2> QED BY <1>2, <2>2, <2>3, HeadLeaves DEF Grant
<1>3. CASE GrantFails
  <2> DEFINE v == IF at[Head(queue)] = "needing" THEN "locked" ELSE "out"
  <2>1. v \in Steps /\ (v \in Working => at[Head(queue)] \in Working)
    BY DEF Steps
  <2>2. at' = [at EXCEPT ![Head(queue)] = v]
    BY <1>3 DEF GrantFails
  <2> HIDE DEF v
  <2> QED BY <1>3, <2>1, <2>2, HeadLeaves DEF GrantFails
<1>4. ASSUME NEW s \in Holders, TakeLock(s) PROVE PoolInv'
  <2>1. s \in Sessions /\ ~Waits(s) /\ Key(s) \in Kinds \X Accounts
    BY <1>4, KeyInRange DEF TakeLock, Move, Waits, Sessions
  <2>2. QueueWaits' /\ QueueOnce'
    BY <1>4, <2>1, QueueKept DEF TakeLock, Move, Steps
  <2>3. PoolTypes'
    BY <1>4, <2>1 DEF TakeLock, Move, PoolInv, PoolTypes, Steps
  <2>4. WorkLocked'
    <3>1. SUFFICES ASSUME NEW t \in Sessions, at'[t] \in Working
                   PROVE  t \in Holders /\ t \in lock'[Key(t)]
      BY DEF WorkLocked
    <3>2. CASE t = s
      BY <1>4, <2>1, <3>2 DEF TakeLock, PoolInv, PoolTypes
    <3>3. CASE t # s
      <4>1. at[t] \in Working
        BY <1>4, <3>1, <3>3 DEF TakeLock, Move, PoolInv, PoolTypes
      <4>2. t \in Holders /\ t \in lock[Key(t)] /\ Key(t) \in Kinds \X Accounts
        BY <4>1, KeyInRange DEF PoolInv, WorkLocked
      <4> QED BY <1>4, <2>1, <4>2 DEF TakeLock, PoolInv, PoolTypes
    <3> QED BY <3>2, <3>3
  <2>5. OneHolder'
    BY <1>4, <2>1 DEF TakeLock, LockFree, PoolInv, PoolTypes, OneHolder
  <2> QED BY <2>2, <2>3, <2>4, <2>5 DEF PoolInv
<1>5. ASSUME NEW s \in Holders, LeaveUnlocked(s) PROVE PoolInv'
  <2>1. s \in Sessions /\ ~Waits(s)
    BY <1>5 DEF LeaveUnlocked, Move, Waits, Sessions
  <2>2. QueueWaits' /\ QueueOnce'
    BY <1>5, <2>1, QueueKept DEF LeaveUnlocked, Move, Steps
  <2> QED BY <1>5, <2>1, <2>2 DEF LeaveUnlocked, Move, PoolInv, PoolTypes, WorkLocked, OneHolder, Steps
<1>6. ASSUME NEW s \in Holders, Need(s) PROVE PoolInv'
  BY <1>6, AskKeeps DEF Need, Move, Ask, Waits, Sessions
<1>7. ASSUME NEW s \in Holders, GiveBack(s) PROVE PoolInv'
  <2>1. s \in Sessions /\ ~Waits(s)
    BY <1>7 DEF GiveBack, Move, Waits, Sessions
  <2>2. QueueWaits' /\ QueueOnce'
    BY <1>7, <2>1, QueueKept DEF GiveBack, Move, Steps
  <2> QED BY <1>7, <2>1, <2>2 DEF GiveBack, Move, PoolInv, PoolTypes, WorkLocked, OneHolder, Steps
<1>8. ASSUME NEW s \in Holders, Release(s) PROVE PoolInv'
  <2>1. s \in Sessions /\ ~Waits(s) /\ Key(s) \in Kinds \X Accounts
    BY <1>8, KeyInRange DEF Release, Move, Waits, Sessions
  <2>2. QueueWaits' /\ QueueOnce'
    BY <1>8, <2>1, QueueKept DEF Release, Move, Steps
  <2>3. PoolTypes'
    BY <1>8, <2>1 DEF Release, Move, PoolInv, PoolTypes, Steps
  <2>4. WorkLocked'
    <3>1. SUFFICES ASSUME NEW t \in Sessions, at'[t] \in Working
                   PROVE  t \in Holders /\ t \in lock'[Key(t)]
      BY DEF WorkLocked
    <3>2. t # s /\ at[t] \in Working
      BY <1>8, <2>1, <3>1 DEF Release, Move, PoolInv, PoolTypes
    <3>3. t \in Holders /\ t \in lock[Key(t)] /\ Key(t) \in Kinds \X Accounts
      BY <3>2, KeyInRange DEF PoolInv, WorkLocked
    <3> QED BY <1>8, <2>1, <3>2, <3>3 DEF Release, PoolInv, PoolTypes
  <2>5. OneHolder'
    BY <1>8, <2>1 DEF Release, PoolInv, PoolTypes, OneHolder
  <2> QED BY <2>2, <2>3, <2>4, <2>5 DEF PoolInv
<1>9. ASSUME NEW q \in Queries, AskQuery(q) PROVE PoolInv'
  BY <1>9, AskKeeps DEF AskQuery, Move, Ask, Waits, Sessions
<1>10. ASSUME NEW q \in Queries, EndQuery(q) PROVE PoolInv'
  <2>1. q \in Sessions /\ ~Waits(q)
    BY <1>10 DEF EndQuery, Move, Waits, Sessions
  <2>2. QueueWaits' /\ QueueOnce'
    BY <1>10, <2>1, QueueKept DEF EndQuery, Move, Steps
  <2> QED BY <1>10, <2>1, <2>2 DEF EndQuery, Move, PoolInv, PoolTypes, WorkLocked, OneHolder, Steps
<1>11. CASE UNCHANGED vars
  BY <1>11 DEF vars, PoolInv, PoolTypes, QueueWaits, QueueOnce, WorkLocked, OneHolder, Waits
<1> QED BY <1>1, <1>2, <1>3, <1>4, <1>5, <1>6, <1>7, <1>8, <1>9, <1>10, <1>11 DEF Next, HolderStep

(* Sessions stuck for a second connection hold different locks, and there  *)
(* are two locks per account.                                              *)
LEMMA FewWaiters ==
  ASSUME PoolInv, IsFiniteSet(Accounts), 2 * Cardinality(Accounts) < PoolSize
  PROVE  NotExhausted
<1> SUFFICES ASSUME ~(FreeCount > 0), \A s \in Connected : at[s] = "needing"
             PROVE  FALSE
  BY DEF NotExhausted
<1> DEFINE f == [s \in Connected |-> Key(s)]
<1>1. \A s \in Connected : s \in Holders /\ s \in lock[Key(s)] /\ Key(s) \in Kinds \X Accounts
  BY KeyInRange DEF Connected, PoolInv, WorkLocked, Working
<1>2. f \in Injection(Connected, Kinds \X Accounts)
  <2>1. f \in [Connected -> Kinds \X Accounts]
    BY <1>1
  <2>2. \A s, t \in Connected : f[s] = f[t] => s = t
    BY <1>1 DEF PoolInv, OneHolder
  <2> QED BY <2>1, <2>2, Fun_IsInj
<1>3. IsFiniteSet(Kinds) /\ Cardinality(Kinds) = 2
  <2>1. IsFiniteSet({"summary"}) /\ Cardinality({"summary"}) = 1
    BY FS_Singleton
  <2>2. Kinds = {"summary"} \cup {"inbox"} /\ "inbox" \notin {"summary"}
    BY DEF Kinds
  <2> QED BY <2>1, <2>2, FS_AddElement
<1>4. IsFiniteSet(Kinds \X Accounts) /\ Cardinality(Kinds \X Accounts) = 2 * Cardinality(Accounts)
  BY <1>3, FS_Product
<1>5. IsFiniteSet(Connected) /\ Cardinality(Connected) <= 2 * Cardinality(Accounts)
  BY <1>2, <1>4, FS_Injection
<1>6. Borrowing = {}
  BY DEF Borrowing, Connected
<1>7. Cardinality(Borrowing) = 0
  BY <1>6, FS_EmptySet
<1>8. Cardinality(Connected) \in Nat /\ Cardinality(Accounts) \in Nat
  BY <1>5, FS_CardinalityType
<1> QED BY <1>5, <1>7, <1>8, PoolAssumption DEF FreeCount

(* While two locks per account leave a connection over, whoever waits can  *)
(* count on one that is free or on its way back: the sessions that hold a  *)
(* lock and wait for a second connection, acquireSummaryLock's and         *)
(* deliver's, never have all of them.                                      *)
THEOREM PoolLasts ==
  ASSUME IsFiniteSet(Accounts), 2 * Cardinality(Accounts) < PoolSize
  PROVE  Spec => []NotExhausted
<1>1. PoolInv => NotExhausted
  BY FewWaiters
<1> QED BY <1>1, PoolInit, PoolStep, PTL DEF Spec

-----------------------------------------------------------------------------
(* Who holds a connection for a lock or asks for one, as against a query;   *)
(* the locks and the counters that say so.                                  *)
ByKind ==
  \A s \in Sessions :
    /\ at[s] \in {"waiting", "query"} => s \in Queries
    /\ at[s] \in {"asking", "held"} \cup Working => s \in Holders
LocksSayWho == \A s \in Holders : s \in lock[Key(s)] <=> at[s] \in Working
Counted ==
  /\ counter \in [Kinds -> Nat]
  /\ \A k \in Kinds : counter[k] = Cardinality(UnderWay(k)) /\ counter[k] <= Cap
CountInv == PoolInv /\ ByKind /\ LocksSayWho /\ Counted

LEMMA FewHolders == \A k \in Kinds : IsFiniteSet(UnderWay(k)) /\ Cardinality(UnderWay(k)) \in Nat
<1>1. \A k \in Kinds : UnderWay(k) \in SUBSET Sessions
  BY DEF UnderWay, Sessions
<1> QED BY <1>1, PoolAssumption, FS_Subset, FS_CardinalityType

LEMMA KindInRange == \A s \in Holders : Kind(s) \in Kinds
BY DEF Kind, Kinds

(* The counter goes up with the session that starts.                        *)
LEMMA CountUp ==
  ASSUME PoolTypes, Counted, NEW s \in Holders, at[s] = "out", BelowCap(s),
         at' = [at EXCEPT ![s] = "asking"], Count(s, 1)
  PROVE  Counted'
<1>1. s \in Sessions /\ Kind(s) \in Kinds /\ at \in [Sessions -> Steps] /\ counter \in [Kinds -> Nat]
  BY KindInRange DEF Sessions, PoolTypes, Counted
<1>2. counter' \in [Kinds -> Nat]
  BY <1>1 DEF Count
<1>3. ASSUME NEW k \in Kinds PROVE counter'[k] = Cardinality(UnderWay(k)') /\ counter'[k] <= Cap
  <2>1. s \notin UnderWay(k)
    BY DEF UnderWay
  <2>2. CASE k = Kind(s)
    <3>1. UnderWay(k)' = UnderWay(k) \cup {s}
      BY <1>1, <2>2 DEF UnderWay, Sessions, Kind
    <3>2. Cardinality(UnderWay(k)') = Cardinality(UnderWay(k)) + 1
      BY <2>1, <3>1, FewHolders, FS_AddElement
    <3>3. counter'[k] = counter[k] + 1 /\ counter[k] < Cap /\ Cap \in Int
      BY <1>1, <2>2, PoolAssumption DEF Count, BelowCap, Cap
    <3> QED BY <1>1, <3>2, <3>3 DEF Counted
  <2>3. CASE k # Kind(s)
    <3>1. UnderWay(k)' = UnderWay(k)
      BY <1>1, <2>3 DEF UnderWay, Sessions, Kind
    <3> QED BY <1>1, <2>3, <3>1 DEF Count, Counted
  <2> QED BY <2>2, <2>3
<1> QED BY <1>2, <1>3 DEF Counted

(* It goes down with the one that ends.                                     *)
LEMMA CountDown ==
  ASSUME PoolTypes, Counted, NEW s \in Holders, at[s] # "out",
         at' = [at EXCEPT ![s] = "out"], Count(s, -1)
  PROVE  Counted'
<1>1. s \in Sessions /\ Kind(s) \in Kinds /\ at \in [Sessions -> Steps] /\ counter \in [Kinds -> Nat]
  BY KindInRange DEF Sessions, PoolTypes, Counted
<1>2. ASSUME NEW k \in Kinds
      PROVE  counter'[k] = Cardinality(UnderWay(k)') /\ counter'[k] <= Cap /\ counter'[k] \in Nat
  <2>1. CASE k = Kind(s)
    <3>1. UnderWay(k)' = UnderWay(k) \ {s} /\ s \in UnderWay(k)
      BY <1>1, <2>1 DEF UnderWay, Sessions, Kind
    <3>2. Cardinality(UnderWay(k)') = Cardinality(UnderWay(k)) - 1 /\ IsFiniteSet(UnderWay(k)')
      BY <3>1, FewHolders, FS_RemoveElement
    <3>3. Cardinality(UnderWay(k)') \in Nat
      BY <3>2, FS_CardinalityType
    <3>4. counter'[k] = counter[k] - 1 /\ Cap \in Int
      BY <1>1, <2>1, PoolAssumption DEF Count, Cap
    <3> QED BY <1>1, <3>2, <3>3, <3>4 DEF Counted
  <2>2. CASE k # Kind(s)
    <3>1. UnderWay(k)' = UnderWay(k)
      BY <1>1, <2>2 DEF UnderWay, Sessions, Kind
    <3> QED BY <1>1, <2>2, <3>1 DEF Count, Counted
  <2> QED BY <2>1, <2>2
<1>3. counter' = [k \in Kinds |-> counter'[k]]
  BY <1>1 DEF Count
<1> QED BY <1>2, <1>3 DEF Counted

LEMMA CountSame ==
  ASSUME Counted, counter' = counter, \A t \in Holders : at'[t] = "out" <=> at[t] = "out"
  PROVE  Counted'
<1>1. \A k \in Kinds : UnderWay(k)' = UnderWay(k)
  BY DEF UnderWay, Kind
<1> QED BY <1>1 DEF Counted

LEMMA CountInit == Init => CountInv
<1> SUFFICES ASSUME Init PROVE CountInv
  OBVIOUS
<1>1. PoolInv
  BY PoolInit
<1>2. ByKind /\ LocksSayWho
  BY KeyInRange DEF Init, ByKind, LocksSayWho, Working, Sessions
<1>3. \A k \in Kinds : UnderWay(k) = {}
  BY DEF Init, UnderWay, Sessions
<1>4. \A k \in Kinds : Cardinality(UnderWay(k)) = 0
  BY <1>3, FS_EmptySet
<1>5. counter \in [Kinds -> Nat] /\ (\A k \in Kinds : counter[k] = 0) /\ 0 <= Cap
  BY PoolAssumption DEF Init, Cap
<1> QED BY <1>1, <1>2, <1>4, <1>5 DEF CountInv, Counted

(* The one at the head of the queue waits: what for says who it is.         *)
LEMMA HeadWaits ==
  ASSUME PoolInv, ByKind, queue # <<>>
  PROVE  /\ Head(queue) \in Sessions
         /\ \/ at[Head(queue)] \in {"asking", "needing"} /\ Head(queue) \in Holders
            \/ at[Head(queue)] = "waiting" /\ Head(queue) \in Queries /\ Head(queue) \notin Holders
<1>1. Head(queue) \in Sessions /\ Waits(Head(queue))
  BY DEF PoolInv, PoolTypes, QueueWaits
<1> QED BY <1>1, PoolAssumption DEF ByKind, Waits, Working

LEMMA CountStep == CountInv /\ [Next]_vars => CountInv'
<1> SUFFICES ASSUME PoolInv, ByKind, LocksSayWho, Counted, [Next]_vars
             PROVE  ByKind' /\ LocksSayWho' /\ Counted'
  BY PoolStep DEF CountInv
<1> USE DEF Working
<1>0. /\ at \in [Sessions -> Steps] /\ lock \in [Kinds \X Accounts -> SUBSET Holders]
      /\ PoolTypes /\ \A s \in Holders : s \in Sessions /\ Key(s) \in Kinds \X Accounts
  BY KeyInRange DEF PoolInv, PoolTypes, Sessions
<1>1. ASSUME NEW s \in Holders, Enter(s) PROVE ByKind' /\ LocksSayWho' /\ Counted'
  <2>1. ByKind' /\ LocksSayWho'
    BY <1>0, <1>1 DEF Enter, Move, ByKind, LocksSayWho, Key, Kind
  <2> QED BY <1>0, <1>1, <2>1, CountUp DEF Enter, Move
<1>2. CASE Grant
  <2> DEFINE h == Head(queue)
  <2>1. /\ at' = [at EXCEPT ![h] = Served[at[h]]] /\ lock' = lock /\ counter' = counter
        /\ queue # <<>>
    BY <1>2 DEF Grant
  <2>2. \/ h \in Holders /\ h \in Sessions /\ at[h] = "asking" /\ at' = [at EXCEPT ![h] = "held"]
        \/ h \in Holders /\ h \in Sessions /\ at[h] = "needing" /\ at' = [at EXCEPT ![h] = "borrowing"]
        \/ h \in Queries /\ h \in Sessions /\ h \notin Holders /\ at' = [at EXCEPT ![h] = "query"]
    <3>1. \/ h \in Holders /\ h \in Sessions /\ at[h] = "asking"
          \/ h \in Holders /\ h \in Sessions /\ at[h] = "needing"
          \/ h \in Queries /\ h \in Sessions /\ h \notin Holders /\ at[h] = "waiting"
      BY <2>1, HeadWaits
    <3>2. Served["asking"] = "held" /\ Served["needing"] = "borrowing" /\ Served["waiting"] = "query"
      BY DEF Served
    <3> HIDE DEF h
    <3> QED BY <2>1, <3>1, <3>2
  <2> HIDE DEF h
  <2>3. ByKind' /\ LocksSayWho'
    BY <1>0, <2>1, <2>2 DEF ByKind, LocksSayWho, Key, Kind
  <2>4. \A t \in Holders : at'[t] = "out" <=> at[t] = "out"
    BY <1>0, <2>2
  <2> QED BY <2>1, <2>3, <2>4, CountSame
<1>3. CASE GrantFails
  <2> DEFINE h == Head(queue)
  <2>1. /\ at' = [at EXCEPT ![h] = IF at[h] = "needing" THEN "locked" ELSE "out"] /\ lock' = lock
        /\ counter' = IF at[h] = "asking" THEN [counter EXCEPT ![Kind(h)] = @ - 1] ELSE counter
        /\ queue # <<>>
    BY <1>3 DEF GrantFails
  <2>2. \/ h \in Holders /\ h \in Sessions /\ at[h] = "asking"
        \/ h \in Holders /\ h \in Sessions /\ at[h] = "needing"
        \/ h \in Queries /\ h \in Sessions /\ h \notin Holders /\ at[h] = "waiting"
    BY <2>1, HeadWaits
  <2> HIDE DEF h
  <2>3. CASE h \in Holders /\ h \in Sessions /\ at[h] = "asking"
    <3>1. at' = [at EXCEPT ![h] = "out"] /\ Count(h, -1)
      <4>1. counter' = [counter EXCEPT ![Kind(h)] = counter[Kind(h)] + (-1)]
        <5>1. counter[Kind(h)] - 1 = counter[Kind(h)] + (-1)
          BY <2>3, KindInRange DEF Counted
        <5> QED BY <2>1, <2>3, <5>1
      <4> QED BY <2>1, <2>3, <4>1 DEF Count
    <3>2. Counted'
      BY <1>0, <2>3, <3>1, CountDown
    <3> QED BY <1>0, <2>1, <2>3, <3>1, <3>2 DEF ByKind, LocksSayWho, Key, Kind
  <2>4. CASE h \in Holders /\ h \in Sessions /\ at[h] = "needing"
    <3>1. at' = [at EXCEPT ![h] = "locked"] /\ counter' = counter
      BY <2>1, <2>4
    <3>2. Counted'
      BY <1>0, <2>4, <3>1, CountSame
    <3> QED BY <1>0, <2>1, <2>4, <3>1, <3>2 DEF ByKind, LocksSayWho, Key, Kind
  <2>5. CASE h \in Queries /\ h \in Sessions /\ h \notin Holders /\ at[h] = "waiting"
    <3>1. at' = [at EXCEPT ![h] = "out"] /\ counter' = counter
      BY <2>1, <2>5
    <3>2. Counted'
      BY <1>0, <2>5, <3>1, CountSame
    <3> QED BY <1>0, <2>1, <2>5, <3>1, <3>2 DEF ByKind, LocksSayWho, Key, Kind
  <2> QED BY <2>2, <2>3, <2>4, <2>5
<1>4. ASSUME NEW s \in Holders, TakeLock(s) PROVE ByKind' /\ LocksSayWho' /\ Counted'
  <2>1. at[s] = "held" /\ at' = [at EXCEPT ![s] = "locked"] /\ counter' = counter
        /\ lock' = [lock EXCEPT ![Key(s)] = @ \cup {s}]
    BY <1>4 DEF TakeLock, Move
  <2>2. ByKind' /\ Counted'
    BY <1>0, <2>1, CountSame DEF ByKind
  <2>3. ASSUME NEW t \in Holders PROVE t \in lock'[Key(t)] <=> at'[t] \in {"locked", "needing", "borrowing"}
    <3>1. t \in lock[Key(t)] <=> at[t] \in {"locked", "needing", "borrowing"}
      BY DEF LocksSayWho
    <3>2. CASE t = s
      BY <1>0, <2>1, <3>2
    <3>3. CASE t # s
      BY <1>0, <2>1, <3>1, <3>3
    <3> QED BY <3>2, <3>3
  <2>4. LocksSayWho'
    BY <2>3 DEF LocksSayWho, Key, Kind
  <2> QED BY <2>2, <2>4
<1>5. ASSUME NEW s \in Holders, LeaveUnlocked(s) PROVE ByKind' /\ LocksSayWho' /\ Counted'
  <2>1. ByKind' /\ LocksSayWho'
    BY <1>0, <1>5 DEF LeaveUnlocked, Move, ByKind, LocksSayWho, Key, Kind
  <2> QED BY <1>0, <1>5, <2>1, CountDown DEF LeaveUnlocked, Move
<1>6. ASSUME NEW s \in Holders, Need(s) \/ GiveBack(s) PROVE ByKind' /\ LocksSayWho' /\ Counted'
  <2>1. /\ at[s] \in {"locked", "borrowing"} /\ lock' = lock /\ counter' = counter
        /\ at' = [at EXCEPT ![s] = "needing"] \/ at' = [at EXCEPT ![s] = "locked"]
    BY <1>6 DEF Need, GiveBack, Move
  <2>2. ByKind' /\ LocksSayWho'
    BY <1>0, <2>1 DEF ByKind, LocksSayWho, Key, Kind
  <2> QED BY <1>0, <2>1, <2>2, CountSame
<1>7. ASSUME NEW s \in Holders, Release(s) PROVE ByKind' /\ LocksSayWho' /\ Counted'
  <2>1. at[s] = "locked" /\ at' = [at EXCEPT ![s] = "out"] /\ Count(s, -1)
        /\ lock' = [lock EXCEPT ![Key(s)] = @ \ {s}]
    BY <1>7 DEF Release, Move
  <2>2. ByKind' /\ Counted'
    BY <1>0, <2>1, CountDown DEF ByKind
  <2>3. ASSUME NEW t \in Holders PROVE t \in lock'[Key(t)] <=> at'[t] \in {"locked", "needing", "borrowing"}
    <3>1. t \in lock[Key(t)] <=> at[t] \in {"locked", "needing", "borrowing"}
      BY DEF LocksSayWho
    <3>2. CASE t = s
      BY <1>0, <2>1, <3>2
    <3>3. CASE t # s
      BY <1>0, <2>1, <3>1, <3>3
    <3> QED BY <3>2, <3>3
  <2>4. LocksSayWho'
    BY <2>3 DEF LocksSayWho, Key, Kind
  <2> QED BY <2>2, <2>4
<1>8. ASSUME NEW q \in Queries, AskQuery(q) \/ EndQuery(q) PROVE ByKind' /\ LocksSayWho' /\ Counted'
  <2>1. /\ q \in Sessions /\ q \notin Holders /\ lock' = lock /\ counter' = counter
        /\ at' = [at EXCEPT ![q] = "waiting"] \/ at' = [at EXCEPT ![q] = "out"]
    BY <1>8, PoolAssumption DEF AskQuery, EndQuery, Move, Sessions
  <2>2. ByKind' /\ LocksSayWho'
    BY <1>0, <1>8, <2>1 DEF ByKind, LocksSayWho, Key, Kind
  <2> QED BY <1>0, <2>1, <2>2, CountSame
<1>9. CASE UNCHANGED vars
  <2>1. at' = at /\ lock' = lock /\ counter' = counter
    BY <1>9 DEF vars
  <2>2. ByKind' /\ LocksSayWho'
    BY <2>1 DEF ByKind, LocksSayWho, Key, Kind
  <2> QED BY <2>1, <2>2, CountSame
<1> QED BY <1>1, <1>2, <1>3, <1>4, <1>5, <1>6, <1>7, <1>8, <1>9 DEF Next, HolderStep

LEMMA CountInvariant == Spec => []CountInv
BY CountInit, CountStep, PTL DEF Spec

(* The variables of the pool keep their types. *)
THEOREM PoolTypesKept == Spec => []TypeOK
<1>1. CountInv => TypeOK
  BY DEF CountInv, PoolInv, PoolTypes, Counted, TypeOK
<1> QED BY <1>1, CountInvariant, PTL

(* activeLocks and activeDeliveries count exactly the work under way, never *)
(* more than half of the pool, and the advisory locks are of who works: for *)
(* any pool, any accounts and any number of summaries, deliveries and       *)
(* queries, however connecting and locking fail.                            *)
THEOREM CountersTrue == Spec => []CountersAreTrue
<1>1. CountInv => CountersAreTrue
  BY DEF CountInv, Counted, LocksSayWho, CountersAreTrue, Working
<1> QED BY <1>1, CountInvariant, PTL

-----------------------------------------------------------------------------
(* What is published of the protocols is whole, for any documents, pages,  *)
(* processes, changes and failures.                                        *)
(* What may be said of a document: a text no older than the revision it is *)
(* quoted as, each page transcribed from its own image.                    *)
Entry  == [revision : Nat, text : Nat, true : BOOLEAN]
Sound  == {e \in Entry : e.text >= e.revision /\ e.true}
Corpora  == UNION {[S -> Sound] : S \in SUBSET Docs}
Listings == UNION {[S -> Nat] : S \in SUBSET Docs}
Images   == UNION {[S -> Nat] : S \in SUBSET Pages}
Papers   == [doc : SUBSET Docs, text : Nat, images : Images, left : SUBSET Pages, true : BOOLEAN]

FolderTypes ==
  /\ inside \subseteq Docs /\ Fixed \subseteq inside
  /\ version \in [Docs -> Nat] /\ image \in [Pages -> Nat]
LocalTypes ==
  /\ sync \in [Processes -> {"idle", "start", "listed", "reading"}]
  /\ previous \in [Processes -> Corpora] /\ accepted \in [Processes -> Corpora]
  /\ listing \in [Processes -> Listings] /\ reading \in [Processes -> Papers]
  /\ failed \in [Processes -> BOOLEAN]

(* A list is never ahead of Drive, so what is downloaded later is no older.*)
ListedBefore(w) == \A d \in Entries(w) : listing[w][d] <= version[d]
ReadIsTrue(w) ==
  sync[w] = "reading" =>
    \E d \in Entries(w) :
      reading[w].doc = {d} /\ reading[w].text >= listing[w][d] /\ reading[w].true

(* What never left the folder was read or is still to be read, unless the  *)
(* synchronisation knows that it missed something.                         *)
FixedAreSeen(w) ==
  sync[w] \in {"listed", "reading"} /\ ~failed[w] =>
    Fixed \subseteq DOMAIN accepted[w] \cup Entries(w)

Published == corpus \in Corpora /\ (corpus # Nothing => Fixed \subseteq DOMAIN corpus)

CorpusInv ==
  /\ FolderTypes /\ LocalTypes /\ Published
  /\ \A w \in Processes : ListedBefore(w) /\ ReadIsTrue(w) /\ FixedAreSeen(w)

-----------------------------------------------------------------------------
(* A corpus knows its documents; adding a sound entry leaves a corpus.     *)
LEMMA KnowsItsDocuments ==
  ASSUME NEW f \in Corpora
  PROVE  DOMAIN f \subseteq Docs /\ \A d \in DOMAIN f : f[d] \in Sound
BY DEF Corpora

LEMMA NothingIsACorpus == Nothing \in Corpora /\ Nothing \in Listings /\ DOMAIN Nothing = {}
<1>1. Nothing \in [{} -> Sound] /\ Nothing \in [{} -> Nat] /\ DOMAIN Nothing = {}
  BY DEF Nothing
<1> QED BY <1>1 DEF Corpora, Listings

LEMMA NoPaperIsAPaper == NoPaper \in Papers
<1>1. Nothing \in [{} -> Nat]
  BY DEF Nothing
<1>2. Nothing \in Images
  BY <1>1 DEF Images
<1> QED BY <1>2 DEF NoPaper, Papers

Added(f, d, e) == [x \in DOMAIN f \cup {d} |-> IF x = d THEN e ELSE f[x]]
LEMMA AddedIsACorpus ==
  ASSUME NEW f \in Corpora, NEW d \in Docs, NEW e \in Sound
  PROVE  Added(f, d, e) \in Corpora /\ DOMAIN Added(f, d, e) = DOMAIN f \cup {d}
<1>1. DOMAIN f \subseteq Docs /\ \A x \in DOMAIN f : f[x] \in Sound
  BY KnowsItsDocuments
<1>2. Added(f, d, e) \in [DOMAIN f \cup {d} -> Sound] /\ DOMAIN Added(f, d, e) = DOMAIN f \cup {d}
  BY <1>1 DEF Added
<1>3. DOMAIN f \cup {d} \in SUBSET Docs
  BY <1>1
<1> QED BY <1>2, <1>3 DEF Corpora

LEMMA ListingKnows ==
  ASSUME NEW f \in Listings
  PROVE  DOMAIN f \subseteq Docs /\ \A d \in DOMAIN f : f[d] \in Nat
BY DEF Listings

LEMMA RestrictedIsAListing ==
  ASSUME NEW f, NEW S \in SUBSET Docs, \A d \in S : f[d] \in Nat
  PROVE  /\ Restrict(f, S) \in Listings /\ DOMAIN Restrict(f, S) = S
         /\ \A d \in S : Restrict(f, S)[d] = f[d]
<1>1. /\ Restrict(f, S) \in [S -> Nat] /\ DOMAIN Restrict(f, S) = S
      /\ \A d \in S : Restrict(f, S)[d] = f[d]
  BY DEF Restrict
<1> QED BY <1>1 DEF Listings

(* The documents listed are documents, and what is left after taking one   *)
(* off is a list.                                                          *)
LEMMA TakenOff ==
  ASSUME LocalTypes, NEW w \in Processes, NEW d \in Docs, TakeOff(w, d)
  PROVE  /\ listing' \in [Processes -> Listings]
         /\ DOMAIN listing'[w] = Entries(w) \ {d}
         /\ \A x \in DOMAIN listing'[w] : listing'[w][x] = listing[w][x]
         /\ \A v \in Processes \ {w} : listing'[v] = listing[v]
<1> DEFINE rest == Restrict(listing[w], Entries(w) \ {d})
<1>1. listing[w] \in Listings
  BY DEF LocalTypes
<1>2. Entries(w) \ {d} \in SUBSET Docs /\ \A x \in Entries(w) \ {d} : listing[w][x] \in Nat
  BY <1>1, ListingKnows DEF Entries
<1>3. /\ rest \in Listings /\ DOMAIN rest = Entries(w) \ {d}
      /\ \A x \in Entries(w) \ {d} : rest[x] = listing[w][x]
  BY <1>2, RestrictedIsAListing
<1>4. listing' = [listing EXCEPT ![w] = rest]
  BY DEF TakeOff
<1> HIDE DEF rest
<1> QED BY <1>3, <1>4 DEF LocalTypes

LEMMA AcceptedMore ==
  ASSUME LocalTypes, NEW w \in Processes, NEW d \in Docs, NEW e \in Sound, Accept(w, d, e)
  PROVE  /\ accepted' \in [Processes -> Corpora]
         /\ DOMAIN accepted'[w] = DOMAIN accepted[w] \cup {d}
         /\ \A v \in Processes \ {w} : accepted'[v] = accepted[v]
<1>1. accepted[w] \in Corpora
  BY DEF LocalTypes
<1>2. Added(accepted[w], d, e) \in Corpora /\ DOMAIN Added(accepted[w], d, e) = DOMAIN accepted[w] \cup {d}
  BY <1>1, AddedIsACorpus
<1>3. accepted' = [accepted EXCEPT ![w] = Added(accepted[w], d, e)]
  BY DEF Accept, Added
<1> QED BY <1>2, <1>3 DEF LocalTypes

(* Nothing a process has changes in a step of another.                     *)
Apart(v) ==
  /\ sync'[v] = sync[v] /\ accepted'[v] = accepted[v] /\ listing'[v] = listing[v]
  /\ reading'[v] = reading[v] /\ failed'[v] = failed[v]
Faithful(w) == ListedBefore(w) /\ ReadIsTrue(w) /\ FixedAreSeen(w)
LEMMA OthersKeep ==
  ASSUME NEW v, Faithful(v), Apart(v), version' = version
  PROVE  Faithful(v)'
BY DEF Faithful, Apart, ListedBefore, ReadIsTrue, FixedAreSeen, Entries

-----------------------------------------------------------------------------
(* The corpus is empty when the backend is installed.                      *)
LEMMA CorpusStarts == CorpusInit => CorpusInv
<1> SUFFICES ASSUME CorpusInit PROVE CorpusInv
  OBVIOUS
<1>1. FolderTypes
  BY CorpusAssumption DEF CorpusInit, FolderTypes
<1>2. LocalTypes
  BY NothingIsACorpus, NoPaperIsAPaper DEF CorpusInit, LocalTypes
<1>3. Published
  BY NothingIsACorpus DEF CorpusInit, Published
<1>4. ASSUME NEW w \in Processes PROVE ListedBefore(w) /\ ReadIsTrue(w) /\ FixedAreSeen(w)
  BY NothingIsACorpus DEF CorpusInit, ListedBefore, ReadIsTrue, FixedAreSeen, Entries
<1> QED BY <1>1, <1>2, <1>3, <1>4 DEF CorpusInv

(* A change only makes the revision of a document newer.                   *)
LEMMA FolderStep ==
  ASSUME CorpusInv, NEW d \in Docs, Edit(d) \/ MoveDocument(d)
  PROVE  CorpusInv'
<1>1. /\ version' = [version EXCEPT ![d] = @ + 1] /\ UNCHANGED <<corpus, local>>
      /\ Fixed \subseteq inside'
      /\ inside' \subseteq Docs
  BY DEF Edit, MoveDocument, Change, CorpusInv, FolderTypes
<1>2. version' \in [Docs -> Nat] /\ \A x \in Docs : version[x] <= version'[x]
  BY <1>1 DEF CorpusInv, FolderTypes
<1>3. image' \in [Pages -> Nat]
  BY <1>2 DEF Edit, MoveDocument, CorpusInv, FolderTypes
<1>4. LocalTypes' /\ Published'
  BY <1>1 DEF CorpusInv, LocalTypes, Published, local
<1>5. ASSUME NEW w \in Processes PROVE ListedBefore(w)'
  <2>1. listing[w] \in Listings
    BY DEF CorpusInv, LocalTypes
  <2>2. \A x \in Entries(w) : x \in Docs /\ listing[w][x] \in Nat /\ listing[w][x] <= version[x]
    BY <2>1, ListingKnows DEF Entries, CorpusInv, ListedBefore
  <2>3. \A x \in Docs : version[x] \in Nat /\ version'[x] \in Nat
    BY <1>2 DEF CorpusInv, FolderTypes
  <2>4. listing' = listing
    BY <1>1 DEF local
  <2> QED BY <1>2, <2>2, <2>3, <2>4 DEF ListedBefore, Entries
<1>6. ASSUME NEW w \in Processes PROVE ReadIsTrue(w)' /\ FixedAreSeen(w)'
  BY <1>1 DEF CorpusInv, ReadIsTrue, FixedAreSeen, Entries, local
<1> QED BY <1>1, <1>2, <1>3, <1>4, <1>5, <1>6 DEF CorpusInv, FolderTypes

(* Scanned pages are registered in the cache only.                         *)
LEMMA RegisterStep ==
  ASSUME CorpusInv, NEW p, Register(p)
  PROVE  CorpusInv'
BY DEF Register, CorpusInv, FolderTypes, LocalTypes, Published, ListedBefore, ReadIsTrue, FixedAreSeen,
       Entries, folder, local

-----------------------------------------------------------------------------
(* To keep CorpusInv a step of a process keeps the types of what it has, what is *)
(* known of it, and the corpus whole.                                      *)
LEMMA OneProcess ==
  ASSUME CorpusInv, NEW w \in Processes, UNCHANGED folder, LocalTypes', Published', Faithful(w)',
         \A v \in Processes \ {w} : Apart(v)
  PROVE  CorpusInv'
<1>1. FolderTypes'
  BY DEF CorpusInv, FolderTypes, folder
<1>2. \A v \in Processes \ {w} : Faithful(v)'
  BY OthersKeep DEF CorpusInv, Faithful, folder
<1> QED BY <1>1, <1>2 DEF CorpusInv, Faithful

LEMMA StartStep ==
  ASSUME CorpusInv, NEW w \in Processes, Start(w)
  PROVE  CorpusInv'
<1> USE DEF Start, Moves, CorpusInv
<1>1. UNCHANGED folder /\ Published' /\ \A v \in Processes \ {w} : Apart(v)
  BY DEF Published, Apart, LocalTypes
<1>2. LocalTypes'
  BY DEF LocalTypes, Published
<1>3. Faithful(w)'
  BY DEF Faithful, ListedBefore, ReadIsTrue, FixedAreSeen, Entries, folder, LocalTypes
<1> QED BY <1>1, <1>2, <1>3, OneProcess

(* What is listed has its revision of now, and what is fixed is in it.     *)
LEMMA ListStep ==
  ASSUME CorpusInv, NEW w \in Processes, List(w)
  PROVE  CorpusInv'
<1> DEFINE list == Restrict(version, inside)
<1>1. /\ list \in Listings /\ DOMAIN list = inside
      /\ \A d \in inside : list[d] = version[d]
  <2>1. inside \in SUBSET Docs /\ \A d \in inside : version[d] \in Nat
    BY DEF CorpusInv, FolderTypes
  <2> QED BY <2>1, RestrictedIsAListing
<1>2. /\ listing' = [listing EXCEPT ![w] = list]
      /\ sync' = [sync EXCEPT ![w] = "listed"] /\ accepted' = [accepted EXCEPT ![w] = Nothing]
      /\ failed' = [failed EXCEPT ![w] = FALSE]
      /\ UNCHANGED <<folder, corpus, cache, previous, reading, faults>>
  BY DEF List, Moves
<1> HIDE DEF list
<1>3. UNCHANGED folder /\ Published' /\ \A v \in Processes \ {w} : Apart(v)
  BY <1>2 DEF Published, Apart, LocalTypes, CorpusInv
<1>4. LocalTypes'
  BY <1>1, <1>2, NothingIsACorpus DEF LocalTypes, CorpusInv
<1>5. listing'[w] = list /\ sync'[w] = "listed" /\ version' = version
  BY <1>2 DEF LocalTypes, CorpusInv, folder
<1>6. ListedBefore(w)'
  BY <1>1, <1>5 DEF ListedBefore, Entries, CorpusInv, FolderTypes
<1>7. ReadIsTrue(w)' /\ FixedAreSeen(w)'
  BY <1>1, <1>5 DEF ReadIsTrue, FixedAreSeen, Entries, CorpusInv, FolderTypes
<1> QED BY <1>3, <1>4, <1>6, <1>7, OneProcess DEF Faithful

(* A document is accepted with a sound entry and taken off the list.       *)
LEMMA AcceptStep ==
  ASSUME CorpusInv, NEW w \in Processes, NEW d \in Docs, NEW e \in Sound, Accept(w, d, e), TakeOff(w, d),
         LocalTypes => reading' \in [Processes -> Papers] /\ \A v \in Processes \ {w} : reading'[v] = reading[v],
         sync[w] \in {"listed", "reading"}, sync' = [sync EXCEPT ![w] = "listed"],
         UNCHANGED <<folder, corpus, previous, failed>>
  PROVE  CorpusInv'
<1>1. LocalTypes
  BY DEF CorpusInv
<1>2. /\ listing' \in [Processes -> Listings]
      /\ DOMAIN listing'[w] = Entries(w) \ {d}
      /\ \A x \in DOMAIN listing'[w] : listing'[w][x] = listing[w][x]
      /\ \A v \in Processes \ {w} : listing'[v] = listing[v]
  BY <1>1, TakenOff
<1>3. /\ accepted' \in [Processes -> Corpora]
      /\ DOMAIN accepted'[w] = DOMAIN accepted[w] \cup {d}
      /\ \A v \in Processes \ {w} : accepted'[v] = accepted[v]
  BY <1>1, AcceptedMore
<1>4. LocalTypes'
  BY <1>1, <1>2, <1>3 DEF LocalTypes
<1>5. UNCHANGED folder /\ Published' /\ \A v \in Processes \ {w} : Apart(v)
  BY <1>1, <1>2, <1>3 DEF Published, Apart, LocalTypes, CorpusInv
<1>6. ListedBefore(w)'
  BY <1>2 DEF ListedBefore, Entries, CorpusInv, folder
<1>7. sync'[w] = "listed"
  BY <1>1 DEF LocalTypes
<1>8. FixedAreSeen(w)'
  BY <1>2, <1>3 DEF FixedAreSeen, Entries, CorpusInv
<1> QED BY <1>4, <1>5, <1>6, <1>7, <1>8, OneProcess DEF Faithful, ReadIsTrue

LEMMA ReuseStep ==
  ASSUME CorpusInv, NEW w \in Processes, NEW d \in Docs, Reuse(w, d)
  PROVE  CorpusInv'
<1>1. previous[w][d] \in Sound
  BY KnowsItsDocuments DEF Reuse, Same, CorpusInv, LocalTypes
<1>2. sync' = [sync EXCEPT ![w] = "listed"] /\ sync[w] = "listed"
  BY DEF Reuse, CorpusInv, LocalTypes
<1>3. /\ Accept(w, d, previous[w][d]) /\ TakeOff(w, d)
      /\ reading' = reading /\ UNCHANGED <<folder, corpus, previous, failed>>
  BY DEF Reuse
<1>4. LocalTypes => reading' \in [Processes -> Papers] /\ \A v \in Processes \ {w} : reading'[v] = reading[v]
  BY <1>3 DEF LocalTypes
<1> QED BY <1>1, <1>2, <1>3, <1>4, AcceptStep

(* What is downloaded is no older than what was listed.                    *)
LEMMA DownloadStep ==
  ASSUME CorpusInv, NEW w \in Processes, NEW d \in Docs, Download(w, d)
  PROVE  CorpusInv'
<1> DEFINE new == [doc |-> {d}, text |-> version[d], images |-> Restrict(image, PagesOf(d)),
                   left |-> PagesOf(d), true |-> TRUE]
<1>1. new \in Papers
  <2>1. PagesOf(d) \in SUBSET Pages /\ \A p \in PagesOf(d) : image[p] \in Nat
    BY DEF PagesOf, CorpusInv, FolderTypes
  <2>2. Restrict(image, PagesOf(d)) \in [PagesOf(d) -> Nat]
    BY <2>1 DEF Restrict
  <2>3. Restrict(image, PagesOf(d)) \in Images
    BY <2>1, <2>2 DEF Images
  <2>4. version[d] \in Nat
    BY DEF CorpusInv, FolderTypes
  <2> QED BY <2>1, <2>3, <2>4 DEF Papers
<1>2. new.doc = {d} /\ new.text = version[d] /\ new.true
  OBVIOUS
<1>3. /\ reading' = [reading EXCEPT ![w] = new]
      /\ sync[w] = "listed" /\ sync' = [sync EXCEPT ![w] = "reading"] /\ d \in Entries(w)
      /\ UNCHANGED <<folder, corpus, cache, previous, listing, accepted, failed, faults>>
  BY DEF Download, Moves
<1> HIDE DEF new
<1>4. LocalTypes'
  BY <1>1, <1>3 DEF LocalTypes, CorpusInv
<1>5. UNCHANGED folder /\ Published' /\ \A v \in Processes \ {w} : Apart(v)
  BY <1>3 DEF Published, Apart, LocalTypes, CorpusInv
<1>6. ListedBefore(w)' /\ FixedAreSeen(w)'
  BY <1>3 DEF ListedBefore, FixedAreSeen, Entries, CorpusInv, folder, LocalTypes
<1>7. ReadIsTrue(w)'
  <2>1. reading'[w] = new /\ listing' = listing
    BY <1>3 DEF CorpusInv, LocalTypes
  <2>2. listing[w][d] <= version[d] /\ listing[w][d] \in Nat /\ version[d] \in Nat
    BY <1>3, ListingKnows DEF CorpusInv, ListedBefore, LocalTypes, FolderTypes, Entries
  <2> QED BY <1>2, <1>3, <2>1, <2>2 DEF ReadIsTrue, Entries
<1> QED BY <1>4, <1>5, <1>6, <1>7, OneProcess DEF Faithful

(* A document that is missed is remembered as a failure.                   *)
LEMMA MissedStep ==
  ASSUME CorpusInv, NEW w \in Processes, NEW d \in Docs, Missed(w, d), sync' = [sync EXCEPT ![w] = "listed"]
  PROVE  CorpusInv'
<1>1. LocalTypes
  BY DEF CorpusInv
<1>2. /\ listing' \in [Processes -> Listings]
      /\ DOMAIN listing'[w] = Entries(w) \ {d}
      /\ \A x \in DOMAIN listing'[w] : listing'[w][x] = listing[w][x]
      /\ \A v \in Processes \ {w} : listing'[v] = listing[v]
  BY <1>1, TakenOff DEF Missed
<1>3. LocalTypes'
  BY <1>1, <1>2, NoPaperIsAPaper DEF LocalTypes, Missed
<1>4. UNCHANGED folder /\ Published' /\ \A v \in Processes \ {w} : Apart(v)
  BY <1>1, <1>2 DEF Published, Apart, LocalTypes, CorpusInv, Missed
<1>5. ListedBefore(w)'
  BY <1>2 DEF ListedBefore, Entries, CorpusInv, folder, Missed
<1>6. sync'[w] = "listed" /\ failed'[w]
  BY <1>1 DEF LocalTypes, Missed
<1> QED BY <1>3, <1>4, <1>5, <1>6, OneProcess DEF Faithful, ReadIsTrue, FixedAreSeen

LEMMA FailStep ==
  ASSUME CorpusInv, NEW w \in Processes
  PROVE  /\ \A d \in Docs : DownloadFails(w, d) => CorpusInv'
         /\ \A p : PageFails(w, p) => CorpusInv'
<1>1. ASSUME NEW d \in Docs, DownloadFails(w, d) PROVE CorpusInv'
  <2>1. sync' = [sync EXCEPT ![w] = "listed"] /\ Missed(w, d)
    BY <1>1 DEF DownloadFails, CorpusInv, LocalTypes
  <2> QED BY <2>1, MissedStep
<1>2. ASSUME NEW p, PageFails(w, p) PROVE CorpusInv'
  <2>1. reading[w].doc \subseteq Docs
    BY DEF CorpusInv, LocalTypes, Papers
  <2>2. PICK d \in Docs : Missed(w, d)
    BY <1>2, <2>1 DEF PageFails
  <2>3. sync' = [sync EXCEPT ![w] = "listed"]
    BY <1>2 DEF PageFails, Moves
  <2> QED BY <2>2, <2>3, MissedStep
<1> QED BY <1>1, <1>2

(* A page is replaced by what was transcribed from its own image.          *)
LEMMA ReplaceStep ==
  ASSUME CorpusInv, NEW w \in Processes, NEW p, Replace(w, p, reading[w].images[p]),
         UNCHANGED <<folder, corpus, sync, previous, listing, accepted, failed>>
  PROVE  CorpusInv'
<1> DEFINE page == [reading[w] EXCEPT !.left = @ \ {p}]
<1>1. reading[w] \in Papers /\ reading \in [Processes -> Papers]
  BY DEF CorpusInv, LocalTypes
<1>2. page \in Papers /\ page.doc = reading[w].doc /\ page.text = reading[w].text /\ page.true = reading[w].true
  BY <1>1 DEF Papers
<1>3. /\ reading'[w] \in Papers
      /\ reading'[w].doc = reading[w].doc /\ reading'[w].text = reading[w].text
      /\ reading'[w].true = reading[w].true
      /\ reading' \in [Processes -> Papers]
      /\ \A v \in Processes \ {w} : reading'[v] = reading[v]
  <2> DEFINE paper == [page EXCEPT !.true = @ /\ TRUE]
  <2>1. reading' = [reading EXCEPT ![w] = paper]
    BY <1>1 DEF Replace
  <2>2. /\ paper \in Papers /\ paper.doc = reading[w].doc /\ paper.text = reading[w].text
        /\ paper.true = reading[w].true
    BY <1>2 DEF Papers
  <2> HIDE DEF paper
  <2> QED BY <1>1, <2>1, <2>2
<1>4. LocalTypes' /\ Published' /\ \A v \in Processes \ {w} : Apart(v)
  BY <1>3 DEF LocalTypes, Published, Apart, CorpusInv
<1>5. Faithful(w)'
  BY <1>3 DEF Faithful, ListedBefore, ReadIsTrue, FixedAreSeen, Entries, CorpusInv, folder
<1> QED BY <1>4, <1>5, OneProcess

LEMMA PageStep ==
  ASSUME CorpusInv, NEW w \in Processes, NEW p, UseKnown(w, p) \/ Transcribe(w, p)
  PROVE  CorpusInv'
<1>1. Replace(w, p, reading[w].images[p])
  BY DEF UseKnown, Transcribe, Matches
<1> QED BY <1>1, ReplaceStep DEF UseKnown, Transcribe

(* A document whose pages are all there is accepted.                       *)
LEMMA EndStep ==
  ASSUME CorpusInv, NEW w \in Processes, EndDocument(w)
  PROVE  CorpusInv'
<1>1. PICK d \in reading[w].doc :
        /\ Accept(w, d, [revision |-> listing[w][d], text |-> reading[w].text, true |-> reading[w].true])
        /\ TakeOff(w, d)
  BY DEF EndDocument
<1>2. /\ d \in Entries(w) /\ reading[w].text >= listing[w][d] /\ reading[w].true
      /\ sync[w] = "reading" /\ sync' = [sync EXCEPT ![w] = "listed"]
  BY <1>1 DEF EndDocument, Moves, CorpusInv, ReadIsTrue
<1>3. d \in Docs /\ listing[w][d] \in Nat /\ reading[w].text \in Nat /\ reading[w].true \in BOOLEAN
  BY <1>2, ListingKnows DEF CorpusInv, LocalTypes, Entries, Papers
<1>4. [revision |-> listing[w][d], text |-> reading[w].text, true |-> reading[w].true] \in Sound
  BY <1>2, <1>3 DEF Sound, Entry
<1>5. reading' = [reading EXCEPT ![w] = NoPaper] /\ UNCHANGED <<folder, corpus, previous, failed>>
  BY DEF EndDocument
<1>6. LocalTypes => reading' \in [Processes -> Papers] /\ \A v \in Processes \ {w} : reading'[v] = reading[v]
  BY <1>5, NoPaperIsAPaper DEF LocalTypes
<1> QED BY <1>1, <1>2, <1>3, <1>4, <1>5, <1>6, AcceptStep

(* What is published was complete: all that is fixed was seen, nothing is  *)
(* left on the list and nothing failed.                                    *)
LEMMA PublishStep ==
  ASSUME CorpusInv, NEW w \in Processes, Publish(w)
  PROVE  CorpusInv'
<1> USE DEF Publish, Moves, Rest
<1>1. UNCHANGED folder /\ \A v \in Processes \ {w} : Apart(v)
  BY DEF Apart, LocalTypes, CorpusInv
<1>2. LocalTypes'
  BY NothingIsACorpus DEF LocalTypes, CorpusInv
<1>3. Published'
  <2>1. corpus' = corpus \/ (Complete(w) /\ corpus' = accepted[w])
    OBVIOUS
  <2>2. Complete(w) => Fixed \subseteq DOMAIN accepted[w] /\ accepted[w] \in Corpora
    BY DEF Complete, CorpusInv, FixedAreSeen, LocalTypes
  <2> QED BY <2>1, <2>2 DEF Published, CorpusInv
<1>4. Faithful(w)'
  <2>1. sync'[w] = "idle" /\ listing' = listing /\ version' = version
    BY DEF CorpusInv, LocalTypes, folder
  <2> QED BY <2>1 DEF Faithful, ListedBefore, ReadIsTrue, FixedAreSeen, Entries, CorpusInv
<1> QED BY <1>1, <1>2, <1>3, <1>4, OneProcess

(* A synchronisation that stops leaves the corpus as it is.                *)
LEMMA StopStep ==
  ASSUME CorpusInv, NEW w \in Processes, Stop(w)
  PROVE  CorpusInv'
<1> USE DEF Stop, Rest
<1>1. UNCHANGED folder /\ Published' /\ \A v \in Processes \ {w} : Apart(v)
  BY DEF Apart, LocalTypes, CorpusInv, Published
<1>2. LocalTypes'
  BY NothingIsACorpus, NoPaperIsAPaper DEF LocalTypes, CorpusInv
<1>3. sync'[w] = "idle" /\ listing'[w] = Nothing
  BY DEF CorpusInv, LocalTypes
<1>4. Faithful(w)'
  BY <1>3, NothingIsACorpus DEF Faithful, ListedBefore, ReadIsTrue, FixedAreSeen, Entries
<1> QED BY <1>1, <1>2, <1>4, OneProcess

-----------------------------------------------------------------------------
LEMMA SyncStepKeeps ==
  ASSUME CorpusInv, NEW w \in Processes, SyncStep(w)
  PROVE  CorpusInv'
<1>1. CASE Start(w) \/ List(w)
  BY <1>1, StartStep, ListStep
<1>2. CASE EndDocument(w) \/ Publish(w)
  BY <1>2, EndStep, PublishStep
<1>3. CASE \E d \in Docs : Reuse(w, d) \/ Download(w, d) \/ DownloadFails(w, d)
  BY <1>3, ReuseStep, DownloadStep, FailStep
<1>4. CASE \E p \in Pages : UseKnown(w, p) \/ Transcribe(w, p) \/ PageFails(w, p)
  BY <1>4, PageStep, FailStep
<1> QED BY <1>1, <1>2, <1>3, <1>4 DEF SyncStep

LEMMA CorpusStep == CorpusInv /\ [CorpusNext]_corpusVars => CorpusInv'
<1> SUFFICES ASSUME CorpusInv, [CorpusNext]_corpusVars PROVE CorpusInv'
  OBVIOUS
<1>1. CASE \E d \in Docs : Edit(d) \/ MoveDocument(d)
  BY <1>1, FolderStep
<1>2. CASE \E p \in Pages : Register(p)
  BY <1>2, RegisterStep
<1>3. CASE \E w \in Processes : SyncStep(w) \/ Stop(w)
  BY <1>3, SyncStepKeeps, StopStep
<1>4. CASE UNCHANGED corpusVars
  BY <1>4 DEF corpusVars, CorpusInv, FolderTypes, LocalTypes, Published, ListedBefore, ReadIsTrue, FixedAreSeen,
              Entries, folder, local
<1> QED BY <1>1, <1>2, <1>3, <1>4 DEF CorpusNext

(* The corpus that is published has every document that is always in the   *)
(* folder, each with a text no older than the revision it is quoted as and *)
(* with every page transcribed from its own image, whatever changes while  *)
(* processes list, download, transcribe and publish over each other, and   *)
(* whatever fails.                                                         *)
THEOREM PublishedIsWhole == CorpusSpec => []CorpusIsWhole
<1>1. CorpusInv => CorpusIsWhole
  <2> SUFFICES ASSUME CorpusInv, corpus # Nothing
               PROVE  /\ Fixed \subseteq DOMAIN corpus
                      /\ \A d \in DOMAIN corpus : corpus[d].text >= corpus[d].revision /\ corpus[d].true
    BY DEF CorpusIsWhole
  <2>1. Fixed \subseteq DOMAIN corpus /\ corpus \in Corpora
    BY DEF CorpusInv, Published
  <2> QED BY <2>1, KnowsItsDocuments DEF Sound
<1> QED BY <1>1, CorpusStarts, CorpusStep, PTL DEF CorpusSpec
=============================================================================
