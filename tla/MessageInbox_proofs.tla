------------------------ MODULE MessageInbox_proofs ------------------------
(* What the inbox of received messages keeps, for any accounts, messages,  *)
(* copies and webhooks, and any number of failures, crashes and pauses.     *)
EXTENDS MessageInbox, FunctionTheorems, FiniteSetTheorems, TLAPS

Inside  == {"locked", "ready", "saved", "persisted", "failed", "unlock"}
Settling == {"ready", "saved", "persisted", "failed"}

(* Ids are never given out twice. *)
RowsAreNumbered == \A i \in Rows : i <= used

(* A delivery knows the account of its receipt while there is one, and      *)
(* past the lock it holds it.                                               *)
DeliveriesKnow ==
  \A s \in Sessions : at[s] # "out" =>
    /\ item[s] \in Ids /\ item[s] <= used /\ account[s] \in Accounts
    /\ item[s] \in Rows => Owner(receipt[item[s]]) = account[s]
LocksAreTheirs == \A s \in Sessions : at[s] \in Inside => lock[account[s]] = s

PersistedAreNoted == \A s \in Sessions : at[s] = "persisted" => receipt[item[s]] \in persisted
CountedWhenStored == \A m \in Messages : increments[m] \in {0, 1} /\ (stored[m] = None => increments[m] = 0)

InboxInv ==
  /\ TypeOK /\ RowsAreNumbered /\ DeliveriesKnow /\ LocksAreTheirs
  /\ DeliveriesKeepTheirRow /\ PersistedAreNoted /\ NothingLost /\ CountedWhenStored

-----------------------------------------------------------------------------
(* The new rows of an event have ids of their own. *)
LEMMA NumberingGood ==
  ASSUME NEW F, IsFiniteSet(F), used \in Nat
  PROVE  /\ Numbering(F) \in [F -> (used + 1)..(used + Cardinality(F))]
         /\ \A x, y \in F : Numbering(F)[x] = Numbering(F)[y] => x = y
         /\ Cardinality({Numbering(F)[e] : e \in F}) = Cardinality(F)
         /\ Cardinality(F) \in Nat
<1> DEFINE n == Cardinality(F)
           T == (used + 1)..(used + n)
           Good(f) == f \in [F -> T] /\ \A x, y \in F : f[x] = f[y] => x = y
           new == {Numbering(F)[e] : e \in F}
<1>1. n \in Nat /\ ExistsBijection(1..n, F)
  BY FS_CardinalityType
<1>2. PICK g \in Bijection(1..n, F) : TRUE
  BY <1>1 DEF ExistsBijection
<1>3. \E f : Good(f)
  <2> DEFINE h == Inverse(g, 1..n, F)
             f == [e \in F |-> used + h[e]]
  <2>1. h \in Bijection(F, 1..n)
    BY <1>2, Fun_BijInverse
  <2>2. h \in [F -> 1..n] /\ \A x, y \in F : h[x] = h[y] => x = y
    BY <2>1, Fun_IsBij DEF Bijection, Injection, IsInjective
  <2> HIDE DEF h
  <2>3. \A e \in F : h[e] \in 1..n /\ f[e] = used + h[e] /\ f[e] \in T
    BY <1>1, <2>2
  <2>4. f \in [F -> T]
    BY <2>3
  <2>5. \A x, y \in F : f[x] = f[y] => x = y
    BY <2>2, <2>3
  <2> QED BY <2>4, <2>5
<1>4. Good(Numbering(F))
  BY <1>3 DEF Numbering
<1>5. Numbering(F) \in Bijection(F, new)
  <2>1. Numbering(F) \in [F -> new]
    BY <1>4
  <2> QED BY <1>4, <2>1, Fun_IsBij
<1>6. ExistsBijection(F, new)
  BY <1>5 DEF ExistsBijection
<1>7. Cardinality(new) = n
  BY <1>6, FS_Bijection
<1> QED BY <1>1, <1>4, <1>7

(* The messages of an event are finite in number. *)
LEMMA EventFinite ==
  ASSUME NEW C \in SUBSET Copies, NEW b
  PROVE  IsFiniteSet([copy : C, historical : {b}])
<1> DEFINE f == [c \in C |-> [copy |-> c, historical |-> b]]
           E == [copy : C, historical : {b}]
<1>1. IsFiniteSet(C)
  BY CopyAssumption, FS_Subset
<1>2. f \in Bijection(C, E)
  <2>1. f \in [C -> E] /\ \A x, y \in C : f[x] = f[y] => x = y
    OBVIOUS
  <2>2. \A e \in E : \E c \in C : f[c] = e
    OBVIOUS
  <2> QED BY <2>1, <2>2, Fun_IsBij
<1>3. ExistsBijection(C, E)
  BY <1>2 DEF ExistsBijection
<1> QED BY <1>1, <1>3, FS_Bijection

(* accept adds rows with new ids for what no row holds, all of them of the  *)
(* account, and leaves the other rows alone.                                *)
LEMMA AcceptAdds ==
  ASSUME TypeOK, RowsAreNumbered, NEW s \in Webhooks, NEW a \in Accounts, NEW b \in BOOLEAN, Accept(s, a, b)
  PROVE  /\ receipt' \in [Ids -> Events \cup {None}]
         /\ used' \in 0..MaxReceipts /\ used <= used'
         /\ \A i \in Rows : receipt'[i] = receipt[i]
         /\ \A i \in Ids : receipt'[i] # None /\ i \notin Rows => used < i /\ i <= used' /\ i \in due'
         /\ due' \subseteq {i \in Ids : receipt'[i] # None}
         /\ \A i, k \in Ids : receipt'[i] # None /\ receipt'[i] = receipt'[k] => i = k
         /\ accepted \subseteq accepted' /\ accepted' \subseteq Events
         /\ \A e \in accepted' \ accepted : \E i \in Ids : receipt'[i] = e
         /\ todo' \in [Sessions -> SUBSET Ids]
<1>1. PICK C \in SUBSET {c \in Copies : AccountOf[MessageOf[c]] = a} \ {{}} :
        LET E == [copy : C, historical : {b}]
            number == Numbering(Fresh(E))
            known == {i \in Rows : receipt[i] \in E}
            new == {number[e] : e \in Fresh(E)}
        IN /\ used + Cardinality(new) <= MaxReceipts
           /\ used' = used + Cardinality(new)
           /\ receipt' = [i \in Ids |-> IF i \in new
                                        THEN CHOOSE e \in Fresh(E) : number[e] = i
                                        ELSE receipt[i]]
           /\ due' = due \cup new
           /\ accepted' = accepted \cup E
           /\ todo' = [todo EXCEPT ![s] = known \cup new]
  BY DEF Accept
<1> DEFINE E == [copy : C, historical : {b}]
           F == Fresh(E)
           f == Numbering(F)
           new == {f[e] : e \in F}
<1>2. E \subseteq Events /\ F \subseteq E /\ IsFiniteSet(E) /\ IsFiniteSet(F)
  <2>1. E \subseteq Events /\ F \subseteq E
    BY DEF Events, Fresh
  <2> QED BY <2>1, EventFinite, FS_Subset
<1>3. used \in Nat /\ used \in 0..MaxReceipts
  BY BoundAssumption DEF TypeOK
<1>4. /\ f \in [F -> (used + 1)..(used + Cardinality(F))]
      /\ \A x, y \in F : f[x] = f[y] => x = y
      /\ Cardinality(new) = Cardinality(F) /\ Cardinality(F) \in Nat
  BY <1>2, <1>3, NumberingGood
<1>5. /\ used' = used + Cardinality(F) /\ used' <= MaxReceipts /\ due' = due \cup new
      /\ receipt' = [i \in Ids |-> IF i \in new THEN CHOOSE e \in F : f[e] = i ELSE receipt[i]]
      /\ accepted' = accepted \cup E
      /\ todo' = [todo EXCEPT ![s] = {i \in Rows : receipt[i] \in E} \cup new]
  BY <1>1, <1>4
<1>0. \A e : e \in F <=> e \in E /\ \A i \in Rows : receipt[i] # e
  BY DEF Fresh, Holding
<1> DEFINE n == Cardinality(F)
<1> HIDE DEF f, F, E, n
<1>n. n \in Nat /\ f \in [F -> (used + 1)..(used + n)] /\ used' = used + n
  BY <1>4, <1>5 DEF n
<1>6. used' \in 0..MaxReceipts /\ used <= used' /\ MaxReceipts \in Nat
  BY <1>3, <1>n, <1>5, BoundAssumption
<1>7. \A i \in new : used < i /\ i <= used' /\ i \in Ids
  <2> SUFFICES ASSUME NEW e \in F PROVE used < f[e] /\ f[e] <= used' /\ f[e] \in Ids
    OBVIOUS
  <2>1. f[e] \in (used + 1)..(used + n)
    BY <1>n
  <2> QED BY <1>3, <1>n, <1>5, <1>6, <2>1 DEF Ids
<1>8. \A i \in Rows : i \notin new /\ i \in Ids
  <2> SUFFICES ASSUME NEW i \in Rows PROVE i \notin new /\ i \in Ids
    OBVIOUS
  <2>1. i \in Ids /\ i \in Nat /\ i <= used
    BY <1>6 DEF RowsAreNumbered, Rows, Ids
  <2> QED BY <1>3, <1>7, <2>1
<1>9. \A i \in new : receipt'[i] \in F /\ f[receipt'[i]] = i
  BY <1>5, <1>7
<1>10. \A i \in Ids \ new : receipt'[i] = receipt[i]
  BY <1>5
<1>11. receipt' \in [Ids -> Events \cup {None}]
  BY <1>2, <1>5, <1>7, <1>9 DEF TypeOK
<1>12. \A i, k \in Ids : receipt'[i] # None /\ receipt'[i] = receipt'[k] => i = k
  <2> SUFFICES ASSUME NEW i \in Ids, NEW k \in Ids, receipt'[i] # None, receipt'[i] = receipt'[k]
               PROVE  i = k
    OBVIOUS
  <2>1. \A x \in new, y \in Ids \ new : receipt'[x] # receipt'[y] \/ receipt'[y] = None
    <3>1. \A y \in Ids \ new : receipt'[y] = None \/ (y \in Rows /\ receipt'[y] = receipt[y])
      BY <1>10 DEF Rows
    <3> QED BY <1>0, <1>9, <3>1
  <2>2. CASE i \in new /\ k \in new
    BY <1>9, <2>2
  <2>3. CASE i \notin new /\ k \notin new
    BY <1>10, <2>3 DEF TypeOK, Rows
  <2> QED BY <2>1, <2>2, <2>3
<1>13. \A e \in E : \E i \in Ids : receipt'[i] = e
  <2> SUFFICES ASSUME NEW e \in E PROVE \E i \in Ids : receipt'[i] = e
    OBVIOUS
  <2>1. CASE e \in F
    <3>1. f[e] \in new /\ f[e] \in Ids
      BY <1>7, <2>1
    <3>2. receipt'[f[e]] \in F /\ f[receipt'[f[e]]] = f[e]
      BY <1>9, <3>1
    <3>3. receipt'[f[e]] = e
      BY <1>4, <2>1, <3>2
    <3> QED BY <3>1, <3>3
  <2>2. CASE e \notin F
    <3>1. PICK i \in Rows : receipt[i] = e
      BY <1>0, <2>2
    <3> QED BY <1>8, <1>10, <3>1
  <2> QED BY <2>1, <2>2
<1>14. due' \subseteq {i \in Ids : receipt'[i] # None}
  <2>1. \A i \in new : receipt'[i] # None
    BY <1>2, <1>9, SessionAssumption DEF Events
  <2>2. \A i \in due : receipt'[i] # None /\ i \in Ids
    BY <1>8, <1>10 DEF TypeOK, Rows
  <2> QED BY <1>5, <1>7, <2>1, <2>2
<1>15. todo' \in [Sessions -> SUBSET Ids]
  <2>1. {i \in Rows : receipt[i] \in E} \cup new \in SUBSET Ids
    BY <1>7 DEF Rows
  <2> QED BY <1>5, <2>1 DEF TypeOK
<1>16. \A i \in Ids : receipt'[i] # None /\ i \notin Rows => i \in new
  BY <1>10 DEF Rows
<1> QED BY <1>2, <1>5, <1>6, <1>7, <1>8, <1>10, <1>11, <1>12, <1>13, <1>14, <1>15, <1>16 DEF TypeOK

-----------------------------------------------------------------------------
LEMMA InboxInit == Init => InboxInv
<1> SUFFICES ASSUME Init PROVE InboxInv
  OBVIOUS
<1>1. Rows = {}
  BY DEF Init, Rows
<1>2. TypeOK
  BY <1>1, BoundAssumption
     DEF Init, TypeOK, Sessions, DeliverySteps
<1> QED BY <1>1, <1>2
     DEF Init, InboxInv, RowsAreNumbered, DeliveriesKnow, LocksAreTheirs, DeliveriesKeepTheirRow,
         PersistedAreNoted, NothingLost, CountedWhenStored, Inside

(* A copy that is stored is stored for its message. *)
LEMMA CopyStored ==
  ASSUME TypeOK, NEW e \in Events, StoreCopy(e)
  PROVE  stored' \in [Messages -> Copies \cup {None}] /\ increments' \in [Messages -> Nat]
<1> DEFINE m == MessageOf[e.copy]
<1>1. e.copy \in Copies /\ m \in Messages
  BY CopyAssumption DEF Events
<1>2. \/ increments' = increments
      \/ increments' = [increments EXCEPT ![m] = increments[m] + 1]
  BY DEF StoreCopy
<1>3. stored' = [stored EXCEPT ![m] = IF Preserves(stored[m], e.copy) THEN stored[m] ELSE e.copy]
  BY DEF StoreCopy
<1> HIDE DEF m
<1>4. stored' \in [Messages -> Copies \cup {None}]
  BY <1>1, <1>3 DEF TypeOK
<1>5. increments' \in [Messages -> Nat]
  <2>1. increments[m] + 1 \in Nat
    BY <1>1 DEF TypeOK
  <2> QED BY <1>1, <1>2, <2>1 DEF TypeOK
<1> QED BY <1>4, <1>5

LEMMA TypesStep == TypeOK /\ RowsAreNumbered /\ DeliveriesKnow /\ DeliveriesKeepTheirRow /\ [Next]_vars => TypeOK'
<1> SUFFICES ASSUME TypeOK, RowsAreNumbered, DeliveriesKnow, DeliveriesKeepTheirRow, [Next]_vars PROVE TypeOK'
  OBVIOUS
<1> USE DEF rowVars, messageVars, deliveryVars, sessionVars, boundVars
<1>0. /\ receipt \in [Ids -> Events \cup {None}] /\ due \subseteq Rows
      /\ at \in [Sessions -> DeliverySteps] /\ Timer \in Sessions /\ Webhooks \subseteq Sessions
  BY DEF TypeOK, Sessions
<1>1. ASSUME NEW h \in Webhooks, Reject(h) PROVE TypeOK'
  BY <1>1 DEF Reject, TypeOK, Sessions, Rows
<1>2. ASSUME NEW h \in Webhooks, NEW a \in Accounts, NEW b \in BOOLEAN, Accept(h, a, b) PROVE TypeOK'
  <2>1. phase' \in [Sessions -> {"idle", "busy", "done"}]
    BY <1>2 DEF Accept, TypeOK, Sessions
  <2>2. /\ receipt' \in [Ids -> Events \cup {None}] /\ due' \subseteq {i \in Ids : receipt'[i] # None}
        /\ \A i, k \in Ids : receipt'[i] # None /\ receipt'[i] = receipt'[k] => i = k
        /\ used' \in 0..MaxReceipts /\ accepted' \subseteq Events /\ todo' \in [Sessions -> SUBSET Ids]
    BY <1>2, AcceptAdds
  <2>3. UNCHANGED <<active, stored, increments, persisted, lock, at, item, account, faults, toggles>>
    BY <1>2 DEF Accept
  <2> QED BY <2>1, <2>2, <2>3 DEF TypeOK, Rows
<1>3. CASE StartRun
  <2>1. PICK L \in SUBSET Listable : todo' = [todo EXCEPT ![Timer] = L]
    BY <1>3 DEF StartRun
  <2>2. L \subseteq Ids
    BY DEF Listable, Rows
  <2> QED BY <1>0, <1>3, <2>1, <2>2 DEF StartRun, TypeOK, Rows
<1>4. ASSUME NEW s \in Sessions, NEW i \in Ids, Enter(s, i) PROVE TypeOK'
  <2>1. Owner(receipt[i]) \in Accounts
    BY <1>4, <1>0, CopyAssumption DEF Enter, Rows, Owner, Events
  <2> QED BY <1>0, <1>4, <2>1 DEF Enter, Take, Move, TypeOK, DeliverySteps, Rows
<1>5. ASSUME NEW s \in Sessions, NEW i \in Ids, Skip(s, i) PROVE TypeOK'
  BY <1>0, <1>5 DEF Skip, Take, TypeOK, Rows
<1>6. ASSUME NEW s \in Sessions, TryLock(s) PROVE TypeOK'
  BY <1>0, <1>6 DEF TryLock, Move, TypeOK, DeliverySteps, Rows
<1>7. ASSUME NEW s \in Sessions, LockBusy(s) PROVE TypeOK'
  BY <1>0, <1>7 DEF LockBusy, Leave, Move, TypeOK, DeliverySteps, Rows
<1>8. ASSUME NEW s \in Sessions, Check(s) PROVE TypeOK'
  BY <1>0, <1>8 DEF Check, Move, TypeOK, DeliverySteps, Rows
<1>9. ASSUME NEW s \in Sessions, Save(s) PROVE TypeOK'
  <2>1. item[s] \in Rows /\ receipt[item[s]] \in Events
    BY <1>0, <1>9 DEF Save, Move, DeliveriesKeepTheirRow, Rows
  <2>2. stored' \in [Messages -> Copies \cup {None}] /\ increments' \in [Messages -> Nat]
    BY <1>9, <2>1, CopyStored DEF Save
  <2> QED BY <1>0, <1>9, <2>2 DEF Save, Move, TypeOK, DeliverySteps, Rows
<1>10. ASSUME NEW s \in Sessions, Complete(s) PROVE TypeOK'
  <2>1. item[s] \in Rows /\ receipt[item[s]] \in Events
    BY <1>0, <1>10 DEF Complete, Move, DeliveriesKeepTheirRow, Rows
  <2> QED BY <1>0, <1>10, <2>1 DEF Complete, Move, TypeOK, DeliverySteps, Rows
<1>11. ASSUME NEW s \in Sessions, Delete(s) PROVE TypeOK'
  <2>1. item[s] \in Rows
    BY <1>0, <1>11 DEF Delete, Remove, Move, DeliveriesKeepTheirRow
  <2>2. receipt' = [receipt EXCEPT ![item[s]] = None] /\ due' = due \ {item[s]}
    BY <1>11 DEF Delete
  <2>3. receipt' \in [Ids -> Events \cup {None}] /\ Rows' = Rows \ {item[s]}
        /\ \A i \in Rows' : receipt'[i] = receipt[i]
    BY <1>0, <2>1, <2>2 DEF Rows
  <2>4. due' \subseteq Rows' /\ \A i, k \in Rows' : receipt'[i] = receipt'[k] => i = k
    BY <1>0, <2>2, <2>3 DEF TypeOK
  <2>5. at' \in [Sessions -> DeliverySteps]
    BY <1>0, <1>11 DEF Delete, Remove, Move, DeliverySteps
  <2> QED BY <1>11, <2>3, <2>4, <2>5 DEF Delete, TypeOK
<1>12. ASSUME NEW s \in Sessions, PutOff(s) PROVE TypeOK'
  BY <1>0, <1>12 DEF PutOff, Move, TypeOK, DeliverySteps, Rows
<1>13. ASSUME NEW s \in Sessions, Unlock(s) PROVE TypeOK'
  BY <1>0, <1>13 DEF Unlock, Leave, Move, TypeOK, DeliverySteps, Rows
<1>14. ASSUME NEW s \in Sessions, Finish(s) PROVE TypeOK'
  BY <1>0, <1>14 DEF Finish, TypeOK, Rows
<1>15. ASSUME NEW s \in Sessions, Fails(s) PROVE TypeOK'
  <2>1. faults' \in 0..MaxFaults
    BY <1>15, BoundAssumption DEF Fails, Fault, TypeOK
  <2> QED BY <1>0, <1>15, <2>1 DEF Fails, TypeOK, DeliverySteps, Rows
<1>16. ASSUME NEW s \in Sessions, PutOffFails(s) PROVE TypeOK'
  <2>1. faults' \in 0..MaxFaults
    BY <1>16, BoundAssumption DEF PutOffFails, Fault, TypeOK
  <2> QED BY <1>0, <1>16, <2>1 DEF PutOffFails, Move, TypeOK, DeliverySteps, Rows
<1>17. ASSUME NEW i \in Ids, Elapse(i) PROVE TypeOK'
  BY <1>0, <1>17 DEF Elapse, TypeOK, Rows
<1>18. ASSUME NEW c \in Copies, Synchronize(c) PROVE TypeOK'
  <2>1. [copy |-> c, historical |-> TRUE] \in Events
    BY DEF Events
  <2>2. stored' \in [Messages -> Copies \cup {None}] /\ increments' \in [Messages -> Nat]
    BY <1>18, <2>1, CopyStored DEF Synchronize
  <2> QED BY <1>18, <2>2 DEF Synchronize, TypeOK, Rows
<1>19. ASSUME NEW a \in Accounts, Toggle(a) PROVE TypeOK'
  BY <1>19, BoundAssumption DEF Toggle, TypeOK, Rows
<1>20. CASE Crash
  <2>1. faults' \in 0..MaxFaults
    BY <1>20, BoundAssumption DEF Crash, Fault, TypeOK
  <2>2. phase' \in [Sessions -> {"idle", "busy", "done"}]
    BY <1>20 DEF Crash, TypeOK
  <2> QED BY <1>20, <2>1, <2>2 DEF Crash, TypeOK, DeliverySteps, Rows
<1>21. CASE UNCHANGED vars
  BY <1>21 DEF vars, TypeOK, Rows
<1> QED BY <1>1, <1>2, <1>3, <1>4, <1>5, <1>6, <1>7, <1>8, <1>9, <1>10, <1>11, <1>12, <1>13, <1>14,
           <1>15, <1>16, <1>17, <1>18, <1>19, <1>20, <1>21 DEF Next, DeliveryStep

-----------------------------------------------------------------------------
(* What a step can do to a delivery, to the receipts, to the locks and to   *)
(* the messages.                                                           *)
LEMMA DeliveryMoves ==
  ASSUME TypeOK, [Next]_vars, NEW t \in Sessions, at'[t] # "out"
  PROVE  \/ at'[t] = "entered" /\ \E i \in Ids : Enter(t, i)
         \/ /\ at[t] # "out" /\ item'[t] = item[t] /\ account'[t] = account[t]
            /\ \/ at'[t] = at[t]
               \/ TryLock(t) \/ Check(t) \/ Save(t) \/ Complete(t) \/ Delete(t)
               \/ Fails(t) \/ PutOff(t) \/ PutOffFails(t)
<1> USE DEF rowVars, messageVars, deliveryVars, sessionVars, boundVars
<1> DEFINE Same == at[t] # "out" /\ item'[t] = item[t] /\ account'[t] = account[t]
           Goal == \/ at'[t] = "entered" /\ \E i \in Ids : Enter(t, i)
                   \/ /\ Same
                      /\ \/ at'[t] = at[t]
                         \/ TryLock(t) \/ Check(t) \/ Save(t) \/ Complete(t) \/ Delete(t)
                         \/ Fails(t) \/ PutOff(t) \/ PutOffFails(t)
<1>0. at \in [Sessions -> DeliverySteps] /\ DOMAIN item = Sessions /\ DOMAIN account = Sessions
  BY DEF TypeOK
<1>1. ASSUME NEW s \in Sessions, NEW i \in Ids, Enter(s, i) PROVE Goal
  <2>1. CASE s = t
    BY <1>0, <1>1, <2>1 DEF Enter, Move
  <2>2. CASE s # t
    BY <1>0, <1>1, <2>2 DEF Enter, Move
  <2> QED BY <2>1, <2>2
<1>2. ASSUME NEW s \in Sessions, LockBusy(s) \/ Unlock(s) PROVE Goal
  BY <1>0, <1>2 DEF LockBusy, Unlock, Leave, Move
<1>3. ASSUME NEW s \in Sessions,
             TryLock(s) \/ Check(s) \/ Save(s) \/ Complete(s) \/ Delete(s) \/ PutOff(s) \/ PutOffFails(s)
      PROVE  Goal
  <2>1. item' = item /\ account' = account
    BY <1>3 DEF TryLock, Check, Save, Complete, Delete, PutOff, PutOffFails
  <2>2. at[s] # "out" /\ \E x : at' = [at EXCEPT ![s] = x]
    BY <1>3 DEF TryLock, Check, Save, Complete, Delete, Remove, PutOff, PutOffFails, Move
  <2>3. CASE s = t
    BY <1>3, <2>1, <2>2, <2>3
  <2>4. CASE s # t
    BY <1>0, <2>1, <2>2, <2>4
  <2> QED BY <2>3, <2>4
<1>4. ASSUME NEW s \in Sessions, Fails(s) PROVE Goal
  <2>1. item' = item /\ account' = account /\ at[s] # "out" /\ at' = [at EXCEPT ![s] = "failed"]
    BY <1>4 DEF Fails
  <2> QED BY <1>0, <1>4, <2>1
<1>5. CASE at' = at /\ item' = item /\ account' = account
  BY <1>5
<1>6. CASE Crash
  BY <1>6 DEF Crash
<1>7. ASSUME \/ \E h \in Webhooks :
                  Reject(h) \/ \E a \in Accounts, historical \in BOOLEAN : Accept(h, a, historical)
             \/ StartRun \/ \E i \in Ids : Elapse(i)
             \/ \E c \in Copies : Synchronize(c)
             \/ \E a \in Accounts : Toggle(a)
             \/ \E s \in Sessions : Finish(s) \/ \E i \in Ids : Skip(s, i)
             \/ UNCHANGED vars
      PROVE  at' = at /\ item' = item /\ account' = account
  BY <1>7 DEF Reject, Accept, StartRun, Elapse, Synchronize, Toggle, Finish, Skip, vars
<1> QED BY <1>1, <1>2, <1>3, <1>4, <1>5, <1>6, <1>7 DEF Next, DeliveryStep

LEMMA TableMoves ==
  ASSUME [Next]_vars
  PROVE  \/ receipt' = receipt /\ used' = used /\ accepted' = accepted
         \/ \E h \in Webhooks, a \in Accounts, b \in BOOLEAN : Accept(h, a, b)
         \/ \E s \in Sessions : Delete(s)
<1> USE DEF rowVars
<1>1. ASSUME \/ \E h \in Webhooks : Reject(h)
             \/ StartRun \/ Crash \/ \E i \in Ids : Elapse(i)
             \/ \E c \in Copies : Synchronize(c)
             \/ \E a \in Accounts : Toggle(a)
             \/ UNCHANGED vars
      PROVE  receipt' = receipt /\ used' = used /\ accepted' = accepted
  BY <1>1 DEF Reject, StartRun, Crash, Elapse, Synchronize, Toggle, vars
<1>2. ASSUME NEW s \in Sessions,
             \/ \E i \in Ids : Enter(s, i) \/ Skip(s, i)
             \/ TryLock(s) \/ LockBusy(s) \/ Check(s) \/ Save(s) \/ Complete(s)
             \/ PutOff(s) \/ Unlock(s) \/ Finish(s) \/ Fails(s) \/ PutOffFails(s)
      PROVE  receipt' = receipt /\ used' = used /\ accepted' = accepted
  BY <1>2 DEF Enter, Skip, Take, TryLock, LockBusy, Check, Save, Complete, PutOff, Unlock, Finish,
              Fails, PutOffFails
<1> QED BY <1>1, <1>2 DEF Next, DeliveryStep

LEMMA LockMoves ==
  ASSUME [Next]_vars
  PROVE  lock' = lock \/ (\E s \in Sessions : TryLock(s) \/ Unlock(s)) \/ Crash
<1>1. ASSUME \/ \E h \in Webhooks :
                  Reject(h) \/ \E a \in Accounts, historical \in BOOLEAN : Accept(h, a, historical)
             \/ StartRun \/ \E i \in Ids : Elapse(i)
             \/ \E c \in Copies : Synchronize(c)
             \/ \E a \in Accounts : Toggle(a)
             \/ UNCHANGED vars
      PROVE  lock' = lock
  BY <1>1 DEF Reject, Accept, StartRun, Elapse, Synchronize, Toggle, vars
<1>2. ASSUME NEW s \in Sessions,
             \/ \E i \in Ids : Enter(s, i) \/ Skip(s, i)
             \/ LockBusy(s) \/ Check(s) \/ Save(s) \/ Complete(s) \/ Delete(s)
             \/ PutOff(s) \/ Finish(s) \/ Fails(s) \/ PutOffFails(s)
      PROVE  lock' = lock
  BY <1>2 DEF Enter, Skip, Take, LockBusy, Check, Save, Complete, Delete, PutOff, Finish,
              Fails, PutOffFails
<1> QED BY <1>1, <1>2 DEF Next, DeliveryStep

LEMMA MessageMoves ==
  ASSUME TypeOK, DeliveriesKeepTheirRow, [Next]_vars
  PROVE  /\ (stored' = stored /\ increments' = increments) \/ \E e \in Events : StoreCopy(e)
         /\ persisted \subseteq persisted'
         /\ persisted' = persisted \/ \E s \in Sessions : Complete(s)
<1> USE DEF messageVars
<1> DEFINE Goal == /\ (stored' = stored /\ increments' = increments) \/ \E e \in Events : StoreCopy(e)
                   /\ persisted \subseteq persisted'
                   /\ persisted' = persisted \/ \E s \in Sessions : Complete(s)
<1>1. ASSUME \/ \E h \in Webhooks :
                  Reject(h) \/ \E a \in Accounts, historical \in BOOLEAN : Accept(h, a, historical)
             \/ StartRun \/ Crash \/ \E i \in Ids : Elapse(i)
             \/ \E a \in Accounts : Toggle(a)
             \/ UNCHANGED vars
      PROVE  Goal
  BY <1>1 DEF Reject, Accept, StartRun, Crash, Elapse, Toggle, vars
<1>2. ASSUME NEW s \in Sessions,
             \/ \E i \in Ids : Enter(s, i) \/ Skip(s, i)
             \/ TryLock(s) \/ LockBusy(s) \/ Check(s) \/ Complete(s) \/ Delete(s)
             \/ PutOff(s) \/ Unlock(s) \/ Finish(s) \/ Fails(s) \/ PutOffFails(s)
      PROVE  Goal
  BY <1>2 DEF Enter, Skip, Take, TryLock, LockBusy, Check, Complete, Delete, PutOff, Unlock, Finish,
              Fails, PutOffFails
<1>3. ASSUME NEW c \in Copies, Synchronize(c) PROVE Goal
  BY <1>3 DEF Synchronize, Events
<1>4. ASSUME NEW s \in Sessions, Save(s) PROVE Goal
  <2>1. receipt[item[s]] \in Events
    BY <1>4 DEF Save, Move, DeliveriesKeepTheirRow, Rows, TypeOK
  <2> QED BY <1>4, <2>1 DEF Save
<1> QED BY <1>1, <1>2, <1>3, <1>4 DEF Next, DeliveryStep

-----------------------------------------------------------------------------
(* An id that was given out never comes back with another receipt. *)
LEMMA RowsOnlyLeave ==
  ASSUME TypeOK, RowsAreNumbered, [Next]_vars, NEW i \in Ids, i <= used
  PROVE  /\ used <= used' /\ used \in Nat /\ used' \in Nat
         /\ i \in Rows' => i \in Rows /\ receipt'[i] = receipt[i]
<1>0. used \in Nat /\ i \in Nat
  BY BoundAssumption DEF TypeOK, Ids
<1>1. CASE receipt' = receipt /\ used' = used
  BY <1>0, <1>1 DEF Rows
<1>2. ASSUME NEW h \in Webhooks, NEW a \in Accounts, NEW b \in BOOLEAN, Accept(h, a, b)
      PROVE  /\ used <= used' /\ used' \in Nat
             /\ i \in Rows' => i \in Rows /\ receipt'[i] = receipt[i]
  <2>1. used' \in Nat /\ used <= used'
    BY <1>2, AcceptAdds, BoundAssumption
  <2>2. i \in Rows' /\ i \notin Rows => used < i
    BY <1>2, AcceptAdds DEF Rows
  <2> QED BY <1>0, <1>2, <2>1, <2>2, AcceptAdds
<1>3. ASSUME NEW s \in Sessions, Delete(s)
      PROVE  /\ used' = used
             /\ i \in Rows' => i \in Rows /\ receipt'[i] = receipt[i]
  BY <1>3 DEF Delete, Rows, TypeOK
<1> QED BY <1>0, <1>1, <1>2, <1>3, TableMoves

LEMMA NumberedStep == TypeOK /\ RowsAreNumbered /\ [Next]_vars => RowsAreNumbered'
<1> SUFFICES ASSUME TypeOK, RowsAreNumbered, [Next]_vars, NEW i \in Ids, receipt'[i] # None
             PROVE  i <= used'
  BY DEF RowsAreNumbered, Rows, Ids
<1>0. used \in Nat /\ i \in Nat
  BY BoundAssumption DEF TypeOK, Ids
<1>1. CASE receipt' = receipt /\ used' = used
  BY <1>1 DEF RowsAreNumbered, Rows
<1>2. ASSUME NEW h \in Webhooks, NEW a \in Accounts, NEW b \in BOOLEAN, Accept(h, a, b) PROVE i <= used'
  <2>1. used' \in Nat /\ used <= used'
    BY <1>2, AcceptAdds, BoundAssumption
  <2>2. CASE i \in Rows
    BY <1>0, <2>1, <2>2 DEF RowsAreNumbered
  <2>3. CASE i \notin Rows
    BY <1>2, <2>3, AcceptAdds
  <2> QED BY <2>2, <2>3
<1>3. ASSUME NEW s \in Sessions, Delete(s) PROVE i <= used'
  BY <1>3 DEF Delete, Rows, RowsAreNumbered, TypeOK
<1> QED BY <1>1, <1>2, <1>3, TableMoves

LEMMA KnowStep == TypeOK /\ RowsAreNumbered /\ DeliveriesKnow /\ [Next]_vars => DeliveriesKnow'
<1> SUFFICES ASSUME TypeOK, RowsAreNumbered, DeliveriesKnow, [Next]_vars,
                    NEW t \in Sessions, at'[t] # "out"
             PROVE  /\ item'[t] \in Ids /\ item'[t] <= used' /\ account'[t] \in Accounts
                    /\ item'[t] \in Rows' => Owner(receipt'[item'[t]]) = account'[t]
  BY DEF DeliveriesKnow, Sessions, Ids, Owner
<1>1. ASSUME NEW i \in Ids, Enter(t, i)
      PROVE  /\ item'[t] = i /\ i \in Rows /\ account'[t] = Owner(receipt[i])
             /\ receipt' = receipt /\ used' = used
  BY <1>1 DEF Enter, Take, TypeOK, rowVars
<1>2. ASSUME NEW i \in Ids, i \in Rows PROVE Owner(receipt[i]) \in Accounts
  BY <1>2, CopyAssumption DEF Rows, TypeOK, Owner, Events
<1>3. CASE \E i \in Ids : Enter(t, i)
  <2>1. PICK i \in Ids : Enter(t, i)
    BY <1>3
  <2> QED BY <1>1, <1>2, <2>1 DEF RowsAreNumbered
<1>4. CASE at[t] # "out" /\ item'[t] = item[t] /\ account'[t] = account[t]
  <2>1. /\ item[t] \in Ids /\ item[t] <= used /\ account[t] \in Accounts
        /\ item[t] \in Rows => Owner(receipt[item[t]]) = account[t]
    BY <1>4 DEF DeliveriesKnow
  <2>2. /\ used <= used' /\ used \in Nat /\ used' \in Nat
        /\ item[t] \in Rows' => item[t] \in Rows /\ receipt'[item[t]] = receipt[item[t]]
    BY <2>1, RowsOnlyLeave
  <2>3. item[t] \in Nat
    BY <2>1 DEF Ids
  <2>4. item'[t] <= used'
    BY <1>4, <2>1, <2>2, <2>3
  <2> QED BY <1>4, <2>1, <2>2, <2>4
<1> QED BY <1>3, <1>4, DeliveryMoves

LEMMA LocksStep == TypeOK /\ DeliveriesKnow /\ LocksAreTheirs /\ [Next]_vars => LocksAreTheirs'
<1> SUFFICES ASSUME TypeOK, DeliveriesKnow, LocksAreTheirs, [Next]_vars,
                    NEW t \in Sessions, at'[t] \in Inside
             PROVE  lock'[account'[t]] = t
  BY DEF LocksAreTheirs, Sessions
<1> USE DEF Inside
<1>0. None \notin Sessions /\ lock \in [Accounts -> Sessions \cup {None}]
  BY SessionAssumption DEF Sessions, TypeOK
<1>1. at[t] # "out" /\ item'[t] = item[t] /\ account'[t] = account[t] /\ account[t] \in Accounts
  BY DeliveryMoves DEF DeliveriesKnow
<1>2. CASE TryLock(t)
  BY <1>0, <1>1, <1>2 DEF TryLock
<1>3. CASE ~TryLock(t)
  <2>1. at[t] \in Inside
    <3>1. CASE at'[t] = at[t]
      BY <3>1
    <3>2. CASE Check(t) \/ Save(t) \/ Complete(t) \/ Delete(t) \/ PutOff(t) \/ PutOffFails(t)
      BY <3>2 DEF Check, Save, Complete, Delete, Remove, PutOff, PutOffFails, Move
    <3>3. CASE Fails(t)
      BY <3>3 DEF Fails
    <3> QED BY <1>3, <3>1, <3>2, <3>3, DeliveryMoves
  <2>2. lock[account[t]] = t
    BY <2>1 DEF LocksAreTheirs
  <2>3. CASE lock' = lock
    BY <1>1, <2>2, <2>3
  <2>4. ASSUME NEW s \in Sessions, TryLock(s) PROVE lock'[account'[t]] = t
    <3>1. lock[account[s]] = None /\ lock' = [lock EXCEPT ![account[s]] = s]
      BY <2>4 DEF TryLock, Unlocked
    <3>2. account[s] # account[t]
      BY <1>0, <2>2, <3>1
    <3> QED BY <1>0, <1>1, <2>2, <3>1, <3>2
  <2>5. ASSUME NEW s \in Sessions, Unlock(s) PROVE lock'[account'[t]] = t
    <3>1. at[s] = "unlock" /\ lock' = [lock EXCEPT ![account[s]] = None] /\ at' = [at EXCEPT ![s] = "out"]
      BY <2>5 DEF Unlock, Leave, Move
    <3>2. s # t
      BY <3>1 DEF TypeOK
    <3>3. lock[account[s]] = s
      BY <3>1 DEF LocksAreTheirs
    <3> QED BY <1>0, <1>1, <2>2, <3>1, <3>2, <3>3
  <2>6. ~Crash
    BY DEF Crash
  <2> QED BY <2>3, <2>4, <2>5, <2>6, LockMoves
<1> QED BY <1>2, <1>3

(* Two deliveries past the lock never hold the same row. *)
LEMMA RowsApart ==
  ASSUME TypeOK, DeliveriesKnow, LocksAreTheirs,
         NEW s \in Sessions, NEW t \in Sessions, s # t, at[s] \in Inside, at[t] \in Inside,
         item[s] \in Rows
  PROVE  item[s] # item[t]
<1>1. at[s] # "out" /\ at[t] # "out"
  BY DEF Inside
<1>2. lock[account[s]] = s /\ lock[account[t]] = t
  BY DEF LocksAreTheirs
<1>3. item[s] \in Rows => Owner(receipt[item[s]]) = account[s]
  BY <1>1 DEF DeliveriesKnow
<1>4. item[t] \in Rows => Owner(receipt[item[t]]) = account[t]
  BY <1>1 DEF DeliveriesKnow
<1> QED BY <1>2, <1>3, <1>4

LEMMA KeepsStep ==
  TypeOK /\ RowsAreNumbered /\ DeliveriesKnow /\ LocksAreTheirs /\ DeliveriesKeepTheirRow /\ [Next]_vars
    => DeliveriesKeepTheirRow'
<1> SUFFICES ASSUME TypeOK, RowsAreNumbered, DeliveriesKnow, LocksAreTheirs, DeliveriesKeepTheirRow,
                    [Next]_vars, NEW t \in Sessions, at'[t] \in Settling
             PROVE  item'[t] \in Rows'
  BY DEF DeliveriesKeepTheirRow, Settling, Sessions
<1> USE DEF Settling
<1>1. at[t] # "out" /\ item'[t] = item[t] /\ item[t] \in Ids
  BY DeliveryMoves DEF DeliveriesKnow
<1>2. at[t] \in Inside /\ item[t] \in Rows /\ ~Delete(t)
  <2>1. CASE at'[t] = at[t]
    <3>1. ~Delete(t)
      BY <2>1 DEF Delete, Remove, Move, TypeOK
    <3> QED BY <2>1, <3>1 DEF Inside, DeliveriesKeepTheirRow
  <2>2. CASE Check(t)
    BY <2>2 DEF Check, Move, TypeOK, Deliverable, Inside, Delete, Remove
  <2>3. CASE Save(t) \/ Complete(t)
    <3>1. at[t] \in {"ready", "saved"}
      BY <2>3 DEF Save, Complete, Move
    <3> QED BY <3>1 DEF Inside, DeliveriesKeepTheirRow, Delete, Remove, Move
  <2>4. CASE Fails(t)
    <3>1. at[t] \in {"ready", "saved", "persisted"} /\ at'[t] = "failed"
      BY <2>4 DEF Fails, TypeOK
    <3>2. ~Delete(t)
      BY <3>1 DEF Delete, Remove, Move, TypeOK
    <3> QED BY <3>1, <3>2 DEF Inside, DeliveriesKeepTheirRow
  <2>5. ~TryLock(t) /\ ~Delete(t) /\ ~PutOff(t) /\ ~PutOffFails(t)
    BY DEF TryLock, Delete, Remove, PutOff, PutOffFails, Move, TypeOK
  <2> QED BY <2>1, <2>2, <2>3, <2>4, <2>5, DeliveryMoves
<1>3. CASE receipt' = receipt /\ used' = used
  BY <1>1, <1>2, <1>3 DEF Rows
<1>4. ASSUME NEW h \in Webhooks, NEW a \in Accounts, NEW b \in BOOLEAN, Accept(h, a, b)
      PROVE  item'[t] \in Rows'
  BY <1>1, <1>2, <1>4, AcceptAdds DEF Rows
<1>5. ASSUME NEW s \in Sessions, Delete(s) PROVE item'[t] \in Rows'
  <2>1. at[s] \in Inside /\ item[s] \in Rows /\ receipt' = [receipt EXCEPT ![item[s]] = None]
    BY <1>5 DEF Delete, Remove, Move, Inside, DeliveriesKeepTheirRow
  <2>2. item[s] # item[t]
    BY <1>2, <1>5, <2>1, RowsApart
  <2> QED BY <1>1, <1>2, <2>1, <2>2 DEF Rows, TypeOK
<1> QED BY <1>3, <1>4, <1>5, TableMoves

LEMMA NotedStep ==
  TypeOK /\ RowsAreNumbered /\ DeliveriesKnow /\ LocksAreTheirs /\ DeliveriesKeepTheirRow
         /\ PersistedAreNoted /\ [Next]_vars
    => PersistedAreNoted'
<1> SUFFICES ASSUME TypeOK, RowsAreNumbered, DeliveriesKnow, LocksAreTheirs, DeliveriesKeepTheirRow,
                    PersistedAreNoted, [Next]_vars, NEW t \in Sessions, at'[t] = "persisted"
             PROVE  receipt'[item'[t]] \in persisted'
  BY DEF PersistedAreNoted, Sessions
<1>1. at[t] # "out" /\ item'[t] = item[t] /\ item[t] \in Ids /\ item[t] <= used
  BY DeliveryMoves DEF DeliveriesKnow
<1>2. item[t] \in Rows' /\ receipt'[item[t]] = receipt[item[t]]
  <2>1. item[t] \in Rows'
    BY <1>1, KeepsStep DEF DeliveriesKeepTheirRow
  <2> QED BY <1>1, <2>1, RowsOnlyLeave
<1>3. CASE Complete(t)
  BY <1>1, <1>2, <1>3 DEF Complete
<1>4. CASE ~Complete(t)
  <2>1. at[t] = "persisted"
    <3>1. ~TryLock(t) /\ ~Check(t) /\ ~Save(t) /\ ~Delete(t) /\ ~Fails(t) /\ ~PutOff(t) /\ ~PutOffFails(t)
      BY DEF TryLock, Check, Save, Delete, Remove, Fails, PutOff, PutOffFails, Move, TypeOK
    <3> QED BY <1>4, <3>1, DeliveryMoves
  <2> QED BY <1>1, <1>2, <2>1, MessageMoves DEF PersistedAreNoted
<1> QED BY <1>3, <1>4

(* An accepted event is in its row until it is persisted. *)
LEMMA LostStep ==
  TypeOK /\ RowsAreNumbered /\ DeliveriesKeepTheirRow /\ PersistedAreNoted /\ NothingLost /\ [Next]_vars
    => NothingLost'
<1> SUFFICES ASSUME TypeOK, RowsAreNumbered, DeliveriesKeepTheirRow, PersistedAreNoted, NothingLost,
                    [Next]_vars, NEW e \in accepted', e \notin persisted'
             PROVE  \E i \in Ids : receipt'[i] = e /\ receipt'[i] # None
  BY DEF NothingLost, Holding, Rows, Ids
<1>1. e \notin persisted
  BY MessageMoves
<1>2. ASSUME e \in accepted PROVE \E i \in Ids : receipt[i] = e /\ receipt[i] # None
  BY <1>1, <1>2 DEF NothingLost, Holding, Rows
<1>3. CASE receipt' = receipt /\ accepted' = accepted
  BY <1>2, <1>3
<1>4. ASSUME NEW h \in Webhooks, NEW a \in Accounts, NEW b \in BOOLEAN, Accept(h, a, b)
      PROVE  \E i \in Ids : receipt'[i] = e /\ receipt'[i] # None
  <2>1. CASE e \in accepted
    <3>1. PICK i \in Ids : receipt[i] = e /\ receipt[i] # None
      BY <1>2, <2>1
    <3> QED BY <1>4, <3>1, AcceptAdds DEF Rows
  <2>2. CASE e \notin accepted
    <3>1. e \in Events
      BY <1>4, AcceptAdds
    <3>2. e # None
      BY <3>1, SessionAssumption DEF Events
    <3> QED BY <1>4, <2>2, <3>2, AcceptAdds
  <2> QED BY <2>1, <2>2
<1>5. ASSUME NEW s \in Sessions, Delete(s) PROVE \E i \in Ids : receipt'[i] = e /\ receipt'[i] # None
  <2>1. at[s] = "persisted" /\ accepted' = accepted /\ receipt' = [receipt EXCEPT ![item[s]] = None]
    BY <1>5 DEF Delete, Remove, Move
  <2>2. PICK i \in Ids : receipt[i] = e /\ receipt[i] # None
    BY <1>2, <2>1
  <2>3. i # item[s]
    BY <1>1, <2>1, <2>2 DEF PersistedAreNoted
  <2> QED BY <2>1, <2>2, <2>3 DEF TypeOK
<1> QED BY <1>3, <1>4, <1>5, TableMoves

LEMMA CountedStep ==
  TypeOK /\ DeliveriesKeepTheirRow /\ CountedWhenStored /\ [Next]_vars => CountedWhenStored'
<1> SUFFICES ASSUME TypeOK, DeliveriesKeepTheirRow, CountedWhenStored, [Next]_vars PROVE CountedWhenStored'
  OBVIOUS
<1>1. CASE stored' = stored /\ increments' = increments
  BY <1>1 DEF CountedWhenStored
<1>2. ASSUME NEW e \in Events, StoreCopy(e) PROVE CountedWhenStored'
  <2> DEFINE m == MessageOf[e.copy]
  <2>1. e.copy \in Copies /\ m \in Messages /\ e.copy # None
    BY CopyAssumption, SessionAssumption DEF Events
  <2>2. stored' = [stored EXCEPT ![m] = IF Preserves(stored[m], e.copy) THEN stored[m] ELSE e.copy]
    BY <1>2 DEF StoreCopy
  <2>7. \/ increments' = increments
        \/ stored[m] = None /\ increments' = [increments EXCEPT ![m] = increments[m] + 1]
    BY <1>2, Zenon DEF StoreCopy, Inserted
  <2> HIDE DEF m
  <2>3. stored'[m] # None
    BY <2>1, <2>2 DEF Preserves, TypeOK
  <2>4. \A x \in Messages : x # m => stored'[x] = stored[x] /\ increments'[x] = increments[x]
    BY <2>2, <2>7 DEF TypeOK
  <2>5. increments'[m] \in {0, 1}
    BY <2>1, <2>7 DEF TypeOK, CountedWhenStored
  <2> QED BY <2>3, <2>4, <2>5 DEF CountedWhenStored
<1> QED BY <1>1, <1>2, MessageMoves

-----------------------------------------------------------------------------
LEMMA InboxStep == InboxInv /\ [Next]_vars => InboxInv'
<1> SUFFICES ASSUME InboxInv, [Next]_vars PROVE InboxInv'
  OBVIOUS
<1> USE DEF InboxInv
<1>1. TypeOK'
  BY TypesStep
<1>2. RowsAreNumbered' /\ DeliveriesKnow' /\ LocksAreTheirs'
  BY NumberedStep, KnowStep, LocksStep
<1>3. DeliveriesKeepTheirRow' /\ PersistedAreNoted' /\ NothingLost' /\ CountedWhenStored'
  BY KeepsStep, NotedStep, LostStep, CountedStep
<1> QED BY <1>1, <1>2, <1>3

(* InboxInv holds at every step of the inbox. *)
THEOREM InboxAlways == Spec => []InboxInv
BY InboxInit, InboxStep, PTL DEF Spec

(* The variables keep their types, and the inbox table the unique key on    *)
(* which accept relies to answer a repeated event with the row it has.      *)
THEOREM InboxTypes == Spec => []TypeOK
<1>1. InboxInv => TypeOK
  BY DEF InboxInv
<1> QED BY <1>1, InboxAlways, PTL

(* No message that the webhook acknowledged is lost: whatever fails, dies   *)
(* or races, its receipt waits or its persistence was carried through.      *)
THEOREM NothingIsLost == Spec => []NothingLost
<1>1. InboxInv => NothingLost
  BY DEF InboxInv
<1> QED BY <1>1, InboxAlways, PTL

(* A message adds at most one to the counter of its chat, in however many   *)
(* copies, times and ways it comes.                                        *)
THEOREM OnceCounted == Spec => []CountedOnce
<1>1. InboxInv => CountedOnce
  BY DEF InboxInv, CountedWhenStored, CountedOnce, TypeOK
<1> QED BY <1>1, InboxAlways, PTL

(* The row a delivery read under the account's lock stays until that        *)
(* delivery removes it.                                                    *)
THEOREM RowsKept == Spec => []DeliveriesKeepTheirRow
<1>1. InboxInv => DeliveriesKeepTheirRow
  BY DEF InboxInv
<1> QED BY <1>1, InboxAlways, PTL

(* A text that is known is never blanked, by an empty copy or by history.   *)
THEOREM TextKept == Spec => TextIsKept
<1> DEFINE Kept == \A m \in Messages :
                     stored[m] # None /\ stored[m] \notin Blank
                       => stored'[m] # None /\ stored'[m] \notin Blank
<1>1. InboxInv /\ [Next]_vars => Kept
  <2> SUFFICES ASSUME InboxInv, [Next]_vars PROVE Kept
    OBVIOUS
  <2> USE DEF InboxInv
  <2>1. CASE stored' = stored
    BY <2>1
  <2>2. ASSUME NEW e \in Events, StoreCopy(e) PROVE Kept
    <3>1. e.copy \in Copies /\ e.copy # None
      BY SessionAssumption DEF Events
    <3> QED BY <2>2, <3>1 DEF StoreCopy, Preserves, TypeOK
  <2> QED BY <2>1, <2>2, MessageMoves
<1>2. InboxInv /\ [Next]_vars => [Kept]_vars
  BY <1>1
<1> QED BY <1>2, InboxAlways, PTL DEF Spec, TextIsKept

-----------------------------------------------------------------------------
(* The inbox implements the mailbox: what waits in rows is pending, what     *)
(* was carried through is delivered, and a receipt is settled only then.    *)
LEMMA MailboxInit == Init => Mailbox!Init
BY DEF Init, Mailbox!Init, Rows

LEMMA MailboxStep == InboxInv /\ [Next]_vars => [Mailbox!Next]_(Mailbox!vars)
<1> SUFFICES ASSUME InboxInv, [Next]_vars PROVE [Mailbox!Next]_(Mailbox!vars)
  OBVIOUS
<1> USE DEF InboxInv
<1>0. /\ \A i \in Rows : receipt[i] \in Events /\ i \in Ids
      /\ \A i \in Rows' : receipt'[i] # None
  BY DEF TypeOK, Rows
<1>1. ASSUME NEW s \in Sessions, Complete(s) PROVE Mailbox!Next
  <2>1. item[s] \in Rows
    BY <1>1 DEF Complete, Move, DeliveriesKeepTheirRow
  <2>2. persisted' = persisted \cup {receipt[item[s]]} /\ receipt' = receipt
    BY <1>1 DEF Complete, rowVars
  <2>3. Mailbox!Deliver(receipt[item[s]])
    BY <2>1, <2>2 DEF Mailbox!Deliver, Rows
  <2> QED BY <1>0, <2>1, <2>3 DEF Mailbox!Next
<1>2. ASSUME NEW h \in Webhooks, NEW a \in Accounts, NEW b \in BOOLEAN, Accept(h, a, b) PROVE Mailbox!Next
  <2>1. receipt' \in [Ids -> Events \cup {None}] /\ \A i \in Rows : receipt'[i] = receipt[i] /\ i \in Rows'
    BY <1>0, <1>2, AcceptAdds DEF Rows
  <2>2. PICK P \in SUBSET Events : P = {receipt'[i] : i \in Rows'}
    BY <2>1 DEF Rows
  <2>3. persisted' = persisted
    BY <1>2 DEF Accept, messageVars
  <2>4. {receipt[i] : i \in Rows} \subseteq P
    BY <2>1, <2>2
  <2>5. Mailbox!Receive(P)
    BY <2>2, <2>3, <2>4 DEF Mailbox!Receive
  <2> QED BY <2>2, <2>5 DEF Mailbox!Next
<1>3. ASSUME NEW s \in Sessions, Delete(s) PROVE Mailbox!Next
  <2>0. PICK e \in Events : e = receipt[item[s]] /\ item[s] \in Rows
    BY <1>0, <1>3 DEF Delete, Remove, Move, DeliveriesKeepTheirRow
  <2>1. e \in persisted
    BY <1>3, <2>0 DEF Delete, Remove, Move, PersistedAreNoted
  <2>2. receipt' = [receipt EXCEPT ![item[s]] = None] /\ persisted' = persisted
    BY <1>3 DEF Delete, messageVars
  <2>3. Rows' = Rows \ {item[s]} /\ \A i \in Rows' : receipt'[i] = receipt[i]
    BY <2>0, <2>2 DEF Rows, TypeOK
  <2>4. \A i \in Rows : i # item[s] => receipt[i] # e
    BY <2>0 DEF TypeOK
  <2>5. {receipt'[i] : i \in Rows'} = {receipt[i] : i \in Rows} \ {e}
    BY <2>0, <2>3, <2>4
  <2>6. e \in {receipt[i] : i \in Rows}
    BY <2>0
  <2>7. Mailbox!Settle(e)
    BY <2>1, <2>2, <2>5, <2>6 DEF Mailbox!Settle
  <2> QED BY <2>7 DEF Mailbox!Next
<1>4. CASE receipt' = receipt /\ persisted' = persisted
  BY <1>4 DEF Mailbox!vars, Rows
<1> QED BY <1>1, <1>2, <1>3, <1>4, TableMoves, MessageMoves

(* The inbox implements the mailbox: what waits in rows is pending, what    *)
(* was carried through is delivered, and a receipt is settled only then.    *)
THEOREM ImplementsMailbox == Spec => MailboxSpec
BY MailboxInit, MailboxStep, InboxAlways, PTL DEF Spec, MailboxSpec, Mailbox!Spec
=============================================================================
