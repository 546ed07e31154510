----------------------- MODULE ProjectReviews_proofs -----------------------
(***************************************************************************)
(* A meeting that its projects approve is approved whole and for good, for *)
(* any chart, staffings, designations, analyses, people and number of      *)
(* edits, changes and failures; and the path each project climbs skips     *)
(* nobody.                                                                 *)
(*                                                                         *)
(* The first half is about the rules: what the recursive definitions of    *)
(* ReviewPath compute, in any chart, and why the path they build is sound. *)
(* The second half is about the workflow, and leaves aside what a path is  *)
(* made of: it only needs that a clear one is not empty.                   *)
(***************************************************************************)
EXTENDS ProjectReviews, WellFoundedInduction, FiniteSetTheorems, SequenceTheorems, TLAPS

(* Recursion over data: what a function computes step by step is shown of  *)
(* the least step that would not satisfy it, because a set of natural      *)
(* numbers has a least element.                                            *)
Less == {pair \in Nat \X Nat : pair[1] < pair[2]}
LEMMA LeastOf ==
  ASSUME NEW T \in SUBSET Nat, T # {}
  PROVE  \E n \in T : \A m \in T : n <= m
<1>1. IsWellFoundedOn(Less, Nat)
  BY NatLessThanWellFounded DEF OpToRel, Less
<1>2. PICK n \in T : \A m \in T : <<m, n>> \notin Less
  BY <1>1, WFMin
<1>3. \A m \in T : <<m, n>> \in Nat \X Nat
  OBVIOUS
<1>4. \A m \in T : ~ (m < n)
  BY <1>2, <1>3 DEF Less
<1> QED
  BY <1>2, <1>4

(* No lineage is longer, in a chart of finitely many positions. *)
Height == Cardinality(Positions) + 1

LEMMA HeightIsNat == Height \in Nat /\ Cardinality(Positions) \in Nat
  BY ChartAssumption, FS_CardinalityType DEF Height

(* One more position above those of a line from c. *)
NextOf(c, line) == IF line = <<>> THEN c ELSE Parent[Last(line)]
Ended(c, line) == \/ line # <<>> /\ Last(line) \in Finals
                  \/ NextOf(c, line) \notin Positions \ Direction
Raised(c, line) == IF Ended(c, line) THEN line ELSE Append(line, NextOf(c, line))

(* up of Lineage, as far as n positions; there is one. *)
Climbs(up, c, n) == up = [k \in 0 .. n |-> IF k = 0 THEN <<>> ELSE Raised(c, up[k - 1])]

LEMMA ClimbsExist ==
  ASSUME NEW c, NEW n \in Nat
  PROVE  \E up : Climbs(up, c, n)
<1> DEFINE T == {m \in Nat : ~ \E up : Climbs(up, c, m)}
<1> SUFFICES ASSUME T # {} PROVE FALSE
  OBVIOUS
<1>1. PICK m \in T : \A k \in T : m <= k
  BY LeastOf
<1>2. CASE m = 0
  <2> DEFINE up == [k \in 0 .. 0 |-> <<>>]
  <2>1. Climbs(up, c, 0)
    BY DEF Climbs
  <2> QED
    BY <1>1, <1>2, <2>1
<1>3. CASE m # 0
  <2>1. m - 1 \in Nat /\ ~ (m <= m - 1)
    BY <1>1, <1>3
  <2>2. PICK low : Climbs(low, c, m - 1)
    BY <1>1, <2>1
  <2> DEFINE up == [k \in 0 .. m |-> IF k = 0 THEN <<>> ELSE Raised(c, low[k - 1])]
  <2>3. \A k \in 0 .. (m - 1) : up[k] = low[k]
    BY <1>1, <2>1, <2>2 DEF Climbs
  <2>4. \A k \in 0 .. m : k # 0 => up[k - 1] = low[k - 1]
    <3>1. \A k \in 0 .. m : k # 0 => k - 1 \in 0 .. (m - 1)
      BY <2>1
    <3> QED
      BY <2>3, <3>1
  <2>5. up = [k \in 0 .. m |-> IF k = 0 THEN <<>> ELSE Raised(c, up[k - 1])]
    BY <2>4
  <2> QED
    BY <1>1, <2>5 DEF Climbs
<1> QED
  BY <1>2, <1>3

(* A lineage is what has been climbed after as many steps as positions. *)
LEMMA LineageIs ==
  ASSUME NEW c \in Positions
  PROVE  \E up : Climbs(up, c, Height) /\ Lineage[c] = up[Height]
<1> DEFINE up == CHOOSE up : Climbs(up, c, Height)
<1>1. Climbs(up, c, Height)
  BY ClimbsExist, HeightIsNat
<1>2. Lineage[c] = up[Height]
  BY DEF Lineage, Climbs, Raised, Ended, NextOf, Height
<1> QED
  BY <1>1, <1>2

-----------------------------------------------------------------------------
(* A line climbs the chart from a position and goes on below the direction *)
(* and up to the first final position.                                     *)
IsLine(c, l) ==
  /\ l \in Seq(Positions)
  /\ l # <<>> => l[1] = c
  /\ \A k \in 1 .. Len(l) : l[k] \notin Direction
  /\ \A k \in 1 .. Len(l) : k < Len(l) => l[k] \notin Finals /\ l[k + 1] = Parent[l[k]]

(* A line with the position above it is one more line, until it ends. *)
LEMMA RaisedIsLine ==
  ASSUME NEW c \in Positions, NEW l, IsLine(c, l), ~ Ended(c, l)
  PROVE  IsLine(c, Raised(c, l)) /\ Len(Raised(c, l)) = Len(l) + 1
<1> DEFINE d == NextOf(c, l)
           m == Append(l, d)
<1>1. l \in Seq(Positions) /\ Len(l) \in Nat /\ (l # <<>> => Len(l) \in 1 .. Len(l))
  BY DEF IsLine
<1>2. l # <<>> => l[Len(l)] \in Positions /\ l[Len(l)] \notin Finals /\ d = Parent[l[Len(l)]]
  BY <1>1 DEF Ended, NextOf, Last
<1>3. d \in Positions /\ d \notin Direction
  BY <1>2, ChartAssumption DEF Ended, NextOf
<1>4. Raised(c, l) = m
  BY DEF Raised
<1> HIDE DEF d
<1>5. /\ m \in Seq(Positions) /\ Len(m) = Len(l) + 1
      /\ \A k \in 1 .. Len(l) : m[k] = l[k]
      /\ m[Len(l) + 1] = d
  BY <1>1, <1>3
<1>6. m[1] = c
  <2>1. CASE l = <<>>
    BY <1>5, <2>1 DEF d, NextOf
  <2>2. CASE l # <<>>
    BY <1>1, <1>5, <2>2 DEF IsLine
  <2> QED
    BY <2>1, <2>2
<1>7. ASSUME NEW k \in 1 .. Len(m)
      PROVE  m[k] \notin Direction
  BY <1>1, <1>3, <1>5, <1>7 DEF IsLine
<1>8. ASSUME NEW k \in 1 .. Len(m), k < Len(m)
      PROVE  m[k] \notin Finals /\ m[k + 1] = Parent[m[k]]
  <2>1. CASE k = Len(l)
    BY <1>1, <1>2, <1>5, <1>8, <2>1
  <2>2. CASE k # Len(l)
    <3>1. k \in 1 .. Len(l) /\ k + 1 \in 1 .. Len(l) /\ k < Len(l)
      BY <1>1, <1>5, <1>8, <2>2
    <3> QED
      BY <1>5, <3>1 DEF IsLine
  <2> QED
    BY <2>1, <2>2
<1> QED
  BY <1>4, <1>5, <1>6, <1>7, <1>8 DEF IsLine

(* Every step of the climb is a line; one that stopped growing has ended. *)
LEMMA ClimbsALine ==
  ASSUME NEW c \in Positions, NEW n \in Nat, NEW up, Climbs(up, c, n), NEW k \in 0 .. n
  PROVE  /\ IsLine(c, up[k]) /\ Len(up[k]) <= k
         /\ Len(up[k]) < k => Ended(c, up[k])
<1> DEFINE Good(j) == /\ IsLine(c, up[j]) /\ Len(up[j]) <= j
                      /\ Len(up[j]) < j => Ended(c, up[j])
           T == {j \in 0 .. n : ~ Good(j)}
<1> SUFFICES ASSUME T # {} PROVE FALSE
  OBVIOUS
<1>1. T \in SUBSET Nat
  OBVIOUS
<1>2. PICK j \in T : \A i \in T : j <= i
  BY <1>1, LeastOf
<1>3. CASE j = 0
  <2>1. up[j] = <<>>
    BY <1>3 DEF Climbs
  <2>2. Good(j)
    BY <1>3, <2>1 DEF IsLine
  <2> QED
    BY <1>2, <2>2
<1>4. CASE j # 0
  <2>1. j - 1 \in 0 .. n /\ ~ (j <= j - 1)
    BY <1>1, <1>4
  <2>2. Good(j - 1)
    BY <1>2, <2>1
  <2>3. up[j] = Raised(c, up[j - 1])
    BY <1>4 DEF Climbs
  <2>4. Len(up[j - 1]) \in Nat
    BY <2>2 DEF IsLine
  <2>5. CASE Ended(c, up[j - 1])
    <3>1. up[j] = up[j - 1]
      BY <2>3, <2>5 DEF Raised
    <3>2. Good(j)
      BY <1>1, <2>1, <2>2, <2>4, <2>5, <3>1
    <3> QED
      BY <1>2, <3>2
  <2>6. CASE ~ Ended(c, up[j - 1])
    <3>1. IsLine(c, up[j]) /\ Len(up[j]) = Len(up[j - 1]) + 1
      BY <2>2, <2>3, <2>6, RaisedIsLine
    <3>2. Len(up[j]) = j
      BY <1>1, <2>1, <2>2, <2>4, <2>6, <3>1
    <3>3. Good(j)
      BY <1>1, <3>1, <3>2
    <3> QED
      BY <1>2, <3>3
  <2> QED
    BY <2>5, <2>6
<1> QED
  BY <1>3, <1>4

(* What the chart says of a lineage, however long the chart is. *)
LEMMA LineageIsLine ==
  ASSUME NEW c \in Positions
  PROVE  /\ IsLine(c, Lineage[c])
         /\ ~ Cyclic(c) => Ended(c, Lineage[c])
<1>1. PICK up : Climbs(up, c, Height) /\ Lineage[c] = up[Height]
  BY LineageIs
<1>2. Height \in 0 .. Height
  BY HeightIsNat
<1>3. /\ IsLine(c, Lineage[c])
      /\ Len(Lineage[c]) < Height => Ended(c, Lineage[c])
  BY <1>1, <1>2, HeightIsNat, ClimbsALine
<1>4. Len(Lineage[c]) \in Nat
  BY <1>3 DEF IsLine
<1> QED
  BY <1>3, <1>4, HeightIsNat DEF Cyclic, Height

(* A line never leaves a complete one from the same position. *)
LEMMA LinesAgree ==
  ASSUME NEW c, NEW l, IsLine(c, l), NEW m, IsLine(c, m), Ended(c, m), NEW k \in 1 .. Len(l)
  PROVE  k \in 1 .. Len(m) /\ l[k] = m[k]
<1> DEFINE T == {j \in 1 .. Len(l) : ~ (j \in 1 .. Len(m) /\ l[j] = m[j])}
<1> SUFFICES ASSUME T # {} PROVE FALSE
  OBVIOUS
<1>0. l \in Seq(Positions) /\ m \in Seq(Positions) /\ Len(l) \in Nat /\ Len(m) \in Nat
  BY DEF IsLine
<1>1. T \in SUBSET Nat
  OBVIOUS
<1>2. PICK j \in T : \A i \in T : j <= i
  BY <1>1, LeastOf
<1>3. CASE j = 1
  <2>1. l # <<>> /\ l[1] = c /\ l[1] \in Positions /\ l[1] \notin Direction
    BY <1>0, <1>2, <1>3 DEF IsLine
  <2>2. m # <<>>
    BY <2>1, ChartAssumption DEF Ended, NextOf
  <2>3. 1 \in 1 .. Len(m) /\ m[1] = c
    BY <1>0, <2>2 DEF IsLine
  <2> QED
    BY <1>2, <1>3, <2>1, <2>3
<1>4. CASE j # 1
  <2> DEFINE i == j - 1
  <2>1. i \in 1 .. Len(l) /\ i + 1 = j /\ i < Len(l) /\ ~ (j <= i)
    BY <1>0, <1>2, <1>4
  <2> HIDE DEF i
  <2>2. i \in 1 .. Len(m) /\ l[i] = m[i]
    BY <1>2, <2>1
  <2>3. l[i] \notin Finals /\ l[j] = Parent[l[i]] /\ l[j] \in Positions /\ l[j] \notin Direction
    BY <1>0, <1>2, <2>1 DEF IsLine
  <2>4. i < Len(m)
    <3> SUFFICES ASSUME i = Len(m) PROVE FALSE
      BY <1>0, <2>2
    <3>1. m # <<>> /\ Last(m) = l[i]
      BY <1>0, <2>2 DEF Last
    <3> QED
      BY <2>3, <3>1, ChartAssumption DEF Ended, NextOf
  <2>5. j \in 1 .. Len(m) /\ m[j] = Parent[m[i]]
    BY <1>0, <2>1, <2>2, <2>4 DEF IsLine
  <2> QED
    BY <1>2, <2>2, <2>3, <2>5
<1> QED
  BY <1>3, <1>4

(* The lineage of a position above another is the rest of the other's. *)
LEMMA LineageAbove ==
  ASSUME NEW c \in Positions, ~ Cyclic(c), NEW k \in 1 .. Len(Lineage[c])
  PROVE  /\ Lineage[c][k] \in Positions /\ ~ Cyclic(Lineage[c][k])
         /\ Lineage[Lineage[c][k]] = SubSeq(Lineage[c], k, Len(Lineage[c]))
<1> DEFINE l == Lineage[c]
           d == l[k]
           m == SubSeq(l, k, Len(l))
<1>1. IsLine(c, l) /\ Ended(c, l)
  BY LineageIsLine
<1> HIDE DEF l
<1>2. l \in Seq(Positions) /\ Len(l) \in Nat /\ d \in Positions /\ k \in 1 .. Len(l)
  BY <1>1 DEF IsLine, l
<1>3. /\ m \in Seq(Positions) /\ Len(m) = Len(l) - k + 1
      /\ \A i \in 1 .. Len(m) : m[i] = l[k + i - 1] /\ k + i - 1 \in 1 .. Len(l)
  BY <1>2
<1> HIDE DEF m
<1>4. IsLine(d, m)
  <2>1. m # <<>> => m[1] = d
    BY <1>2, <1>3
  <2>2. \A i \in 1 .. Len(m) : m[i] \notin Direction
    BY <1>1, <1>3 DEF IsLine
  <2>3. ASSUME NEW i \in 1 .. Len(m), i < Len(m)
        PROVE  m[i] \notin Finals /\ m[i + 1] = Parent[m[i]]
    <3> DEFINE j == k + i - 1
    <3>1. i + 1 \in 1 .. Len(m) /\ k + (i + 1) - 1 = j + 1 /\ Len(m) \in Nat /\ j \in Nat
      BY <1>2, <1>3, <2>3
    <3>2. j \in 1 .. Len(l) /\ j + 1 \in 1 .. Len(l) /\ m[i] = l[j] /\ m[i + 1] = l[j + 1]
      BY <1>3, <3>1
    <3>3. j < Len(l)
      BY <1>2, <3>2
    <3> HIDE DEF j
    <3> QED
      BY <1>1, <3>2, <3>3 DEF IsLine
  <2> QED
    BY <1>3, <2>1, <2>2, <2>3 DEF IsLine
<1>5. Ended(d, m)
  <2>1. l # <<>> /\ m # <<>> /\ Last(m) = Last(l)
    BY <1>2, <1>3 DEF Last
  <2> QED
    BY <1>1, <2>1 DEF Ended, NextOf
<1>6. IsLine(d, Lineage[d])
  BY <1>2, LineageIsLine
<1>7. \A i \in 1 .. Len(Lineage[d]) : i \in 1 .. Len(m) /\ Lineage[d][i] = m[i]
  BY <1>4, <1>5, <1>6, LinesAgree
<1>8. Len(Lineage[d]) \in Nat /\ Lineage[d] \in Seq(Positions)
  BY <1>6 DEF IsLine
<1>9. Len(Lineage[d]) <= Len(m)
  BY <1>3, <1>7, <1>8, <1>2
<1>10. ~ Cyclic(d)
  BY <1>2, <1>3, <1>8, <1>9, HeightIsNat DEF Cyclic, l
<1>11. Ended(d, Lineage[d])
  BY <1>2, <1>10, LineageIsLine
<1>12. \A i \in 1 .. Len(m) : i \in 1 .. Len(Lineage[d])
  BY <1>4, <1>6, <1>11, LinesAgree
<1>13. Len(Lineage[d]) = Len(m)
  <2>1. Len(m) \in 1 .. Len(m)
    BY <1>2, <1>3
  <2>2. Len(m) <= Len(Lineage[d])
    BY <1>12, <2>1
  <2> QED
    BY <1>8, <1>9, <2>1, <2>2
<1>14. Lineage[d] = m
  BY <1>3, <1>7, <1>8, <1>13, SeqEqual
<1> QED
  BY <1>2, <1>10, <1>14 DEF l, m

-----------------------------------------------------------------------------
(* StepsOf: a path grows with each position of a lineage (Joined), and what *)
(* is computed position by position (Joining) exists.                      *)
Routes == [Positions -> SUBSET Employees]
Steps  == [who : Employees, at : Positions]

StepAt(route, c) == [who |-> CHOOSE e \in route[c] : TRUE, at |-> c]
Joined(route, path, c) ==
  IF route[c] = {} THEN path
  ELSE IF path # <<>> /\ Last(path).who = StepAt(route, c).who
       THEN Append(Front(path), StepAt(route, c))
       ELSE Append(path, StepAt(route, c))

Joining(f, l, route, n) ==
  f = [k \in 0 .. n |-> IF k = 0 THEN <<>> ELSE Joined(route, f[k - 1], l[k])]

LEMMA JoiningExists ==
  ASSUME NEW l, NEW route, NEW n \in Nat
  PROVE  \E f : Joining(f, l, route, n)
<1> DEFINE T == {m \in Nat : ~ \E f : Joining(f, l, route, m)}
<1> SUFFICES ASSUME T # {} PROVE FALSE
  OBVIOUS
<1>1. PICK m \in T : \A k \in T : m <= k
  BY LeastOf
<1>2. CASE m = 0
  <2> DEFINE f == [k \in 0 .. 0 |-> <<>>]
  <2>1. Joining(f, l, route, 0)
    BY DEF Joining
  <2> QED
    BY <1>1, <1>2, <2>1
<1>3. CASE m # 0
  <2>1. m - 1 \in Nat /\ ~ (m <= m - 1)
    BY <1>1, <1>3
  <2>2. PICK low : Joining(low, l, route, m - 1)
    BY <1>1, <2>1
  <2> DEFINE f == [k \in 0 .. m |-> IF k = 0 THEN <<>> ELSE Joined(route, low[k - 1], l[k])]
  <2>3. \A k \in 0 .. (m - 1) : f[k] = low[k]
    BY <1>1, <2>1, <2>2 DEF Joining
  <2>4. \A k \in 0 .. m : k # 0 => f[k - 1] = low[k - 1]
    <3>1. \A k \in 0 .. m : k # 0 => k - 1 \in 0 .. (m - 1)
      BY <2>1
    <3> QED
      BY <2>3, <3>1
  <2>5. f = [k \in 0 .. m |-> IF k = 0 THEN <<>> ELSE Joined(route, f[k - 1], l[k])]
    BY <2>4
  <2> QED
    BY <1>1, <2>5 DEF Joining
<1> QED
  BY <1>2, <1>3

(* StepsOf is what has been joined at the end of the lineage. *)
LEMMA StepsAre ==
  ASSUME NEW l \in Seq(Positions), NEW route
  PROVE  \E f : Joining(f, l, route, Len(l)) /\ StepsOf(l, route) = f[Len(l)]
<1> DEFINE f == CHOOSE f : Joining(f, l, route, Len(l))
<1>1. Joining(f, l, route, Len(l))
  BY JoiningExists
<1>2. StepsOf(l, route) = f[Len(l)]
  BY DEF StepsOf, Joining, Joined, StepAt
<1> QED
  BY <1>1, <1>2

(* The steps p are those of the first n positions of l: one after the      *)
(* other up the line (index), each of an occupied position, with everybody *)
(* who holds one of them and the last of these positions last.             *)
Placed(index, p, l, route, n) ==
  /\ index \in [1 .. Len(p) -> 1 .. n]
  /\ \A i, j \in 1 .. Len(p) : i < j => index[i] < index[j]
  /\ \A i \in 1 .. Len(p) : route[l[index[i]]] # {} /\ p[i] = StepAt(route, l[index[i]])
Covered(p, l, route, n) ==
  \A m \in 1 .. n : route[l[m]] # {} =>
    \E i \in 1 .. Len(p) : p[i].who = StepAt(route, l[m]).who
Follows(p, l, route, n) ==
  /\ p \in Seq(Steps) /\ Len(p) <= n
  /\ \E index : Placed(index, p, l, route, n)
  /\ Covered(p, l, route, n)
  /\ n > 0 /\ route[l[n]] # {} => p # <<>> /\ Last(p) = StepAt(route, l[n])

(* What Front leaves of a sequence. *)
LEMMA FrontIs ==
  ASSUME NEW S, NEW p \in Seq(S), p # <<>>
  PROVE  /\ Front(p) \in Seq(S) /\ Len(Front(p)) = Len(p) - 1
         /\ \A i \in 1 .. (Len(p) - 1) : Front(p)[i] = p[i]
<1> DEFINE n == Len(p) - 1
<1>1. n \in Nat /\ 1 \in Int /\ n \in Int /\ \A i \in 1 .. n : p[i] \in S
  OBVIOUS
<1> HIDE DEF n
<1>2. /\ SubSeq(p, 1, n) \in Seq(S)
      /\ Len(SubSeq(p, 1, n)) = IF 1 <= n THEN n - 1 + 1 ELSE 0
      /\ \A i \in 1 .. (n - 1 + 1) : SubSeq(p, 1, n)[i] = p[1 + i - 1]
  BY <1>1, SubSeqProperties
<1>3. Len(SubSeq(p, 1, n)) = n /\ \A i \in 1 .. n : SubSeq(p, 1, n)[i] = p[i]
  <2>1. n - 1 + 1 = n /\ (1 <= n \/ n = 0)
    BY <1>1
  <2>2. ASSUME NEW i \in 1 .. n
        PROVE  SubSeq(p, 1, n)[i] = p[i]
    <3>1. i \in 1 .. (n - 1 + 1) /\ 1 + i - 1 = i
      BY <1>1, <2>2
    <3> QED
      BY <1>2, <3>1
  <2> QED
    BY <1>1, <1>2, <2>1, <2>2
<1> QED
  BY <1>2, <1>3 DEF Front, n

(* One more position: it stays out, replaces the last step or follows it. *)
LEMMA JoinedFollows ==
  ASSUME NEW l \in Seq(Positions), NEW route \in Routes, NEW n \in Nat, n + 1 \in 1 .. Len(l),
         NEW p, Follows(p, l, route, n)
  PROVE  Follows(Joined(route, p, l[n + 1]), l, route, n + 1)
<1> DEFINE c == l[n + 1]
           s == StepAt(route, c)
<1>1. p \in Seq(Steps) /\ Len(p) \in Nat /\ Len(p) <= n /\ c \in Positions
  BY DEF Follows
<1>2. PICK index : Placed(index, p, l, route, n)
  BY DEF Follows
<1>3. /\ index \in [1 .. Len(p) -> 1 .. n]
      /\ \A i, j \in 1 .. Len(p) : i < j => index[i] < index[j]
      /\ \A i \in 1 .. Len(p) : route[l[index[i]]] # {} /\ p[i] = StepAt(route, l[index[i]])
  BY <1>2 DEF Placed
<1>4. \A m \in 1 .. (n + 1) : m \in 1 .. n \/ m = n + 1
  OBVIOUS
<1>5. CASE route[c] = {}
  <2>1. Joined(route, p, c) = p
    BY <1>5 DEF Joined
  <2>2. index \in [1 .. Len(p) -> 1 .. (n + 1)]
    BY <1>3
  <2>3. Placed(index, p, l, route, n + 1)
    BY <1>3, <2>2 DEF Placed
  <2>4. Covered(p, l, route, n + 1)
    BY <1>4, <1>5 DEF Follows, Covered
  <2> QED
    BY <1>1, <1>5, <2>1, <2>3, <2>4 DEF Follows
<1>6. CASE route[c] # {}
  <2>1. s \in Steps /\ s.at = c
    BY <1>1, <1>6 DEF StepAt, Steps, Routes
  <2>2. CASE p # <<>> /\ Last(p).who = s.who
    <3> DEFINE q == Append(Front(p), s)
               moved == [i \in 1 .. Len(p) |-> IF i = Len(p) THEN n + 1 ELSE index[i]]
    <3>1. Joined(route, p, c) = q
      BY <1>6, <2>2 DEF Joined
    <3>2. Len(p) \in 1 .. Len(p)
      BY <1>1, <2>2
    <3>3. /\ Front(p) \in Seq(Steps) /\ Len(Front(p)) = Len(p) - 1
          /\ \A i \in 1 .. (Len(p) - 1) : Front(p)[i] = p[i]
      BY <1>1, <2>2, FrontIs
    <3>4. /\ q \in Seq(Steps) /\ Len(q) = Len(p) /\ q[Len(p)] = s
          /\ \A i \in 1 .. Len(p) : i # Len(p) => q[i] = p[i]
      BY <1>1, <2>1, <3>2, <3>3
    <3> HIDE DEF q, s
    <3>5. moved \in [1 .. Len(q) -> 1 .. (n + 1)]
      BY <1>1, <1>3, <3>4
    <3>6. \A i, j \in 1 .. Len(q) : i < j => moved[i] < moved[j]
      <4>1. \A i \in 1 .. Len(p) : index[i] \in 1 .. n
        BY <1>3
      <4> QED
        BY <1>1, <1>3, <3>4, <4>1
    <3>7. \A i \in 1 .. Len(q) : route[l[moved[i]]] # {} /\ q[i] = StepAt(route, l[moved[i]])
      BY <1>3, <1>6, <3>4 DEF s
    <3>8. Placed(moved, q, l, route, n + 1)
      BY <3>5, <3>6, <3>7 DEF Placed
    <3>9. \A i \in 1 .. Len(p) : q[i].who = p[i].who
      BY <2>2, <3>4 DEF Last
    <3>10. Covered(q, l, route, n + 1)
      <4>1. q[Len(p)].who = StepAt(route, l[n + 1]).who
        BY <3>4 DEF s
      <4> QED
        BY <1>4, <3>2, <3>4, <3>9, <4>1 DEF Follows, Covered
    <3>11. q # <<>> /\ Last(q) = s
      BY <3>2, <3>4 DEF Last
    <3> QED
      BY <1>1, <3>1, <3>4, <3>8, <3>10, <3>11 DEF Follows, s
  <2>3. CASE ~ (p # <<>> /\ Last(p).who = s.who)
    <3> DEFINE q == Append(p, s)
               moved == [i \in 1 .. (Len(p) + 1) |-> IF i = Len(p) + 1 THEN n + 1 ELSE index[i]]
    <3>1. Joined(route, p, c) = q
      BY <1>6, <2>3 DEF Joined
    <3>2. /\ q \in Seq(Steps) /\ Len(q) = Len(p) + 1 /\ q[Len(p) + 1] = s
          /\ \A i \in 1 .. Len(p) : q[i] = p[i]
      BY <1>1, <2>1
    <3>3. /\ \A i \in 1 .. Len(q) : i \in 1 .. Len(p) \/ i = Len(p) + 1
          /\ 1 .. Len(p) \subseteq 1 .. Len(q) /\ Len(p) + 1 \in 1 .. Len(q)
      BY <1>1, <3>2
    <3> HIDE DEF q, s
    <3>4. \A i \in 1 .. Len(p) : i # Len(p) + 1 /\ index[i] \in 1 .. n
      BY <1>1, <1>3
    <3>5. moved \in [1 .. Len(q) -> 1 .. (n + 1)]
      BY <1>1, <3>2, <3>3, <3>4
    <3>6. \A i, j \in 1 .. Len(q) : i < j => moved[i] < moved[j]
      BY <1>1, <1>3, <3>2, <3>3, <3>4
    <3>7. \A i \in 1 .. Len(q) : route[l[moved[i]]] # {} /\ q[i] = StepAt(route, l[moved[i]])
      BY <1>3, <1>6, <3>2, <3>3, <3>4 DEF s
    <3>8. Placed(moved, q, l, route, n + 1)
      BY <3>5, <3>6, <3>7 DEF Placed
    <3>9. Covered(q, l, route, n + 1)
      <4>1. q[Len(p) + 1].who = StepAt(route, l[n + 1]).who
        BY <3>2 DEF s
      <4>2. ASSUME NEW m \in 1 .. n, route[l[m]] # {}
            PROVE  \E i \in 1 .. Len(q) : q[i].who = StepAt(route, l[m]).who
        <5>1. PICK i \in 1 .. Len(p) : p[i].who = StepAt(route, l[m]).who
          BY <4>2 DEF Follows, Covered
        <5> QED
          BY <3>2, <3>3, <5>1
      <4> QED
        BY <1>4, <3>3, <4>1, <4>2 DEF Covered
    <3>10. q # <<>> /\ Last(q) = s
      BY <1>1, <3>2 DEF Last
    <3>11. Len(q) <= n + 1
      BY <1>1, <3>2
    <3> QED
      BY <3>1, <3>2, <3>8, <3>9, <3>10, <3>11 DEF Follows, s
  <2> QED
    BY <2>2, <2>3
<1> QED
  BY <1>5, <1>6

(* The steps of a whole lineage follow it, however long it is. *)
LEMMA StepsFollow ==
  ASSUME NEW l \in Seq(Positions), NEW route \in Routes
  PROVE  Follows(StepsOf(l, route), l, route, Len(l))
<1>1. PICK f : Joining(f, l, route, Len(l)) /\ StepsOf(l, route) = f[Len(l)]
  BY StepsAre
<1>2. Len(l) \in Nat
  OBVIOUS
<1> DEFINE T == {n \in 0 .. Len(l) : ~ Follows(f[n], l, route, n)}
<1>3. T = {}
  <2> SUFFICES ASSUME T # {} PROVE FALSE
    OBVIOUS
  <2>1. T \in SUBSET Nat
    BY <1>2
  <2>2. PICK n \in T : \A m \in T : n <= m
    BY <2>1, LeastOf
  <2>3. CASE n = 0
    <3>1. f[n] = <<>>
      BY <1>1, <1>2, <2>3 DEF Joining
    <3>2. Follows(<<>>, l, route, 0)
      <4>1. Placed([i \in {} |-> i], <<>>, l, route, 0)
        BY DEF Placed
      <4> QED
        BY <4>1 DEF Follows, Covered
    <3> QED
      BY <2>2, <2>3, <3>1, <3>2
  <2>4. CASE n # 0
    <3> DEFINE m == n - 1
    <3>1. m \in Nat /\ m \in 0 .. Len(l) /\ ~ (n <= m) /\ m + 1 = n /\ m + 1 \in 1 .. Len(l)
      BY <1>2, <2>1, <2>4
    <3>2. f[n] = Joined(route, f[m], l[n])
      BY <1>1, <1>2, <2>4 DEF Joining
    <3> HIDE DEF m
    <3>3. Follows(f[m], l, route, m)
      BY <2>2, <3>1
    <3>4. Follows(Joined(route, f[m], l[m + 1]), l, route, m + 1)
      BY <3>1, <3>3, JoinedFollows
    <3> QED
      BY <2>2, <3>1, <3>2, <3>4
  <2> QED
    BY <2>3, <2>4
<1>4. Len(l) \in 0 .. Len(l)
  BY <1>2
<1> QED
  BY <1>1, <1>3, <1>4

-----------------------------------------------------------------------------
(* The longest of several paths: what Reverse, and IsSuffix with it, mean. *)
LEMMA ReverseIs ==
  ASSUME NEW S, NEW s \in Seq(S)
  PROVE  /\ Reverse(s) \in Seq(S) /\ Len(Reverse(s)) = Len(s)
         /\ \A i \in 1 .. Len(s) : Reverse(s)[i] = s[Len(s) - i + 1]
  BY DEF Reverse

LEMMA SuffixIs ==
  ASSUME NEW S, NEW s \in Seq(S), NEW t \in Seq(S)
  PROVE  IsSuffix(s, t) <=>
           /\ Len(s) <= Len(t)
           /\ \A i \in 1 .. Len(s) : s[i] = t[Len(t) - Len(s) + i]
<1> DEFINE a == Reverse(s)
           b == Reverse(t)
           k == Len(s)
<1>1. /\ a \in Seq(S) /\ Len(a) = k /\ k \in Nat
      /\ \A i \in 1 .. k : a[i] = s[k - i + 1]
  BY ReverseIs
<1>2. /\ b \in Seq(S) /\ Len(b) = Len(t) /\ Len(t) \in Nat
      /\ \A i \in 1 .. Len(t) : b[i] = t[Len(t) - i + 1]
  BY ReverseIs
<1>3. IsSuffix(s, t) <=> k <= Len(t) /\ SubSeq(a, 1, k) = SubSeq(b, 1, k)
  BY <1>1, <1>2 DEF IsSuffix, IsPrefix
<1> HIDE DEF a, b, k
<1>4. CASE k <= Len(t)
  <2>1. SubSeq(a, 1, k) = a
    BY <1>1, SubSeqFull
  <2>2. /\ SubSeq(b, 1, k) \in Seq(S) /\ Len(SubSeq(b, 1, k)) = k
        /\ \A i \in 1 .. k : SubSeq(b, 1, k)[i] = b[i]
    <3>1. 1 \in Int /\ k \in Int /\ \A i \in 1 .. k : b[i] \in S /\ i \in 1 .. (k - 1 + 1) /\ 1 + i - 1 = i
      BY <1>1, <1>2, <1>4
    <3>2. /\ SubSeq(b, 1, k) \in Seq(S)
          /\ Len(SubSeq(b, 1, k)) = IF 1 <= k THEN k - 1 + 1 ELSE 0
          /\ \A i \in 1 .. (k - 1 + 1) : SubSeq(b, 1, k)[i] = b[1 + i - 1]
      BY <3>1, SubSeqProperties
    <3> QED
      BY <1>1, <3>1, <3>2
  <2>3. a = SubSeq(b, 1, k) <=> \A i \in 1 .. k : a[i] = b[i]
    BY <1>1, <2>2, SeqEqual
  <2>4. (\A i \in 1 .. k : a[i] = b[i]) <=> \A i \in 1 .. k : s[i] = t[Len(t) - k + i]
    <3>1. \A i \in 1 .. k : a[i] = b[i] <=> s[k - i + 1] = t[Len(t) - i + 1]
      BY <1>1, <1>2, <1>4
    <3>2. ASSUME NEW i \in 1 .. k
          PROVE  /\ k - i + 1 \in 1 .. k /\ k - (k - i + 1) + 1 = i
                 /\ Len(t) - (k - i + 1) + 1 = Len(t) - k + i
                 /\ Len(t) - k + (k - i + 1) = Len(t) - i + 1
      BY <1>1, <1>2
    <3>3. ASSUME \A i \in 1 .. k : a[i] = b[i], NEW i \in 1 .. k
          PROVE  s[i] = t[Len(t) - k + i]
      <4> DEFINE j == k - i + 1
      <4>1. j \in 1 .. k /\ k - j + 1 = i /\ Len(t) - j + 1 = Len(t) - k + i
        BY <3>2
      <4> HIDE DEF j
      <4> QED
        BY <3>1, <3>3, <4>1
    <3>4. ASSUME \A i \in 1 .. k : s[i] = t[Len(t) - k + i], NEW i \in 1 .. k
          PROVE  a[i] = b[i]
      <4> DEFINE j == k - i + 1
      <4>1. j \in 1 .. k /\ Len(t) - k + j = Len(t) - i + 1
        BY <3>2
      <4>2. s[j] = t[Len(t) - i + 1]
        BY <3>4, <4>1
      <4> QED
        BY <3>1, <4>2
    <3> QED
      BY <3>3, <3>4
  <2> QED
    BY <1>3, <1>4, <2>1, <2>3, <2>4 DEF k
<1>5. CASE ~ (k <= Len(t))
  BY <1>3, <1>5 DEF k
<1> QED
  BY <1>4, <1>5

(* A sequence that another extends is shorter, and extending is transitive. *)
LEMMA SuffixGrows ==
  ASSUME NEW S, NEW s \in Seq(S), NEW t \in Seq(S), IsSuffix(s, t), s # t
  PROVE  Len(s) < Len(t)
<1>1. Len(s) <= Len(t) /\ Len(s) \in Nat /\ Len(t) \in Nat
  BY SuffixIs
<1>2. ASSUME Len(s) = Len(t)
      PROVE  FALSE
  <2>1. \A i \in 1 .. Len(s) : s[i] = t[Len(t) - Len(s) + i] /\ Len(t) - Len(s) + i = i
    BY <1>1, <1>2, SuffixIs
  <2> QED
    BY <1>2, <2>1, SeqEqual
<1> QED
  BY <1>1, <1>2

LEMMA SuffixOfSuffix ==
  ASSUME NEW S, NEW s \in Seq(S), NEW t \in Seq(S), NEW u \in Seq(S), IsSuffix(s, t), IsSuffix(t, u)
  PROVE  IsSuffix(s, u)
<1>1. /\ Len(s) <= Len(t) /\ Len(t) <= Len(u)
      /\ Len(s) \in Nat /\ Len(t) \in Nat /\ Len(u) \in Nat
  BY SuffixIs
<1>2. ASSUME NEW i \in 1 .. Len(s)
      PROVE  s[i] = u[Len(u) - Len(s) + i]
  <2> DEFINE j == Len(t) - Len(s) + i
  <2>1. j \in 1 .. Len(t) /\ Len(u) - Len(t) + j = Len(u) - Len(s) + i
    BY <1>1
  <2>2. s[i] = t[j]
    BY SuffixIs
  <2> HIDE DEF j
  <2>3. t[j] = u[Len(u) - Len(t) + j]
    BY <2>1, SuffixIs
  <2> QED
    BY <2>1, <2>2, <2>3
<1>3. Len(s) <= Len(u)
  BY <1>1
<1> QED
  BY <1>2, <1>3, SuffixIs

(* Above every path of bounded length there is one that no other extends. *)
LEMMA LongestAbove ==
  ASSUME NEW S, NEW P \in SUBSET Seq(S), NEW n \in Nat, \A p \in P : Len(p) <= n, NEW q \in P
  PROVE  \E m \in P : IsSuffix(q, m) /\ ~ \E r \in P : r # m /\ IsSuffix(m, r)
<1> DEFINE T == {k \in Nat : \E m \in P : IsSuffix(q, m) /\ k = n - Len(m)}
<1>1. \A p \in P : p \in Seq(S) /\ Len(p) \in Nat /\ n - Len(p) \in Nat
  OBVIOUS
<1>2. IsSuffix(q, q)
  <2>1. q \in Seq(S) /\ \A i \in 1 .. Len(q) : Len(q) - Len(q) + i = i
    BY <1>1
  <2> QED
    BY <1>1, <2>1, SuffixIs
<1>3. T # {} /\ T \in SUBSET Nat
  BY <1>1, <1>2
<1>4. PICK k \in T : \A j \in T : k <= j
  BY <1>3, LeastOf
<1>5. PICK m \in P : IsSuffix(q, m) /\ k = n - Len(m)
  BY <1>4
<1>6. ASSUME NEW r \in P, r # m, IsSuffix(m, r)
      PROVE  FALSE
  <2>1. IsSuffix(q, r)
    BY <1>1, <1>5, <1>6, SuffixOfSuffix
  <2>2. n - Len(r) \in T
    BY <1>1, <2>1
  <2>3. Len(m) < Len(r)
    BY <1>1, <1>6, SuffixGrows
  <2>4. k <= n - Len(r)
    BY <1>4, <2>2
  <2>5. Len(m) \in Nat /\ Len(r) \in Nat
    BY <1>1
  <2> QED
    BY <1>5, <2>3, <2>4, <2>5
<1> QED
  BY <1>5, <1>6

-----------------------------------------------------------------------------
(* BuildReviewPath, with names for what it computes. *)
Held(route) == {c \in Positions : route[c] # {}}
Tops(route) == {c \in Held(route) : c \in Finals \ Direction}
Climbers(route) ==
  {c \in Held(route) : Tops(route) = {} \/ (Lineage[c] # <<>> /\ Last(Lineage[c]) \in Tops(route))}

(* The steps of one position of the chart. *)
LEMMA StepsAlong ==
  ASSUME NEW c \in Positions, NEW route \in Routes
  PROVE  /\ Lineage[c] \in Seq(Positions)
         /\ Follows(StepsOf(Lineage[c], route), Lineage[c], route, Len(Lineage[c]))
  BY LineageIsLine, StepsFollow DEF IsLine

(* A lineage begins with its position. *)
LEMMA FirstOfLineage ==
  ASSUME NEW c \in Positions, Lineage[c] # <<>>
  PROVE  1 \in 1 .. Len(Lineage[c]) /\ Lineage[c][1] = c /\ c \in ToSet(Lineage[c])
<1>1. IsLine(c, Lineage[c])
  BY LineageIsLine
<1>2. 1 \in 1 .. Len(Lineage[c]) /\ Lineage[c][1] = c /\ DOMAIN Lineage[c] = 1 .. Len(Lineage[c])
  BY <1>1 DEF IsLine
<1> QED
  BY <1>2 DEF ToSet

(* What is above c is an element of its lineage. *)
LEMMA InLineage ==
  ASSUME NEW c \in Positions, NEW d
  PROVE  d \in ToSet(Lineage[c]) <=> \E k \in 1 .. Len(Lineage[c]) : d = Lineage[c][k]
<1>1. Lineage[c] \in Seq(Positions)
  BY LineageIsLine DEF IsLine
<1> QED
  BY <1>1 DEF ToSet

(* A position above another has its end and what is above it. *)
LEMMA AboveIsAbove ==
  ASSUME NEW c \in Positions, ~ Cyclic(c), NEW d \in ToSet(Lineage[c])
  PROVE  /\ d \in Positions /\ ~ Cyclic(d) /\ Lineage[d] # <<>>
         /\ Last(Lineage[d]) = Last(Lineage[c])
         /\ ToSet(Lineage[d]) \subseteq ToSet(Lineage[c])
<1>1. PICK k \in 1 .. Len(Lineage[c]) : d = Lineage[c][k]
  BY InLineage
<1>2. /\ d \in Positions /\ ~ Cyclic(d)
      /\ Lineage[d] = SubSeq(Lineage[c], k, Len(Lineage[c]))
  BY <1>1, LineageAbove
<1> DEFINE l == Lineage[c]
           m == SubSeq(l, k, Len(l))
<1>3. l \in Seq(Positions) /\ Len(l) \in Nat
  BY LineageIsLine DEF IsLine
<1>4. /\ Len(m) = Len(l) - k + 1
      /\ \A i \in 1 .. Len(m) : m[i] = l[k + i - 1] /\ k + i - 1 \in 1 .. Len(l)
  BY <1>3
<1>5. Last(m) = Last(l) /\ m # <<>>
  <2>1. Len(m) \in 1 .. Len(m) /\ k + Len(m) - 1 = Len(l)
    BY <1>1, <1>3, <1>4
  <2>2. m[Len(m)] = l[Len(l)]
    BY <1>4, <2>1
  <2> QED
    BY <2>1, <2>2 DEF Last
<1>6. ASSUME NEW x \in ToSet(Lineage[d])
      PROVE  x \in ToSet(Lineage[c])
  <2>1. PICK i \in 1 .. Len(m) : x = m[i]
    <3>1. \E i \in 1 .. Len(Lineage[d]) : x = Lineage[d][i]
      BY <1>2, <1>6, InLineage
    <3> QED
      BY <1>2, <3>1
  <2>2. k + i - 1 \in 1 .. Len(l) /\ x = l[k + i - 1]
    BY <1>4, <2>1
  <2> QED
    BY <2>2, InLineage
<1> QED
  BY <1>2, <1>5, <1>6

(* There are finitely many paths, and without cycles none is too long. *)
LEMMA PathsAreFinite ==
  ASSUME NEW route \in Routes, NEW P \in SUBSET {StepsOf(Lineage[c], route) : c \in Climbers(route)}
  PROVE  /\ IsFiniteSet(P) /\ P \subseteq Seq(Steps)
         /\ (\A d \in Held(route) : ~ Cyclic(d)) => \A p \in P : Len(p) <= Height
<1> DEFINE I == {StepsOf(Lineage[c], route) : c \in Climbers(route)}
           f == [c \in Climbers(route) |-> StepsOf(Lineage[c], route)]
<1>1. f \in Surjection(Climbers(route), I)
  BY DEF Surjection
<1>2. IsFiniteSet(Climbers(route))
  BY ChartAssumption, FS_Subset DEF Climbers, Held
<1>3. IsFiniteSet(I)
  BY <1>1, <1>2, FS_Surjection
<1>4. IsFiniteSet(P)
  BY <1>3, FS_Subset
<1>5. ASSUME NEW p \in P
      PROVE  /\ p \in Seq(Steps)
             /\ (\A d \in Held(route) : ~ Cyclic(d)) => Len(p) <= Height
  <2>1. PICK c \in Climbers(route) : p = StepsOf(Lineage[c], route)
    BY <1>5
  <2>2. c \in Positions /\ c \in Held(route)
    BY DEF Climbers, Held
  <2>3. p \in Seq(Steps) /\ Len(p) <= Len(Lineage[c]) /\ Len(Lineage[c]) \in Nat
    BY <2>1, <2>2, StepsAlong DEF Follows
  <2>4. ~ Cyclic(c) => Len(Lineage[c]) <= Cardinality(Positions)
    BY <2>3, HeightIsNat DEF Cyclic
  <2> QED
    BY <2>2, <2>3, <2>4, HeightIsNat DEF Height
<1> QED
  BY <1>4, <1>5

(* A clear path is the steps of one position; every other one that ends in *)
(* the same place is a part of it, and nobody shares a position with       *)
(* another, the position of the PMC included.                              *)
LEMMA PathIsBuilt ==
  ASSUME NEW staff, NEW route \in Routes, NEW s, s = BuildReviewPath(staff, route), ~ s.issue
  PROVE  /\ s.path # <<>>
         /\ \E c \in Climbers(route) : s.path = StepsOf(Lineage[c], route)
         /\ \A c \in Held(route) : ~ Cyclic(c)
         /\ \A c \in Climbers(route), d \in Positions : d \in ToSet(Lineage[c]) => ~ Cardinality(route[d]) > 1
         /\ \A c \in Climbers(route) : StepsOf(Lineage[c], route) # <<>> =>
              IsSuffix(StepsOf(Lineage[c], route), s.path)
         /\ s.pmc # None => \E t \in Tops(route) : Tops(route) = {t} /\ route[t] = {s.pmc}
<1> DEFINE pmcs == UNION {route[c] : c \in Tops(route)}
           pmc  == IF Cardinality(pmcs) = 1 THEN CHOOSE e \in pmcs : TRUE ELSE None
           paths    == {StepsOf(Lineage[c], route) : c \in Climbers(route)} \ {<<>>}
           longest  == {p \in paths : ~ \E q \in paths : q # p /\ IsSuffix(p, q)}
           doubtful == \/ Cardinality(pmcs) > 1
                       \/ Cardinality(Tops(route)) > 1
                       \/ \E c \in Held(route) : Cyclic(c) \/ Broken(c)
                       \/ \E c \in Climbers(route) : \E d \in ToSet(Lineage[c]) : Cardinality(route[d]) > 1
                       \/ Cardinality(longest) # 1
<1>1. s = IF doubtful THEN Unclear(staff, pmc)
          ELSE [staff |-> staff, path |-> CHOOSE p \in longest : TRUE, pmc |-> pmc, issue |-> FALSE]
  BY DEF BuildReviewPath, Tops, Climbers, Held
<1> HIDE DEF doubtful, longest, pmc
<1>2. ~ doubtful
  BY <1>1 DEF Unclear
<1>3. s.path = (CHOOSE p \in longest : TRUE) /\ s.pmc = pmc
  BY <1>1, <1>2
<1>4. /\ Cardinality(longest) = 1 /\ \A c \in Held(route) : ~ Cyclic(c)
      /\ \A c \in Climbers(route), d \in Positions : d \in ToSet(Lineage[c]) => ~ Cardinality(route[d]) > 1
      /\ ~ Cardinality(pmcs) > 1 /\ ~ Cardinality(Tops(route)) > 1
  BY <1>2 DEF doubtful
<1>5. /\ longest \subseteq paths
      /\ paths \in SUBSET {StepsOf(Lineage[c], route) : c \in Climbers(route)}
  BY DEF longest
<1> HIDE DEF paths
<1>6. /\ IsFiniteSet(paths) /\ paths \subseteq Seq(Steps)
      /\ \A p \in paths : Len(p) <= Height
  BY <1>4, <1>5, PathsAreFinite
<1>7. PICK p : longest = {p}
  BY <1>4, <1>5, <1>6, FS_Subset, FS_Singleton
<1>8. s.path = p /\ p \in paths
  BY <1>3, <1>5, <1>7
<1>9. ASSUME NEW q \in paths
      PROVE  IsSuffix(q, p)
  <2>1. PICK m \in paths : IsSuffix(q, m) /\ ~ \E r \in paths : r # m /\ IsSuffix(m, r)
    BY <1>6, HeightIsNat, LongestAbove
  <2>2. m \in longest
    BY <2>1 DEF longest
  <2> QED
    BY <1>7, <2>1, <2>2
<1>10. s.path # <<>> /\ \E c \in Climbers(route) : s.path = StepsOf(Lineage[c], route)
  BY <1>8 DEF paths
<1>11. \A c \in Climbers(route) : StepsOf(Lineage[c], route) # <<>> =>
         IsSuffix(StepsOf(Lineage[c], route), s.path)
  BY <1>8, <1>9 DEF paths
<1>12. ASSUME s.pmc # None
       PROVE  \E t \in Tops(route) : Tops(route) = {t} /\ route[t] = {s.pmc}
  <2>1. Cardinality(pmcs) = 1 /\ s.pmc = CHOOSE e \in pmcs : TRUE
    BY <1>3, <1>12 DEF pmc
  <2>2. IsFiniteSet(pmcs) /\ IsFiniteSet(Tops(route)) /\ Tops(route) \in SUBSET Positions
    <3>1. Tops(route) \in SUBSET Positions /\ pmcs \in SUBSET Employees
      BY DEF Tops, Held, Routes
    <3> QED
      BY <3>1, ChartAssumption, FS_Subset
  <2>3. PICK e : pmcs = {e}
    BY <2>1, <2>2, FS_Singleton
  <2>4. s.pmc = e
    BY <2>1, <2>3
  <2>5. PICK t \in Tops(route) : e \in route[t]
    BY <2>3
  <2>6. Cardinality(Tops(route)) = 1
    <3>1. Cardinality(Tops(route)) \in Nat /\ (Cardinality(Tops(route)) = 0 <=> Tops(route) = {})
      BY <2>2, FS_CardinalityType, FS_EmptySet
    <3> QED
      BY <1>4, <2>5, <3>1
  <2>7. Tops(route) = {t}
    BY <2>2, <2>5, <2>6, FS_Singleton
  <2>8. route[t] = {s.pmc}
    BY <2>3, <2>4, <2>5
  <2> QED
    BY <2>7, <2>8
<1> QED
  BY <1>4, <1>10, <1>11, <1>12

-----------------------------------------------------------------------------
(* Who may review for each position, once a reviewer is chosen. *)
RouteOf(staff, selection) ==
  LET allowed == IF Begins(staff, selection) THEN ToSet(Lineage[selection.start]) ELSE Positions
  IN [c \in Positions |->
        IF c \notin allowed THEN {}
        ELSE IF Chosen(staff, selection, c) = None THEN staff.holders[c]
        ELSE {Chosen(staff, selection, c)}]

(* Who is chosen for a position holds it, and choosing empties no position. *)
LEMMA RouteIsHeld ==
  ASSUME NEW staff, TypedStaff(staff), NEW selection
  PROVE  /\ RouteOf(staff, selection) \in Routes
         /\ \A c \in Positions :
              /\ RouteOf(staff, selection)[c] \subseteq staff.holders[c]
              /\ Begins(staff, selection) /\ RouteOf(staff, selection)[c] # {} =>
                   c \in ToSet(Lineage[selection.start])
              /\ staff.holders[c] # {}
                 /\ (Begins(staff, selection) => c \in ToSet(Lineage[selection.start])) =>
                   RouteOf(staff, selection)[c] # {}
<1> DEFINE route == RouteOf(staff, selection)
<1>1. \A c \in Positions : Chosen(staff, selection, c) = None \/ Chosen(staff, selection, c) \in staff.holders[c]
  BY DEF Chosen, TypedStaff
<1>2. ASSUME NEW c \in Positions
      PROVE  /\ route[c] \subseteq staff.holders[c]
             /\ Begins(staff, selection) /\ route[c] # {} => c \in ToSet(Lineage[selection.start])
             /\ staff.holders[c] # {}
                /\ (Begins(staff, selection) => c \in ToSet(Lineage[selection.start])) => route[c] # {}
  BY <1>1 DEF RouteOf
<1>3. route \in Routes
  <2>1. route = [c \in Positions |-> route[c]]
    BY DEF RouteOf
  <2>2. \A c \in Positions : route[c] \in SUBSET Employees
    BY <1>2 DEF TypedStaff
  <2> QED
    BY <2>1, <2>2 DEF Routes
<1> QED
  BY <1>2, <1>3

(* A clear path reviews for every occupied position above one that ends    *)
(* where the path ends.                                                    *)
(* The place in a sequence of the i-th of its last elements. *)
LEMMA Shifted ==
  ASSUME NEW a \in Nat, NEW b \in Nat, a <= b, NEW i \in 1 .. a
  PROVE  b - a + i \in 1 .. b
  OBVIOUS

(* A lineage with something in it is not empty. *)
LEMMA SomethingAbove ==
  ASSUME NEW c \in Positions, NEW d \in ToSet(Lineage[c])
  PROVE  Lineage[c] # <<>>
<1>1. PICK k \in 1 .. Len(Lineage[c]) : d = Lineage[c][k]
  BY InLineage
<1>2. Lineage[c] = <<>> => Len(Lineage[c]) = 0
  OBVIOUS
<1> QED
  BY <1>1, <1>2

LEMMA ClimberIsCovered ==
  ASSUME NEW staff, NEW route \in Routes, NEW s, s = BuildReviewPath(staff, route), ~ s.issue,
         NEW d \in Climbers(route), NEW c \in ToSet(Lineage[d]), route[c] # {}
  PROVE  \E i \in DOMAIN s.path : s.path[i].who \in route[c]
<1> DEFINE l == Lineage[d]
           q == StepsOf(l, route)
<1>1. d \in Positions
  BY DEF Climbers, Held
<1>2. l \in Seq(Positions) /\ Follows(q, l, route, Len(l))
  BY <1>1, StepsAlong
<1>3. PICK m \in 1 .. Len(l) : c = l[m]
  BY <1>1, InLineage
<1>4. q \in Seq(Steps) /\ \E i \in 1 .. Len(q) : q[i].who = StepAt(route, l[m]).who
  BY <1>2, <1>3 DEF Follows, Covered
<1>5. PICK i \in 1 .. Len(q) : q[i].who = StepAt(route, c).who
  BY <1>3, <1>4
<1>6. q[i].who \in route[c]
  BY <1>5 DEF StepAt
<1>7. q # <<>> /\ Len(q) \in Nat
  BY <1>4, <1>5
<1>8. IsSuffix(q, s.path) /\ s.path \in Seq(Steps)
  <2>1. IsSuffix(q, s.path) /\ \E b \in Climbers(route) : s.path = StepsOf(Lineage[b], route)
    BY <1>7, PathIsBuilt
  <2>2. \A b \in Climbers(route) : StepsOf(Lineage[b], route) \in Seq(Steps)
    BY StepsAlong DEF Climbers, Held, Follows
  <2> QED
    BY <2>1, <2>2
<1>9. /\ Len(q) <= Len(s.path)
      /\ q[i] = s.path[Len(s.path) - Len(q) + i]
  BY <1>4, <1>5, <1>8, SuffixIs
<1>10. Len(s.path) - Len(q) + i \in 1 .. Len(s.path) /\ DOMAIN s.path = 1 .. Len(s.path)
  <2>1. Len(s.path) \in Nat /\ DOMAIN s.path = 1 .. Len(s.path)
    BY <1>8
  <2> QED
    BY <1>7, <1>9, <2>1, Shifted
<1> QED
  BY <1>6, <1>8, <1>9, <1>10

(* A position below one of a path, or above it, ends where the path ends.  *)
LEMMA ClimbsToo ==
  ASSUME NEW route \in Routes, NEW c \in Climbers(route), NEW d \in Held(route),
         ~ Cyclic(c), ~ Cyclic(d), Lineage[d] # <<>>, Last(Lineage[d]) = Last(Lineage[c])
  PROVE  d \in Climbers(route)
  BY DEF Climbers

(* Where it is and whose each step of a clear path is. *)
LEMMA StepIs ==
  ASSUME NEW staff, NEW route \in Routes, NEW s, s = BuildReviewPath(staff, route), ~ s.issue,
         NEW c \in Climbers(route), s.path = StepsOf(Lineage[c], route)
  PROVE  /\ \A i \in DOMAIN s.path : /\ s.path[i].at \in Positions
                                     /\ s.path[i].at \in ToSet(Lineage[c])
                                     /\ s.path[i].who \in route[s.path[i].at]
         /\ \A i, j \in DOMAIN s.path : i < j => s.path[j].at \in ToSet(Tail(Lineage[s.path[i].at]))
<1> DEFINE l == Lineage[c]
           p == s.path
<1>1. c \in Positions /\ c \in Held(route)
  BY DEF Climbers, Held
<1>2. ~ Cyclic(c)
  BY <1>1, PathIsBuilt
<1>3. /\ l \in Seq(Positions) /\ Len(l) \in Nat
      /\ p \in Seq(Steps) /\ DOMAIN p = 1 .. Len(p)
      /\ \E index : Placed(index, p, l, route, Len(l))
  BY <1>1, StepsAlong DEF Follows
<1>4. PICK index : Placed(index, p, l, route, Len(l))
  BY <1>3
<1>5. /\ index \in [1 .. Len(p) -> 1 .. Len(l)]
      /\ \A i, j \in 1 .. Len(p) : i < j => index[i] < index[j]
      /\ \A i \in 1 .. Len(p) : route[l[index[i]]] # {} /\ p[i] = StepAt(route, l[index[i]])
  BY <1>4 DEF Placed
<1>6. ASSUME NEW i \in 1 .. Len(p)
      PROVE  /\ index[i] \in 1 .. Len(l)
             /\ p[i].at = l[index[i]] /\ p[i].at \in Positions /\ p[i].at \in ToSet(l)
             /\ p[i].who \in route[p[i].at]
  <2>1. index[i] \in 1 .. Len(l) /\ l[index[i]] \in Positions
    BY <1>3, <1>5
  <2>2. p[i].at = l[index[i]] /\ p[i].who \in route[l[index[i]]]
    <3>1. route[l[index[i]]] # {} /\ p[i] = StepAt(route, l[index[i]])
      BY <1>5
    <3>2. (CHOOSE e \in route[l[index[i]]] : TRUE) \in route[l[index[i]]]
      BY <3>1
    <3> QED
      BY <3>1, <3>2 DEF StepAt
  <2> QED
    BY <1>1, <2>1, <2>2, InLineage
<1>7. ASSUME NEW i \in 1 .. Len(p), NEW j \in 1 .. Len(p), i < j
      PROVE  p[j].at \in ToSet(Tail(Lineage[p[i].at]))
  <2> DEFINE k == index[i]
             n == index[j]
             m == SubSeq(l, k, Len(l))
  <2>1. k \in 1 .. Len(l) /\ n \in 1 .. Len(l) /\ k < n
    BY <1>5, <1>6, <1>7
  <2>2. Lineage[p[i].at] = m
    BY <1>1, <1>2, <1>6, LineageAbove
  <2> HIDE DEF k, n
  <2>3. /\ m \in Seq(Positions) /\ Len(m) = Len(l) - k + 1 /\ m # <<>>
        /\ \A h \in 1 .. Len(m) : m[h] = l[k + h - 1]
    <3>1. m \in Seq(Positions)
      BY <1>3, <2>1
    <3>2. Len(m) = Len(l) - k + 1 /\ \A h \in 1 .. Len(m) : m[h] = l[k + h - 1]
      BY <1>3, <2>1
    <3>3. Len(m) # 0
      BY <1>3, <2>1, <3>2
    <3> HIDE DEF m
    <3>4. m # <<>>
      <4>1. m = <<>> => Len(m) = 0
        OBVIOUS
      <4> QED
        BY <3>3, <4>1
    <3> QED
      BY <3>1, <3>2, <3>4
  <2> HIDE DEF m
  <2>4. /\ Tail(m) \in Seq(Positions) /\ Len(Tail(m)) = Len(m) - 1
        /\ \A h \in 1 .. Len(Tail(m)) : Tail(m)[h] = m[h + 1]
    BY <2>3
  <2>5. n - k \in 1 .. Len(Tail(m)) /\ n - k + 1 \in 1 .. Len(m) /\ k + (n - k + 1) - 1 = n
    BY <1>3, <2>1, <2>3, <2>4
  <2>6. Tail(m)[n - k] = m[n - k + 1]
    BY <2>4, <2>5
  <2>7. m[n - k + 1] = l[n]
    BY <2>3, <2>5
  <2>8. p[j].at = l[n]
    BY <1>6 DEF n
  <2>9. p[j].at \in ToSet(Tail(m))
    BY <2>4, <2>5, <2>6, <2>7, <2>8 DEF ToSet
  <2> QED
    BY <2>2, <2>9
<1> QED
  BY <1>3, <1>6, <1>7

(* PathIsSound: whatever the chart, the staffing and the designation, a    *)
(* path without an issue skips nobody of its line.                         *)
THEOREM EveryPathIsSound ==
  ASSUME NEW staff, TypedStaff(staff), NEW selection, TypedSelection(selection)
  PROVE  PathIsSound(staff, selection)
<1> DEFINE s       == DesignatedSnapshot(staff, selection)
           begun   == Begins(staff, selection)
           start   == selection.start
           route   == RouteOf(staff, selection)
           steps   == DOMAIN s.path
           anchors == IF begun THEN {start} ELSE {s.path[i].at : i \in steps}
           Line(c) == \E a \in anchors : c \in ToSet(Lineage[a]) \/ a \in ToSet(Lineage[c])
           skipped == \E c \in Positions \ {start} :
                        staff.holders[c] # {} /\ start \in ToSet(Lineage[c])
<1> SUFFICES ASSUME ~ s.issue
             PROVE  /\ s.path # <<>>
                    /\ s.pmc # None => Last(s.path).who = s.pmc
                    /\ \A i \in steps : Line(s.path[i].at) /\ s.path[i].who \in staff.holders[s.path[i].at]
                    /\ \A i, j \in steps : i < j => s.path[j].at \in ToSet(Tail(Lineage[s.path[i].at]))
                    /\ \A c \in Positions : staff.holders[c] # {} /\ Line(c) =>
                         \E i \in steps : s.path[i].who \in staff.holders[c]
  BY DEF PathIsSound
<1>1. s = IF begun /\ (skipped \/ Cyclic(start)) THEN Unclear(staff, None)
          ELSE BuildReviewPath(staff, route)
  BY DEF DesignatedSnapshot, RouteOf
<1> HIDE DEF s, skipped, route, begun
<1>2. /\ s = BuildReviewPath(staff, route)
      /\ begun => ~ skipped /\ ~ Cyclic(start)
  BY <1>1 DEF Unclear
<1>3. /\ route \in Routes
      /\ \A c \in Positions :
           /\ route[c] \subseteq staff.holders[c]
           /\ begun /\ route[c] # {} => c \in ToSet(Lineage[start])
           /\ staff.holders[c] # {} /\ (begun => c \in ToSet(Lineage[start])) => route[c] # {}
  BY RouteIsHeld DEF route, begun
<1>4. begun => start \in Positions /\ staff.holders[start] # {}
  BY DEF begun, Begins, TypedSelection
<1> HIDE DEF skipped
<1>5. /\ s.path # <<>>
      /\ \E c \in Climbers(route) : s.path = StepsOf(Lineage[c], route)
      /\ \A c \in Held(route) : ~ Cyclic(c)
      /\ s.pmc # None => \E t \in Tops(route) : Tops(route) = {t} /\ route[t] = {s.pmc}
  <2>1. s = BuildReviewPath(staff, route) /\ ~ s.issue /\ route \in Routes
    BY <1>2, <1>3
  <2> QED
    BY <2>1, PathIsBuilt
<1>6. PICK b \in Climbers(route) : s.path = StepsOf(Lineage[b], route)
  BY <1>5
<1>7. b \in Positions /\ b \in Held(route) /\ ~ Cyclic(b)
  BY <1>5, <1>6 DEF Climbers, Held
<1>8. /\ \A i \in steps : /\ s.path[i].at \in Positions
                          /\ s.path[i].at \in ToSet(Lineage[b])
                          /\ s.path[i].who \in route[s.path[i].at]
      /\ \A i, j \in steps : i < j => s.path[j].at \in ToSet(Tail(Lineage[s.path[i].at]))
  BY <1>2, <1>3, <1>6, StepIs
<1>9. s.pmc # None => Last(s.path).who = s.pmc
  <2> SUFFICES ASSUME s.pmc # None PROVE Last(s.path).who = s.pmc
    OBVIOUS
  <2> DEFINE l == Lineage[b]
  <2>1. PICK t \in Tops(route) : Tops(route) = {t} /\ route[t] = {s.pmc}
    BY <1>5
  <2>2. l # <<>> /\ Last(l) = t
    BY <1>6, <2>1 DEF Climbers
  <2>3. l \in Seq(Positions) /\ Follows(s.path, l, route, Len(l))
    BY <1>3, <1>6, <1>7, StepsAlong
  <2>4. Len(l) > 0 /\ l[Len(l)] = t
    BY <2>2, <2>3 DEF Last
  <2>5. Last(s.path) = StepAt(route, t)
    BY <2>1, <2>3, <2>4 DEF Follows
  <2> QED
    BY <2>1, <2>5 DEF StepAt
<1>10. ASSUME NEW i \in steps
       PROVE  Line(s.path[i].at) /\ s.path[i].who \in staff.holders[s.path[i].at]
  <2> DEFINE a == s.path[i].at
  <2>1. a \in Positions /\ a \in ToSet(Lineage[b]) /\ s.path[i].who \in route[a]
    BY <1>8
  <2>2. a \in ToSet(Lineage[a])
    BY <1>7, <2>1, AboveIsAbove, FirstOfLineage
  <2>3. begun => a \in ToSet(Lineage[start])
    BY <1>3, <2>1
  <2> QED
    BY <1>3, <2>1, <2>2, <2>3
<1>11. ASSUME NEW d \in Held(route), Lineage[d] # <<>>, Last(Lineage[d]) = Last(Lineage[b]),
              NEW c \in Positions, c \in ToSet(Lineage[d]), route[c] # {}
       PROVE  \E i \in steps : s.path[i].who \in staff.holders[c]
  <2>1. d \in Climbers(route)
    BY <1>3, <1>5, <1>6, <1>7, <1>11, ClimbsToo
  <2>2. \E i \in steps : s.path[i].who \in route[c]
    BY <1>2, <1>3, <1>11, <2>1, ClimberIsCovered
  <2> QED
    BY <1>3, <2>2
<1>12. ASSUME NEW c \in Positions, staff.holders[c] # {}, Line(c)
       PROVE  \E i \in steps : s.path[i].who \in staff.holders[c]
  <2>1. CASE begun
    <3>1. c \in ToSet(Lineage[start])
      <4>1. c = start \/ start \notin ToSet(Lineage[c])
        BY <1>2, <1>12, <2>1 DEF skipped
      <4> QED
        BY <1>12, <2>1, <4>1
    <3>2. route[c] # {}
      BY <1>3, <1>12, <3>1
    <3>3. b \in ToSet(Lineage[start])
      BY <1>3, <1>7, <2>1 DEF Held
    <3>4. /\ Lineage[start] # <<>> /\ start \in Positions /\ ~ Cyclic(start)
          /\ Last(Lineage[start]) = Last(Lineage[b])
      <4>1. Lineage[start] # <<>>
        BY <1>4, <2>1, <3>3, SomethingAbove
      <4> QED
        BY <1>2, <1>4, <2>1, <3>3, <4>1, AboveIsAbove
    <3>5. start \in Held(route)
      <4>1. start \in ToSet(Lineage[start])
        BY <3>4, FirstOfLineage
      <4> QED
        BY <1>3, <1>4, <2>1, <4>1 DEF Held
    <3> QED
      BY <1>11, <3>1, <3>2, <3>4, <3>5
  <2>2. CASE ~ begun
    <3>1. PICK i \in steps : c \in ToSet(Lineage[s.path[i].at]) \/ s.path[i].at \in ToSet(Lineage[c])
      BY <1>12, <2>2
    <3> DEFINE a == s.path[i].at
    <3>2. a \in ToSet(Lineage[b])
      BY <1>8
    <3>3. /\ Lineage[a] # <<>> /\ Last(Lineage[a]) = Last(Lineage[b])
          /\ ToSet(Lineage[a]) \subseteq ToSet(Lineage[b])
      BY <1>7, <3>2, AboveIsAbove
    <3>4. route[c] # {} /\ c \in Held(route) /\ ~ Cyclic(c)
      BY <1>3, <1>5, <1>12, <2>2 DEF Held
    <3>5. CASE c \in ToSet(Lineage[a])
      <4>1. Lineage[b] # <<>>
        BY <1>7, <3>2, SomethingAbove
      <4> QED
        BY <1>7, <1>11, <3>3, <3>4, <3>5, <4>1
    <3>6. CASE a \in ToSet(Lineage[c])
      <4>1. Lineage[c] # <<>>
        BY <3>6, SomethingAbove
      <4>2. Last(Lineage[a]) = Last(Lineage[c])
        BY <3>4, <3>6, AboveIsAbove
      <4>3. c \in ToSet(Lineage[c])
        BY <4>1, FirstOfLineage
      <4> QED
        BY <1>11, <3>3, <3>4, <4>1, <4>2, <4>3
    <3> QED
      BY <3>1, <3>5, <3>6
  <2> QED
    BY <2>1, <2>2
<1> QED
  BY <1>5, <1>8, <1>9, <1>10, <1>12
-----------------------------------------------------------------------------
(* The workflow *)
Sites == [enabled : BOOLEAN, available : BOOLEAN, active : SUBSET Projects,
          selection : [Projects -> Selections \cup {None}], staffing : [Projects -> Staff]]

Meetings == [analysed : BOOLEAN, status : {"pending", "approved"}, drafted : BOOLEAN,
             protected : BOOLEAN, legacy : BOOLEAN, project : Scopes,
             action : [Actions -> Item \cup {None}],
             branch : [Scopes -> Branch \cup {None}],
             seen : [Scopes -> SUBSET Nat]]

(* The steps of a branch below its turn have approved what it contains. *)
Climbing(m) ==
  \A p \in Branches(m) :
    /\ m.branch[p].cursor \in Nat \ {0}
    /\ 1..(m.branch[p].cursor - 1) \subseteq m.seen[p]

NoneApproved(m) == \A p \in Branches(m) : ~ m.branch[p].approved

(* Every action belongs to a branch. *)
AllLinked(m) == \A x \in Present(m) : m.action[x].project \in Branches(m)

(* A branch is approved by its last step, with every action settled, while *)
(* no other is below its own.                                              *)
Passed(m) ==
  \A p \in Branches(m) :
    m.branch[p].approved =>
      /\ AtFinal(m.branch[p]) /\ m.branch[p].cursor \in m.seen[p]
      /\ Complete(m, p)
      /\ BranchesReadyForPmc(m)

(* A meeting has its branches from its first draft on, which also takes it *)
(* from the analysis; an approval closes it.                               *)
Drafted(m) ==
  /\ m.drafted => m.protected /\ m.analysed
  /\ ~ m.drafted => Branches(m) = {}

Closed(m) ==
  m.status = "approved" =>
    /\ m.protected /\ m.drafted /\ AllLinked(m)
    /\ \A p \in Branches(m) : m.branch[p].approved

Legacy(m) == m.status = "approved" /\ m.protected /\ (m.drafted => m.analysed)

Sound(m) == IF m.legacy THEN Legacy(m) ELSE Climbing(m) /\ Passed(m) /\ Drafted(m) /\ Closed(m)

(* While the feature is off actions may be linked with no branch made.     *)
Linked(s, m) == s.enabled /\ m.drafted /\ m.status # "approved" => AllLinked(m)

ReviewsInv ==
  /\ site \in Sites
  /\ meeting \in Meetings
  /\ Sound(meeting)
  /\ Linked(site, meeting)

-----------------------------------------------------------------------------
(* A path without doubts has somebody in it. *)
LEMMA BuiltPath ==
  ASSUME NEW staff, NEW route
  PROVE  /\ BuildReviewPath(staff, route).issue \in BOOLEAN
         /\ ~ BuildReviewPath(staff, route).issue => BuildReviewPath(staff, route).path # <<>>
<1> DEFINE held == {c \in Positions : route[c] # {}}
           tops == {c \in held : c \in Finals \ Direction}
           pmcs == UNION {route[c] : c \in tops}
           pmc  == IF Cardinality(pmcs) = 1 THEN CHOOSE e \in pmcs : TRUE ELSE None
           climbing == {c \in held : tops = {} \/ (Lineage[c] # <<>> /\ Last(Lineage[c]) \in tops)}
           paths    == {StepsOf(Lineage[c], route) : c \in climbing} \ {<<>>}
           longest  == {p \in paths : ~ \E q \in paths : q # p /\ IsSuffix(p, q)}
           doubtful == \/ Cardinality(pmcs) > 1
                       \/ Cardinality(tops) > 1
                       \/ \E c \in held : Cyclic(c) \/ Broken(c)
                       \/ \E c \in climbing : \E d \in ToSet(Lineage[c]) : Cardinality(route[d]) > 1
                       \/ Cardinality(longest) # 1
<1>1. BuildReviewPath(staff, route) =
        IF doubtful THEN Unclear(staff, pmc)
        ELSE [staff |-> staff, path |-> CHOOSE p \in longest : TRUE, pmc |-> pmc, issue |-> FALSE]
  BY DEF BuildReviewPath
<1>2. <<>> \notin longest
  OBVIOUS
<1>3. ~ doubtful => longest # {}
  <2>1. Cardinality(longest) # 1 => doubtful
    OBVIOUS
  <2> HIDE DEF longest, doubtful
  <2>2. longest = {} => Cardinality(longest) = 0
    BY FS_EmptySet, Zenon
  <2> QED
    BY <2>1, <2>2
<1> HIDE DEF pmc, longest, doubtful
<1>4. ~ doubtful => (CHOOSE p \in longest : TRUE) \in longest
  BY <1>3
<1> QED
  BY <1>1, <1>2, <1>4 DEF Unclear

LEMMA SnapshotFacts ==
  ASSUME NEW t \in Snapshots
  PROVE  /\ t.issue \in BOOLEAN
         /\ ~ t.issue => t.path # <<>>
<1>1. CASE \E u : t = Unclear(u, None)
  BY <1>1 DEF Unclear
<1>2. CASE \E u \in Staff, d \in Selections \cup {None} : t = DesignatedSnapshot(u, d)
  <2>1. PICK u \in Staff, d \in Selections \cup {None} : t = DesignatedSnapshot(u, d)
    BY <1>2
  <2>2. t = Unclear(u, None) \/ \E route : t = BuildReviewPath(u, route)
    BY <2>1 DEF DesignatedSnapshot
  <2>3. CASE \E route : t = BuildReviewPath(u, route)
    <3>1. PICK route : t = BuildReviewPath(u, route)
      BY <2>3
    <3> QED
      BY <3>1, BuiltPath
  <2>4. CASE t = Unclear(u, None)
    BY <2>4 DEF Unclear
  <2> QED
    BY <2>2, <2>3, <2>4, Zenon
<1> QED
  BY <1>1, <1>2 DEF Snapshots

(* What a branch says of its project is one of the snapshots. *)
LEMMA SnapshotTyped ==
  ASSUME NEW s \in Sites, NEW p \in Scopes
  PROVE  Snapshot(s, p) \in Snapshots
<1>1. CASE p = Unlinked
  BY <1>1 DEF Snapshot, Snapshots
<1>2. CASE p # Unlinked
  <2>1. p \in Projects /\ s.staffing[p] \in Staff /\ s.selection[p] \in Selections \cup {None}
    BY <1>2 DEF Scopes, Sites
  <2> QED
    BY <1>2, <2>1 DEF Snapshot, Snapshots
<1> QED
  BY <1>1, <1>2

-----------------------------------------------------------------------------
(* The parts of syncProjectMeeting.  Each changes the branches or the      *)
(* actions of a meeting, and leaves the rest.                              *)
SameRest(n, m) ==
  /\ n.analysed = m.analysed /\ n.status = m.status /\ n.drafted = m.drafted
  /\ n.protected = m.protected /\ n.legacy = m.legacy /\ n.project = m.project

LEMMA WantedInScopes ==
  ASSUME NEW m \in Meetings
  PROVE  /\ Wanted(m) \subseteq Scopes
         /\ \A x \in Present(m) : m.action[x] \in Item /\ m.action[x].project \in Wanted(m)
<1>1. \A x \in Present(m) : m.action[x] \in Item
  BY DEF Meetings, Present
<1>2. \A x \in Present(m) : m.action[x].project \in Scopes
  BY <1>1 DEF Item
<1>3. m.project \in Scopes
  BY DEF Meetings
<1> QED
  BY <1>1, <1>2, <1>3 DEF Wanted

LEMMA BranchesAlign ==
  ASSUME NEW s \in Sites, NEW m \in Meetings
  PROVE  LET n == WithBranches(s, m)
         IN /\ n \in Meetings /\ SameRest(n, m) /\ n.action = m.action
            /\ Branches(n) = Wanted(m) /\ AllLinked(n)
            /\ Climbing(m) => Climbing(n)
<1> DEFINE fresh(p) == [snapshot |-> Snapshot(s, p), cursor |-> 1, approved |-> FALSE]
           b == [p \in Scopes |->
                   IF p \notin Wanted(m) THEN None
                   ELSE IF Kept(s, m, p) THEN m.branch[p] ELSE fresh(p)]
           g == [p \in Scopes |-> IF p \in Wanted(m) /\ Kept(s, m, p) THEN m.seen[p] ELSE {}]
           n == WithBranches(s, m)
<1>1. n = [m EXCEPT !.branch = b, !.seen = g]
  BY DEF WithBranches
<1>2. \A p \in Scopes : fresh(p) \in Branch
  BY SnapshotTyped DEF Branch
<1>3. \A p \in Scopes : Kept(s, m, p) => m.branch[p] \in Branch /\ p \in Branches(m)
  BY DEF Kept, Meetings, Branches
<1>4. /\ b \in [Scopes -> Branch \cup {None}]
      /\ \A p \in Scopes : b[p] # None <=> p \in Wanted(m)
  BY <1>2, <1>3, ReviewsAssumption
<1>5. g \in [Scopes -> SUBSET Nat]
  BY DEF Meetings
<1>6. \A p \in Wanted(m) : \/ Kept(s, m, p) /\ b[p] = m.branch[p] /\ g[p] = m.seen[p]
                          \/ b[p] = fresh(p)
  BY WantedInScopes
<1> HIDE DEF b, g, n
<1>7. n \in Meetings /\ n.branch = b /\ n.seen = g /\ n.action = m.action /\ SameRest(n, m)
  BY <1>1, <1>4, <1>5 DEF Meetings, SameRest
<1>8. Branches(n) = Wanted(m)
  BY <1>4, <1>7, WantedInScopes DEF Branches
<1>9. AllLinked(n)
  BY <1>7, <1>8, WantedInScopes DEF AllLinked, Present
<1>10. ASSUME Climbing(m) PROVE Climbing(n)
  <2> SUFFICES ASSUME NEW p \in Wanted(m)
               PROVE  b[p].cursor \in Nat \ {0} /\ 1..(b[p].cursor - 1) \subseteq g[p]
    BY <1>7, <1>8 DEF Climbing
  <2>1. CASE b[p] = fresh(p)
    <3>1. b[p].cursor = 1
      BY <2>1
    <3> QED
      BY <3>1
  <2>2. CASE Kept(s, m, p) /\ b[p] = m.branch[p] /\ g[p] = m.seen[p]
    BY <1>3, <1>10, <2>2, WantedInScopes DEF Climbing
  <2> QED
    BY <1>6, <2>1, <2>2
<1> QED
  BY <1>7, <1>8, <1>9, <1>10 DEF n

LEMMA ResponsiblesSettle ==
  ASSUME NEW m \in Meetings, AllLinked(m)
  PROVE  LET n == WithResponsibles(m)
         IN /\ n \in Meetings /\ SameRest(n, m) /\ n.branch = m.branch /\ n.seen = m.seen
            /\ AllLinked(n)
<1> DEFINE r(x) == ResolveProjectResponsible(m.action[x].mentioned, m.branch[m.action[x].project].snapshot)
           settled(x) == \/ m.action[x].origin = "manual"
                         \/ /\ m.action[x].origin = r(x).origin
                            /\ m.action[x].who = r(x).who
           a == [x \in Actions |->
                   IF x \notin Present(m) \/ settled(x) THEN m.action[x]
                   ELSE [m.action[x] EXCEPT !.who = r(x).who, !.origin = r(x).origin, !.extra = {}]]
           n == WithResponsibles(m)
<1>1. n = [m EXCEPT !.action = a]
  BY DEF WithResponsibles
<1>2. ASSUME NEW x \in Present(m) PROVE r(x).who \in People /\ r(x).origin \in Origins
  <2> DEFINE t == m.branch[m.action[x].project].snapshot
  <2>1. m.branch[m.action[x].project] \in Branch
    BY DEF AllLinked, Branches, Meetings
  <2>2. t \in Snapshots /\ m.action[x].mentioned \in People
    BY <2>1, WantedInScopes DEF Branch, Item
  <2> HIDE DEF t
  <2>3. t.pmc \in People /\ None \in People
    BY <2>2 DEF People
  <2> QED
    BY <2>2, <2>3 DEF ResolveProjectResponsible, Origins, t
<1> HIDE DEF r
<1>3. \A x \in Present(m) : x \in Actions /\ a[x] \in Item /\ a[x].project = m.action[x].project
  BY <1>2, WantedInScopes DEF Item, Present
<1>4. \A x \in Actions : x \notin Present(m) => a[x] = None
  BY DEF Present
<1>5. a \in [Actions -> Item \cup {None}]
  BY <1>3, <1>4
<1> HIDE DEF a, n
<1>6. /\ n \in Meetings /\ n.action = a /\ SameRest(n, m) /\ n.branch = m.branch /\ n.seen = m.seen
  BY <1>1, <1>5 DEF Meetings, SameRest
<1>7. AllLinked(n)
  BY <1>3, <1>4, <1>6 DEF AllLinked, Present, Branches
<1> QED
  BY <1>6, <1>7 DEF n

LEMMA ApprovalsFall ==
  ASSUME NEW m \in Meetings
  PROVE  LET n == Unapproved(m)
         IN /\ n \in Meetings /\ SameRest(n, m) /\ n.action = m.action /\ n.seen = m.seen
            /\ Branches(n) = Branches(m) /\ NoneApproved(n)
            /\ Climbing(m) => Climbing(n)
            /\ AllLinked(m) => AllLinked(n)
<1> DEFINE b == [p \in Scopes |-> IF m.branch[p] = None THEN None ELSE [m.branch[p] EXCEPT !.approved = FALSE]]
           n == Unapproved(m)
<1>1. n = [m EXCEPT !.branch = b]
  BY DEF Unapproved
<1>2. \A p \in Branches(m) : m.branch[p] \in Branch
  BY DEF Branches, Meetings
<1>3. \A p \in Branches(m) : b[p] \in Branch /\ ~ b[p].approved /\ b[p].cursor = m.branch[p].cursor
  BY <1>2 DEF Branch, Branches
<1>4. \A p \in Scopes : b[p] # None <=> p \in Branches(m)
  BY <1>3, ReviewsAssumption DEF Branches
<1>5. b \in [Scopes -> Branch \cup {None}]
  BY <1>3 DEF Branches
<1> HIDE DEF b, n
<1>6. n \in Meetings /\ n.branch = b /\ n.action = m.action /\ n.seen = m.seen /\ SameRest(n, m)
  BY <1>1, <1>5 DEF Meetings, SameRest
<1>7. Branches(n) = Branches(m)
  BY <1>4, <1>6 DEF Branches
<1>8. /\ NoneApproved(n)
      /\ Climbing(m) => Climbing(n)
      /\ AllLinked(m) => AllLinked(n)
  BY <1>3, <1>6, <1>7 DEF NoneApproved, Climbing, AllLinked, Present
<1> QED
  BY <1>6, <1>7, <1>8 DEF n

-----------------------------------------------------------------------------
(* syncProjectMeeting.  A pending meeting is left as it was, or has its    *)
(* branches aligned with its actions and no approval.                      *)
LEMMA PendingSynced ==
  ASSUME NEW s \in Sites, NEW m \in Meetings, m.status = "pending", ~ m.legacy,
         Climbing(m), Drafted(m)
  PROVE  LET n == Synced(s, m)
         IN /\ n \in Meetings /\ n.status = "pending" /\ ~ n.legacy
            /\ Climbing(n) /\ Drafted(n)
            /\ n = m \/ NoneApproved(n)
            /\ IF Skipped(s, m) THEN n = m ELSE AllLinked(n)
<1> DEFINE aligned  == WithBranches(s, m)
           assigned == WithResponsibles(aligned)
           cleared  == Unapproved(assigned)
           n        == Synced(s, m)
<1>1. /\ aligned \in Meetings /\ SameRest(aligned, m) /\ AllLinked(aligned) /\ Climbing(aligned)
  BY BranchesAlign
<1> HIDE DEF aligned
<1>2. /\ assigned \in Meetings /\ SameRest(assigned, aligned) /\ AllLinked(assigned)
      /\ assigned.branch = aligned.branch /\ assigned.seen = aligned.seen
  BY <1>1, ResponsiblesSettle
<1> HIDE DEF assigned
<1>3. Climbing(assigned)
  BY <1>1, <1>2 DEF Climbing, Branches
<1>4. /\ cleared \in Meetings /\ SameRest(cleared, assigned) /\ NoneApproved(cleared)
      /\ Climbing(cleared) /\ AllLinked(cleared)
  BY <1>2, <1>3, ApprovalsFall
<1> HIDE DEF cleared
<1>5. n = IF Skipped(s, m) THEN m
          ELSE IF m.drafted /\ assigned = m THEN m
          ELSE [cleared EXCEPT !.drafted = TRUE, !.status = "pending", !.protected = TRUE]
  BY DEF Synced, cleared, assigned, aligned
<1> HIDE DEF n
<1>6. CASE Skipped(s, m)
  BY <1>5, <1>6 DEF n
<1>7. CASE ~ Skipped(s, m) /\ m.drafted /\ assigned = m
  BY <1>2, <1>5, <1>7 DEF n
<1>8. CASE ~ Skipped(s, m) /\ ~ (m.drafted /\ assigned = m)
  <2>1. n = [cleared EXCEPT !.drafted = TRUE, !.status = "pending", !.protected = TRUE]
    BY <1>5, <1>8
  <2>2. /\ n \in Meetings /\ n.status = "pending" /\ n.drafted /\ n.protected
        /\ n.legacy = cleared.legacy /\ n.analysed = cleared.analysed
        /\ n.branch = cleared.branch /\ n.seen = cleared.seen /\ n.action = cleared.action
    BY <1>4, <2>1 DEF Meetings
  <2>3. cleared.analysed = m.analysed /\ cleared.legacy = m.legacy /\ m.analysed
    BY <1>1, <1>2, <1>4, <1>8 DEF SameRest, Skipped
  <2>4. Climbing(n) /\ NoneApproved(n) /\ AllLinked(n)
    BY <1>4, <2>2 DEF Climbing, NoneApproved, AllLinked, Branches, Present
  <2> QED
    BY <1>8, <2>2, <2>3, <2>4 DEF Drafted, n
<1> QED
  BY <1>6, <1>7, <1>8

(* A meeting approved before only gets its branches, once. *)
LEMMA LegacySynced ==
  ASSUME NEW s \in Sites, NEW m \in Meetings, m.legacy, Legacy(m)
  PROVE  LET n == Synced(s, m) IN n \in Meetings /\ n.legacy /\ Legacy(n)
<1> DEFINE aligned == WithBranches(s, m)
           n == Synced(s, m)
           b == [p \in Scopes |->
                   IF aligned.branch[p] = None THEN None
                   ELSE [aligned.branch[p] EXCEPT !.approved = TRUE,
                                                  !.cursor = IF aligned.branch[p].snapshot.issue
                                                             THEN 1 ELSE Len(aligned.branch[p].snapshot.path)]]
<1>1. aligned \in Meetings /\ SameRest(aligned, m)
  BY BranchesAlign
<1> HIDE DEF aligned
<1>2. Captured(aligned) = [aligned EXCEPT !.branch = b]
  BY DEF Captured
<1>3. b \in [Scopes -> Branch \cup {None}]
  <2> SUFFICES ASSUME NEW p \in Scopes, aligned.branch[p] # None
               PROVE  [aligned.branch[p] EXCEPT !.approved = TRUE,
                                                !.cursor = IF aligned.branch[p].snapshot.issue
                                                           THEN 1 ELSE Len(aligned.branch[p].snapshot.path)] \in Branch
    OBVIOUS
  <2>1. aligned.branch[p] \in Branch
    BY <1>1 DEF Meetings
  <2> QED
    BY <2>1 DEF Branch
<1> HIDE DEF b
<1>4. CASE Skipped(s, m)
  BY <1>4 DEF Synced
<1>5. CASE ~ Skipped(s, m)
  <2>1. n = [[aligned EXCEPT !.branch = b] EXCEPT !.drafted = TRUE]
    BY <1>2, <1>5 DEF Synced, Legacy, aligned
  <2> HIDE DEF n
  <2>2. n \in Meetings /\ n.legacy = aligned.legacy /\ n.status = aligned.status
        /\ n.protected = aligned.protected /\ n.analysed = aligned.analysed
    BY <1>1, <1>3, <2>1 DEF Meetings
  <2>3. m.analysed
    BY <1>5 DEF Skipped
  <2> QED
    BY <1>1, <2>2, <2>3 DEF SameRest, Legacy, n
<1> QED
  BY <1>4, <1>5

LEMMA SyncedKeeps ==
  ASSUME NEW s \in Sites, NEW m \in Meetings, Sound(m),
         ~ s.available => Linked(s, m)
  PROVE  LET n == Synced(s, m) IN n \in Meetings /\ Sound(n) /\ Linked(s, n)
<1> DEFINE n == Synced(s, m)
<1>1. CASE m.legacy
  BY <1>1, LegacySynced DEF Sound, Linked, Legacy
<1>2. CASE ~ m.legacy /\ m.status = "approved"
  <2>1. Skipped(s, m) /\ n = m
    BY <1>2 DEF Sound, Closed, Skipped, Synced
  <2> QED
    BY <1>2, <2>1 DEF Linked
<1>3. CASE ~ m.legacy /\ m.status = "pending"
  <2>1. Climbing(m) /\ Drafted(m) /\ Passed(m)
    BY <1>3 DEF Sound
  <2>2. /\ n \in Meetings /\ n.status = "pending" /\ ~ n.legacy
        /\ Climbing(n) /\ Drafted(n)
        /\ n = m \/ NoneApproved(n)
        /\ IF Skipped(s, m) THEN n = m ELSE AllLinked(n)
    BY <1>3, <2>1, PendingSynced
  <2> HIDE DEF n
  <2>3. Passed(n)
    BY <2>1, <2>2 DEF Passed, NoneApproved
  <2>4. Sound(n)
    BY <2>2, <2>3 DEF Sound, Closed
  <2>5. Linked(s, n)
    <3>1. ASSUME Skipped(s, m), s.enabled, m.drafted PROVE ~ s.available
      BY <1>3, <2>1, <3>1 DEF Skipped, Drafted
    <3> QED
      BY <1>3, <2>2, <3>1 DEF Linked
  <2> QED
    BY <2>2, <2>4, <2>5 DEF n
<1>4. m.legacy \in BOOLEAN /\ m.status \in {"pending", "approved"}
  BY DEF Meetings
<1> QED
  BY <1>1, <1>2, <1>3, <1>4

(* An edition: the branch goes back to its first reviewer, or not; nobody's*)
(* approval stays.                                                         *)
LEMMA TouchedKeeps ==
  ASSUME NEW m \in Meetings, NEW p \in Scopes, NEW content \in BOOLEAN,
         content => p \in Branches(m), Climbing(m)
  PROVE  LET n == Touched(m, p, content)
         IN /\ n \in Meetings /\ SameRest(n, m) /\ n.action = m.action
            /\ Branches(n) = Branches(m) /\ NoneApproved(n) /\ Climbing(n)
            /\ AllLinked(m) => AllLinked(n)
<1> DEFINE back == [m EXCEPT !.branch[p].cursor = 1, !.seen[p] = {}]
           b    == [m.branch EXCEPT ![p].cursor = 1]
           g    == [m.seen EXCEPT ![p] = {}]
<1>1. CASE content
  <2>1. m.branch[p] \in Branch /\ m.branch[p] # None
    BY <1>1 DEF Branches, Meetings
  <2>2. [m.branch[p] EXCEPT !.cursor = 1] \in Branch
    BY <2>1 DEF Branch
  <2>3. b \in [Scopes -> Branch \cup {None}] /\ g \in [Scopes -> SUBSET Nat]
    BY <2>2 DEF Meetings
  <2>4. back = [m EXCEPT !.branch = b, !.seen = g]
    BY DEF Meetings
  <2>5. \A q \in Scopes : q # p => b[q] = m.branch[q] /\ g[q] = m.seen[q]
    BY DEF Meetings
  <2>6. b[p] # None /\ b[p].cursor = 1
    BY <2>1, <2>2, ReviewsAssumption DEF Meetings, Branch
  <2> HIDE DEF back, b, g
  <2>7. /\ back \in Meetings /\ SameRest(back, m) /\ back.action = m.action
        /\ back.branch = b /\ back.seen = g
    BY <2>3, <2>4 DEF Meetings, SameRest
  <2>8. Branches(back) = Branches(m)
    BY <2>1, <2>5, <2>6, <2>7 DEF Branches
  <2>9. Climbing(back)
    <3> SUFFICES ASSUME NEW q \in Branches(m)
                 PROVE  b[q].cursor \in Nat \ {0} /\ 1..(b[q].cursor - 1) \subseteq g[q]
      BY <2>7, <2>8 DEF Climbing
    <3>1. CASE q = p
      BY <2>6, <3>1
    <3>2. CASE q # p
      BY <2>5, <3>2 DEF Climbing, Branches
    <3> QED
      BY <3>1, <3>2
  <2>10. AllLinked(m) => AllLinked(back)
    BY <2>7, <2>8 DEF AllLinked, Present
  <2>11. Touched(m, p, content) = Unapproved(back)
    BY <1>1 DEF Touched, back
  <2> QED
    BY <2>7, <2>8, <2>9, <2>10, <2>11, ApprovalsFall DEF SameRest
<1>2. CASE ~ content
  <2>1. Touched(m, p, content) = Unapproved(m)
    BY <1>2 DEF Touched
  <2> QED
    BY <2>1, ApprovalsFall
<1> QED
  BY <1>1, <1>2

-----------------------------------------------------------------------------
(* The invariant of the next state, said of the next site and meeting. *)
LEMMA Again ==
  ASSUME site' \in Sites, meeting' \in Meetings, Sound(meeting'), Linked(site', meeting')
  PROVE  ReviewsInv'
BY DEF ReviewsInv, Sound, Linked, Legacy, Climbing, Passed, Drafted, Closed, AllLinked, Branches, Present,
       AtFinal, Complete, BranchesReadyForPmc

LEMMA InitReviews == Init => ReviewsInv
<1> SUFFICES ASSUME Init PROVE ReviewsInv
  OBVIOUS
<1>1. site \in Sites
  BY DEF Init, Sites, Staff
<1>2. meeting \in Meetings
  BY DEF Init, Meetings, Scopes
<1>3. Branches(meeting) = {} /\ ~ meeting.legacy /\ ~ meeting.drafted /\ meeting.status = "pending"
  BY DEF Init, Branches
<1> QED
  BY <1>1, <1>2, <1>3 DEF ReviewsInv, Sound, Linked, Climbing, Passed, Drafted, Closed

(* Somebody may write only in a meeting under review. *)
LEMMA UnderReview ==
  ASSUME ReviewsInv, NEW e, MayWrite(e)
  PROVE  /\ meeting \in Meetings /\ ~ meeting.legacy /\ meeting.status = "pending"
         /\ meeting.drafted /\ meeting.protected /\ meeting.analysed
         /\ Climbing(meeting) /\ Passed(meeting) /\ AllLinked(meeting)
<1>1. meeting \in Meetings /\ Sound(meeting) /\ Linked(site, meeting)
  BY DEF ReviewsInv
<1>2. site.enabled /\ meeting.drafted /\ meeting.status # "approved"
  BY DEF MayWrite
<1>3. ~ meeting.legacy /\ meeting.status = "pending"
  BY <1>1, <1>2 DEF Sound, Legacy, Meetings
<1> QED
  BY <1>1, <1>2, <1>3 DEF Sound, Drafted, Linked

(* A meeting under review that nobody has approved is sound. *)
LEMMA UnapprovedIsSound ==
  ASSUME NEW m \in Meetings, ~ m.legacy, m.status = "pending", m.protected,
         m.drafted => m.analysed, ~ m.drafted => Branches(m) = {},
         Climbing(m), NoneApproved(m)
  PROVE  Sound(m)
BY DEF Sound, Passed, Drafted, Closed, NoneApproved

(* What is written in an action, by whom, and whether it counts as a       *)
(* change of contents does not matter, as long as its project has a branch.*)
LEMMA WriteKeeps ==
  ASSUME ReviewsInv, NEW e, MayWrite(e),
         NEW a \in [Actions -> Item \cup {None}],
         \A x \in Actions : a[x] # None => a[x].project \in Branches(meeting),
         NEW p \in Branches(meeting), NEW content \in BOOLEAN,
         Write(Touched([meeting EXCEPT !.action = a], p, content))
  PROVE  ReviewsInv'
<1> DEFINE m == [meeting EXCEPT !.action = a]
<1>1. /\ meeting \in Meetings /\ ~ meeting.legacy /\ meeting.status = "pending"
      /\ meeting.drafted /\ meeting.protected /\ meeting.analysed
      /\ Climbing(meeting) /\ Passed(meeting) /\ AllLinked(meeting)
  BY UnderReview
<1>2. /\ m \in Meetings /\ SameRest(m, meeting) /\ m.action = a
      /\ m.branch = meeting.branch /\ m.seen = meeting.seen
  BY <1>1 DEF Meetings, SameRest
<1>3. meeting' = Touched(m, p, content) /\ site' = site
  BY DEF Write
<1> HIDE DEF m
<1>4. Branches(m) = Branches(meeting) /\ Climbing(m) /\ AllLinked(m) /\ p \in Scopes
  BY <1>1, <1>2 DEF Branches, Climbing, AllLinked, Present
<1>5. /\ meeting' \in Meetings /\ SameRest(meeting', m)
      /\ NoneApproved(meeting') /\ Climbing(meeting') /\ AllLinked(meeting')
  BY <1>2, <1>3, <1>4, TouchedKeeps
<1>6. Sound(meeting')
  BY <1>1, <1>2, <1>5, UnapprovedIsSound DEF SameRest
<1> QED
  BY <1>3, <1>5, <1>6, Again DEF ReviewsInv, Linked

(* The same for one action. *)
LEMMA ActionWritten ==
  ASSUME ReviewsInv, NEW e, MayWrite(e), NEW x \in Actions, NEW i \in Item \cup {None},
         i # None => i.project \in Branches(meeting),
         NEW p \in Branches(meeting), NEW content \in BOOLEAN,
         Write(Touched([meeting EXCEPT !.action[x] = i], p, content))
  PROVE  ReviewsInv'
<1> DEFINE a == [meeting.action EXCEPT ![x] = i]
<1>1. meeting \in Meetings /\ AllLinked(meeting)
  BY UnderReview
<1>2. a \in [Actions -> Item \cup {None}]
  BY <1>1 DEF Meetings
<1>3. \A y \in Actions : a[y] # None => a[y].project \in Branches(meeting)
  BY <1>1 DEF Meetings, AllLinked, Present
<1>4. [meeting EXCEPT !.action[x] = i] = [meeting EXCEPT !.action = a]
  BY <1>1 DEF Meetings
<1> HIDE DEF a
<1> QED
  BY <1>2, <1>3, <1>4, WriteKeeps

LEMMA EditKeeps == ReviewsInv /\ Edit => ReviewsInv'
<1> SUFFICES ASSUME ReviewsInv, Edit PROVE ReviewsInv'
  OBVIOUS
<1>1. PICK e \in Employees, x \in Actions :
        /\ MayWrite(e)
        /\ \/ \E due, assigned \in BOOLEAN, who \in Employees \cup {None} :
                \/ \E retitled \in BOOLEAN : EditAction(e, x, retitled, due, assigned, who)
                \/ \E p \in Scopes : AddAction(e, p, x, due, assigned, who)
           \/ DeleteAction(e, x)
           \/ \E escalated \in BOOLEAN : EscalateAction(e, x, escalated)
           \/ \E who \in Employees, add \in BOOLEAN : ShareAction(e, x, who, add)
  BY DEF Edit
<1> DEFINE i == meeting.action[x]
<1>2. meeting \in Meetings /\ AllLinked(meeting)
  BY <1>1, UnderReview
<1>3. x \in Present(meeting) => i \in Item
  BY <1>2 DEF Meetings, Present
<1>4. CASE \E due, assigned \in BOOLEAN, who \in Employees \cup {None}, retitled \in BOOLEAN :
             EditAction(e, x, retitled, due, assigned, who)
  <2>1. PICK due \in BOOLEAN, assigned \in BOOLEAN, who \in Employees \cup {None}, retitled \in BOOLEAN :
          EditAction(e, x, retitled, due, assigned, who)
    BY <1>4
  <2> DEFINE new == IF assigned
                    THEN [i EXCEPT !.due = due, !.who = who, !.origin = "manual", !.extra = @ \ {who}]
                    ELSE [i EXCEPT !.due = due]
  <2>2. /\ i \in Item /\ i.project \in Branches(meeting)
        /\ Write(Touched([meeting EXCEPT !.action[x] = new], i.project, retitled \/ due # i.due))
    BY <1>3, <2>1 DEF EditAction
  <2>3. new \in Item /\ new.project = i.project
    BY <2>2 DEF Item, Origins, People
  <2> HIDE DEF new
  <2>4. (retitled \/ due # i.due) \in BOOLEAN
    OBVIOUS
  <2> QED
    BY <1>1, <2>2, <2>3, <2>4, ActionWritten
<1>5. CASE \E due, assigned \in BOOLEAN, who \in Employees \cup {None}, p \in Scopes :
             AddAction(e, p, x, due, assigned, who)
  <2>1. PICK due \in BOOLEAN, assigned \in BOOLEAN, who \in Employees \cup {None}, p \in Scopes :
          AddAction(e, p, x, due, assigned, who)
    BY <1>5
  <2> DEFINE new == [project |-> p, who |-> who, due |-> due, mentioned |-> None,
                     origin |-> IF assigned THEN "manual"
                                ELSE IF who # None THEN "pmc_default" ELSE "unassigned",
                     escalated |-> FALSE, extra |-> {}]
  <2>2. p \in Branches(meeting) /\ Write(Touched([meeting EXCEPT !.action[x] = new], p, TRUE))
    BY <2>1 DEF AddAction
  <2>3. new \in Item /\ new.project = p
    BY DEF Item, Origins, People
  <2> HIDE DEF new
  <2> QED
    BY <1>1, <2>2, <2>3, ActionWritten
<1>6. CASE DeleteAction(e, x)
  <2>1. i.project \in Branches(meeting) /\ Write(Touched([meeting EXCEPT !.action[x] = None], i.project, TRUE))
    BY <1>6 DEF DeleteAction
  <2> QED
    BY <1>1, <2>1, ActionWritten
<1>7. CASE \E escalated \in BOOLEAN : EscalateAction(e, x, escalated)
  <2>1. PICK escalated \in BOOLEAN : EscalateAction(e, x, escalated)
    BY <1>7
  <2> DEFINE new == [i EXCEPT !.escalated = escalated]
  <2>2. /\ i \in Item /\ i.project \in Branches(meeting)
        /\ Write(Touched([meeting EXCEPT !.action[x].escalated = escalated], i.project, FALSE))
    BY <1>3, <2>1 DEF EscalateAction
  <2>3. [meeting EXCEPT !.action[x].escalated = escalated] = [meeting EXCEPT !.action[x] = new]
    BY <1>2 DEF Meetings
  <2>4. new \in Item /\ new.project = i.project
    BY <2>2 DEF Item
  <2> HIDE DEF new
  <2> QED
    BY <1>1, <2>2, <2>3, <2>4, ActionWritten
<1>8. CASE \E who \in Employees, add \in BOOLEAN : ShareAction(e, x, who, add)
  <2>1. PICK who \in Employees, add \in BOOLEAN : ShareAction(e, x, who, add)
    BY <1>8
  <2> DEFINE set == IF add THEN i.extra \cup {who} ELSE i.extra \ {who}
             new == [i EXCEPT !.extra = set, !.origin = "manual"]
             m   == [meeting EXCEPT !.action[x].extra = IF add THEN @ \cup {who} ELSE @ \ {who},
                                    !.action[x].origin = "manual"]
  <2>2. i \in Item /\ i.project \in Branches(meeting) /\ Write(Touched(m, i.project, FALSE))
    BY <1>3, <2>1 DEF ShareAction
  <2>3. m = [meeting EXCEPT !.action[x] = new]
    BY <1>2, <2>2 DEF Meetings, Item
  <2>4. new \in Item /\ new.project = i.project
    BY <2>2 DEF Item, Origins
  <2> HIDE DEF new, m
  <2> QED
    BY <1>1, <2>2, <2>3, <2>4, ActionWritten
<1> QED
  BY <1>1, <1>4, <1>5, <1>6, <1>7, <1>8

-----------------------------------------------------------------------------
(* One branch, and what has approved it, replaced by another. *)
Replaced(m, p, b, g) == [m EXCEPT !.branch[p] = b, !.seen[p] = g]

LEMMA BranchReplaced ==
  ASSUME NEW m \in Meetings, NEW p \in Branches(m), NEW b \in Branch, NEW g \in SUBSET Nat
  PROVE  LET n == Replaced(m, p, b, g)
         IN /\ n \in Meetings /\ SameRest(n, m) /\ n.action = m.action
            /\ Branches(n) = Branches(m)
            /\ n.branch[p] = b /\ n.seen[p] = g
            /\ \A q \in Branches(m) : q # p => n.branch[q] = m.branch[q] /\ n.seen[q] = m.seen[q]
<1> DEFINE nb == [m.branch EXCEPT ![p] = b]
           ng == [m.seen EXCEPT ![p] = g]
           n  == Replaced(m, p, b, g)
<1>1. p \in Scopes
  BY DEF Branches
<1>2. nb \in [Scopes -> Branch \cup {None}] /\ ng \in [Scopes -> SUBSET Nat]
  BY <1>1 DEF Meetings
<1>3. n = [m EXCEPT !.branch = nb, !.seen = ng]
  BY DEF Meetings, Replaced
<1>4. /\ nb[p] = b /\ ng[p] = g
      /\ \A q \in Scopes : q # p => nb[q] = m.branch[q] /\ ng[q] = m.seen[q]
  BY <1>1 DEF Meetings
<1> HIDE DEF nb, ng, n
<1>5. n \in Meetings /\ SameRest(n, m) /\ n.action = m.action /\ n.branch = nb /\ n.seen = ng
  BY <1>2, <1>3 DEF Meetings, SameRest
<1>6. Branches(n) = Branches(m)
  BY <1>1, <1>4, <1>5, ReviewsAssumption DEF Branches
<1> QED
  BY <1>4, <1>5, <1>6 DEF Branches, n

LEMMA ApproveKeeps ==
  ASSUME ReviewsInv, NEW e, NEW p \in Projects, Approve(e, p)
  PROVE  ReviewsInv'
<1> DEFINE m        == meeting
           b        == m.branch[p]
           final    == AtFinal(b)
           b2       == [b EXCEPT !.cursor = IF final THEN @ ELSE @ + 1, !.approved = final]
           g2       == m.seen[p] \cup {b.cursor}
           advanced == Replaced(m, p, b2, g2)
<1>1. /\ m \in Meetings /\ ~ m.legacy /\ m.status = "pending"
      /\ m.drafted /\ m.protected /\ m.analysed
      /\ Climbing(m) /\ Passed(m) /\ AllLinked(m)
  BY UnderReview DEF Approve
<1>2. /\ p \in Branches(m) /\ ~ b.approved /\ ~ b.snapshot.issue
      /\ final => BranchesReadyForPmc(m)
      /\ Complete(m, p)
  BY DEF Approve, CanReviewBranch
<1>3. b \in Branch /\ b.cursor \in Nat \ {0} /\ 1..(b.cursor - 1) \subseteq m.seen[p]
  BY <1>1, <1>2 DEF Branches, Meetings, Climbing
<1>4. m.seen[p] \in SUBSET Nat
  BY <1>1 DEF Meetings, Scopes
<1>5. /\ b2 \in Branch /\ b2.snapshot = b.snapshot /\ b2.approved = final
      /\ b2.cursor = IF final THEN b.cursor ELSE b.cursor + 1
  <2>1. final \in BOOLEAN
    BY DEF AtFinal
  <2>2. b.cursor + 1 \in Nat
    BY <1>3
  <2> HIDE DEF final
  <2>3. b \in [snapshot : Snapshots, cursor : Nat \cup {Len(t.path) : t \in Snapshots}, approved : BOOLEAN]
    BY <1>3 DEF Branch
  <2>4. b2 = [b EXCEPT !.cursor = IF final THEN b.cursor ELSE b.cursor + 1, !.approved = final]
    BY <2>3
  <2> QED
    BY <2>1, <2>2, <2>3, <2>4 DEF Branch
<1>6. site' = site /\ meeting' = IF \A q \in Branches(advanced) : advanced.branch[q].approved
                                 THEN [advanced EXCEPT !.status = "approved"] ELSE advanced
  <2>1. advanced = [meeting EXCEPT
                        !.branch[p].cursor = IF final THEN @ ELSE @ + 1,
                        !.branch[p].approved = final,
                        !.seen[p] = @ \cup {meeting.branch[p].cursor}]
    <3> HIDE DEF final
    <3>1. /\ m.branch \in [Scopes -> Branch \cup {None}] /\ m.seen \in [Scopes -> SUBSET Nat]
          /\ p \in Scopes
      BY <1>1 DEF Meetings, Scopes
    <3> QED
      BY <1>1, <1>3, <3>1 DEF Meetings, Branch, Replaced
  <2> QED
    BY <2>1 DEF Approve
<1> HIDE DEF b2, g2
<1>7. g2 \in SUBSET Nat /\ g2 = m.seen[p] \cup {b.cursor}
  BY <1>3, <1>4 DEF g2
<1>8. /\ advanced \in Meetings /\ SameRest(advanced, m) /\ advanced.action = m.action
      /\ Branches(advanced) = Branches(m)
      /\ advanced.branch[p] = b2 /\ advanced.seen[p] = g2
      /\ \A q \in Branches(m) : q # p => advanced.branch[q] = m.branch[q] /\ advanced.seen[q] = m.seen[q]
  BY <1>1, <1>2, <1>5, <1>7, BranchReplaced
<1> HIDE DEF advanced
<1>9. Climbing(advanced)
  <2> SUFFICES ASSUME NEW q \in Branches(m)
               PROVE  /\ advanced.branch[q].cursor \in Nat \ {0}
                      /\ 1..(advanced.branch[q].cursor - 1) \subseteq advanced.seen[q]
    BY <1>8 DEF Climbing
  <2>1. CASE q = p
    BY <1>3, <1>5, <1>7, <1>8, <2>1
  <2>2. CASE q # p
    BY <1>1, <1>8, <2>2 DEF Climbing
  <2> QED
    BY <2>1, <2>2
<1>10. Present(advanced) = Present(m) /\ \A q \in Branches(m) : Complete(m, q) => Complete(advanced, q)
  BY <1>8 DEF Present, Complete
<1>11. Passed(advanced)
  <2>1. CASE final
    <3>1. AtFinal(b2)
      BY <1>5, <2>1 DEF AtFinal
    <3>2. BranchesReadyForPmc(advanced)
      BY <1>2, <1>5, <1>8, <2>1, <3>1 DEF BranchesReadyForPmc
    <3> SUFFICES ASSUME NEW q \in Branches(m), advanced.branch[q].approved
                 PROVE  /\ AtFinal(advanced.branch[q]) /\ advanced.branch[q].cursor \in advanced.seen[q]
                        /\ Complete(advanced, q)
      BY <1>8, <3>2 DEF Passed
    <3>3. CASE q = p
      BY <1>2, <1>5, <1>7, <1>8, <1>10, <2>1, <3>1, <3>3
    <3>4. CASE q # p
      BY <1>1, <1>8, <1>10, <3>4 DEF Passed
    <3> QED
      BY <3>3, <3>4
  <2>2. CASE ~ final
    <3>1. ~ BranchesReadyForPmc(m)
      BY <1>2, <2>2 DEF BranchesReadyForPmc
    <3>2. NoneApproved(m)
      BY <1>1, <3>1 DEF Passed, NoneApproved
    <3>3. NoneApproved(advanced)
      BY <1>5, <1>8, <2>2, <3>2 DEF NoneApproved
    <3> QED
      BY <3>3 DEF NoneApproved, Passed
  <2> QED
    BY <2>1, <2>2
<1>12. AllLinked(advanced)
  BY <1>1, <1>8 DEF AllLinked, Present
<1>13. CASE \A q \in Branches(advanced) : advanced.branch[q].approved
  <2> DEFINE n == [advanced EXCEPT !.status = "approved"]
  <2>1. /\ n \in Meetings /\ n.status = "approved" /\ n.legacy = advanced.legacy /\ n.drafted = advanced.drafted
        /\ n.protected = advanced.protected /\ n.analysed = advanced.analysed
        /\ n.action = advanced.action /\ n.branch = advanced.branch /\ n.seen = advanced.seen
    BY <1>8 DEF Meetings
  <2>2. meeting' = n
    BY <1>6, <1>13
  <2> HIDE DEF n
  <2>3. Branches(n) = Branches(advanced) /\ Present(n) = Present(advanced)
    BY <2>1 DEF Branches, Present
  <2>4. Climbing(n)
    BY <1>9, <2>1, <2>3 DEF Climbing
  <2>5. Passed(n)
    BY <1>11, <2>1, <2>3 DEF Passed, BranchesReadyForPmc, Complete
  <2>6. Drafted(n) /\ Closed(n)
    BY <1>1, <1>8, <1>12, <1>13, <2>1, <2>3 DEF Drafted, Closed, SameRest, AllLinked
  <2>7. Sound(n) /\ Linked(site, n)
    BY <1>1, <1>8, <2>1, <2>4, <2>5, <2>6 DEF Sound, Linked, SameRest
  <2> QED
    BY <1>6, <2>1, <2>2, <2>7, Again DEF ReviewsInv
<1>14. CASE ~ \A q \in Branches(advanced) : advanced.branch[q].approved
  <2>1. meeting' = advanced
    BY <1>6, <1>14
  <2>2. Sound(advanced) /\ Linked(site, advanced)
    BY <1>1, <1>8, <1>9, <1>11, <1>12 DEF Sound, Drafted, Closed, Linked, SameRest
  <2> QED
    BY <1>6, <1>8, <2>1, <2>2, Again DEF ReviewsInv
<1> QED
  BY <1>13, <1>14

LEMMA ReturnKeeps ==
  ASSUME ReviewsInv, NEW e, NEW p \in Projects, Return(e, p)
  PROVE  ReviewsInv'
<1> DEFINE m  == meeting
           b  == m.branch[p]
           b2 == [b EXCEPT !.cursor = @ - 1]
           g2 == m.seen[p] \ {b.cursor - 1}
           n  == Replaced(m, p, b2, g2)
<1>1. /\ m \in Meetings /\ ~ m.legacy /\ m.status = "pending"
      /\ m.drafted /\ m.protected /\ m.analysed
      /\ Climbing(m) /\ AllLinked(m)
  BY UnderReview DEF Return
<1>2. p \in Branches(m) /\ b.cursor > 1
  BY DEF Return, CanReviewBranch
<1>3. b \in Branch /\ b.cursor \in Nat \ {0} /\ 1..(b.cursor - 1) \subseteq m.seen[p]
  BY <1>1, <1>2 DEF Branches, Meetings, Climbing
<1>4. b2 \in Branch /\ b2.cursor = b.cursor - 1
  BY <1>2, <1>3 DEF Branch
<1>5. g2 \in SUBSET Nat
  BY <1>1 DEF Meetings, Scopes
<1>6. site' = site /\ meeting' = Unapproved(n)
  <2>1. n = [meeting EXCEPT !.branch[p].cursor = @ - 1,
                            !.seen[p] = @ \ {meeting.branch[p].cursor - 1}]
    BY <1>1, <1>3 DEF Meetings, Branch, Replaced
  <2> QED
    BY <2>1 DEF Return
<1>7. 1..(b2.cursor - 1) \subseteq g2 /\ b2.cursor \in Nat \ {0}
  BY <1>2, <1>3, <1>4
<1> HIDE DEF b2, g2
<1>8. /\ n \in Meetings /\ SameRest(n, m) /\ n.action = m.action
      /\ Branches(n) = Branches(m)
      /\ n.branch[p] = b2 /\ n.seen[p] = g2
      /\ \A q \in Branches(m) : q # p => n.branch[q] = m.branch[q] /\ n.seen[q] = m.seen[q]
  BY <1>1, <1>2, <1>4, <1>5, BranchReplaced
<1> HIDE DEF n
<1>9. Climbing(n)
  <2> SUFFICES ASSUME NEW q \in Branches(m)
               PROVE  n.branch[q].cursor \in Nat \ {0} /\ 1..(n.branch[q].cursor - 1) \subseteq n.seen[q]
    BY <1>8 DEF Climbing
  <2> QED
    BY <1>1, <1>7, <1>8 DEF Climbing
<1>10. AllLinked(n)
  BY <1>1, <1>8 DEF AllLinked, Present
<1>11. /\ meeting' \in Meetings /\ SameRest(meeting', n)
       /\ NoneApproved(meeting') /\ Climbing(meeting') /\ AllLinked(meeting')
  BY <1>6, <1>8, <1>9, <1>10, ApprovalsFall
<1>12. Sound(meeting')
  BY <1>1, <1>8, <1>11, UnapprovedIsSound DEF SameRest
<1> QED
  BY <1>6, <1>11, <1>12, Again DEF ReviewsInv, Linked

LEMMA ReviewKeeps == ReviewsInv /\ Review => ReviewsInv'
  BY ApproveKeeps, ReturnKeeps DEF Review

-----------------------------------------------------------------------------
(* The analysis only replaces the actions of a meeting without branches. *)
LEMMA AnalyseKeeps ==
  ASSUME ReviewsInv, NEW result \in Analyses, Analyse(result)
  PROVE  ReviewsInv'
<1> DEFINE m == [meeting EXCEPT !.analysed = TRUE, !.project = result.project, !.action = result.action]
<1>1. site \in Sites /\ meeting \in Meetings /\ Sound(meeting) /\ ~ meeting.protected
  BY DEF ReviewsInv, Analyse
<1>2. ~ meeting.legacy /\ ~ meeting.drafted /\ meeting.status = "pending" /\ Branches(meeting) = {}
  BY <1>1 DEF Sound, Legacy, Drafted, Closed, Meetings
<1>3. /\ m \in Meetings /\ ~ m.legacy /\ ~ m.drafted /\ m.status = "pending"
      /\ m.branch = meeting.branch
  BY <1>1, <1>2, ReviewsAssumption DEF Meetings
<1>4. meeting' = Synced(site, m) /\ site' = site
  BY DEF Analyse
<1> HIDE DEF m
<1>5. Branches(m) = {}
  BY <1>2, <1>3 DEF Branches
<1>6. Sound(m) /\ Linked(site, m)
  BY <1>3, <1>5 DEF Sound, Linked, Climbing, Passed, Drafted, Closed
<1>7. Synced(site, m) \in Meetings /\ Sound(Synced(site, m)) /\ Linked(site, Synced(site, m))
  BY <1>1, <1>3, <1>6, SyncedKeeps
<1> QED
  BY <1>1, <1>4, <1>7, Again

LEMMA LegacyApproveKeeps == ReviewsInv /\ LegacyApprove => ReviewsInv'
<1> SUFFICES ASSUME ReviewsInv, LegacyApprove PROVE ReviewsInv'
  OBVIOUS
<1> DEFINE m == [meeting EXCEPT !.status = "approved", !.protected = TRUE, !.legacy = TRUE]
<1>1. meeting \in Meetings /\ ~ meeting.drafted
  BY DEF ReviewsInv, LegacyApprove
<1>2. m \in Meetings /\ m.legacy /\ m.protected /\ m.status = "approved" /\ ~ m.drafted
  BY <1>1 DEF Meetings
<1>3. meeting' = m /\ site' = site
  BY DEF LegacyApprove
<1> HIDE DEF m
<1>4. Sound(m) /\ Linked(site, m)
  BY <1>2 DEF Sound, Legacy, Linked
<1> QED
  BY <1>2, <1>3, <1>4, Again DEF ReviewsInv

(* Actions without a project get one: while the feature is on, its branch  *)
(* too.                                                                    *)
LEMMA LinkActionsKeeps ==
  ASSUME ReviewsInv, NEW p \in Projects, NEW xs \in SUBSET Actions, LinkActions(p, xs)
  PROVE  ReviewsInv'
<1> DEFINE a == [x \in Actions |-> IF x \in xs THEN [meeting.action[x] EXCEPT !.project = p]
                                   ELSE meeting.action[x]]
           j == IF Present(meeting) = {} THEN p ELSE meeting.project
           m == [meeting EXCEPT !.project = j, !.action = a]
           n == Synced(site, m)
           t == Touched(n, p, p \in Branches(n))
<1>1. /\ site \in Sites /\ meeting \in Meetings /\ Sound(meeting) /\ p \in Scopes
      /\ meeting.analysed /\ meeting.status # "approved" /\ site.available
      /\ \A x \in xs : x \in Present(meeting)
  BY DEF ReviewsInv, LinkActions, Scopes
<1>2. ~ meeting.legacy /\ meeting.status = "pending" /\ Climbing(meeting) /\ Drafted(meeting)
  BY <1>1 DEF Sound, Legacy, Meetings
<1>3. a \in [Actions -> Item \cup {None}] /\ j \in Scopes
  <2>1. \A x \in xs : meeting.action[x] \in Item
    BY <1>1 DEF Meetings, Present
  <2>2. \A x \in xs : [meeting.action[x] EXCEPT !.project = p] \in Item
    BY <1>1, <2>1 DEF Item
  <2> QED
    BY <1>1, <2>2 DEF Meetings
<1>4. meeting' = [t EXCEPT !.status = "pending", !.protected = TRUE] /\ site' = site
  BY DEF LinkActions
<1> HIDE DEF a, j
<1>5. /\ m \in Meetings /\ m.branch = meeting.branch /\ m.seen = meeting.seen
      /\ m.status = "pending" /\ ~ m.legacy /\ m.drafted = meeting.drafted
      /\ m.protected = meeting.protected /\ m.analysed
  BY <1>1, <1>2, <1>3 DEF Meetings
<1> HIDE DEF m
<1>6. Climbing(m) /\ Drafted(m)
  BY <1>1, <1>2, <1>5 DEF Climbing, Drafted, Branches
<1>7. /\ n \in Meetings /\ ~ n.legacy /\ Climbing(n) /\ Drafted(n)
      /\ IF Skipped(site, m) THEN n = m ELSE AllLinked(n)
  BY <1>1, <1>5, <1>6, PendingSynced
<1>8. site.enabled => AllLinked(n)
  BY <1>1, <1>5, <1>7 DEF Skipped
<1> HIDE DEF n
<1>9. /\ t \in Meetings /\ SameRest(t, n) /\ Branches(t) = Branches(n)
      /\ NoneApproved(t) /\ Climbing(t) /\ (AllLinked(n) => AllLinked(t))
  <2>1. (p \in Branches(n)) \in BOOLEAN
    OBVIOUS
  <2> QED
    BY <1>1, <1>7, <2>1, TouchedKeeps
<1> HIDE DEF t
<1> DEFINE k == [t EXCEPT !.status = "pending", !.protected = TRUE]
<1>10. /\ k \in Meetings /\ k.status = "pending" /\ k.protected /\ ~ k.legacy
       /\ k.drafted = n.drafted /\ k.analysed = n.analysed
       /\ k.action = t.action /\ k.branch = t.branch /\ k.seen = t.seen
  BY <1>7, <1>9 DEF Meetings, SameRest
<1> HIDE DEF k
<1>11. /\ Branches(k) = Branches(n) /\ NoneApproved(k) /\ Climbing(k)
       /\ AllLinked(n) => AllLinked(k)
  BY <1>9, <1>10 DEF NoneApproved, Climbing, AllLinked, Branches, Present
<1>12. Sound(k)
  BY <1>7, <1>10, <1>11, UnapprovedIsSound DEF Drafted
<1>13. Linked(site, k)
  BY <1>8, <1>11 DEF Linked
<1> QED
  BY <1>1, <1>4, <1>10, <1>12, <1>13, Again DEF k

LEMMA DesignateKeeps ==
  ASSUME ReviewsInv, NEW p \in Projects, NEW d \in Selections, Designate(p, d)
  PROVE  ReviewsInv'
<1> DEFINE s == [site EXCEPT !.selection[p] = d]
<1>1. /\ site \in Sites /\ meeting \in Meetings /\ Sound(meeting) /\ Linked(site, meeting)
      /\ site.available
  BY DEF ReviewsInv, Designate
<1>2. s \in Sites /\ s.available /\ s.enabled = site.enabled
  BY <1>1 DEF Sites
<1>3. site' = s /\ (meeting' = meeting \/ meeting' = Synced(s, meeting))
  BY DEF Designate
<1> HIDE DEF s
<1>4. CASE meeting' = meeting
  BY <1>1, <1>2, <1>3, <1>4, Again DEF Linked
<1>5. CASE meeting' = Synced(s, meeting)
  <2>1. Synced(s, meeting) \in Meetings /\ Sound(Synced(s, meeting)) /\ Linked(s, Synced(s, meeting))
    BY <1>1, <1>2, SyncedKeeps
  <2> QED
    BY <1>2, <1>3, <1>5, <2>1, Again
<1> QED
  BY <1>3, <1>4, <1>5

(* Switching the feature on links the meetings of before. *)
LEMMA SwitchKeeps ==
  ASSUME ReviewsInv, NEW on \in BOOLEAN, Switch(on)
  PROVE  ReviewsInv'
<1> DEFINE s == [site EXCEPT !.enabled = on]
<1>1. site \in Sites /\ meeting \in Meetings /\ Sound(meeting) /\ Linked(site, meeting)
  BY DEF ReviewsInv
<1>2. s \in Sites /\ s.enabled = on /\ s.available = site.available
  BY <1>1 DEF Sites
<1>3. site' = s /\ meeting' = IF on THEN Synced(s, meeting) ELSE meeting
  BY DEF Switch
<1>4. on /\ ~ site.enabled => site.available
  BY DEF Switch, Activable
<1> HIDE DEF s
<1>5. CASE ~ on
  BY <1>1, <1>2, <1>3, <1>5, Again DEF Linked
<1>6. CASE on
  <2>1. ~ s.available => Linked(s, meeting)
    BY <1>1, <1>2, <1>4, <1>6 DEF Linked
  <2>2. Synced(s, meeting) \in Meetings /\ Sound(Synced(s, meeting)) /\ Linked(s, Synced(s, meeting))
    BY <1>1, <1>2, <2>1, SyncedKeeps
  <2> QED
    BY <1>2, <1>3, <1>6, <2>2, Again
<1> QED
  BY <1>5, <1>6

LEMMA AdministerKeeps == ReviewsInv /\ Administer => ReviewsInv'
  BY AnalyseKeeps, LegacyApproveKeeps, LinkActionsKeeps, DesignateKeeps, SwitchKeeps DEF Administer

(* What the directory says reaches a meeting only when it is refreshed. *)
LEMMA DirectoryKeeps == ReviewsInv /\ Directory => ReviewsInv'
<1> SUFFICES ASSUME ReviewsInv, Directory PROVE ReviewsInv'
  OBVIOUS
<1>1. site \in Sites /\ meeting \in Meetings /\ Sound(meeting) /\ Linked(site, meeting)
  BY DEF ReviewsInv
<1>2. ASSUME site' \in Sites, site'.enabled = site.enabled, meeting' = meeting PROVE ReviewsInv'
  BY <1>1, <1>2, Again DEF Linked
<1>3. CASE \E p \in Projects : \E staff \in Staffings[p] : \E alive \in BOOLEAN : StoreDirectory(p, staff, alive)
  <2>1. PICK p \in Projects : \E staff \in Staffings[p] : \E alive \in BOOLEAN : StoreDirectory(p, staff, alive)
    BY <1>3
  <2>2. PICK staff \in Staffings[p], alive \in BOOLEAN : StoreDirectory(p, staff, alive)
    BY <2>1
  <2>3. staff \in Staff
    BY DEF Staff
  <2>4. /\ site' = [site EXCEPT !.staffing[p] = staff,
                                !.active = IF alive THEN @ \cup {p} ELSE @ \ {p}]
        /\ meeting' = meeting
    BY <2>2 DEF StoreDirectory
  <2>5. site' \in Sites /\ site'.enabled = site.enabled
    BY <1>1, <2>3, <2>4 DEF Sites
  <2> QED
    BY <1>2, <2>4, <2>5
<1>4. CASE \E p \in Projects : \E staff \in Staffings[p] : AssignLocally(p, staff)
  <2>1. PICK p \in Projects : \E staff \in Staffings[p] : AssignLocally(p, staff)
    BY <1>4
  <2>2. PICK staff \in Staffings[p] : AssignLocally(p, staff)
    BY <2>1
  <2>3. staff \in Staff
    BY DEF Staff
  <2>4. site' = [site EXCEPT !.staffing[p] = staff] /\ meeting' = meeting
    BY <2>2 DEF AssignLocally
  <2>5. site' \in Sites /\ site'.enabled = site.enabled
    BY <1>1, <2>3, <2>4 DEF Sites
  <2> QED
    BY <1>2, <2>4, <2>5
<1>5. CASE DeclareAvailable \/ DirectoryFails \/ ServerStops
  <2>1. \/ \E b \in BOOLEAN : site' = [site EXCEPT !.available = b]
        \/ site' = site
    BY <1>5 DEF DeclareAvailable, DirectoryFails, ServerStops
  <2>2. site' \in Sites /\ site'.enabled = site.enabled /\ meeting' = meeting
    BY <1>1, <1>5, <2>1 DEF Sites, DeclareAvailable, DirectoryFails, ServerStops
  <2> QED
    BY <1>2, <2>2
<1>6. CASE RefreshProjectMeetings
  <2>1. site' = site /\ meeting' = Synced(site, meeting)
    BY <1>6 DEF RefreshProjectMeetings
  <2>2. Synced(site, meeting) \in Meetings /\ Sound(Synced(site, meeting)) /\ Linked(site, Synced(site, meeting))
    BY <1>1, SyncedKeeps
  <2> QED
    BY <1>1, <2>1, <2>2, Again
<1> QED
  BY <1>3, <1>4, <1>5, <1>6 DEF Directory

LEMMA StutterKeeps == ReviewsInv /\ UNCHANGED vars => ReviewsInv'
<1> SUFFICES ASSUME ReviewsInv, site' = site, meeting' = meeting PROVE ReviewsInv'
  BY DEF vars
<1> QED
  BY Again DEF ReviewsInv

(* Every reviewer, editor, administrator and synchronisation of the        *)
(* directory keeps the meeting sound: the steps below the turn of a branch *)
(* have approved what it contains, and approvals are complete.             *)
THEOREM ReviewsInvariant == Spec => []ReviewsInv
<1>1. ReviewsInv /\ [Next]_vars => ReviewsInv'
  BY ReviewKeeps, EditKeeps, AdministerKeeps, DirectoryKeeps, StutterKeeps DEF Next
<1> QED
  BY <1>1, InitReviews, PTL DEF Spec

(* "No se pueden saltar revisores": the path of every project, with what   *)
(* the directory says of it and whoever is designated, is sound.           *)
THEOREM NobodyIsSkipped == Spec => []RulesAreSound
<1>1. ReviewsInv => RulesAreSound
  <2> SUFFICES ASSUME site \in Sites, NEW p \in Projects
               PROVE  PathIsSound(site.staffing[p], site.selection[p])
    BY DEF ReviewsInv, RulesAreSound
  <2>1. site.staffing[p] \in Staff /\ site.selection[p] \in Selections \cup {None}
    BY DEF Sites
  <2>2. TypedStaff(site.staffing[p]) /\ TypedSelection(site.selection[p])
    BY <2>1, ReviewsAssumption DEF TypedSelection
  <2> QED
    BY <2>2, EveryPathIsSound
<1> QED
  BY <1>1, ReviewsInvariant, PTL

(* A meeting the workflow approved was approved whole: every step of every *)
(* branch approved what the branch contains, and every action has its      *)
(* responsible and date.                                                   *)
THEOREM ApprovedWhole == Spec => []ApprovedIsReviewed
<1>1. ReviewsInv => ApprovedIsReviewed
  <2> SUFFICES ASSUME ReviewsInv, meeting.status = "approved", ~ meeting.legacy PROVE ApprovedIsReviewed
    BY DEF ApprovedIsReviewed
  <2>1. /\ meeting \in Meetings /\ Climbing(meeting) /\ Passed(meeting) /\ AllLinked(meeting)
        /\ \A p \in Branches(meeting) : meeting.branch[p].approved
    BY DEF ReviewsInv, Sound, Closed
  <2>2. ASSUME NEW p \in Branches(meeting)
        PROVE  LET path == meeting.branch[p].snapshot.path
               IN path # <<>> /\ 1..Len(path) \subseteq meeting.seen[p]
    <3> DEFINE b    == meeting.branch[p]
               path == b.snapshot.path
    <3>1. /\ AtFinal(b) /\ b.cursor \in meeting.seen[p] /\ ~ b.snapshot.issue
          /\ b.cursor \in Nat \ {0} /\ 1..(b.cursor - 1) \subseteq meeting.seen[p]
      BY <2>1 DEF Passed, BranchesReadyForPmc, Climbing
    <3>2. b.snapshot \in Snapshots
      BY <2>1 DEF Meetings, Branches, Branch
    <3>3. path # <<>>
      BY <3>1, <3>2, SnapshotFacts
    <3>4. b.cursor = Len(path)
      BY <3>1 DEF AtFinal
    <3> HIDE DEF b, path
    <3>5. 1..Len(path) \subseteq meeting.seen[p]
      BY <3>1, <3>4
    <3> QED
      BY <3>3, <3>5 DEF path, b
  <2>3. \A x \in Present(meeting) :
          meeting.action[x].project \in Branches(meeting) /\ Complete(meeting, meeting.action[x].project)
    BY <2>1 DEF AllLinked, Passed
  <2> QED
    BY <2>2, <2>3 DEF ApprovedIsReviewed
<1> QED
  BY <1>1, ReviewsInvariant, PTL

(* The final reviewers go last: one of them has approved only while no     *)
(* other branch is below its final step.                                   *)
THEOREM FinalsLast == Spec => []FinalReviewersGoLast
<1>1. ReviewsInv => FinalReviewersGoLast
  BY DEF ReviewsInv, Sound, Passed, FinalReviewersGoLast
<1> QED
  BY <1>1, ReviewsInvariant, PTL

(* Once a meeting with branches is approved nothing changes its result:    *)
(* not an edition, nor the directory, nor a designation, nor switching the *)
(* feature off and on.                                                     *)
THEOREM ApprovalIsFinal == Spec => ApprovedForGood
<1> DEFINE Frozen == meeting.status = "approved" /\ meeting.drafted => meeting' = meeting
<1>1. ASSUME ReviewsInv, Next PROVE Frozen
  <2> SUFFICES ASSUME meeting.status = "approved", meeting.drafted PROVE meeting' = meeting
    OBVIOUS
  <2>1. meeting.protected /\ \A s : Synced(s, meeting) = meeting
    BY <1>1 DEF ReviewsInv, Sound, Legacy, Closed, Synced, Skipped
  <2>2. ~ Review /\ ~ Edit
    BY DEF Review, Approve, Return, Edit, MayWrite
  <2>3. Administer => meeting' = meeting
    BY <2>1 DEF Administer, Analyse, LegacyApprove, LinkActions, Designate, Switch
  <2>4. Directory => meeting' = meeting
    BY <2>1 DEF Directory, StoreDirectory, AssignLocally, DeclareAvailable, RefreshProjectMeetings,
                DirectoryFails, ServerStops
  <2> QED
    BY <1>1, <2>2, <2>3, <2>4 DEF Next
<1>2. ReviewsInv /\ [Next]_vars => [Frozen]_vars
  BY <1>1
<1> QED
  BY <1>2, ReviewsInvariant, PTL DEF Spec, ApprovedForGood
=============================================================================
