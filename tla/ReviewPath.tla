---------------------------- MODULE ReviewPath ----------------------------
(***************************************************************************)
(* Who reviews the branch of a project, and in which order                 *)
(* (backend/meeting-project-policy.ts).  A path climbs the organisation    *)
(* chart from the lowest occupied position to the PMC; what the chart does *)
(* not say unambiguously is an issue, and nobody reviews until it is       *)
(* corrected.                                                              *)
(*                                                                         *)
(* A staffing is what the directory knows of one project: its members,     *)
(* who holds each position there and, of several holders, the one whose    *)
(* assignment is the latest (None when dates are missing or equal).  Names *)
(* are unique, so a person is an identifier.                               *)
(***************************************************************************)
EXTENDS Naturals, FiniteSets, SequencesExt

CONSTANTS
  Employees,
  Positions,   \* active cargos of the chart
  Parent,      \* the position above each one, None, or one that is not active
  Finals,      \* positions of a PMC
  Direction,   \* positions of the direction, above every path
  None

ASSUME ChartAssumption ==
  IsFiniteSet(Positions) /\ IsFiniteSet(Employees) /\ None \notin Positions

(* The positions from each one up to the first final one, or as far as     *)
(* there is one below the direction.  A cycle of the chart shows as a      *)
(* lineage longer than the chart.                                          *)
Lineage ==
  [c \in Positions |->
     LET Next(line) == IF line = <<>> THEN c ELSE Parent[Last(line)]
         Ends(line) == \/ line # <<>> /\ Last(line) \in Finals
                       \/ Next(line) \notin Positions \ Direction
         up[n \in 0 .. Cardinality(Positions) + 1] ==
           IF n = 0 THEN <<>>
           ELSE IF Ends(up[n - 1]) THEN up[n - 1] ELSE Append(up[n - 1], Next(up[n - 1]))
     IN up[Cardinality(Positions) + 1]]

Cyclic(c) == Len(Lineage[c]) > Cardinality(Positions)

(* "Cargo superior no disponible": the line stops at a position that is    *)
(* not active.                                                             *)
Broken(c) ==
  /\ Lineage[c] # <<>>
  /\ Last(Lineage[c]) \notin Finals
  /\ Parent[Last(Lineage[c])] \notin Positions \cup {None}

(* What a staffing and a stored designation always are. *)
TypedStaff(staff) ==
  /\ staff.holders \in [Positions -> SUBSET Employees]
  /\ \A c \in Positions : staff.latest[c] # None => staff.latest[c] \in staff.holders[c]
TypedSelection(selection) == selection # None => selection.start \in Positions \cup {None}

Unclear(staff, pmc) == [staff |-> staff, path |-> <<>>, pmc |-> pmc, issue |-> TRUE]

(* One step per occupied position; a person in two consecutive positions   *)
(* reviews once, in the upper one.                                         *)
StepsOf(lineage, route) ==
  LET Step(c) == [who |-> CHOOSE e \in route[c] : TRUE, at |-> c]
      Climb(path, c) ==
        IF route[c] = {} THEN path
        ELSE IF path # <<>> /\ Last(path).who = Step(c).who THEN Append(Front(path), Step(c))
        ELSE Append(path, Step(c))
      climbed[n \in 0 .. Len(lineage)] ==
        IF n = 0 THEN <<>> ELSE Climb(climbed[n - 1], lineage[n])
  IN climbed[Len(lineage)]

BuildReviewPath(staff, route) ==
  LET held     == {c \in Positions : route[c] # {}}
      tops     == {c \in held : c \in Finals \ Direction}
      pmcs     == UNION {route[c] : c \in tops}
      pmc      == IF Cardinality(pmcs) = 1 THEN CHOOSE e \in pmcs : TRUE ELSE None
      climbing == {c \in held : tops = {} \/ (Lineage[c] # <<>> /\ Last(Lineage[c]) \in tops)}
      paths    == {StepsOf(Lineage[c], route) : c \in climbing} \ {<<>>}
      longest  == {p \in paths : ~ \E q \in paths : q # p /\ IsSuffix(p, q)}
  IN IF \/ Cardinality(pmcs) > 1
        \/ Cardinality(tops) > 1
        \/ \E c \in held : Cyclic(c) \/ Broken(c)
        \/ \E c \in climbing : \E d \in ToSet(Lineage[c]) : Cardinality(route[d]) > 1
        \/ Cardinality(longest) # 1
     THEN Unclear(staff, pmc)
     ELSE [staff |-> staff, path |-> CHOOSE p \in longest : TRUE, pmc |-> pmc, issue |-> FALSE]

(* The latest holder of a position counts, then the one designated for it. *)
MutChosen(staff, selection, c) ==
  IF staff.latest[c] # None THEN staff.latest[c]
  ELSE IF selection # None THEN selection.reviewers[c] ELSE None
Chosen(staff, selection, c) ==
  IF staff.latest[c] # None THEN staff.latest[c]
  ELSE IF selection # None /\ selection.reviewers[c] \in staff.holders[c]
       THEN selection.reviewers[c]
       ELSE None

(* The designation says where the chain begins. *)
Begins(staff, selection) ==
  selection # None /\ selection.start # None /\ staff.holders[selection.start] # {}

DesignatedSnapshot(staff, selection) ==
  LET allowed == IF Begins(staff, selection) THEN ToSet(Lineage[selection.start]) ELSE Positions
      skipped == \E c \in Positions \ {selection.start} :
                   staff.holders[c] # {} /\ selection.start \in ToSet(Lineage[c])
      route   == [c \in Positions |->
                    IF c \notin allowed THEN {}
                    ELSE IF Chosen(staff, selection, c) = None THEN staff.holders[c]
                    ELSE {Chosen(staff, selection, c)}]
  IN IF Begins(staff, selection) /\ (skipped \/ Cyclic(selection.start)) THEN Unclear(staff, None)
     ELSE BuildReviewPath(staff, route)

(* "No se pueden saltar revisores": where the chart is clear, the path     *)
(* climbs it step by step up to the PMC, everybody on it holds the         *)
(* position they review for, and no occupied position of the line, below,  *)
(* between or above, is left without a reviewer of its own, whatever was   *)
(* designated and whoever holds several positions.  The line is the one    *)
(* the designation begins, of several; without it, there is only one.      *)
PathIsSound(staff, selection) ==
  LET s       == DesignatedSnapshot(staff, selection)
      steps   == DOMAIN s.path
      anchors == IF Begins(staff, selection) THEN {selection.start} ELSE {s.path[i].at : i \in steps}
      Line(c) == \E a \in anchors : c \in ToSet(Lineage[a]) \/ a \in ToSet(Lineage[c])
  IN s.issue \/
     /\ s.path # <<>>
     /\ s.pmc # None => Last(s.path).who = s.pmc
     /\ \A i \in steps : Line(s.path[i].at) /\ s.path[i].who \in staff.holders[s.path[i].at]
     /\ \A i, j \in steps : i < j => s.path[j].at \in ToSet(Tail(Lineage[s.path[i].at]))
     /\ \A c \in Positions : staff.holders[c] # {} /\ Line(c) =>
          \E i \in steps : s.path[i].who \in staff.holders[c]
=============================================================================
