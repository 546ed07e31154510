--------------------------- MODULE MCSummaryJobs ---------------------------
(* Small instances of the summary queue for TLC. *)
EXTENDS SummaryJobs, TLC

CONSTANTS a1, c1, m1, m2

OneOwner == [c \in {c1} |-> a1]
OneText  == [m \in {m1} |-> c1]
OneChat  == [m \in {m1, m2} |-> c1]

(* Processes are interchangeable, and so are requests. *)
Alike == Permutations(Runners) \cup Permutations(Posts)
=============================================================================
