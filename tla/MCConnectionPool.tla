------------------------- MODULE MCConnectionPool -------------------------
(* Small instances of the connection pool for TLC. *)
EXTENDS ConnectionPool, TLC

CONSTANTS a1, a2, s1, s2, s3, d1, d2, d3

Owners == [s \in Holders |-> IF s \in {s2, d2} /\ a2 \in Accounts THEN a2 ELSE a1]

(* In one account, summaries, deliveries and queries are interchangeable.  *)
Alike == Permutations(Summaries) \cup Permutations(Deliveries) \cup Permutations(Queries)
=============================================================================
