\* Two accounts: two locks each use up a pool of four.
CONSTANTS
  a1 = a1
  a2 = a2
  s1 = s1
  s2 = s2
  s3 = s3
  d1 = d1
  d2 = d2
  d3 = d3
  PoolSize = 4
  Accounts = {a1, a2}
  Summaries = {s1, s2}
  Deliveries = {d1, d2}
  Queries = {q1}
  Account <- Owners
SPECIFICATION Spec
INVARIANTS
  NotExhausted
