\* Each part on its own: see MCPlatform. The pool has one account, so at most
\* two locks in four connections, and nobody waits for ever.
CONSTANTS
  None = None
  a1 = a1
  a2 = a2
  s1 = s1
  s2 = s2
  s3 = s3
  d1 = d1
  d2 = d2
  d3 = d3
  PoolSize = 4
  Accounts = {a1}
  Summaries = {s1, s2, s3}
  Deliveries = {d1, d2}
  Queries = {q1}
  Account <- Owners
  c1 = c1
  m1 = m1
  w1 = w1
  p1 = p1
  p2 = p2
  r1 = r1
  fixed = fixed
  moved = moved
  u1 = u1
  u2 = u2
  Processes = {u1, u2}
  Docs = {fixed, moved}
  Fixed = {fixed}
  Tables <- PagesWithTables
  Scans <- ScannedPages
  MaxEdits = 1
  MaxFaults = 1
SPECIFICATION MCFairSpec
INVARIANTS
  CountersAreTrue
  NotExhausted
  CorpusIsWhole
PROPERTIES
  AskersAreServed
  LedgerSpec
  CorpusIsFollowed
CHECK_DEADLOCK FALSE
