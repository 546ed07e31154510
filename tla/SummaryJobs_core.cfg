\* One account, two processes, an individual summary: retries, resumption, role changes, crashes, upgrades.
CONSTANTS
  a1 = a1
  c1 = c1
  m1 = m1
  m2 = m2
  Accounts = {a1}
  Specialists = {s1, s2}
  Chats = {c1}
  Messages = {m1, m2}
  OwnerOf <- OneOwner
  ChatOf <- OneChat
  Runners = {w1, w2}
  Posts = {p1, p2, p3}
  Summaries = {r1}
  None = None
  CandidateLimit = 2
  ReadLimit = 1
  MaxJobs = 2
  MaxFaults = 1
SPECIFICATION Spec
SYMMETRY Alike
INVARIANTS
  ConsumptionIsReported
  GlobalReportsDisjoint
  CacheMatchesSelection
  SelectionsStayPending
  CompletedIffReportedOnce
PROPERTIES
  SelectionIsReported
CHECK_DEADLOCK FALSE
