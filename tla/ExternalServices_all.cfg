\* Each service on its own: see MCExternalServices. A call that comes in and one
\* that goes out. Two messages older than the pairing of a group and two newer,
\* pages and batches of two, one edition, two calls for older history, and one
\* loss, failure, repetition or restart. A group of two messages with text, one
\* of them announced with the phone's count; the synchronisation of the backend
\* and the extension report it; a copy repeated, and a loss or a restart.
CONSTANTS
  None = None
  first = first
  second = second
  inbound = inbound
  outbound = outbound
  Calls = {inbound, outbound}
  Outbound = {outbound}
  MaxFaults = 2
  Old = 2
  Newest = 4
  Batch = 2
  PageSize = 2
  RetryAge = 1
  Requesters = {first, second}
  MaxEdits = 1
  MaxEvents = 1
  MaxMisses = 1
  Last = 2
  Texts = {1, 2}
  Exact = {2}
  Sources = {"sync", "web"}
  Memory = {"sync"}
  MaxCopies = 1
  MaxLosses = 1
SPECIFICATION MCFairSpec
INVARIANTS
  RecordedIsAnnounced
  ReportedOnce
  DiscountsAreEarned
PROPERTIES
  
  RecoveryIsNotRepeated
  CountersCatchUp
CHECK_DEADLOCK FALSE
