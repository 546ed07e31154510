\* A call that nobody can recover and a reconciliation that fails.
CONSTANTS
  None = None
  Calls = {c1}
  Workers = {w1}
  InboxAttempts = 2
  TranscriptionAttempts = 2
  MaxRows = 1
  MaxFaults = 1
SPECIFICATION Spec
INVARIANT
  MissingAreTold
CHECK_DEADLOCK FALSE
