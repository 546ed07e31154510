\* One call that arrives, is reported, recovered and erased, beside two executions of its transcription.
CONSTANTS
  None = None
  Calls = {c1}
  Workers = {w1, w2}
  InboxAttempts = 2
  TranscriptionAttempts = 2
  MaxRows = 2
  MaxFaults = 1
SPECIFICATION FairSpec
INVARIANTS
  OnlyRemovedAreMissing
  ClosedReportsAreTrue
PROPERTIES
  AllSettles
CHECK_DEADLOCK FALSE
