\* Three sends of one text, two of them of one generated reply, beside a message stored before rows carried an account, with faults, echoes and ticks.
CONSTANTS
  r1 = r1
  r2 = r2
  r3 = r3
  k1 = k1
  p1 = p1
  None = None
  Requests = {r1, r2, r3}
  Keys = {k1}
  Replies = {p1}
  KeyOf <- SameKey
  ReplyOf <- OneReply
  Legacy = {1}
  MaxMessages = 3
  MaxFaults = 1
SPECIFICATION Spec
INVARIANTS
  KeysAreFreed
  MarksAreTrue
  
CHECK_DEADLOCK FALSE
