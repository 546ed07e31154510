\* Three identical sends without faults.
CONSTANTS
  r1 = r1
  r2 = r2
  r3 = r3
  k1 = k1
  p1 = p1
  None = None
  Requests = {r1, r2, r3}
  Keys = {k1}
  Replies = {p1}
  KeyOf <- SameKey
  ReplyOf <- OneReply
  Legacy = {}
  MaxMessages = 2
  MaxFaults = 0
SPECIFICATION Spec
INVARIANTS
  IdenticalSendsApart
CHECK_DEADLOCK FALSE
