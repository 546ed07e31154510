\* Two accounts, fair timer and bounded faults: every receipt of a served account is settled.
CONSTANTS
  a1 = a1
  a2 = a2
  m1 = m1
  m2 = m2
  text1 = text1
  empty1 = empty1
  text2 = text2
  None = None
  Timer = timer
  Accounts = {a1, a2}
  Messages = {m1, m2}
  Copies = {text1, text2}
  AccountOf <- TwoAccounts
  MessageOf <- TwoMessages
  Blank = {}
  Exact = {text2}
  Webhooks = {h1, h2}
  Cap = 2
  RunLimit = 2
  MaxReceipts = 2
  MaxFaults = 1
  MaxToggles = 0
SPECIFICATION FairSpec
PROPERTIES
  EveryReceiptSettles
CHECK_DEADLOCK FALSE
