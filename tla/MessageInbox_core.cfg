\* One account: an empty copy and a text, live and as history, retries, crashes and synchronisation.
CONSTANTS
  a1 = a1
  a2 = a2
  m1 = m1
  m2 = m2
  text1 = text1
  empty1 = empty1
  text2 = text2
  None = None
  Timer = timer
  Accounts = {a1}
  Messages = {m1}
  Copies = {text1, empty1}
  AccountOf <- OneAccount
  MessageOf <- TwoCopies
  Blank = {empty1}
  Exact = {}
  Webhooks = {h1, h2}
  Cap = 2
  RunLimit = 2
  MaxReceipts = 2
  MaxFaults = 2
  MaxToggles = 1
SPECIFICATION Spec
SYMMETRY Requests
INVARIANTS
  NothingLost
  CountedOnce
  DeliveriesKeepTheirRow
PROPERTIES
  TextIsKept
  MailboxSpec
CHECK_DEADLOCK FALSE
