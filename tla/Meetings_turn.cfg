\* Each part of the meetings on its own: see MCMeetings.
CONSTANTS
  None = None
  Unlinked = Unlinked
  del = del
  apo = apo
  med = med
  jefe = jefe
  sola = sola
  obra = obra
  dire = dire
  gone = gone
  p1 = p1
  p2 = p2
  x1 = x1
  x2 = x2
  ana = ana
  luis = luis
  eva = eva
  rut = rut
  actas = actas
  videos = videos
  notes = notes
  clip = clip
  Employees = {ana, luis, eva, rut}
  Directors = {rut}
  Projects = {p1, p2}
  Actions = {x1, x2}
  Finals = {jefe}
  Direction = {dire}
  Positions <- Chart
  Parent <- Climbing
  Staffings <- TwiceInTeam
  Selections <- EvaFirst
  Analyses <- Results
  MaxEdits = 2
  MaxChanges = 2
  MaxFaults = 1
  Folders = {actas, videos}
  Files = {notes, clip}
  Readable = {notes}
  Listed <- Hanging
  NoFile = NoFile
  MaxRevisions = 1
  MaxPauses = 1
  MaxFailures = 1
  MaxActs = 3
  MaxRequests = 1
  MaxMishaps = 1
SPECIFICATION MCSpec
INVARIANT TurnIsOpenToReviewer
CHECK_DEADLOCK FALSE
