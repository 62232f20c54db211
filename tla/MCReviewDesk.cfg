\* Two tabs and a case in the queue; four moves are a claim, a decision whose
\* answer is lost, and its retry.
CONSTANTS
  Requests = {r1}
  Admins = {adm1, adm2}
  Applicants = {app1}
  Expirers = {}
  None = None
  MaxSubmissions = 2
  MaxTime = 1
  MaxRows = 2
  Tabs = {t1, t2}
  Desks <- MCDesks
  Case = r1
  FilterStatuses = {"queued"}
  MaxReads = 2
  MaxMoves = 4
SPECIFICATION DeskSpec
SYMMETRY Symmetry
INVARIANTS
  StaleCaseExplained
  QueueMatchesFilter
PROPERTY DecidedWhatWasSeen
CHECK_DEADLOCK FALSE
