\* Two requests, so that the expiry job reads and writes a batch, with two
\* concurrent submission handlers.
CONSTANTS
  Requests = {r1, r2}
  Admins = {adm1}
  Applicants = {app1, app2}
  Expirers = {exp1}
  None = None
  MaxSubmissions = 2
  MaxTime = 2
  MaxRows = 2
SPECIFICATION LifecycleSpec
SYMMETRY Symmetry
INVARIANTS
  LifecycleTypeOK
  ReviewNeedsSubmission
  DecisionBacksStatus
  SubmissionCounter
PROPERTY TransitionsExplained
CHECK_DEADLOCK FALSE
