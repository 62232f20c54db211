\* A resubmitted case cannot be claimed.
CONSTANTS
  Requests = {r1}
  Admins = {adm1}
  Applicants = {app1}
  Expirers = {exp1}
  None = None
  MaxSubmissions = 2
  MaxTime = 2
  MaxRows = 2
SPECIFICATION LifecycleSpec
INVARIANT ResubmittedIsClaimable
CHECK_DEADLOCK FALSE
