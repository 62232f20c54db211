\* A submission or an expiry overwrites a revocation it has not seen.
CONSTANTS
  Requests = {r1}
  Admins = {adm1}
  Applicants = {app1}
  Expirers = {exp1}
  None = None
  MaxSubmissions = 2
  MaxTime = 2
  MaxRows = 2
SPECIFICATION LifecycleSpec
INVARIANT RevokedIsTerminal
CHECK_DEADLOCK FALSE
