\* One request, two handlers of the worker, one failure; liveness too, so no
\* symmetry.
CONSTANTS
  Requests = {r1}
  Admins = {adm1}
  Applicants = {app1}
  Expirers = {exp1}
  None = None
  MaxSubmissions = 1
  MaxTime = 1
  MaxRows = 1
  user = user
  Users = {user}
  Owner <- OneOwner
  GrantExpirers = {ge1}
  Tasks = {k1, k2}
  InviteTTL = 1
  MaxInvites = 2
  MaxFaults = 1
SPECIFICATION FairAccessSpec
INVARIANTS
  AccessTypeOK
  AccessNeedsApproval
  GrantUsedOnce
  RoleAccountedFor
PROPERTIES
  ImplementsLifecycle
  GrantSettles
CHECK_DEADLOCK FALSE
