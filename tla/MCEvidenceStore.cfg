\* One request, two submissions at once, two objects, one failure.
CONSTANTS
  Requests = {r1}
  Admins = {adm1}
  Applicants = {app1, app2}
  Expirers = {exp1}
  None = None
  MaxSubmissions = 2
  MaxTime = 1
  MaxRows = 2
  request = r1
  Evidence = {e1, e2}
  For <- OneRequest
  Deleters = {d1}
  UploadTTL = 1
  MaxFaults = 1
SPECIFICATION EvidenceSpec
SYMMETRY Symmetry
INVARIANTS
  EvidenceTypeOK
  DeletedIsGone
  OrphansExplained
  AttachmentSound
PROPERTIES
  DeletionUndoneOnlyByStaleRead
  ImplementsLifecycle
CHECK_DEADLOCK FALSE
