\* Two tabs, of one browser or of two, and two changes of the team.
CONSTANTS
  Admins = {"a1", "a2"}
  Founder = "a1"
  Tabs = {t1, t2}
  Browsers <- MCBrowsers
  Sessions = {"s1", "s2", "s3", "s4", "s5", "s6"}
  OtherRoles = {"reviewer"}
  MaxActiveSessions = 1
  MaxChanges = 2
  MaxInvites = 2
  MaxLinks = 2
SPECIFICATION TeamSpec
SYMMETRY Symmetry
INVARIANTS
  TeamTypeOK
  LastSuperAdmin
CHECK_DEADLOCK FALSE
PROPERTIES
  OwnersOnly
  InvitationIsOneTime
