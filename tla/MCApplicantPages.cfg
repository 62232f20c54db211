\* Two sign-ins, four changes by others, one failed call.
CONSTANTS
  MaxLogins = 2
  MaxChanges = 4
  MaxFaults = 1
SPECIFICATION PagesSpec
INVARIANTS
  NoRedirectLoop
  SessionsBacked
  StepsShownWereDone
PROPERTIES
  EntryIsOneTime
  WaitingLeaves
  InviteArrives
CHECK_DEADLOCK FALSE
