\* One sign-in and two changes: submitted, then the session ends.
CONSTANTS
  MaxLogins = 1
  MaxChanges = 2
  MaxFaults = 0
SPECIFICATION PagesSpec
INVARIANT LinkAuthenticates
CHECK_DEADLOCK FALSE
