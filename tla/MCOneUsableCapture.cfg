\* Two captures, one of them created in another tab.
CONSTANTS
  Types = {"selfie"}
  MaxCaptures = 2
  MaxPhotos = 0
  MaxFaults = 1
SPECIFICATION FormSpec
INVARIANT OneUsableCapture
CHECK_DEADLOCK FALSE
