\* A card of each kind, three calls for the camera, two frames at once.
CONSTANTS
  Kinds = {"document", "selfie", "liveness"}
  MaxOpens = 3
  MaxShots = 2
SPECIFICATION CardSpec
INVARIANT
  DialogMatchesCamera
PROPERTIES
  CameraHeld
  ChallengeEnds
CHECK_DEADLOCK FALSE
