\* One kind of evidence, two captures, two uploads and one disturbance.
CONSTANTS
  Types = {"selfie"}
  MaxCaptures = 2
  MaxPhotos = 2
  MaxFaults = 1
SPECIFICATION FormSpec
INVARIANTS
  NoPhotoForgotten
  SlotsExplained
  SubmissionSound
PROPERTY HandoffIsOneTime
CHECK_DEADLOCK FALSE
