------------------------- MODULE CaptureCardProofs -------------------------
(* Proofs about CaptureCard for any number of camera calls and of frames     *)
(* that are encoded at the same time.                                        *)
EXTENDS CaptureCard, TLAPS

\* Every variable has its type (the flags, which are only tested, left out); a
\* running step of the challenge is one of its steps.
CardTypeOK ==
  /\ kind \in AllKinds
  /\ value \in {"none", "own", "phone"}
  /\ state \in States
  /\ opened \in Nat
  /\ opening \subseteq 1 .. opened
  /\ on \subseteq 1 .. opened
  /\ tracked \in 0 .. opened
  /\ shots \in 0 .. MaxShots
  /\ step \in 0 .. Steps /\ (timer = "tick" => step < Steps)
  /\ timer \in {"none", "tick", "capture"}
  /\ uploading \in {"no", "camera", "device"}
  /\ abandoned \subseteq 1 .. opened

\* Of two calls, or a call and the stream that is tracked, the earlier one has
\* lost its dialog; so has every call that is pending when the card is gone.
CallsOverlap ==
  /\ \A i, j \in opening : i < j => i \in abandoned
  /\ \A i \in opening :
       tracked # 0 =>
         /\ tracked < i => tracked \in abandoned
         /\ i < tracked => i \in abandoned
  /\ ~mounted => opening \subseteq abandoned

\* What a step does to the camera: nothing; it turns the tracked stream off and
\* may abandon the pending calls; or it does so and makes a new call.
CameraKept == UNCHANGED <<opening, opened, on, tracked, mounted, abandoned>>

CameraReleased ==
  /\ on' = on \ {tracked} /\ tracked' = 0
  /\ opening' \subseteq opening
  /\ \/ abandoned' = abandoned /\ mounted' = mounted
     \/ abandoned' = abandoned \union opening

CameraCalled ==
  /\ on' = on \ {tracked} /\ tracked' = 0
  /\ opening' = opening \union {opened + 1}
  /\ abandoned' = abandoned \union opening
                           \union (IF mounted THEN {} ELSE {opened + 1})
  /\ mounted' = mounted

-----------------------------------------------------------------------------
\* A new call of getUserMedia, or a browser that has none.
LEMMA OpenCameraTypes ==
  ASSUME CardTypeOK, openCamera
  PROVE  CardTypeOK'
<1> USE CardBoundAssumption DEF CardTypeOK, States
<1>1. /\ on' \subseteq on /\ tracked' = 0
      /\ state' \in States
      /\ timer' \in {"none", timer}
      /\ UNCHANGED <<kind, value, shots, step, uploading, mounted>>
  BY DEF openCamera, stopCamera, noMediaDevices, goto
<1>2. CASE UNCHANGED <<opened, opening>> /\ abandon
  BY <1>1, <1>2 DEF abandon
<1>3. CASE opened' = opened + 1
  <2>1. /\ opening' = opening \union {opened + 1}
        /\ abandoned' \subseteq abandoned \union opening \union {opened + 1}
    BY <1>3 DEF openCamera, noMediaDevices
  <2>2. 1 .. opened \union {opened + 1} = 1 .. opened'
    BY <1>3
  <2>3. QED
    BY <1>1, <1>3, <2>1, <2>2
<1>4. QED
  BY <1>2, <1>3 DEF openCamera, noMediaDevices

\* Every reachable state of a card is well typed: the stream that is tracked
\* and the calls that are pending belong to calls that were made.
THEOREM CardTypeCorrect == CardSpec => []CardTypeOK
<1> USE KindsAssumption, CardBoundAssumption
<1>1. CardInit => CardTypeOK
  BY DEF CardInit, CardTypeOK, AllKinds, States, Steps
<1>2. CardTypeOK /\ [CardNext]_vars => CardTypeOK'
  <2> SUFFICES ASSUME CardTypeOK, [CardNext]_vars
               PROVE  CardTypeOK'
    OBVIOUS
  <2> USE DEF CardTypeOK, AllKinds, States, Steps
  <2>1. CASE openDocumentCamera
    BY <2>1, OpenCameraTypes DEF openDocumentCamera
  <2>2. CASE openFaceCamera
    BY <2>2, OpenCameraTypes DEF openFaceCamera
  <2>3. CASE closeCamera
    BY <2>3 DEF closeCamera, dropCapture, goto, stopCamera, clearPreview,
       abandon
  <2>4. CASE resetCapture
    BY <2>4 DEF resetCapture, dropCapture, goto, stopCamera, clearPreview,
       abandon
  <2>5. CASE capturePhoto
    BY <2>5 DEF capturePhoto, captureFrame, camera, challenge
  <2>6. CASE captureSelfie
    BY <2>6 DEF captureSelfie, captureFrame, camera, challenge
  <2>7. CASE beginLivenessChallenge
    BY <2>7 DEF beginLivenessChallenge, camera
  <2>8. CASE retakePhoto
    BY <2>8, OpenCameraTypes DEF retakePhoto
  <2>9. CASE retake
    BY <2>9 DEF retake, dropCapture, goto, stopCamera, clearPreview, abandon
  <2>10. CASE uploadCapturedPhoto
    BY <2>10 DEF uploadCapturedPhoto, camera, challenge
  <2>11. CASE uploadCapturedFace
    BY <2>11 DEF uploadCapturedFace, camera, challenge
  <2>12. CASE handleFile
    BY <2>12 DEF handleFile, camera, challenge
  <2>13. CASE removeDocument
    BY <2>13 DEF removeDocument, camera, challenge
  <2>14. CASE removeFace
    BY <2>14 DEF removeFace, camera, challenge
  <2>15. CASE unmount
    BY <2>15 DEF unmount, stopCamera, clearPreview, stopChallengeTimer,
       abandon
  <2>16. CASE challengeTick
    BY <2>16 DEF challengeTick, camera
  <2>17. CASE challengeCapture
    BY <2>17 DEF challengeCapture, captureFrame, camera
  <2>18. CASE showCapturedPreview
    BY <2>18 DEF showCapturedPreview, stopCamera, goto
  <2>19. CASE canvasToBlob_fails
    BY <2>19 DEF canvasToBlob_fails, camera, challenge
  <2>20. CASE reopenTimeout
    BY <2>20, OpenCameraTypes DEF reopenTimeout
  <2>21. CASE uploadEvidence_answered
    <3>1. CASE uploading = "camera"
      <4>1. value' \in {"none", "own", "phone"} /\ uploading' = "no"
        BY <2>21 DEF uploadEvidence_answered
      <4>2. /\ on' \subseteq on /\ tracked' = 0 /\ step' = 0
            /\ state' \in States /\ timer' \in {"none", timer}
            /\ abandoned' = abandoned \union opening
            /\ UNCHANGED <<kind, opening, opened, shots>>
        BY <2>21, <3>1 DEF uploadEvidence_answered, dropCapture, goto,
           stopCamera, clearPreview, abandon
      <4>3. QED
        BY <4>1, <4>2
    <3>2. CASE uploading # "camera"
      BY <2>21, <3>2 DEF uploadEvidence_answered, challenge
    <3>3. QED
      BY <3>1, <3>2
  <2>22. CASE uploadEvidence_failed
    BY <2>22 DEF uploadEvidence_failed, camera, challenge
  <2>23. CASE handleMobileEvidence
    BY <2>23 DEF handleMobileEvidence, camera, challenge
  <2>24. ASSUME NEW i \in opening, getUserMedia_granted(i)
         PROVE  CardTypeOK'
    BY <2>24 DEF getUserMedia_granted, goto
  <2>25. ASSUME NEW i \in opening, getUserMedia_refused(i)
         PROVE  CardTypeOK'
    BY <2>25 DEF getUserMedia_refused, goto, stopCamera
  <2>26. CASE UNCHANGED vars
    BY <2>26 DEF vars, camera, challenge
  <2>27. QED
    BY <2>1, <2>2, <2>3, <2>4, <2>5, <2>6, <2>7, <2>8, <2>9, <2>10, <2>11,
       <2>12, <2>13, <2>14, <2>15, <2>16, <2>17, <2>18, <2>19, <2>20, <2>21,
       <2>22, <2>23, <2>24, <2>25, <2>26
       DEF CardNext, UserStep, BrowserStep, encode
<1>3. QED
  BY <1>1, <1>2, PTL DEF CardSpec

\* A dialog has what it works on, in whatever order permissions, frames,
\* uploads and retakes finish.
THEOREM DialogCorrect == CardSpec => []DialogMatchesCamera
<1>1. CardInit => DialogMatchesCamera
  BY DEF CardInit, CardTypeOK, DialogMatchesCamera
<1>2. CardTypeOK /\ DialogMatchesCamera
        /\ [CardNext]_vars => DialogMatchesCamera'
  <2> SUFFICES ASSUME CardTypeOK, DialogMatchesCamera, [CardNext]_vars
               PROVE  DialogMatchesCamera'
    OBVIOUS
  <2> USE DEF CardTypeOK, DialogMatchesCamera
  <2>1. CASE openDocumentCamera
    BY <2>1 DEF openDocumentCamera, openCamera, noMediaDevices, abandon, goto,
       stopCamera, clearPreview, documentCard, dialog
  <2>2. CASE openFaceCamera
    BY <2>2 DEF openFaceCamera, openCamera, noMediaDevices, abandon, goto,
       stopCamera, clearPreview, faceCard, dialog
  <2>3. CASE closeCamera
    BY <2>3 DEF closeCamera, dropCapture, goto, stopCamera, clearPreview,
       abandon, documentDialog, dialog
  <2>4. CASE resetCapture
    BY <2>4 DEF resetCapture, dropCapture, goto, stopCamera, clearPreview,
       abandon, faceDialog, dialog
  <2>5. CASE capturePhoto
    BY <2>5 DEF capturePhoto, captureFrame, camera, challenge, documentLive,
       dialog
  <2>6. CASE captureSelfie
    BY <2>6 DEF captureSelfie, captureFrame, camera, challenge, faceLive,
       dialog
  <2>7. CASE beginLivenessChallenge
    BY <2>7 DEF beginLivenessChallenge, camera, faceLive, dialog
  <2>8. CASE retakePhoto
    BY <2>8 DEF retakePhoto, openCamera, noMediaDevices, abandon, goto,
       stopCamera, clearPreview, documentPreview, dialog
  <2>9. CASE retake
    BY <2>9 DEF retake, dropCapture, goto, stopCamera, clearPreview, abandon,
       facePreview, dialog
  <2>10. CASE uploadCapturedPhoto
    BY <2>10 DEF uploadCapturedPhoto, camera, challenge, documentPreview,
       dialog
  <2>11. CASE uploadCapturedFace
    BY <2>11 DEF uploadCapturedFace, camera, challenge, facePreview, dialog
  <2>12. CASE handleFile
    BY <2>12 DEF handleFile, camera, challenge, deviceUpload, documentCard,
       dialog
  <2>13. CASE removeDocument
    BY <2>13 DEF removeDocument, camera, challenge, documentReceived, received
  <2>14. CASE removeFace
    BY <2>14 DEF removeFace, camera, challenge, faceReceived, received
  <2>15. CASE unmount
    BY <2>15 DEF unmount, stopCamera, clearPreview, stopChallengeTimer,
       abandon
  <2>16. CASE challengeTick
    BY <2>16 DEF challengeTick, camera
  <2>17. CASE challengeCapture
    BY <2>17 DEF challengeCapture, captureFrame, camera
  <2>18. CASE showCapturedPreview
    BY <2>18 DEF showCapturedPreview, stopCamera, goto
  <2>19. CASE canvasToBlob_fails
    BY <2>19 DEF canvasToBlob_fails, camera, challenge
  <2>20. CASE reopenTimeout
    BY <2>20 DEF reopenTimeout, openCamera, noMediaDevices, abandon, goto,
       stopCamera, clearPreview
  <2>21. CASE uploadEvidence_answered
    BY <2>21 DEF uploadEvidence_answered, dropCapture, goto, stopCamera,
       clearPreview, abandon, challenge
  <2>22. CASE uploadEvidence_failed
    BY <2>22 DEF uploadEvidence_failed, camera, challenge
  <2>23. CASE handleMobileEvidence
    BY <2>23 DEF handleMobileEvidence, camera, challenge
  <2>24. ASSUME NEW i \in opening, getUserMedia_granted(i)
         PROVE  DialogMatchesCamera'
    BY <2>24 DEF getUserMedia_granted, goto
  <2>25. ASSUME NEW i \in opening, getUserMedia_refused(i)
         PROVE  DialogMatchesCamera'
    BY <2>25 DEF getUserMedia_refused, goto, stopCamera
  <2>26. CASE UNCHANGED vars
    BY <2>26 DEF vars, camera, challenge
  <2>27. QED
    BY <2>1, <2>2, <2>3, <2>4, <2>5, <2>6, <2>7, <2>8, <2>9, <2>10, <2>11,
       <2>12, <2>13, <2>14, <2>15, <2>16, <2>17, <2>18, <2>19, <2>20, <2>21,
       <2>22, <2>23, <2>24, <2>25, <2>26
       DEF CardNext, UserStep, BrowserStep, encode
<1>3. QED
  BY <1>1, <1>2, CardTypeCorrect, PTL DEF CardSpec

\* openCamera makes a call, or finds that the browser has no camera.
LEMMA OpenCameraKinds == openCamera => CameraCalled \/ CameraReleased
  BY DEF openCamera, noMediaDevices, stopCamera, abandon, CameraCalled,
         CameraReleased

\* Every step is of one of these kinds, or is the browser's permission.
LEMMA CameraKinds ==
  ASSUME [CardNext]_vars
  PROVE  \/ CameraKept \/ CameraReleased \/ CameraCalled
         \/ \E i \in opening : getUserMedia_granted(i)
<1>1. CASE openDocumentCamera \/ openFaceCamera \/ retakePhoto \/ reopenTimeout
  BY <1>1, OpenCameraKinds
     DEF openDocumentCamera, openFaceCamera, retakePhoto, reopenTimeout
<1>2. CASE closeCamera \/ resetCapture \/ retake
  BY <1>2 DEF closeCamera, resetCapture, retake, dropCapture, stopCamera,
              abandon, CameraReleased
<1>3. CASE capturePhoto \/ captureSelfie \/ beginLivenessChallenge
            \/ uploadCapturedPhoto \/ uploadCapturedFace \/ handleFile
  BY <1>3 DEF capturePhoto, captureSelfie, beginLivenessChallenge,
              uploadCapturedPhoto, uploadCapturedFace, handleFile, camera,
              CameraKept
<1>4. CASE removeDocument \/ removeFace \/ challengeTick \/ challengeCapture
            \/ canvasToBlob_fails \/ uploadEvidence_failed
            \/ handleMobileEvidence
  BY <1>4 DEF removeDocument, removeFace, challengeTick, challengeCapture,
              canvasToBlob_fails, uploadEvidence_failed, handleMobileEvidence,
              camera, CameraKept
<1>5. CASE unmount
  BY <1>5 DEF unmount, stopCamera, abandon, CameraReleased
<1>6. CASE showCapturedPreview
  BY <1>6 DEF showCapturedPreview, stopCamera, CameraReleased
<1>7. CASE uploadEvidence_answered
  BY <1>7 DEF uploadEvidence_answered, dropCapture, stopCamera, abandon,
              CameraKept, CameraReleased
<1>8. ASSUME NEW i \in opening, getUserMedia_refused(i)
      PROVE  CameraReleased
  BY <1>8 DEF getUserMedia_refused, stopCamera, CameraReleased
<1>9. CASE UNCHANGED vars
  BY <1>9 DEF vars, camera, CameraKept
<1>10. QED
  BY <1>1, <1>2, <1>3, <1>4, <1>5, <1>6, <1>7, <1>8, <1>9
     DEF CardNext, UserStep, BrowserStep, encode

\* Calls that overlap are explained by dialogs that went away.
LEMMA OverlapsExplained == CardSpec => []CallsOverlap
<1>1. CardInit => CallsOverlap
  BY DEF CardInit, CallsOverlap
<1>2. CardTypeOK /\ CallsOverlap /\ [CardNext]_vars => CallsOverlap'
  <2> SUFFICES ASSUME CardTypeOK, CallsOverlap, [CardNext]_vars
               PROVE  CallsOverlap'
    OBVIOUS
  <2>0. opened \in Nat /\ opening \subseteq 1 .. opened
    BY DEF CardTypeOK
  <2> USE DEF CallsOverlap
  <2>1. CASE CameraKept
    BY <2>1 DEF CameraKept
  <2>2. CASE CameraReleased
    BY <2>2 DEF CameraReleased
  <2>3. CASE CameraCalled
    BY <2>0, <2>3 DEF CameraCalled
  <2>4. ASSUME NEW i \in opening, getUserMedia_granted(i)
        PROVE  CallsOverlap'
    BY <2>0, <2>4 DEF getUserMedia_granted
  <2>5. QED
    BY <2>1, <2>2, <2>3, <2>4, CameraKinds
<1>3. QED
  BY <1>1, <1>2, CardTypeCorrect, PTL DEF CardSpec

\* A running camera is held by the card on the page, unless the dialog of its
\* call, or of an earlier call that displaced it, had gone before the answer.
THEOREM CamerasAreHeld == CardSpec => CameraHeld
<1>1. CardTypeOK /\ CallsOverlap /\ [CardNext]_vars
        => [\A s \in on' :
              held(s)' \/ s \in abandoned' \/ (s \in on /\ ~held(s))
                \/ (tracked' < s /\ tracked' \in abandoned)]_vars
  <2> SUFFICES ASSUME CardTypeOK, CallsOverlap, [CardNext]_vars,
                      NEW s \in on'
               PROVE  held(s)' \/ s \in abandoned' \/ (s \in on /\ ~held(s))
                        \/ (tracked' < s /\ tracked' \in abandoned)
    OBVIOUS
  <2> USE DEF held
  <2>1. CASE CameraKept
    BY <2>1 DEF CameraKept
  <2>2. CASE CameraReleased \/ CameraCalled
    BY <2>2 DEF CameraReleased, CameraCalled
  <2>3. ASSUME NEW i \in opening, getUserMedia_granted(i)
        PROVE  held(s)' \/ s \in abandoned' \/ (s \in on /\ ~held(s))
                 \/ (tracked' < s /\ tracked' \in abandoned)
    <3>1. /\ i \in 1 .. opened /\ opened \in Nat
          /\ tracked' = i /\ mounted' = mounted /\ abandoned' = abandoned
          /\ s = i \/ s \in on
      BY <2>3 DEF getUserMedia_granted, CardTypeOK
    <3>2. CASE s = i
      BY <3>1, <3>2 DEF CallsOverlap
    <3>3. CASE s # i /\ s = tracked
      <4>1. s \in 1 .. opened
        BY <3>1, <3>3 DEF CardTypeOK
      <4>2. QED
        BY <3>1, <3>3, <4>1 DEF CallsOverlap
    <3>4. QED
      BY <3>1, <3>2, <3>3
  <2>4. QED
    BY <2>1, <2>2, <2>3, CameraKinds
<1>2. QED
  BY <1>1, CardTypeCorrect, OverlapsExplained, PTL DEF CardSpec, CameraHeld
=============================================================================
