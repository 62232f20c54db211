---------------------------- MODULE CaptureCard ----------------------------
(***************************************************************************)
(* One capture card of the identity form: EvidenceUploadCard for a side of  *)
(* a document, FaceCaptureCard for a selfie or the guided face capture.     *)
(*                                                                         *)
(* The browser answers getUserMedia, toBlob and the upload whenever it      *)
(* likes, and no handler looks whether its card has been closed, taken over *)
(* or left in the meantime.  The form may show the phone's photo in the     *)
(* card at any time: the card then renders its "received" branch while its  *)
(* hooks, refs and timers live on.                                          *)
(***************************************************************************)
EXTENDS Integers

CONSTANTS
  Kinds,      \* the kinds of card under study
  MaxOpens,   \* bound on the calls of getUserMedia
  MaxShots    \* bound on the frames being encoded at the same time

AllKinds == {"document", "selfie", "liveness"}

ASSUME KindsAssumption == Kinds \subseteq AllKinds
ASSUME CardBoundAssumption == MaxOpens \in Nat /\ MaxShots \in Nat

VARIABLES
  kind,       \* the card's type
  value,      \* evidence shown: "none", "own" (uploaded here) or "phone"
  state,      \* cameraState / captureState: which dialog is shown
  opening,    \* calls of getUserMedia the browser has not answered
  opened,     \* number of calls so far
  on,         \* camera streams whose tracks are running
  tracked,    \* streamRef, 0 for null
  playing,    \* the video element on the page shows a stream
  shots,      \* frames being encoded by toBlob
  file,       \* capturedFileRef is not null
  step,       \* challengeStepIndex
  timer,      \* timer of the challenge effect: "none", "tick" or "capture"
  reopen,     \* the timeout of retake that opens the camera again
  uploading,  \* "no", "camera" (the captured file) or "device" (a chosen one)
  failed,     \* cameraError is shown
  mounted,
  abandoned   \* calls that were open when their dialog went away (history)

camera == <<opening, opened, on, tracked>>
challenge == <<step, timer>>
vars == <<kind, value, state, camera, playing, shots, file, challenge,
          reopen, uploading, failed, mounted, abandoned>>

States == {"closed", "starting", "live", "challenge", "preview"}

\* Number of challengeSteps: centre, turn, return.
Steps == 3

CardInit ==
  /\ kind \in Kinds
  /\ value = "none"
  /\ state = "closed"
  /\ opening = {} /\ opened = 0 /\ on = {} /\ tracked = 0
  /\ playing = FALSE
  /\ shots = 0
  /\ file = FALSE
  /\ step = 0 /\ timer = "none"
  /\ reopen = FALSE
  /\ uploading = "no"
  /\ failed = FALSE
  /\ mounted = TRUE
  /\ abandoned = {}

-----------------------------------------------------------------------------
(* What the handlers share                                                 *)

face == kind # "document"

\* What is on the page: the received photo with its "Remove" button, or the
\* card with its dialog unless the camera is closed.
received == mounted /\ value # "none"
dialog(s) == mounted /\ value = "none" /\ state = s

documentReceived == ~face /\ received
documentCard == ~face /\ dialog("closed")
documentDialog == ~face /\ \E s \in States \ {"closed"} : dialog(s)
documentLive == ~face /\ dialog("live")
documentPreview == ~face /\ dialog("preview")

\* "Upload from device", the native camera of a phone, and their inputs.
deviceUpload == documentCard /\ uploading = "no"

faceReceived == face /\ received
faceCard == face /\ dialog("closed")
faceDialog == face /\ \E s \in States \ {"closed"} : dialog(s)
faceLive == face /\ dialog("live")
facePreview == face /\ dialog("preview")

stopCamera ==
  /\ on' = on \ {tracked}
  /\ tracked' = 0
  /\ playing' = FALSE

clearPreview == file' = FALSE

stopChallengeTimer == timer' = "none"

\* setCameraState and setCaptureState; nothing to set once unmounted.  The
\* effect of the challenge drops its timer when the state changes.
goto(s) ==
  /\ state' = IF mounted THEN s ELSE state
  /\ timer' = IF state = s \/ ~mounted THEN timer ELSE "none"

\* The calls that nobody waits for once the dialog is gone.
abandon == abandoned' = abandoned \union opening

-----------------------------------------------------------------------------
(* Opening the camera                                                      *)

\* A browser without getUserMedia: the dialog stays closed.
noMediaDevices ==
  /\ goto("closed")
  /\ failed' = TRUE
  /\ abandon
  /\ UNCHANGED <<opened, opening>>

\* The body of openCamera, from a button or from retake's timeout.  A call
\* that is still pending loses its dialog to the new one.
openCamera ==
  /\ clearPreview
  /\ stopCamera
  /\ \/ /\ opened < MaxOpens
        /\ goto("starting")
        /\ opened' = opened + 1
        /\ opening' = opening \union {opened + 1}
        /\ failed' = FALSE
        /\ abandoned' = abandoned \union opening
                                 \union (IF mounted THEN {} ELSE {opened + 1})
     \/ noMediaDevices
  /\ UNCHANGED <<kind, value, shots, step, uploading, mounted>>

\* "Capture with camera" of a document card.
openDocumentCamera ==
  /\ documentCard
  /\ uploading = "no"
  /\ openCamera
  /\ UNCHANGED reopen

\* "Open selfie camera" and "Start live face capture".
openFaceCamera ==
  /\ faceCard
  /\ uploading = "no"
  /\ openCamera
  /\ UNCHANGED reopen

\* The video effect runs when the state becomes live, and finds the element
\* only while the dialog is on the page.  A stream that is still tracked is
\* not stopped.
getUserMedia_granted(i) ==
  /\ i \in opening
  /\ opening' = opening \ {i}
  /\ on' = on \union {i}
  /\ tracked' = i
  /\ goto("live")
  /\ playing' = IF state = "live" THEN playing
                                  ELSE mounted /\ value = "none"
  /\ UNCHANGED <<kind, value, opened, shots, file, step, reopen, uploading,
                 failed, mounted, abandoned>>

refusal_keeps_live_mutant(i) ==
  /\ i \in opening
  /\ opening' = opening \ {i}
  /\ stopCamera
  /\ goto(IF state = "starting" THEN "closed" ELSE state)
  /\ failed' = TRUE
  /\ UNCHANGED <<kind, value, opened, shots, file, step, reopen, uploading,
                 mounted, abandoned>>

\* Every constraint and every camera was refused.
getUserMedia_refused(i) ==
  /\ i \in opening
  /\ opening' = opening \ {i}
  /\ stopCamera
  /\ goto("closed")
  /\ failed' = TRUE
  /\ UNCHANGED <<kind, value, opened, shots, file, step, reopen, uploading,
                 mounted, abandoned>>

\* closeCamera and resetCapture.
dropCapture ==
  /\ stopCamera
  /\ clearPreview
  /\ goto("closed")
  /\ step' = 0
  /\ failed' = FALSE
  /\ abandon

\* The cross of the document dialog works during an upload as well.
closeCamera ==
  /\ documentDialog
  /\ dropCapture
  /\ UNCHANGED <<kind, value, opening, opened, shots, reopen, uploading,
                 mounted>>

\* The cross of the face dialog does not.
resetCapture ==
  /\ faceDialog
  /\ uploading = "no"
  /\ dropCapture
  /\ UNCHANGED <<kind, value, opening, opened, shots, reopen, uploading,
                 mounted>>

-----------------------------------------------------------------------------
(* Taking the picture                                                      *)

\* captureFrame draws the frame at once and encodes it later; without a
\* picture it only says that the camera is still preparing.
captureFrame ==
  IF playing /\ shots < MaxShots
    THEN shots' = shots + 1 /\ failed' = FALSE
    ELSE failed' = TRUE /\ UNCHANGED shots

capturePhoto ==
  /\ documentLive
  /\ captureFrame
  /\ UNCHANGED <<kind, value, state, camera, playing, file, challenge,
                 reopen, uploading, mounted, abandoned>>

captureSelfie ==
  /\ kind = "selfie"
  /\ faceLive
  /\ captureFrame
  /\ UNCHANGED <<kind, value, state, camera, playing, file, challenge,
                 reopen, uploading, mounted, abandoned>>

\* The effects run again: the video is attached, the first step is timed.
beginLivenessChallenge ==
  /\ kind = "liveness"
  /\ faceLive
  /\ state' = "challenge"
  /\ step' = 0
  /\ timer' = "tick"
  /\ playing' = TRUE
  /\ failed' = FALSE
  /\ UNCHANGED <<kind, value, camera, shots, file, reopen, uploading, mounted,
                 abandoned>>

challengeTick ==
  /\ timer = "tick"
  /\ step' = step + 1
  /\ timer' = IF step + 1 < Steps THEN "tick" ELSE "capture"
  /\ UNCHANGED <<kind, value, state, camera, playing, shots, file, reopen,
                 uploading, failed, mounted, abandoned>>

\* The last effect captures once; when there is no video element, because
\* the card shows a value, it returns in silence.
challengeCapture ==
  /\ timer = "capture"
  /\ timer' = "none"
  /\ IF value = "none" THEN captureFrame ELSE UNCHANGED <<shots, failed>>
  /\ UNCHANGED <<kind, value, state, camera, playing, file, step, reopen,
                 uploading, mounted, abandoned>>

\* The encoded frame becomes the preview and the camera is let go.
showCapturedPreview ==
  /\ shots > 0
  /\ shots' = shots - 1
  /\ file' = TRUE
  /\ stopCamera
  /\ goto("preview")
  /\ UNCHANGED <<kind, value, opening, opened, step, reopen, uploading, failed,
                 mounted, abandoned>>

silent_blob_failure_mutant ==
  /\ shots > 0
  /\ shots' = shots - 1
  /\ UNCHANGED <<kind, value, state, camera, playing, file, challenge, reopen,
                 uploading, failed, mounted, abandoned>>

canvasToBlob_fails ==
  /\ shots > 0
  /\ shots' = shots - 1
  /\ failed' = TRUE
  /\ UNCHANGED <<kind, value, state, camera, playing, file, challenge, reopen,
                 uploading, mounted, abandoned>>

-----------------------------------------------------------------------------
(* Preview, upload, removal                                                *)

\* retakePhoto opens the camera again in the same call.
retakePhoto ==
  /\ documentPreview
  /\ uploading = "no"
  /\ openCamera
  /\ UNCHANGED reopen

\* retake closes the dialog and opens the camera in a timeout that nothing
\* clears.
retake ==
  /\ facePreview
  /\ uploading = "no"
  /\ dropCapture
  /\ reopen' = TRUE
  /\ UNCHANGED <<kind, value, opening, opened, shots, uploading, mounted>>

reopenTimeout ==
  /\ reopen
  /\ reopen' = FALSE
  /\ openCamera

\* "Use photo".
uploadCapturedPhoto ==
  /\ documentPreview
  /\ file
  /\ uploading = "no"
  /\ uploading' = "camera"
  /\ UNCHANGED <<kind, value, state, camera, playing, shots, file, challenge,
                 reopen, failed, mounted, abandoned>>

\* "Use selfie" and "Use live capture".
uploadCapturedFace ==
  /\ facePreview
  /\ file
  /\ uploading = "no"
  /\ uploading' = "camera"
  /\ UNCHANGED <<kind, value, state, camera, playing, shots, file, challenge,
                 reopen, failed, mounted, abandoned>>

\* "Upload from device" and the native camera of a phone: a file of an
\* accepted type and size was chosen.
handleFile ==
  /\ deviceUpload
  /\ uploading' = "device"
  /\ UNCHANGED <<kind, value, state, camera, playing, shots, file, challenge,
                 reopen, failed, mounted, abandoned>>

\* onChange puts the evidence into the form, over what the phone may have
\* delivered, and the dialog of a captured picture is closed.  Retake's zero
\* timeout is over before a server can answer.
uploadEvidence_answered ==
  /\ uploading # "no"
  /\ ~reopen
  /\ uploading' = "no"
  /\ value' = IF mounted THEN "own" ELSE value
  /\ IF uploading = "camera"
       THEN dropCapture
       ELSE UNCHANGED <<on, tracked, playing, file, state, challenge, failed,
                        abandoned>>
  /\ UNCHANGED <<kind, opening, opened, shots, reopen, mounted>>

uploadEvidence_failed ==
  /\ uploading # "no"
  /\ uploading' = "no"
  /\ UNCHANGED <<kind, value, state, camera, playing, shots, file, challenge,
                 reopen, failed, mounted, abandoned>>

\* The form has received a photo of this type from the phone: the dialog and
\* its video leave the page.
handleMobileEvidence ==
  /\ mounted
  /\ value' = "phone"
  /\ playing' = FALSE
  /\ UNCHANGED <<kind, state, camera, shots, file, challenge, reopen,
                 uploading, failed, mounted, abandoned>>

removeDocument ==
  /\ documentReceived
  /\ value' = "none"
  /\ UNCHANGED <<kind, state, camera, playing, shots, file, challenge, reopen,
                 uploading, failed, mounted, abandoned>>

removeFace ==
  /\ faceReceived
  /\ value' = "none"
  /\ UNCHANGED <<kind, state, camera, playing, shots, file, challenge, reopen,
                 uploading, failed, mounted, abandoned>>

unmount_keeps_camera_mutant ==
  /\ mounted
  /\ mounted' = FALSE
  /\ clearPreview
  /\ stopChallengeTimer
  /\ abandon
  /\ UNCHANGED <<kind, value, state, camera, playing, shots, step, reopen,
                 uploading, failed>>

\* The cleanup of the card's effects.
unmount ==
  /\ mounted
  /\ mounted' = FALSE
  /\ stopCamera
  /\ clearPreview
  /\ stopChallengeTimer
  /\ abandon
  /\ UNCHANGED <<kind, value, state, opening, opened, shots, step, reopen,
                 uploading, failed>>

-----------------------------------------------------------------------------
\* What the applicant does with the card.
UserStep ==
  \/ openDocumentCamera \/ openFaceCamera
  \/ closeCamera \/ resetCapture
  \/ capturePhoto \/ captureSelfie \/ beginLivenessChallenge
  \/ retakePhoto \/ retake
  \/ uploadCapturedPhoto \/ uploadCapturedFace \/ handleFile
  \/ removeDocument \/ removeFace
  \/ unmount

\* What the browser does later.
encode == showCapturedPreview \/ canvasToBlob_fails

BrowserStep ==
  \/ \E i \in opening : getUserMedia_granted(i) \/ getUserMedia_refused(i)
  \/ challengeTick \/ challengeCapture
  \/ encode
  \/ reopenTimeout
  \/ uploadEvidence_answered \/ uploadEvidence_failed
  \/ handleMobileEvidence

CardNext == UserStep \/ BrowserStep

\* Timers fire and toBlob calls back; people, permissions and servers may
\* take for ever.
CardSpec ==
  /\ CardInit
  /\ [][CardNext]_vars
  /\ WF_vars(challengeTick) /\ WF_vars(challengeCapture) /\ WF_vars(encode)

-----------------------------------------------------------------------------
(* Properties                                                              *)

held(s) == s = tracked /\ mounted

\* A running camera is held by the card on the page, where closing, capturing
\* and leaving turn it off, also while the phone's photo covers the dialog.  It
\* starts without being held only when its own dialog was closed, replaced by
\* a new call or left before the browser answered, and the card loses it only
\* to the late answer to such a call that was made earlier.
CameraHeld ==
  [][\A s \in on' :
       held(s)' \/ s \in abandoned' \/ (s \in on /\ ~held(s))
         \/ (tracked' < s /\ tracked' \in abandoned)]_vars

\* A dialog has what it works on, although permissions, frames, uploads and
\* retakes finish in any order: a live one has a stream to capture from, "Use
\* photo" has a file to send, and a dialog that is closed or shows a preview
\* holds no camera.
DialogMatchesCamera ==
  mounted =>
    /\ state \in {"live", "challenge"} => tracked # 0
    /\ state \in {"closed", "preview"} => tracked = 0
    /\ state = "preview" => file

\* A guided capture ends in a preview, or says why not, or its dialog has
\* been covered by the phone's photo: it does not hang at the last step.
ChallengeEnds ==
  (state = "challenge" /\ mounted)
    ~> (state # "challenge" \/ failed \/ ~playing \/ ~mounted)
=============================================================================
