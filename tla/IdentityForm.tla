---------------------------- MODULE IdentityForm ----------------------------
(***************************************************************************)
(* The identity form with the hand-off card in it: the applicant and the    *)
(* phone both fill the photo slots, the submission is checked by the        *)
(* server, and the rotation of the applicant's session that follows it      *)
(* races the polls that are under way and the answer itself.                *)
(***************************************************************************)
EXTENDS MobileCapture

VARIABLES
  page,       \* the page shown
  submitting, \* the call of handleSubmit, as far as it has come
  sent,       \* evidence_ids of that call
  submitted,  \* number of submissions committed
  rotated,    \* the session was rotated after that, in a commit of its own
  since       \* photos committed since a submission was checked (history)

formVars == <<page, submitting, sent, submitted, rotated>>
vars == <<captureVars, formVars, since>>

FormInit ==
  /\ CaptureInit
  /\ page = "loading"
  /\ submitting = "no"
  /\ sent = {}
  /\ submitted = 0
  /\ rotated = FALSE
  /\ since = {}

\* What the server makes of the form's calls, which carry the session of before
\* the rotation.
authorized == ~rotated

\* apiFetch signals a 401 and the bridge of the layout navigates, whichever
\* page is shown by then; leaving the form ends the card's poll.
shouldTreatAsVerificationSessionExpiry == ~authorized
navigate(p) == page' = p

-----------------------------------------------------------------------------
formLoading == page = "loading"

loadConfig ==
  /\ formLoading
  /\ \E p \in {"form", "loadError"} : navigate(p)
  /\ UNCHANGED <<captureVars, submitting, sent, submitted, rotated, since>>

\* The form with its fields is on the page.
formView == page = "form"

\* The cards of the required kinds, below the hand-off card.
evidenceSection(t) == formView /\ t \in Types

\* The button at the end is locked while a submission is under way.
submitOffered == formView /\ submitting = "no"

\* evidenceIds, and the check that every required kind has a photo.
evidenceIds == {slot[t] : t \in {u \in Types : slot[u] # 0}}
validateRequiredFields == \A t \in Types : slot[t] # 0

\* A capture card of the form has uploaded a photo of its own.
ownUpload(t) ==
  /\ evidenceSection(t)
  /\ slot[t] = 0
  /\ submitted = 0
  /\ Len(photo) < MaxPhotos
  /\ photo' = Append(photo, [cap |-> 0, type |-> t, st |-> "live",
                             olds |-> {}, ack |-> FALSE])
  /\ slot' = [slot EXCEPT ![t] = Len(photo) + 1]
  /\ UNCHANGED <<cap, due, card, phonePage, faults, history, formVars, since>>

\* Removing a photo empties the slot; the server keeps the upload.
removeEvidence(t) ==
  /\ evidenceSection(t)
  /\ slot[t] # 0
  /\ removed' = removed \union {slot[t]}
  /\ slot' = [slot EXCEPT ![t] = 0]
  /\ UNCHANGED <<server, card, phonePage, faults, dropped, late, formVars,
                 since>>

handleSubmit ==
  /\ submitOffered
  /\ validateRequiredFields
  /\ submitting' = "sent"
  /\ sent' = evidenceIds
  /\ UNCHANGED <<captureVars, page, submitted, rotated, since>>

submit_unchecked_mutant ==
  /\ submitting = "sent"
  /\ authorized /\ submitted = 0
  /\ submitting' = "checked"
  /\ since' = {}
  /\ UNCHANGED <<captureVars, page, sent, submitted, rotated>>

\* submit_verification reads the session, the request and the photos without a
\* lock: the request takes a submission and the photos sent are live.  Which
\* kinds there are is left to the form.
submit_verification ==
  /\ submitting = "sent"
  /\ authorized /\ submitted = 0
  /\ \A p \in sent : live(p)
  /\ submitting' = "checked"
  /\ since' = {}
  /\ UNCHANGED <<captureVars, page, sent, submitted, rotated>>

\* The commit of create_submission attaches what was read, also a photo that
\* a retake has replaced since.
create_submission ==
  /\ submitting = "checked"
  /\ submitted' = submitted + 1
  /\ submitting' = "committed"
  /\ photo' = [p \in DOMAIN photo |-> IF p \in sent
                 THEN [photo[p] EXCEPT !.st = "attached"] ELSE photo[p]]
  /\ UNCHANGED <<cap, due, card, slot, phonePage, faults, history, page, sent,
                 rotated, since>>

rotate_verification_session ==
  /\ submitting = "committed"
  /\ submitting' = "done"
  /\ rotated' = TRUE
  /\ UNCHANGED <<captureVars, page, sent, submitted, since>>

\* Refused, or the call failed: the error is shown.
submit_failed ==
  /\ submitting \in {"sent", "checked"}
  /\ submitting' = "no"
  /\ sent' = {}
  /\ navigate(IF shouldTreatAsVerificationSessionExpiry THEN "expired"
              ELSE page)
  /\ UNCHANGED <<captureVars, submitted, rotated, since>>

submit_answered ==
  /\ submitting = "done"
  /\ submitting' = "no"
  /\ sent' = {}
  /\ navigate("waiting")
  /\ UNCHANGED <<captureVars, submitted, rotated, since>>

\* Committed, but the rotation fails or the answer does not arrive: the browser
\* keeps its session, which has been revoked when the rotation was committed.
submit_lost ==
  /\ submitting \in {"committed", "done"}
  /\ disturb
  /\ submitting' = "no"
  /\ sent' = {}
  /\ UNCHANGED <<server, card, slot, phonePage, history, page, submitted,
                 rotated, since>>

\* A poll sent with the session of before the rotation is answered with 401,
\* also when the waiting room is shown by then.
poll_unauthorized ==
  /\ poll.at = "asked"
  /\ rotated
  /\ poll' = [at |-> "off"]
  /\ navigate("expired")
  /\ UNCHANGED <<server, capture, status, creating, closing, delivered, slot,
                 phonePage, faults, history, submitting, sent, submitted,
                 rotated, since>>

\* The photos that this step commits, after a submission was checked.
checked == submitting = "checked" \/ submitted > 0
committing ==
  {p \in DOMAIN photo : photo[p].st = "read" /\ photo'[p].st = "live"}
recordCommits == since' = IF checked THEN since \union committing ELSE since

\* The card's buttons are part of the form; a request that was submitted takes
\* neither captures nor photos.
captureStep ==
  /\ formView /\ submitted = 0
  /\ CaptureNext
  /\ recordCommits
  /\ UNCHANGED formVars

\* What was admitted before the submission commits all the same, and the polls
\* go on until the rotation.
admittedBefore ==
  /\ submitted > 0
  /\ \/ \E p \in DOMAIN photo : upload_commit(p)
     \/ \E c \in Captures : complete_mobile_capture(c)
     \/ \E x \in {"page", "other"} : create_mobile_capture_session(x)
     \/ formView /\ ~rotated /\ poll_read
     \/ formView /\ poll_apply
  /\ recordCommits
  /\ UNCHANGED formVars

FormStep ==
  \/ loadConfig
  \/ \E t \in Types : ownUpload(t) \/ removeEvidence(t)
  \/ handleSubmit \/ submit_verification \/ create_submission
  \/ rotate_verification_session \/ submit_failed \/ submit_answered
  \/ submit_lost \/ poll_unauthorized

FormNext == FormStep \/ captureStep \/ admittedBefore

FormSpec == FormInit /\ [][FormNext]_vars

-----------------------------------------------------------------------------
(* Properties                                                              *)

\* Only one hand-off of the session is usable, as the comment in
\* create_mobile_capture_session says.
OneUsableCapture == Cardinality({c \in Captures : usable(c)}) <= 1

\* A photo the applicant has removed never returns to the form, however often
\* the polls report it; and one in the form has been superseded on the phone
\* only while the card still polls and will fetch the new one, or when the
\* retake was committed after the capture was over, or in a capture the card
\* has dropped.
SlotsExplained ==
  formView /\ submitted = 0 =>
    \A t \in Types :
      /\ slot[t] \notin removed
      /\ slot[t] # 0 /\ photo[slot[t]].st = "expired" =>
           LET c == photo[slot[t]].cap IN
           \/ capture = c /\ poll.at # "off"
           \/ c \in dropped
           \/ \E p \in late : photo[p].cap = c /\ photo[p].type = t

\* The card does not stop asking before it has every photo of its capture: the
\* newest one of each kind is in its hands, or was committed when the capture
\* was over, or is still asked for.
NoPhotoForgotten ==
  formView /\ submitted = 0 /\ qrView =>
    \A p \in uploads(capture) :
      p \in delivered \/ p \in late \/ poll.at # "off"

\* A submission has a photo of every required kind, although the server does
\* not ask for it and the form may change while the call is under way; and a
\* photo that a retake has replaced is part of it only if the retake was
\* committed after the submission had been checked.
SubmissionSound ==
  /\ submitted > 0 => \A t \in Types : \E p \in DOMAIN photo :
       photo[p].type = t /\ photo[p].st = "attached"
  /\ \A p, q \in DOMAIN photo :
       photo[p].st = "attached" /\ live(q) /\ p \in photo[q].olds => q \in since

\* The hand-off tokens of the captures as one-time credentials.
tokens ==
  [c \in Captures |->
     CASE cap[c].st = "absent" -> "absent"
       [] cap[c].st = "pending" -> "live"
       [] cap[c].st = "connected" -> "used"
       [] OTHER -> "dead"]

Handoff == INSTANCE OneTimeCredential WITH Ids <- Captures, credential <- tokens

\* Every QR code is used at most once, and a capture that was revoked or
\* completed never admits a phone again.
HandoffIsOneTime == Handoff!CredentialSpec
=============================================================================
