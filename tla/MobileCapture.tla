--------------------------- MODULE MobileCapture ---------------------------
(***************************************************************************)
(* The hand-off of the photos to a phone: the card of the identity form     *)
(* that shows the QR code and polls, the phone's pages, and the rows of the *)
(* server between them.                                                     *)
(*                                                                         *)
(* A capture is a row of mobile_capture_sessions.  Its QR token is          *)
(* exchanged once for the phone's credential.  Every call of the phone      *)
(* checks the credential without a lock, so a photo that was being stored   *)
(* commits after the capture was completed or revoked, and a completion     *)
(* commits after the capture was revoked.                                   *)
(***************************************************************************)
EXTENDS Integers, FiniteSets, FiniteSetsExt, Sequences

CONSTANTS
  Types,        \* the required kinds of evidence
  MaxCaptures,  \* bound on the captures created
  MaxPhotos,    \* bound on the uploads
  MaxFaults     \* bound on lost answers, expiries and calls of another tab

ASSUME CaptureBoundAssumption ==
  /\ MaxCaptures \in Nat /\ MaxPhotos \in Nat /\ MaxFaults \in Nat
  /\ IsFiniteSet(Types)

Captures == 1 .. MaxCaptures

VARIABLES
  cap,       \* the rows of mobile_capture_sessions
  due,       \* captures past expires_at
  photo,     \* the uploads of this request, in the order they were sent
  \* The card on the computer
  capture,   \* the capture shown, 0 for none
  status,    \* statusResult
  creating,  \* calls of createMobileCapture, of this page and of another tab
  closing,   \* close awaits the revocation of this capture, 0 for none
  poll,      \* "off", "asked" or the answer on its way
  delivered, \* deliveredEvidenceIds
  slot,      \* the photo of each kind in the form, 0 for none
  \* The phone
  phone,     \* the page on the phone and its capture
  sending,   \* uploadingKinds
  received,  \* uploadedKinds
  ending,    \* captures whose completion has passed its checks
  faults,
  \* History
  dropped,    \* captures the card has shown and no longer shows
  late,       \* photos committed when their capture was over
  removed     \* photos the applicant has removed from the form

server == <<cap, due, photo>>
card == <<capture, status, creating, closing, poll, delivered>>
phonePage == <<phone, sending, received, ending>>
history == <<dropped, late, removed>>
captureVars == <<server, card, slot, phonePage, faults, history>>

NoPage == [at |-> "none", cap |-> 0]
NoStatus == [connected |-> FALSE, completed |-> FALSE]
Idle == [at |-> "no", seen |-> {}, id |-> 0]

CaptureInit ==
  /\ cap = [c \in Captures |->
              [st |-> "absent", connected |-> FALSE, completed |-> FALSE]]
  /\ due = {}
  /\ photo = <<>>
  /\ capture = 0
  /\ status = NoStatus
  /\ creating = [x \in {"page", "other"} |-> Idle]
  /\ closing = 0
  /\ poll = [at |-> "off"]
  /\ delivered = {}
  /\ slot = [t \in Types |-> 0]
  /\ phone = NoPage
  /\ sending = {} /\ received = {} /\ ending = {}
  /\ faults = 0
  /\ dropped = {} /\ late = {} /\ removed = {}

\* What goes wrong is bounded.
disturb == faults < MaxFaults /\ faults' = faults + 1

-----------------------------------------------------------------------------
(* The server                                                              *)

\* Not revoked, not completed, not expired.
usable(c) == cap[c].st \in {"pending", "connected"} /\ c \notin due

\* get_valid_mobile_capture_session.
credentialValid(c) == cap[c].st = "connected" /\ c \notin due

live(p) == photo[p].st = "live"

\* The unexpired temporary photos of a capture.
photosOf(c, t) ==
  {p \in DOMAIN photo : live(p) /\ photo[p].cap = c /\ photo[p].type = t}

\* get_mobile_capture_status: the newest photo of each kind.
uploads(c) ==
  {Max(photosOf(c, t)) : t \in {u \in Types : photosOf(c, u) # {}}}

\* Held by a creation from its read to its commit.
locked(c) == \E x \in {"page", "other"} : c \in creating[x].seen

revokeRow(row) == [row EXCEPT !.st = "revoked"]

due_passes(c) ==
  /\ usable(c)
  /\ due' = due \union {c}
  /\ disturb
  /\ UNCHANGED <<cap, photo, card, slot, phonePage, history>>

-----------------------------------------------------------------------------
(* The card on the computer                                                *)

\* "Use phone camera", and the QR view with its cancel button.
startView == capture = 0
qrView == capture # 0

\* What the timeline and the pill say of the last poll.
connectedShown == status.connected
completedShown == status.completed

\* "Generate new QR" is offered until the phone has connected.
generateOffered == qrView /\ ~connectedShown /\ ~completedShown

nextCapture == Cardinality({c \in Captures : cap[c].st # "absent"}) + 1

\* The lock covers the usable rows that exist: a second creation does not see
\* the row that the first one has not inserted yet.
create_read(x) ==
  creating' = [creating EXCEPT
    ![x] = [at |-> "read", seen |-> {c \in Captures : usable(c)}, id |-> 0]]

\* resetLocalCaptureState forgets what was delivered.
resetLocalCaptureState == status' = NoStatus /\ delivered' = {}

create ==
  /\ startView \/ generateOffered
  /\ creating["page"].at = "no"
  /\ nextCapture <= MaxCaptures
  /\ resetLocalCaptureState
  /\ create_read("page")
  /\ UNCHANGED <<server, capture, closing, poll, slot, phonePage, faults,
                 history>>

\* The same button in another tab of the same session.
createInOtherTab ==
  /\ creating["other"].at = "no"
  /\ disturb
  /\ nextCapture <= MaxCaptures
  /\ create_read("other")
  /\ UNCHANGED <<server, capture, status, closing, poll, delivered, slot,
                 phonePage, history>>

\* The rows it has locked are revoked, the new one is inserted.
create_mobile_capture_session(x) ==
  /\ creating[x].at = "read"
  /\ nextCapture <= MaxCaptures
  /\ cap' = [c \in Captures |->
               IF c = nextCapture THEN [cap[c] EXCEPT !.st = "pending"]
               ELSE IF c \in creating[x].seen THEN revokeRow(cap[c])
               ELSE cap[c]]
  /\ creating' = [creating EXCEPT
                    ![x] = [at |-> "done", seen |-> {}, id |-> nextCapture]]
  /\ UNCHANGED <<due, photo, capture, status, closing, poll, delivered, slot,
                 phonePage, faults, history>>

\* setCapture: the poll of the capture shown before is inactive from now on.
show(c) ==
  /\ capture' = c
  /\ poll' = IF c = 0 THEN [at |-> "off"] ELSE [at |-> "asked"]
  /\ dropped' = dropped \union ({capture} \ {0, c})

create_answered ==
  /\ creating["page"].at = "done"
  /\ show(creating["page"].id)
  /\ creating' = [creating EXCEPT !["page"] = Idle]
  /\ UNCHANGED <<server, status, closing, delivered, slot, phonePage, faults,
                 late, removed>>

\* The call failed or its answer is lost: the error is shown.
create_failed ==
  /\ creating["page"].at \in {"read", "done"}
  /\ disturb
  /\ creating' = [creating EXCEPT !["page"] = Idle]
  /\ UNCHANGED <<server, capture, status, closing, poll, delivered, slot,
                 phonePage, history>>

otherTab_answered ==
  /\ creating["other"].at = "done"
  /\ creating' = [creating EXCEPT !["other"] = Idle]
  /\ UNCHANGED <<server, capture, status, closing, poll, delivered, slot,
                 phonePage, faults, history>>

\* The cancel button, and then the rest of close.
close ==
  /\ qrView
  /\ closing = 0
  /\ closing' = capture
  /\ UNCHANGED <<server, capture, status, creating, poll, delivered, slot,
                 phonePage, faults, history>>

\* Also a completed capture is revoked; a failure is ignored.
revoke_mobile_capture_session ==
  /\ closing # 0
  /\ cap[closing].st # "revoked" /\ ~locked(closing)
  /\ cap' = [cap EXCEPT ![closing] = revokeRow(@)]
  /\ UNCHANGED <<due, photo, card, slot, phonePage, faults, history>>

close_finish ==
  /\ closing # 0
  /\ \/ cap[closing].st = "revoked" /\ UNCHANGED faults
     \/ disturb
  /\ closing' = 0
  /\ show(0)
  /\ resetLocalCaptureState
  /\ UNCHANGED <<server, creating, slot, phonePage, late, removed>>

\* A failed poll is asked again after 2.5 seconds, for as long as it takes.
poll_read ==
  /\ poll.at = "asked"
  /\ poll' = [at |-> "answered", uploads |-> uploads(capture),
              connected |-> cap[capture].connected,
              completed |-> cap[capture].completed]
  /\ UNCHANGED <<server, capture, status, creating, closing, delivered, slot,
                 phonePage, faults, history>>

\* onEvidenceReceived: each new photo goes into the slot of its kind.
deliver(new) ==
  slot' = [t \in Types |->
             IF \E p \in new : photo[p].type = t
               THEN CHOOSE p \in new : photo[p].type = t
               ELSE slot[t]]

poll_redelivers_mutant ==
  /\ poll.at = "answered"
  /\ status' = [connected |-> poll.connected, completed |-> poll.completed]
  /\ deliver(poll.uploads)
  /\ delivered' = delivered \union poll.uploads
  /\ poll' = IF poll.completed THEN [at |-> "off"] ELSE [at |-> "asked"]
  /\ UNCHANGED <<server, capture, creating, closing, phonePage, faults,
                 history>>

poll_stops_when_all_received_mutant ==
  /\ poll.at = "answered"
  /\ status' = [connected |-> poll.connected, completed |-> poll.completed]
  /\ deliver(poll.uploads \ delivered)
  /\ delivered' = delivered \union poll.uploads
  /\ poll' = IF Cardinality(poll.uploads) = Cardinality(Types)
               THEN [at |-> "off"] ELSE [at |-> "asked"]
  /\ UNCHANGED <<server, capture, creating, closing, phonePage, faults,
                 history>>

poll_apply ==
  /\ poll.at = "answered"
  /\ status' = [connected |-> poll.connected, completed |-> poll.completed]
  /\ deliver(poll.uploads \ delivered)
  /\ delivered' = delivered \union poll.uploads
  /\ poll' = IF poll.completed THEN [at |-> "off"] ELSE [at |-> "asked"]
  /\ UNCHANGED <<server, capture, creating, closing, phonePage, faults,
                 history>>

-----------------------------------------------------------------------------
(* The phone                                                               *)

\* The pages of the phone; the one that says a code is of no use is "none".
loadingView == phone.at = "loading"
captureView == phone.at \in {"capture", "completing"}
completedView == phone.at = "done"

\* A QR code that is or was on a screen may be opened, in place of the page
\* that the phone shows.  An upload that is under way is no longer awaited.
opens(c) ==
  /\ cap[c].st # "absent"
  /\ c # phone.cap \/ completedView
  /\ sending' = {} /\ received' = {}
  /\ photo' = [p \in DOMAIN photo |-> [photo[p] EXCEPT !.ack = FALSE]]
  /\ UNCHANGED <<due, card, slot, ending, history>>

exchange_completed_mutant(c) ==
  /\ opens(c)
  /\ IF c \notin due /\ cap[c].st \in {"pending", "completed"}
       THEN /\ cap' = [cap EXCEPT ![c].st = "connected", ![c].connected = TRUE]
            /\ phone' = [at |-> "loading", cap |-> c]
       ELSE phone' = NoPage /\ UNCHANGED cap
  /\ UNCHANGED faults

\* Its page exchanges the token at once.  The row is locked: revoked, expired
\* and used tokens are refused.
exchange_mobile_capture_token(c) ==
  /\ opens(c) /\ ~locked(c)
  /\ IF cap[c].st = "pending" /\ c \notin due
       THEN /\ cap' = [cap EXCEPT ![c].st = "connected", ![c].connected = TRUE]
            /\ \/ phone' = [at |-> "loading", cap |-> c] /\ UNCHANGED faults
               \/ disturb /\ phone' = NoPage
       ELSE phone' = NoPage /\ UNCHANGED <<cap, faults>>

\* The load effect of the capture page restores what was uploaded before.
load ==
  /\ loadingView
  /\ IF credentialValid(phone.cap)
       THEN /\ phone' = [phone EXCEPT !.at = "capture"]
            /\ received' = {t \in Types : photosOf(phone.cap, t) # {}}
       ELSE phone' = NoPage /\ UNCHANGED received
  /\ UNCHANGED <<server, card, slot, sending, ending, faults, history>>

\* The cards of the capture page, for the first photo and for a retake: one
\* upload of a kind at a time, also while "Finish" is being answered.
firstCard(t) == captureView /\ t \notin sending /\ t \notin received
retakeCard(t) == captureView /\ t \notin sending /\ t \in received

allCaptured == Types \subseteq received
finishOffered == phone.at = "capture" /\ allCaptured /\ sending = {}

\* The credential is checked, the object stored and the photos it replaces
\* are read when the upload arrives.
uploadCapture(t) ==
  /\ firstCard(t) \/ retakeCard(t)
  /\ Len(photo) < MaxPhotos
  /\ credentialValid(phone.cap)
  /\ sending' = sending \union {t}
  /\ photo' = Append(photo, [cap |-> phone.cap, type |-> t, st |-> "read",
                             olds |-> photosOf(phone.cap, t), ack |-> TRUE])
  /\ UNCHANGED <<cap, due, card, slot, phone, received, ending, faults,
                 history>>

\* What the page makes of the end of an upload it still waits for.
answerUpload(p, ok) ==
  IF photo[p].ack
    THEN /\ sending' = sending \ {photo[p].type}
         /\ received' = IF ok THEN received \union {photo[p].type} ELSE received
    ELSE UNCHANGED <<sending, received>>

upload_commit(p) ==
  /\ photo[p].st = "read" /\ ~locked(photo[p].cap)
  /\ photo' = [q \in DOMAIN photo |->
                 IF q = p THEN [photo[q] EXCEPT !.st = "live"]
                 ELSE IF q \in photo[p].olds /\ live(q)
                   THEN [photo[q] EXCEPT !.st = "expired"] ELSE photo[q]]
  /\ late' = IF usable(photo[p].cap) THEN late ELSE late \union {p}
  /\ answerUpload(p, TRUE)
  /\ UNCHANGED <<cap, due, card, slot, phone, ending, faults,
                 dropped, removed>>

upload_refused(p) ==
  /\ photo[p].st = "read"
  /\ photo' = [photo EXCEPT ![p].st = "refused"]
  /\ answerUpload(p, FALSE)
  /\ UNCHANGED <<cap, due, card, slot, phone, ending, faults, history>>

\* The phone gives up while the server goes on.
upload_lost(p) ==
  /\ photo[p].st = "read" /\ photo[p].ack
  /\ disturb
  /\ photo' = [photo EXCEPT ![p].ack = FALSE]
  /\ sending' = sending \ {photo[p].type}
  /\ UNCHANGED <<cap, due, card, slot, phone, received, ending, history>>

finish ==
  /\ finishOffered
  /\ phone' = [phone EXCEPT !.at = "completing"]
  /\ UNCHANGED <<server, card, slot, sending, received, ending, faults,
                 history>>

\* The credential is valid and every required kind has a live photo.
complete_read ==
  /\ phone.at = "completing" /\ phone.cap \notin ending
  /\ LET c == phone.cap IN
     IF credentialValid(c) /\ \A t \in Types : photosOf(c, t) # {}
       THEN ending' = ending \union {c} /\ UNCHANGED phone
       ELSE phone' = [phone EXCEPT !.at = "capture"] /\ UNCHANGED ending
  /\ UNCHANGED <<server, card, slot, sending, received, faults, history>>

\* The commit writes completed_at, also over a revocation of meanwhile.
complete_mobile_capture(c) ==
  /\ c \in ending /\ ~locked(c)
  /\ ending' = ending \ {c}
  /\ cap' = [cap EXCEPT ![c].completed = TRUE,
                        ![c].st = IF @ = "revoked" THEN @ ELSE "completed"]
  /\ IF phone = [at |-> "completing", cap |-> c]
       THEN \/ phone' = [phone EXCEPT !.at = "done"] /\ UNCHANGED faults
            \/ disturb /\ phone' = [phone EXCEPT !.at = "capture"]
       ELSE UNCHANGED <<phone, faults>>
  /\ UNCHANGED <<due, photo, card, slot, sending, received, history>>

-----------------------------------------------------------------------------
CardStep ==
  \/ create \/ createInOtherTab \/ create_answered \/ create_failed
  \/ otherTab_answered
  \/ \E x \in {"page", "other"} : create_mobile_capture_session(x)
  \/ close \/ revoke_mobile_capture_session \/ close_finish
  \/ poll_read \/ poll_apply

PhoneStep ==
  \/ \E c \in Captures : exchange_mobile_capture_token(c)
  \/ load
  \/ \E t \in Types : uploadCapture(t)
  \/ \E p \in DOMAIN photo :
       upload_commit(p) \/ upload_refused(p) \/ upload_lost(p)
  \/ finish \/ complete_read
  \/ \E c \in Captures : complete_mobile_capture(c)

CaptureNext == CardStep \/ PhoneStep \/ \E c \in Captures : due_passes(c)
=============================================================================
