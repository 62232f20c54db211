-------------------------- MODULE IdentityFormProofs --------------------------
(* Proofs about IdentityForm, and with it MobileCapture, for any kinds of     *)
(* evidence and any bounds.  Fairness is not needed for them.                 *)
EXTENDS IdentityForm, FiniteSetTheorems, SequenceTheorems, TLAPS

CaptureStates == {"absent", "pending", "connected", "completed", "revoked"}
CaptureRow ==
  [st : CaptureStates, connected : BOOLEAN, completed : BOOLEAN]
Creation == [at : {"no", "read", "done"}, seen : SUBSET Captures,
             id : Captures \union {0}]
PhotoStates == {"read", "live", "expired", "refused", "attached"}
Photo == [cap : Captures \union {0}, type : Types, st : PhotoStates,
          olds : SUBSET Nat, ack : BOOLEAN]
PhonePages == {"none", "loading", "capture", "completing", "done"}

\* The captures that were created.
present == {c \in Captures : cap[c].st # "absent"}

\* The rows, and the captures that the card and the phone know of, which have
\* all been created; captures are numbered in the order they are created.
CapturesTyped ==
  /\ cap \in [Captures -> CaptureRow]
  /\ \E k \in 0 .. MaxCaptures : \A c \in Captures : c \in present <=> c <= k
  /\ creating \in [{"page", "other"} -> Creation]
  /\ \A x \in {"page", "other"} :
       /\ creating[x].seen \subseteq present
       /\ creating[x].at = "done" => creating[x].id \in present
  /\ capture \in present \union {0}
  /\ closing \in present \union {0}
  /\ phone \in [at : PhonePages, cap : Captures \union {0}]
  /\ phone.at # "none" => phone.cap \in present
  /\ ending \subseteq present

\* The call of the submission: it is committed once, and the session is
\* rotated after that.
CallTyped ==
  /\ submitted \in {0, 1}
  /\ rotated => submitted > 0
  /\ submitting = "checked" => submitted = 0
  /\ submitting \in {"committed", "done"} => submitted > 0

\* The uploads, and the photos each one replaces, which were live when it
\* arrived; they are attached by the submission only.
PhotosTyped ==
  /\ photo \in Seq(Photo)
  /\ \A q \in DOMAIN photo : \A p \in photo[q].olds :
       /\ p \in DOMAIN photo /\ p < q
       /\ photo[p].st \in {"live", "expired", "attached"}
  /\ \A p \in DOMAIN photo : photo[p].st = "attached" => submitted > 0
  /\ CallTyped

\* A photo whose replacement is committed is no longer live, unless the
\* replacement was committed after the submission had been checked; and such a
\* replacement is known for every photo that is about to be attached.
Replaced ==
  /\ \A p, q \in DOMAIN photo :
       live(q) /\ p \in photo[q].olds /\ (q \notin since \/ submitted = 0)
         => photo[p].st = "expired"
  /\ submitting = "checked" => \A p \in sent, q \in DOMAIN photo :
       live(q) /\ p \in photo[q].olds => q \in since

\* What was sent has a photo of every kind, and so has what was submitted.
EveryKind ==
  /\ submitting \in {"sent", "checked"} => \A t \in Types :
       \E p \in sent : p \in DOMAIN photo /\ photo[p].type = t
  /\ submitted > 0 => \A t \in Types : \E p \in DOMAIN photo :
       photo[p].type = t /\ photo[p].st = "attached"

\* The photos that were put into the form, and those an answer brings to it.
placed == evidenceIds \union removed
fetched == IF poll.at = "answered" THEN poll.uploads ELSE {}

\* A retake replaces photos of its own capture and kind, and those of the
\* form's own cards are replaced by none; the flags of a row agree with it.
RetakesMatch ==
  /\ \A q \in DOMAIN photo : \A p \in photo[q].olds :
       /\ photo[q].cap # 0
       /\ photo[p].cap = photo[q].cap /\ photo[p].type = photo[q].type
  /\ \A p \in DOMAIN photo : photo[p].cap # 0 => cap[photo[p].cap].connected
  /\ \A c \in Captures : cap[c].st = "connected" => cap[c].connected
  /\ \A c \in Captures : cap[c].completed => cap[c].st \in {"completed", "revoked"}

\* The slots hold photos of their kind.
SlotsTyped ==
  /\ slot \in [Types -> DOMAIN photo \union {0}]
  /\ \A t \in Types : slot[t] # 0 => photo[slot[t]].type = t
  /\ removed \subseteq DOMAIN photo

\* An answer brings one committed photo of a kind, of the capture shown.
PollTyped ==
  /\ poll.at \in {"off", "asked", "answered"}
  /\ capture = 0 => poll.at = "off"
  /\ dropped \subseteq present
  /\ \A p \in delivered \union fetched :
       p \in DOMAIN photo /\ photo[p].st \in {"live", "expired", "attached"}
  /\ \A p \in fetched : photo[p].cap = capture
  /\ \A p, q \in fetched : photo[p].type = photo[q].type => p = q

\* A capture is shown once, and its photos reach the form while it is shown
\* and known to be connected.
PlacedByCard ==
  /\ capture \notin dropped
  /\ creating["page"].at = "done" =>
       creating["page"].id \notin dropped \union {capture}
  /\ \A p \in placed : photo[p].cap # 0 =>
       photo[p].cap \in dropped \/ (photo[p].cap = capture /\ p \in delivered)
  /\ \A t \in Types : slot[t] \notin removed
  /\ \A p \in placed : photo[p].cap = capture /\ capture # 0 =>
       status.connected /\ (poll.at = "answered" => poll.connected)
  /\ fetched # {} => poll.connected

\* The card goes on to newer photos only, and a retake that replaces a newer
\* photo also replaces the older ones that the card knows of.
GoesForward ==
  /\ \A m \in delivered \union fetched, p, q \in DOMAIN photo :
       /\ live(m) /\ live(p) /\ m < p
       /\ photo[m].cap = photo[p].cap /\ photo[m].type = photo[p].type
       /\ p \in photo[q].olds
       => m \in photo[q].olds
  /\ \A m \in delivered, p \in evidenceIds \union fetched :
       /\ live(m) /\ m # p /\ capture # 0
       /\ photo[p].cap = capture /\ photo[m].cap = capture
       /\ photo[m].type = photo[p].type
       => m < p /\ live(p)

\* A photo of this capture and kind was committed when the capture was over.
overtaken(c, t) == \E p \in late : photo[p].cap = c /\ photo[p].type = t

\* When the card has stopped, or is about to, its capture is completed, so
\* that later retakes are late.
StopsComplete ==
  /\ \A c \in Captures : cap[c].completed \/ c \in ending =>
       \A t \in Types : photosOf(c, t) # {}
  /\ poll.at = "answered" /\ poll.completed =>
       /\ cap[capture].completed
       /\ \A t \in Types : \/ overtaken(capture, t)
                           \/ \E p \in fetched : photo[p].type = t /\ live(p)
  /\ capture # 0 /\ poll.at = "off" => cap[capture].completed
  /\ \A t \in Types :
       slot[t] # 0 /\ photo[slot[t]].st = "expired" =>
         \/ capture = photo[slot[t]].cap /\ poll.at # "off"
         \/ photo[slot[t]].cap \in dropped
         \/ overtaken(photo[slot[t]].cap, t)
  /\ late \subseteq DOMAIN photo

\* When the card has stopped, or is about to, it has the photos of its capture
\* that are not late.
StopsWithAll ==
  /\ capture # 0 /\ poll.at = "off" =>
       status.completed /\ uploads(capture) \subseteq delivered \union late
  /\ poll.at = "answered" /\ poll.completed =>
       uploads(capture) \subseteq fetched \union late

-----------------------------------------------------------------------------
(* What a step touches                                                     *)

\* A step is one of the form, the card, the phone or the clock.
LEMMA StepKinds ==
  ASSUME [FormNext]_vars
  PROVE  \/ FormStep \/ CardStep \/ PhoneStep
         \/ \E c \in Captures : due_passes(c)
         \/ UNCHANGED vars
<1>1. admittedBefore => CardStep \/ PhoneStep
  BY DEF admittedBefore, CardStep, PhoneStep
<1>2. QED
  BY <1>1 DEF FormNext, captureStep, CaptureNext

\* Which steps touch the rows of the captures.
LEMMA RowFrame ==
  ASSUME [FormNext]_vars
  PROVE  \/ UNCHANGED cap
         \/ \E x \in {"page", "other"} : create_mobile_capture_session(x)
         \/ revoke_mobile_capture_session
         \/ \E c \in Captures : exchange_mobile_capture_token(c)
         \/ \E c \in Captures : complete_mobile_capture(c)
<1>1. CASE FormStep
  BY <1>1 DEF FormStep, loadConfig, ownUpload, removeEvidence, handleSubmit,
     submit_verification, create_submission, rotate_verification_session,
     submit_failed, submit_answered, submit_lost, poll_unauthorized, captureVars, server
<1>2. CASE CardStep
  BY <1>2 DEF CardStep, create, createInOtherTab, create_answered,
     create_failed, otherTab_answered, close, close_finish, poll_read,
     poll_apply, server
<1>3. CASE PhoneStep
  BY <1>3 DEF PhoneStep, load, uploadCapture, upload_commit,
     upload_refused, upload_lost, finish, complete_read, server
<1>4. CASE \E c \in Captures : due_passes(c)
  BY <1>4 DEF due_passes
<1>5. CASE UNCHANGED vars
  BY <1>5 DEF vars, captureVars, server
<1>6. QED
  BY <1>1, <1>2, <1>3, <1>4, <1>5, StepKinds

\* Which steps touch the creations under way, and what has expired by then.
LEMMA CreatingFrame ==
  ASSUME [FormNext]_vars
  PROVE  \/ UNCHANGED creating
         \/ create \/ createInOtherTab
         \/ \E x \in {"page", "other"} : create_mobile_capture_session(x)
         \/ \E x \in {"page", "other"} :
              creating' = [creating EXCEPT ![x] = Idle]
<1>1. CASE FormStep
  BY <1>1 DEF FormStep, loadConfig, ownUpload, removeEvidence, handleSubmit,
     submit_verification, create_submission, rotate_verification_session,
     submit_failed, submit_answered, submit_lost, poll_unauthorized, captureVars, card, history
<1>2. CASE CardStep
  <2>1. CASE create_answered \/ create_failed \/ otherTab_answered
    BY <2>1 DEF create_answered, create_failed, otherTab_answered, server,
       history
  <2>2. CASE \/ create \/ createInOtherTab
             \/ \E x \in {"page", "other"} : create_mobile_capture_session(x)
    BY <2>2
  <2>3. CASE \/ close \/ revoke_mobile_capture_session \/ close_finish
             \/ poll_read \/ poll_apply
    BY <2>3 DEF close, revoke_mobile_capture_session, close_finish, poll_read,
       poll_apply, card, history
  <2>4. QED
    BY <1>2, <2>1, <2>2, <2>3 DEF CardStep
<1>3. CASE PhoneStep
  BY <1>3 DEF PhoneStep, exchange_mobile_capture_token, opens, load,
     uploadCapture, upload_commit, upload_refused, upload_lost, finish,
     complete_read, complete_mobile_capture, card
<1>4. CASE \E c \in Captures : due_passes(c)
  BY <1>4 DEF due_passes, card, history
<1>5. CASE UNCHANGED vars
  BY <1>5 DEF vars, captureVars, card, history
<1>6. QED
  BY <1>1, <1>2, <1>3, <1>4, <1>5, StepKinds

\* Which captures the card and the phone turn to.
LEMMA ScreenFrame ==
  ASSUME [FormNext]_vars
  PROVE  /\ \/ capture' \in {capture, 0}
            \/ creating["page"].at = "done" /\ capture' = creating["page"].id
         /\ closing' \in {closing, 0, capture}
         /\ \/ UNCHANGED phone
            \/ /\ phone.at # "none"
               /\ \E a \in PhonePages : phone' = [phone EXCEPT !.at = a]
            \/ phone' = NoPage
            \/ \E c \in Captures : /\ cap[c].st # "absent"
                                   /\ phone' = [at |-> "loading", cap |-> c]
         /\ \A c \in ending' : c \in ending \/ (c = phone.cap /\ phone.at # "none")
<1>1. CASE FormStep
  BY <1>1 DEF FormStep, loadConfig, ownUpload, removeEvidence, handleSubmit,
     submit_verification, create_submission, rotate_verification_session,
     submit_failed, submit_answered, submit_lost, poll_unauthorized, captureVars, card, phonePage
<1>2. CASE CardStep
  BY <1>2 DEF CardStep, create, createInOtherTab, create_answered,
     create_failed, otherTab_answered, close, close_finish, poll_read,
     poll_apply, card, phonePage, create_mobile_capture_session, show,
     revoke_mobile_capture_session
<1>3. CASE PhoneStep
  <2>1. /\ UNCHANGED <<capture, closing>>
        /\ \A c \in ending' : c \in ending \/ (c = phone.cap /\ phone.at # "none")
    BY <1>3 DEF PhoneStep, load, uploadCapture, upload_commit,
       upload_refused, upload_lost, finish, card, opens, complete_read,
       exchange_mobile_capture_token, complete_mobile_capture
  <2>2. CASE \E c \in Captures : exchange_mobile_capture_token(c)
    BY <2>1, <2>2 DEF exchange_mobile_capture_token, opens
  <2>3. CASE \E c \in Captures : complete_mobile_capture(c)
    BY <2>1, <2>3 DEF complete_mobile_capture, PhonePages
  <2>4. CASE load \/ finish \/ complete_read
    BY <2>1, <2>4 DEF load, finish, finishOffered, loadingView, complete_read,
       PhonePages
  <2>5. CASE \/ \E t \in Types : uploadCapture(t)
             \/ \E p \in DOMAIN photo :
                  upload_commit(p) \/ upload_refused(p) \/ upload_lost(p)
    BY <2>1, <2>5 DEF uploadCapture, upload_commit, upload_refused, upload_lost
  <2>6. QED
    BY <1>3, <2>2, <2>3, <2>4, <2>5 DEF PhoneStep
<1>4. CASE \E c \in Captures : due_passes(c)
  BY <1>4 DEF due_passes, card, phonePage
<1>5. CASE UNCHANGED vars
  BY <1>5 DEF vars, captureVars, card, phonePage
<1>6. QED
  BY <1>1, <1>2, <1>3, <1>4, <1>5, StepKinds

-----------------------------------------------------------------------------
(* The captures                                                            *)

\* A new capture is one that does not exist yet.
LEMMA NextCapture ==
  ASSUME CapturesTyped
  PROVE  /\ nextCapture \in 1 .. MaxCaptures + 1
         /\ \A c \in Captures : c \in present <=> c < nextCapture
<1>1. PICK k \in 0 .. MaxCaptures : \A c \in Captures : c \in present <=> c <= k
  BY DEF CapturesTyped
<1>2. {c \in Captures : cap[c].st # "absent"} = 1 .. k
  BY <1>1, CaptureBoundAssumption DEF Captures, present
<1>3. Cardinality(1 .. k) = k
  BY <1>1, CaptureBoundAssumption, FS_Interval
<1>4. nextCapture = k + 1
  BY <1>2, <1>3 DEF nextCapture
<1>5. QED
  BY <1>1, <1>4, CaptureBoundAssumption DEF Captures

\* The life of a row: created, connected, completed; revoked at any time.
rowStep(c) ==
  \/ cap'[c] = cap[c]
  \/ cap[c].st = "absent" /\ cap'[c] = [cap[c] EXCEPT !.st = "pending"]
  \/ /\ cap[c].st = "pending"
     /\ cap'[c] = [cap[c] EXCEPT !.st = "connected", !.connected = TRUE]
  \/ /\ cap[c].st # "absent" /\ c \in ending
     /\ \/ cap'[c] = [cap[c] EXCEPT !.st = "completed", !.completed = TRUE]
        \/ /\ cap[c].st = "revoked"
           /\ cap'[c] = [cap[c] EXCEPT !.completed = TRUE]
  \/ cap[c].st # "absent" /\ cap'[c] = [cap[c] EXCEPT !.st = "revoked"]

\* Every step takes every row along its life, and rows are created in order.
LEMMA RowSteps ==
  ASSUME CapturesTyped, [FormNext]_vars
  PROVE  /\ cap' \in [Captures -> CaptureRow]
         /\ \A c \in Captures : rowStep(c)
         /\ \E k \in 0 .. MaxCaptures :
              \A c \in Captures : c \in present' <=> c <= k
<1>0. cap \in [Captures -> CaptureRow]
  BY DEF CapturesTyped
<1>1. PICK k \in 0 .. MaxCaptures : \A c \in Captures : c \in present <=> c <= k
  BY DEF CapturesTyped
<1>2. CASE UNCHANGED cap
  BY <1>0, <1>1, <1>2 DEF rowStep, present
<1>3. ASSUME NEW d \in Captures, NEW r \in CaptureRow,
             cap[d].st # "absent", r.st # "absent",
             cap' = [cap EXCEPT ![d] = r]
      PROVE  /\ cap' \in [Captures -> CaptureRow]
             /\ \A c \in Captures : c \in present' <=> c <= k
             /\ \A c \in Captures \ {d} : rowStep(c)
             /\ cap'[d] = r
  <2>1. cap' \in [Captures -> CaptureRow]
    BY <1>0, <1>3
  <2>2. \A c \in Captures : cap'[c].st # "absent" <=> cap[c].st # "absent"
    BY <1>0, <1>3
  <2>3. \A c \in Captures \ {d} : rowStep(c)
    BY <1>0, <1>3 DEF rowStep
  <2>4. QED
    BY <1>0, <1>1, <1>3, <2>1, <2>2, <2>3 DEF present
<1>4. CASE revoke_mobile_capture_session
  <2>1. closing \in Captures /\ cap[closing].st # "absent"
    BY <1>4 DEF revoke_mobile_capture_session, CapturesTyped, present
  <2>2. cap' = [cap EXCEPT ![closing] = [cap[closing] EXCEPT !.st = "revoked"]]
    BY <1>0, <1>4, <2>1 DEF revoke_mobile_capture_session, revokeRow
  <2>3. [cap[closing] EXCEPT !.st = "revoked"] \in CaptureRow
    BY <1>0, <2>1 DEF CaptureRow, CaptureStates
  <2>4. [cap[closing] EXCEPT !.st = "revoked"].st = "revoked"
    BY <1>0, <2>1 DEF CaptureRow
  <2>5. rowStep(closing)
    BY <1>3, <2>1, <2>2, <2>3, <2>4 DEF rowStep
  <2>6. QED
    BY <1>3, <2>1, <2>2, <2>3, <2>4, <2>5
<1>5. ASSUME NEW d \in Captures, exchange_mobile_capture_token(d)
      PROVE  /\ cap' \in [Captures -> CaptureRow]
             /\ \A c \in Captures : rowStep(c)
             /\ \A c \in Captures : c \in present' <=> c <= k
  <2>1. CASE UNCHANGED cap
    BY <1>0, <1>1, <2>1 DEF rowStep, present
  <2>2. CASE /\ cap[d].st = "pending"
             /\ cap' = [cap EXCEPT ![d].st = "connected", ![d].connected = TRUE]
    <3> DEFINE r == [cap[d] EXCEPT !.st = "connected", !.connected = TRUE]
    <3>1. cap' = [cap EXCEPT ![d] = r]
      BY <1>0, <2>2
    <3>2. r \in CaptureRow /\ r.st = "connected"
      BY <1>0 DEF CaptureRow, CaptureStates
    <3>3. rowStep(d)
      BY <1>3, <2>2, <3>1, <3>2 DEF rowStep
    <3>4. QED
      BY <1>3, <2>2, <3>1, <3>2, <3>3
  <2>3. QED
    BY <1>5, <2>1, <2>2 DEF exchange_mobile_capture_token
<1>6. ASSUME NEW d \in Captures, complete_mobile_capture(d)
      PROVE  /\ cap' \in [Captures -> CaptureRow]
             /\ \A c \in Captures : rowStep(c)
             /\ \A c \in Captures : c \in present' <=> c <= k
  <2> DEFINE r == [cap[d] EXCEPT !.completed = TRUE,
                     !.st = IF cap[d].st = "revoked" THEN cap[d].st
                            ELSE "completed"]
  <2>1. d \in ending /\ cap[d].st # "absent"
    BY <1>6 DEF complete_mobile_capture, CapturesTyped, present
  <2>2. cap' = [cap EXCEPT ![d] = r]
    BY <1>0, <1>6 DEF complete_mobile_capture
  <2>3. r \in CaptureRow /\ r.st # "absent"
    BY <1>0, <2>1 DEF CaptureRow, CaptureStates
  <2>4. cap'[d] = r
    BY <1>0, <2>2
  <2>5. rowStep(d)
    <3>1. CASE cap[d].st = "revoked"
      <4>1. r = [cap[d] EXCEPT !.completed = TRUE]
        BY <1>0, <3>1 DEF CaptureRow
      <4>2. QED
        BY <2>1, <2>4, <3>1, <4>1 DEF rowStep
    <3>2. CASE cap[d].st # "revoked"
      <4>1. r = [cap[d] EXCEPT !.st = "completed", !.completed = TRUE]
        BY <1>0, <3>2 DEF CaptureRow
      <4>2. QED
        BY <2>1, <2>4, <4>1 DEF rowStep
    <3>3. QED
      BY <3>1, <3>2
  <2>6. QED
    BY <1>3, <2>1, <2>2, <2>3, <2>5
<1>7. ASSUME NEW x \in {"page", "other"}, create_mobile_capture_session(x)
      PROVE  /\ cap' \in [Captures -> CaptureRow]
             /\ \A c \in Captures : rowStep(c)
             /\ \A c \in Captures : c \in present' <=> c <= nextCapture
             /\ nextCapture \in 0 .. MaxCaptures
  <2>1. /\ nextCapture \in Captures
        /\ \A c \in Captures : c \in present <=> c < nextCapture
    BY <1>7, NextCapture, CaptureBoundAssumption
       DEF create_mobile_capture_session, Captures
  <2> DEFINE row(c) ==
        IF c = nextCapture THEN [cap[c] EXCEPT !.st = "pending"]
        ELSE IF c \in creating[x].seen THEN [cap[c] EXCEPT !.st = "revoked"]
        ELSE cap[c]
  <2>2. cap' = [c \in Captures |-> row(c)]
    BY <1>7 DEF create_mobile_capture_session, revokeRow
  <2>3. \A c \in Captures : row(c) \in CaptureRow
    BY <1>0 DEF CaptureRow, CaptureStates
  <2>4. \A c \in Captures : cap'[c] = row(c)
    BY <2>2
  <2>5. creating[x].seen \subseteq present
    BY DEF CapturesTyped
  <2>6. cap[nextCapture].st = "absent"
    BY <2>1, CaptureBoundAssumption DEF present, Captures
  <2>7. ASSUME NEW c \in Captures PROVE rowStep(c)
    BY <1>7, <2>4, <2>5, <2>6 DEF rowStep, present
  <2>8. \A c \in Captures : row(c).st # "absent" <=> c <= nextCapture
    <3> SUFFICES ASSUME NEW c \in Captures
                 PROVE  row(c).st # "absent" <=> c <= nextCapture
      OBVIOUS
    <3>1. cap[c] \in CaptureRow
      BY <1>0
    <3>2. CASE c = nextCapture
      <4>1. row(c).st = "pending"
        BY <3>1, <3>2 DEF CaptureRow
      <4>2. QED
        BY <2>1, <3>2, <4>1, CaptureBoundAssumption DEF Captures
    <3>3. CASE c # nextCapture /\ c \in creating[x].seen
      <4>1. row(c).st = "revoked"
        BY <3>1, <3>3 DEF CaptureRow
      <4>2. QED
        BY <2>1, <2>5, <3>3, <4>1, CaptureBoundAssumption DEF Captures
    <3>4. CASE c # nextCapture /\ c \notin creating[x].seen
      <4>1. row(c) = cap[c]
        BY <3>4
      <4>2. cap[c].st # "absent" <=> c < nextCapture
        BY <2>1 DEF present
      <4>3. QED
        BY <2>1, <3>4, <4>1, <4>2, CaptureBoundAssumption DEF Captures
    <3>5. QED
      BY <3>2, <3>3, <3>4
  <2> HIDE DEF row
  <2>9. cap' \in [Captures -> CaptureRow]
    BY <2>2, <2>3
  <2>10. nextCapture \in 0 .. MaxCaptures
    BY <2>1, CaptureBoundAssumption DEF Captures
  <2>11. \A c \in Captures : c \in present' <=> cap'[c].st # "absent"
    BY DEF present
  <2>12. QED
    BY <2>4, <2>7, <2>8, <2>9, <2>10, <2>11
<1>8. CASE \E x \in {"page", "other"} : create_mobile_capture_session(x)
  <2>1. PICK x \in {"page", "other"} : create_mobile_capture_session(x)
    BY <1>8
  <2>2. QED
    BY <1>7, <2>1
<1>9. QED
  BY <1>1, <1>2, <1>4, <1>5, <1>6, <1>8, RowFrame

\* A capture that was created stays one.
LEMMA PresentGrows ==
  ASSUME CapturesTyped, [FormNext]_vars
  PROVE  present \subseteq present'
<1>1. \A c \in Captures : cap[c] \in CaptureRow /\ rowStep(c)
  BY RowSteps DEF CapturesTyped
<1>2. ASSUME NEW c \in Captures, cap[c].st # "absent"
      PROVE  cap'[c].st # "absent"
  BY <1>1, <1>2 DEF rowStep, CaptureRow
<1>3. QED
  BY <1>2 DEF present

\* Rows, creations and screens keep their form.
LEMMA CapturesStayTyped == CapturesTyped /\ [FormNext]_vars => CapturesTyped'
<1> SUFFICES ASSUME CapturesTyped, [FormNext]_vars PROVE CapturesTyped'
  OBVIOUS
<1>1. present \subseteq present'
  BY PresentGrows
<1>2. creating \in [{"page", "other"} -> Creation]
  BY DEF CapturesTyped
<1> DEFINE Fits(r) == /\ r \in Creation
                      /\ r.seen \subseteq present'
                      /\ r.at = "done" => r.id \in present'
<1>3. \A x \in {"page", "other"} : Fits(creating[x])
  BY <1>1, <1>2 DEF CapturesTyped
<1>4. ASSUME NEW x \in {"page", "other"}, NEW r, Fits(r),
             creating' = [creating EXCEPT ![x] = r]
      PROVE  /\ creating' \in [{"page", "other"} -> Creation]
             /\ \A y \in {"page", "other"} : Fits(creating'[y])
  BY <1>2, <1>3, <1>4
<1>5. Fits(Idle)
  BY DEF Idle, Creation
<1>6. Fits([at |-> "read", seen |-> {c \in Captures : usable(c)}, id |-> 0])
  BY <1>1 DEF Creation, usable, present
<1>7. ASSUME NEW x \in {"page", "other"}, create_mobile_capture_session(x)
      PROVE  Fits([at |-> "done", seen |-> {}, id |-> nextCapture])
  <2>1. nextCapture \in Captures
    BY <1>7, NextCapture, CaptureBoundAssumption
       DEF create_mobile_capture_session, Captures
  <2>2. cap'[nextCapture] = [cap[nextCapture] EXCEPT !.st = "pending"]
    BY <1>7, <2>1 DEF create_mobile_capture_session
  <2>3. cap[nextCapture] \in CaptureRow
    BY <2>1 DEF CapturesTyped
  <2>4. nextCapture \in present'
    BY <2>1, <2>2, <2>3 DEF present, CaptureRow
  <2>5. QED
    BY <2>1, <2>4 DEF Creation
<1>8. /\ creating' \in [{"page", "other"} -> Creation]
      /\ \A y \in {"page", "other"} : Fits(creating'[y])
  <2>1. CASE UNCHANGED creating
    BY <1>2, <1>3, <2>1
  <2>2. CASE \E x \in {"page", "other"} : creating' = [creating EXCEPT ![x] = Idle]
    BY <1>4, <1>5, <2>2
  <2>3. CASE create \/ createInOtherTab
    <3>1. PICK x \in {"page", "other"} : create_read(x)
      BY <2>3 DEF create, createInOtherTab
    <3> HIDE DEF Fits
    <3>2. QED
      BY <1>4, <1>6, <3>1 DEF create_read
  <2>4. CASE \E x \in {"page", "other"} : create_mobile_capture_session(x)
    <3>1. PICK x \in {"page", "other"} : create_mobile_capture_session(x)
      BY <2>4
    <3>2. creating' = [creating EXCEPT
                        ![x] = [at |-> "done", seen |-> {}, id |-> nextCapture]]
      BY <3>1 DEF create_mobile_capture_session
    <3> HIDE DEF Fits
    <3>3. QED
      BY <1>4, <1>7, <3>1, <3>2
  <2>5. QED
    BY <2>1, <2>2, <2>3, <2>4, CreatingFrame
<1>9. capture' \in present' \union {0} /\ closing' \in present' \union {0}
  BY <1>1, ScreenFrame DEF CapturesTyped
<1>10. /\ phone' \in [at : PhonePages, cap : Captures \union {0}]
       /\ phone'.at # "none" => phone'.cap \in present'
  <2>1. CASE UNCHANGED phone
    BY <1>1, <2>1 DEF CapturesTyped
  <2>2. CASE /\ phone.at # "none"
             /\ \E a \in PhonePages : phone' = [phone EXCEPT !.at = a]
    BY <1>1, <2>2 DEF CapturesTyped
  <2>3. CASE \E c \in Captures : /\ cap[c].st # "absent"
                                 /\ phone' = [at |-> "loading", cap |-> c]
    BY <1>1, <2>3 DEF PhonePages, present
  <2>4. CASE phone' = NoPage
    BY <2>4 DEF PhonePages, NoPage
  <2>5. QED
    BY <2>1, <2>2, <2>3, <2>4, ScreenFrame
<1>11. ending' \subseteq present'
  BY <1>1, ScreenFrame DEF CapturesTyped
<1>12. QED
  BY <1>8, <1>9, <1>10, <1>11, RowSteps DEF CapturesTyped

\* The captures keep their form in every reachable state.
LEMMA AlwaysCaptures == FormSpec => []CapturesTyped
<1>1. FormInit => CapturesTyped
  <2> SUFFICES ASSUME FormInit PROVE CapturesTyped
    OBVIOUS
  <2>0. CaptureInit
    BY DEF FormInit
  <2>1. cap \in [Captures -> CaptureRow] /\ present = {}
    BY <2>0 DEF CaptureInit, CaptureRow, CaptureStates, present
  <2>2. 0 \in 0 .. MaxCaptures /\ \A c \in Captures : ~(c <= 0)
    BY CaptureBoundAssumption DEF Captures
  <2>3. creating \in [{"page", "other"} -> Creation]
    BY <2>0 DEF CaptureInit, Creation, Idle
  <2>4. \A x \in {"page", "other"} : creating[x].seen = {} /\ creating[x].at = "no"
    BY <2>0 DEF CaptureInit, Idle
  <2>5. QED
    BY <2>0, <2>1, <2>2, <2>3, <2>4 DEF CaptureInit, CapturesTyped, PhonePages,
       NoPage
<1>2. QED
  BY <1>1, CapturesStayTyped, PTL DEF FormSpec

\* Every QR code is used at most once, and a capture that was revoked or
\* completed never admits a phone again: the hand-off tokens are one-time
\* credentials, whatever the two tabs, the card and the phone do.
THEOREM HandoffsAreOneTime == FormSpec => HandoffIsOneTime
<1>1. FormInit => Handoff!CredentialInit
  BY DEF FormInit, CaptureInit, Handoff!CredentialInit, tokens
<1>2. CapturesTyped /\ [FormNext]_vars => [Handoff!CredentialNext]_tokens
  <2> SUFFICES ASSUME CapturesTyped, [FormNext]_vars
               PROVE  Handoff!CredentialNext
    OBVIOUS
  <2> SUFFICES ASSUME NEW c \in Captures
               PROVE  \/ Handoff!issue(c) \/ Handoff!use(c)
                      \/ Handoff!withdraw(c) \/ Handoff!keep(c)
    BY DEF Handoff!CredentialNext
  <2>1. cap[c] \in CaptureRow /\ cap'[c] \in CaptureRow /\ rowStep(c)
    BY RowSteps DEF CapturesTyped
  <2> DEFINE credential(s) == CASE s = "absent" -> "absent"
                                [] s = "pending" -> "live"
                                [] s = "connected" -> "used"
                                [] OTHER -> "dead"
  <2>2. /\ tokens[c] = credential(cap[c].st)
        /\ tokens'[c] = credential(cap'[c].st)
    BY DEF tokens
  <2>3. \/ cap'[c].st = cap[c].st
        \/ cap[c].st = "absent" /\ cap'[c].st = "pending"
        \/ cap[c].st = "pending" /\ cap'[c].st = "connected"
        \/ cap[c].st # "absent" /\ cap'[c].st = "completed"
        \/ cap[c].st # "absent" /\ cap'[c].st = "revoked"
    BY <2>1 DEF rowStep, CaptureRow
  <2>4. cap[c].st \in CaptureStates
    BY <2>1 DEF CaptureRow
  <2>5. QED
    BY <2>2, <2>3, <2>4 DEF CaptureStates, Handoff!issue, Handoff!use,
       Handoff!withdraw, Handoff!keep
<1>3. QED
  BY <1>1, <1>2, AlwaysCaptures, PTL
     DEF FormSpec, HandoffIsOneTime, Handoff!CredentialSpec

-----------------------------------------------------------------------------
(* The photos                                                              *)

\* Which steps touch the photos and the record of late ones.
LEMMA PhotoFrame ==
  ASSUME [FormNext]_vars
  PROVE  \/ UNCHANGED <<photo, late>>
         \/ /\ submitted = 0 /\ UNCHANGED late
            /\ \/ \E c \in Captures : exchange_mobile_capture_token(c)
               \/ \E t \in Types : uploadCapture(t)
               \/ \E p \in DOMAIN photo : upload_refused(p) \/ upload_lost(p)
         \/ \E p \in DOMAIN photo : upload_commit(p)
         \/ \E t \in Types : ownUpload(t)
         \/ create_submission
<1>1. CASE FormStep
  BY <1>1 DEF FormStep, loadConfig, removeEvidence, handleSubmit,
     submit_verification, rotate_verification_session, submit_failed,
     submit_answered, submit_lost, poll_unauthorized, captureVars, server,
     history
<1>2. CASE CardStep
  BY <1>2 DEF CardStep, create, createInOtherTab, create_answered,
     create_failed, otherTab_answered, close, close_finish, poll_read,
     poll_apply, server, history, create_mobile_capture_session,
     revoke_mobile_capture_session
<1>3. CASE PhoneStep /\ submitted = 0
  BY <1>3 DEF PhoneStep, load, uploadCapture, upload_refused, upload_lost,
     finish, server, history, exchange_mobile_capture_token, opens,
     complete_read, complete_mobile_capture
<1>4. CASE \E c \in Captures : due_passes(c)
  BY <1>4 DEF due_passes, history
<1>5. CASE UNCHANGED vars
  BY <1>5 DEF vars, captureVars, server, history
<1>6. CASE admittedBefore
  BY <1>6 DEF admittedBefore, poll_read, poll_apply, server, history,
     create_mobile_capture_session, complete_mobile_capture
<1>7. QED
  BY <1>1, <1>2, <1>3, <1>4, <1>5, <1>6 DEF FormNext, captureStep, CaptureNext

\* Which steps touch the call of the submission, and what it does not see.
LEMMA CallFrame ==
  ASSUME [FormNext]_vars
  PROVE  \/ UNCHANGED <<submitting, sent, submitted, rotated, since>>
         \/ /\ UNCHANGED <<submitting, sent, submitted, rotated>>
            /\ recordCommits
         \/ handleSubmit \/ submit_verification \/ create_submission
         \/ rotate_verification_session
         \/ /\ submitting' = "no" /\ sent' = {}
            /\ UNCHANGED <<submitted, rotated, since, photo>>
<1>1. CASE FormStep
  BY <1>1 DEF FormStep, loadConfig, ownUpload, removeEvidence, submit_failed,
     submit_answered, submit_lost, poll_unauthorized, formVars, captureVars,
     server
<1>2. CASE captureStep \/ admittedBefore
  BY <1>2 DEF captureStep, admittedBefore, formVars
<1>3. CASE UNCHANGED vars
  BY <1>3 DEF vars, formVars
<1>4. QED
  BY <1>1, <1>2, <1>3 DEF FormNext

\* Photos that are changed in place are still a sequence of photos.
LEMMA PhotoMap ==
  ASSUME NEW s \in Seq(Photo), NEW f \in [DOMAIN s -> Photo]
  PROVE  f \in Seq(Photo) /\ DOMAIN f = DOMAIN s /\ Len(f) = Len(s)
<1>1. Len(s) \in Nat /\ DOMAIN s = 1 .. Len(s)
  BY LenProperties
<1>2. f \in [1 .. Len(s) -> Photo]
  BY <1>1
<1>3. f \in Seq(Photo)
  BY <1>1, <1>2, SeqDef
<1>4. Len(f) = Len(s)
  BY <1>1, <1>2, <1>3, LenProperties
<1>5. QED
  BY <1>3, <1>4

\* A photo is stored or refused, may be replaced by a retake, and is attached
\* when it was sent with the submission.
photoStep(p) ==
  /\ photo'[p].cap = photo[p].cap
  /\ photo'[p].type = photo[p].type
  /\ photo'[p].olds = photo[p].olds
  /\ \/ photo'[p].st = photo[p].st
     \/ photo[p].st = "read" /\ photo'[p].st = "refused"
     \/ /\ photo[p].st = "read" /\ photo'[p].st = "live"
        /\ upload_commit(p)
     \/ /\ live(p) /\ photo'[p].st = "expired"
        /\ \E q \in DOMAIN photo : upload_commit(q) /\ p \in photo[q].olds
     \/ /\ photo'[p].st = "attached"
        /\ p \in sent /\ create_submission

\* A photo that arrives.
photoArrives(p) ==
  /\ p = Len(photo) + 1
  /\ \/ \E t \in Types :
          /\ uploadCapture(t) /\ submitted = 0
          /\ photo'[p] = [cap |-> phone.cap, type |-> t, st |-> "read",
                          olds |-> photosOf(phone.cap, t), ack |-> TRUE]
     \/ \E t \in Types :
          /\ ownUpload(t)
          /\ photo'[p] = [cap |-> 0, type |-> t, st |-> "live",
                          olds |-> {}, ack |-> FALSE]

\* Every step takes every photo along its life.
LEMMA PhotoSteps ==
  ASSUME CapturesTyped, PhotosTyped, [FormNext]_vars
  PROVE  /\ photo' \in Seq(Photo)
         /\ DOMAIN photo \subseteq DOMAIN photo'
         /\ \A p \in DOMAIN photo : photoStep(p)
         /\ \A p \in DOMAIN photo' \ DOMAIN photo : photoArrives(p)
<1>0. /\ photo \in Seq(Photo) /\ Len(photo) \in Nat
      /\ DOMAIN photo = 1 .. Len(photo)
      /\ \A p \in DOMAIN photo : photo[p] \in Photo
  BY LenProperties, ElementOfSeq DEF PhotosTyped
<1>1. ASSUME NEW f \in [DOMAIN photo -> Photo], photo' = f,
             \A p \in DOMAIN photo : photoStep(p)
      PROVE  /\ photo' \in Seq(Photo)
             /\ DOMAIN photo' = DOMAIN photo
  BY <1>0, <1>1, PhotoMap
<1>2. CASE UNCHANGED photo
  BY <1>0, <1>2 DEF photoStep
<1>3. ASSUME NEW c \in Captures, exchange_mobile_capture_token(c)
      PROVE  /\ photo' \in Seq(Photo) /\ DOMAIN photo' = DOMAIN photo
             /\ \A p \in DOMAIN photo : photoStep(p)
  <2> DEFINE f == [p \in DOMAIN photo |-> [photo[p] EXCEPT !.ack = FALSE]]
  <2>1. photo' = f
    BY <1>3 DEF exchange_mobile_capture_token, opens
  <2>2. \A p \in DOMAIN photo : [photo[p] EXCEPT !.ack = FALSE] \in Photo
    BY <1>0 DEF Photo
  <2>3. f \in [DOMAIN photo -> Photo]
    BY <2>2
  <2>4. \A p \in DOMAIN photo : photoStep(p)
    BY <1>0, <2>1 DEF photoStep, Photo
  <2>5. QED
    BY <1>0, <2>1, <2>3, <2>4, PhotoMap
<1>4. ASSUME NEW p \in DOMAIN photo, upload_refused(p)
      PROVE  /\ photo' \in Seq(Photo) /\ DOMAIN photo' = DOMAIN photo
             /\ \A q \in DOMAIN photo : photoStep(q)
  <2>1. photo' = [photo EXCEPT ![p] = [photo[p] EXCEPT !.st = "refused"]]
    BY <1>0, <1>4 DEF upload_refused
  <2>2. [photo[p] EXCEPT !.st = "refused"] \in Photo
    BY <1>0 DEF Photo, PhotoStates
  <2>3. photo' \in [DOMAIN photo -> Photo]
    BY <1>0, <2>1, <2>2
  <2>4. photoStep(p)
    BY <1>0, <1>4, <2>1 DEF photoStep, Photo, upload_refused
  <2>5. \A q \in DOMAIN photo : q # p => photoStep(q)
    BY <1>0, <2>1 DEF photoStep
  <2>6. QED
    BY <1>0, <2>3, <2>4, <2>5, PhotoMap
<1>5. ASSUME NEW p \in DOMAIN photo, upload_lost(p)
      PROVE  /\ photo' \in Seq(Photo) /\ DOMAIN photo' = DOMAIN photo
             /\ \A q \in DOMAIN photo : photoStep(q)
  <2>1. photo' = [photo EXCEPT ![p] = [photo[p] EXCEPT !.ack = FALSE]]
    BY <1>0, <1>5 DEF upload_lost
  <2>2. [photo[p] EXCEPT !.ack = FALSE] \in Photo
    BY <1>0 DEF Photo
  <2>3. photo' \in [DOMAIN photo -> Photo]
    BY <1>0, <2>1, <2>2
  <2>4. photoStep(p)
    BY <1>0, <2>1 DEF photoStep, Photo
  <2>5. \A q \in DOMAIN photo : q # p => photoStep(q)
    BY <1>0, <2>1 DEF photoStep
  <2>6. QED
    BY <1>0, <2>3, <2>4, <2>5, PhotoMap
<1>7. ASSUME NEW p \in DOMAIN photo, upload_commit(p)
      PROVE  /\ photo' \in Seq(Photo) /\ DOMAIN photo' = DOMAIN photo
             /\ \A q \in DOMAIN photo : photoStep(q)
  <2> DEFINE row(q) == IF q = p THEN [photo[q] EXCEPT !.st = "live"]
                       ELSE IF q \in photo[p].olds /\ live(q)
                         THEN [photo[q] EXCEPT !.st = "expired"] ELSE photo[q]
  <2>1. photo' = [q \in DOMAIN photo |-> row(q)]
    BY <1>7 DEF upload_commit
  <2>2. \A q \in DOMAIN photo : row(q) \in Photo
    BY <1>0 DEF Photo, PhotoStates
  <2>3. photo' \in [DOMAIN photo -> Photo]
    BY <2>1, <2>2
  <2>4. photo[p].st = "read"
    BY <1>7 DEF upload_commit
  <2>5. ASSUME NEW q \in DOMAIN photo PROVE photoStep(q)
    <3>1. photo'[q] = row(q) /\ photo[q] \in Photo
      BY <1>0, <2>1
    <3>2. CASE q = p
      BY <1>7, <2>4, <3>1, <3>2 DEF photoStep, Photo
    <3>3. CASE q # p /\ q \in photo[p].olds /\ live(q)
      <4>1. photo'[q] = [photo[q] EXCEPT !.st = "expired"]
        BY <3>1, <3>3
      <4>2. /\ photo'[q].cap = photo[q].cap /\ photo'[q].type = photo[q].type
            /\ photo'[q].olds = photo[q].olds /\ photo'[q].st = "expired"
        BY <3>1, <4>1 DEF Photo
      <4>3. QED
        BY <1>7, <3>3, <4>2 DEF photoStep
    <3>4. CASE q # p /\ ~(q \in photo[p].olds /\ live(q))
      BY <3>1, <3>4 DEF photoStep
    <3>5. QED
      BY <3>2, <3>3, <3>4
  <2>6. QED
    BY <1>0, <2>3, <2>5, PhotoMap
<1>8. CASE create_submission
  <2> DEFINE row(q) == IF q \in sent
                       THEN [photo[q] EXCEPT !.st = "attached"] ELSE photo[q]
  <2>1. photo' = [q \in DOMAIN photo |-> row(q)]
    BY <1>8 DEF create_submission
  <2>2. \A q \in DOMAIN photo : row(q) \in Photo
    BY <1>0 DEF Photo, PhotoStates
  <2>3. photo' \in [DOMAIN photo -> Photo]
    BY <2>1, <2>2
  <2>5. ASSUME NEW q \in DOMAIN photo PROVE photoStep(q)
    <3>1. photo'[q] = row(q) /\ photo[q] \in Photo
      BY <1>0, <2>1
    <3>2. CASE q \in sent
      <4>1. photo'[q] = [photo[q] EXCEPT !.st = "attached"]
        BY <3>1, <3>2
      <4>2. /\ photo'[q].cap = photo[q].cap /\ photo'[q].type = photo[q].type
            /\ photo'[q].olds = photo[q].olds /\ photo'[q].st = "attached"
        BY <3>1, <4>1 DEF Photo
      <4>3. QED
        BY <1>8, <3>2, <4>2 DEF photoStep
    <3>3. CASE q \notin sent
      BY <3>1, <3>3 DEF photoStep
    <3>4. QED
      BY <3>2, <3>3
  <2>6. \A q \in DOMAIN photo : photoStep(q)
    BY <2>5
  <2>7. /\ photo' \in Seq(Photo) /\ DOMAIN photo' = DOMAIN photo
    BY <1>0, <2>3, PhotoMap
  <2>8. QED
    BY <2>6, <2>7
<1>9. ASSUME NEW r \in Photo, photo' = Append(photo, r)
      PROVE  /\ photo' \in Seq(Photo) /\ DOMAIN photo \subseteq DOMAIN photo'
             /\ DOMAIN photo' \ DOMAIN photo = {Len(photo) + 1}
             /\ photo'[Len(photo) + 1] = r
             /\ \A p \in DOMAIN photo : photoStep(p)
  <2>1. photo' \in Seq(Photo) /\ Len(photo') = Len(photo) + 1
    BY <1>0, <1>9, AppendProperties
  <2>2. DOMAIN photo' = 1 .. Len(photo) + 1
    BY <2>1, LenProperties
  <2>3. photo'[Len(photo) + 1] = r
    BY <1>0, <1>9, AppendProperties
  <2>4. \A p \in DOMAIN photo : photo'[p] = photo[p]
    BY <1>0, <1>9, AppendProperties
  <2>5. QED
    BY <1>0, <2>1, <2>2, <2>3, <2>4 DEF photoStep
<1>10. ASSUME NEW t \in Types, uploadCapture(t), submitted = 0
       PROVE  /\ photo' \in Seq(Photo) /\ DOMAIN photo \subseteq DOMAIN photo'
              /\ \A p \in DOMAIN photo : photoStep(p)
              /\ \A p \in DOMAIN photo' \ DOMAIN photo : photoArrives(p)
  <2> DEFINE r == [cap |-> phone.cap, type |-> t, st |-> "read",
                   olds |-> photosOf(phone.cap, t), ack |-> TRUE]
  <2>1. photo' = Append(photo, r)
    BY <1>10 DEF uploadCapture
  <2>2. photosOf(phone.cap, t) \subseteq Nat
    BY <1>0 DEF photosOf
  <2>3. phone.cap \in Captures \union {0}
    BY DEF CapturesTyped
  <2>4. r \in Photo
    BY <2>2, <2>3 DEF Photo, PhotoStates
  <2>5. QED
    BY <1>9, <1>10, <2>1, <2>4 DEF photoArrives
<1>11. ASSUME NEW t \in Types, ownUpload(t)
       PROVE  /\ photo' \in Seq(Photo) /\ DOMAIN photo \subseteq DOMAIN photo'
              /\ \A p \in DOMAIN photo : photoStep(p)
              /\ \A p \in DOMAIN photo' \ DOMAIN photo : photoArrives(p)
  <2> DEFINE r == [cap |-> 0, type |-> t, st |-> "live",
                   olds |-> {}, ack |-> FALSE]
  <2>1. photo' = Append(photo, r)
    BY <1>11 DEF ownUpload
  <2>2. r \in Photo
    BY DEF Photo, PhotoStates
  <2>3. QED
    BY <1>9, <1>11, <2>1, <2>2 DEF photoArrives
<1>12. QED
  BY <1>2, <1>3, <1>4, <1>5, <1>7, <1>8, <1>10, <1>11, PhotoFrame

\* The form is submitted once, and what was late stays so.
LEMMA SubmittedOnce ==
  ASSUME CallTyped, [FormNext]_vars
  PROVE  /\ CallTyped' /\ submitted' >= submitted
         /\ create_submission => submitted' > 0
         /\ submitted' # submitted => create_submission
         /\ late \subseteq late'
<1>1. /\ CallTyped' /\ submitted' >= submitted
      /\ create_submission => submitted' > 0
      /\ submitted' # submitted => create_submission
  <2>1. CASE create_submission
    BY <2>1 DEF CallTyped, create_submission
  <2>2. CASE rotate_verification_session
    BY <2>2 DEF CallTyped, rotate_verification_session, create_submission
  <2>3. CASE handleSubmit \/ submit_verification
    BY <2>3 DEF CallTyped, handleSubmit, submit_verification, create_submission
  <2>4. CASE /\ submitting' = "no" /\ sent' = {}
             /\ UNCHANGED <<submitted, rotated, since, photo>>
    BY <2>4 DEF CallTyped, create_submission
  <2>5. CASE UNCHANGED <<submitting, sent, submitted, rotated>>
    BY <2>5 DEF CallTyped, create_submission
  <2>6. QED
    BY <2>1, <2>2, <2>3, <2>4, <2>5, CallFrame
<1>2. late \subseteq late'
  BY PhotoFrame DEF ownUpload, create_submission, upload_commit, history
<1>3. QED
  BY <1>1, <1>2

\* Photos keep their form.
LEMMA PhotosStayTyped ==
  CapturesTyped /\ PhotosTyped /\ [FormNext]_vars => PhotosTyped'
<1> SUFFICES ASSUME CapturesTyped, PhotosTyped, [FormNext]_vars
             PROVE  PhotosTyped'
  OBVIOUS
<1>1. /\ photo' \in Seq(Photo)
      /\ DOMAIN photo \subseteq DOMAIN photo'
      /\ \A p \in DOMAIN photo : photoStep(p)
      /\ \A p \in DOMAIN photo' \ DOMAIN photo : photoArrives(p)
  BY PhotoSteps
<1> DEFINE Was == {"live", "expired", "attached"}
<1>2. \A p \in DOMAIN photo : photo[p].st \in Was => photo'[p].st \in Was
  BY <1>1 DEF photoStep
<1>3. ASSUME NEW q \in DOMAIN photo', NEW p \in photo'[q].olds
      PROVE  p \in DOMAIN photo' /\ p < q /\ photo'[p].st \in Was
  <2>1. CASE q \in DOMAIN photo
    <3>1. p \in photo[q].olds
      BY <1>1, <1>3, <2>1 DEF photoStep
    <3>2. QED
      BY <1>1, <1>2, <2>1, <3>1 DEF PhotosTyped
  <2>2. CASE q \notin DOMAIN photo
    <3>1. photoArrives(q)
      BY <1>1, <2>2
    <3>2. \/ photo'[q].olds = {}
          \/ \E t \in Types : photo'[q].olds = photosOf(phone.cap, t)
      <4>1. CASE \E t \in Types :
                  photo'[q] = [cap |-> phone.cap, type |-> t, st |-> "read",
                               olds |-> photosOf(phone.cap, t), ack |-> TRUE]
        BY <4>1
      <4>2. CASE \E t \in Types :
                  photo'[q] = [cap |-> 0, type |-> t, st |-> "live",
                               olds |-> {}, ack |-> FALSE]
        BY <4>2
      <4>3. QED
        BY <3>1, <4>1, <4>2 DEF photoArrives
    <3>3. p \in DOMAIN photo /\ live(p)
      BY <1>3, <3>2 DEF photosOf
    <3>4. p < q
      BY <3>1, <3>3, LenProperties DEF PhotosTyped, photoArrives
    <3>5. QED
      BY <1>1, <1>2, <3>3, <3>4 DEF live
  <2>3. QED
    BY <2>1, <2>2
<1>4. ASSUME NEW p \in DOMAIN photo', photo'[p].st = "attached"
      PROVE  submitted' > 0
  <2>0. submitted' \in {0, 1} /\ submitted \in {0, 1} /\ submitted' >= submitted
    BY SubmittedOnce DEF PhotosTyped, CallTyped
  <2>1. CASE p \in DOMAIN photo
    <3>1. photo[p].st = "attached" \/ create_submission
      BY <1>1, <1>4, <2>1 DEF photoStep
    <3>2. photo[p].st = "attached" => submitted > 0
      BY <2>1 DEF PhotosTyped
    <3>3. QED
      BY <2>0, <3>1, <3>2, SubmittedOnce DEF PhotosTyped
  <2>2. CASE p \notin DOMAIN photo
    BY <1>1, <1>4, <2>2 DEF photoArrives
  <2>3. QED
    BY <2>1, <2>2
<1>5. QED
  BY <1>1, <1>3, <1>4, SubmittedOnce DEF PhotosTyped

\* The photos keep their form in every reachable state.
LEMMA AlwaysPhotos == FormSpec => []PhotosTyped
<1>1. FormInit => PhotosTyped
  <2> SUFFICES ASSUME FormInit PROVE PhotosTyped
    OBVIOUS
  <2>1. photo = <<>> /\ submitted = 0 /\ ~rotated /\ submitting = "no"
    BY DEF FormInit, CaptureInit
  <2>2. photo \in Seq(Photo) /\ DOMAIN photo = {}
    BY <2>1, EmptySeq
  <2>3. QED
    BY <2>1, <2>2 DEF PhotosTyped, CallTyped
<1>2. QED
  BY <1>1, AlwaysCaptures, PhotosStayTyped, PTL DEF FormSpec

-----------------------------------------------------------------------------
(* The card and the slots of the form                                      *)

\* Which steps touch the card and the slots.
LEMMA CardFrame ==
  ASSUME [FormNext]_vars
  PROVE  \/ UNCHANGED <<capture, status, poll, delivered, slot, dropped, removed>>
         \/ create \/ create_answered \/ close_finish \/ poll_read
         \/ poll_apply \/ poll_unauthorized
         \/ \E t \in Types : ownUpload(t) \/ removeEvidence(t)
<1>1. CASE FormStep
  BY <1>1 DEF FormStep, loadConfig, handleSubmit, submit_verification,
     create_submission, rotate_verification_session,
     submit_failed, submit_answered, submit_lost,
     captureVars, card, history
<1>2. CASE CardStep
  BY <1>2 DEF CardStep, createInOtherTab, create_failed, otherTab_answered,
     close, card, history, create_mobile_capture_session,
     revoke_mobile_capture_session
<1>3. CASE PhoneStep
  BY <1>3 DEF PhoneStep, load, uploadCapture, upload_commit,
     upload_refused, upload_lost, finish, card, history, opens,
     exchange_mobile_capture_token, complete_read, complete_mobile_capture
<1>4. CASE \E c \in Captures : due_passes(c)
  BY <1>4 DEF due_passes, card, history
<1>5. CASE UNCHANGED vars
  BY <1>5 DEF vars, captureVars, card, history
<1>6. QED
  BY <1>1, <1>2, <1>3, <1>4, <1>5, StepKinds

\* What a photo is of does not change, and a committed one stays committed.
LEMMA PhotosKeep ==
  ASSUME CapturesTyped, PhotosTyped, [FormNext]_vars, NEW p \in DOMAIN photo
  PROVE  /\ p \in DOMAIN photo'
         /\ photo'[p].cap = photo[p].cap
         /\ photo'[p].type = photo[p].type
         /\ photo'[p].olds = photo[p].olds
         /\ photo[p].st \in {"live", "expired", "attached"} =>
              photo'[p].st \in {"live", "expired", "attached"}
<1>1. DOMAIN photo \subseteq DOMAIN photo' /\ photoStep(p)
  BY PhotoSteps
<1>2. QED
  BY <1>1 DEF photoStep

\* The flags of a row agree with it, and connected stays set.
LEMMA RowsKeep ==
  ASSUME CapturesTyped, RetakesMatch, [FormNext]_vars, NEW c \in Captures
  PROVE  /\ cap[c].connected => cap'[c].connected
         /\ cap[c].completed => cap'[c].completed
         /\ cap'[c].st = "connected" => cap'[c].connected
         /\ cap'[c].completed => cap'[c].st \in {"completed", "revoked"}
<1>1. rowStep(c) /\ cap[c] \in CaptureRow
  BY RowSteps DEF CapturesTyped
<1>2. /\ cap[c].st = "connected" => cap[c].connected
      /\ cap[c].completed => cap[c].st \in {"completed", "revoked"}
  BY DEF RetakesMatch
<1>3. CASE cap'[c] = cap[c]
  BY <1>2, <1>3
<1>4. CASE /\ cap[c].st = "absent"
           /\ cap'[c] = [cap[c] EXCEPT !.st = "pending"]
  BY <1>1, <1>2, <1>4 DEF CaptureRow
<1>5. CASE /\ cap[c].st = "pending"
           /\ cap'[c] = [cap[c] EXCEPT !.st = "connected", !.connected = TRUE]
  BY <1>1, <1>2, <1>5 DEF CaptureRow
<1>6. CASE \/ cap'[c] = [cap[c] EXCEPT !.st = "completed", !.completed = TRUE]
           \/ /\ cap[c].st = "revoked"
              /\ cap'[c] = [cap[c] EXCEPT !.completed = TRUE]
  BY <1>1, <1>2, <1>6 DEF CaptureRow
<1>7. CASE cap'[c] = [cap[c] EXCEPT !.st = "revoked"]
  BY <1>1, <1>2, <1>7 DEF CaptureRow
<1>8. QED
  BY <1>1, <1>3, <1>4, <1>5, <1>6, <1>7 DEF rowStep

\* The photo of a retake, and of a capture card of the form.
LEMMA Arrival ==
  ASSUME CapturesTyped, PhotosTyped, [FormNext]_vars,
         NEW q \in DOMAIN photo' \ DOMAIN photo
  PROVE  \/ /\ photo'[q].cap = 0 /\ photo'[q].olds = {} /\ photo'[q].st = "live"
         \/ /\ photo'[q].cap = phone.cap /\ phone.cap \in Captures
            /\ credentialValid(phone.cap) /\ submitted = 0
            /\ photo'[q].st = "read"
            /\ photo'[q].type \in Types
            /\ photo'[q].olds = photosOf(phone.cap, photo'[q].type)
<1>1. photoArrives(q)
  BY PhotoSteps
<1>2. CASE \E t \in Types :
             /\ uploadCapture(t) /\ submitted = 0
             /\ photo'[q] = [cap |-> phone.cap, type |-> t, st |-> "read",
                             olds |-> photosOf(phone.cap, t), ack |-> TRUE]
  <2>1. PICK t \in Types :
             /\ uploadCapture(t) /\ submitted = 0
             /\ photo'[q] = [cap |-> phone.cap, type |-> t, st |-> "read",
                             olds |-> photosOf(phone.cap, t), ack |-> TRUE]
    BY <1>2
  <2>2. phone.at # "none" /\ credentialValid(phone.cap)
    BY <2>1 DEF uploadCapture, firstCard, retakeCard, captureView
  <2>3. phone.cap \in Captures
    BY <2>2 DEF CapturesTyped, present
  <2>4. QED
    BY <2>1, <2>2, <2>3
<1>3. CASE \E t \in Types :
             photo'[q] = [cap |-> 0, type |-> t, st |-> "live",
                          olds |-> {}, ack |-> FALSE]
  BY <1>3
<1>4. QED
  BY <1>1, <1>2, <1>3 DEF photoArrives

\* Retakes replace photos of their own capture and kind.
LEMMA RetakesStayMatched ==
  CapturesTyped /\ PhotosTyped /\ RetakesMatch /\ [FormNext]_vars => RetakesMatch'
<1> SUFFICES ASSUME CapturesTyped, PhotosTyped, RetakesMatch, [FormNext]_vars
             PROVE  RetakesMatch'
  OBVIOUS
<1>1. ASSUME NEW q \in DOMAIN photo', NEW p \in photo'[q].olds
      PROVE  /\ photo'[q].cap # 0
             /\ photo'[p].cap = photo'[q].cap /\ photo'[p].type = photo'[q].type
  <2>1. CASE q \in DOMAIN photo
    <3>1. p \in photo[q].olds
      BY <1>1, <2>1, PhotosKeep
    <3>2. p \in DOMAIN photo
      BY <2>1, <3>1 DEF PhotosTyped
    <3>3. QED
      BY <2>1, <3>1, <3>2, PhotosKeep DEF RetakesMatch
  <2>2. CASE q \notin DOMAIN photo
    <3>1. /\ photo'[q].cap = phone.cap /\ phone.cap \in Captures
          /\ p \in photosOf(phone.cap, photo'[q].type)
      BY <1>1, <2>2, Arrival
    <3>2. /\ p \in DOMAIN photo /\ photo[p].cap = phone.cap
          /\ photo[p].type = photo'[q].type
      BY <3>1 DEF photosOf
    <3>3. phone.cap # 0
      BY <3>1, CaptureBoundAssumption DEF Captures
    <3>4. QED
      BY <3>1, <3>2, <3>3, PhotosKeep
  <2>3. QED
    BY <2>1, <2>2
<1>2. ASSUME NEW p \in DOMAIN photo', photo'[p].cap # 0
      PROVE  cap'[photo'[p].cap].connected
  <2>1. CASE p \in DOMAIN photo
    <3>1. photo[p].cap = photo'[p].cap
      BY <2>1, PhotosKeep
    <3>2. cap[photo[p].cap].connected
      BY <1>2, <2>1, <3>1 DEF RetakesMatch
    <3>3. photo[p] \in Photo
      BY <2>1, LenProperties, ElementOfSeq DEF PhotosTyped
    <3>4. photo[p].cap \in Captures
      BY <1>2, <3>1, <3>3 DEF Photo
    <3>5. QED
      BY <3>1, <3>2, <3>4, RowsKeep
  <2>2. CASE p \notin DOMAIN photo
    <3>1. /\ photo'[p].cap = phone.cap /\ phone.cap \in Captures
          /\ credentialValid(phone.cap)
      BY <1>2, <2>2, Arrival
    <3>2. cap[phone.cap].connected
      BY <3>1 DEF credentialValid, RetakesMatch
    <3>3. QED
      BY <3>1, <3>2, RowsKeep
  <2>3. QED
    BY <2>1, <2>2
<1>3. QED
  BY <1>1, <1>2, RowsKeep DEF RetakesMatch

\* Retakes match in every reachable state.
LEMMA AlwaysMatch == FormSpec => []RetakesMatch
<1>1. FormInit => RetakesMatch
  <2> SUFFICES ASSUME FormInit PROVE RetakesMatch
    OBVIOUS
  <2>1. DOMAIN photo = {}
    BY DEF FormInit, CaptureInit
  <2>2. \A c \in Captures : cap[c].st = "absent" /\ ~cap[c].completed
    BY DEF FormInit, CaptureInit
  <2>3. QED
    BY <2>1, <2>2 DEF RetakesMatch
<1>2. QED
  BY <1>1, AlwaysCaptures, AlwaysPhotos, RetakesStayMatched, PTL DEF FormSpec

\* A set of photos that is not empty has a newest one.
LEMMA MaxOfSome ==
  ASSUME NEW n \in Nat, NEW S, S \subseteq 1 .. n, S # {}
  PROVE  Max(S) \in S /\ \A y \in S : y <= Max(S)
<1> DEFINE T == {n - p : p \in S}
           R == OpToRel(<, Nat)
<1>1. T \subseteq Nat /\ T # {}
  <2>1. \A p \in S : n - p \in Nat
    OBVIOUS
  <2>2. PICK p : p \in S
    OBVIOUS
  <2>3. n - p \in T
    BY <2>2
  <2>4. QED
    BY <2>1, <2>3
<1>2. IsWellFoundedOn(R, Nat)
  BY NatLessThanWellFounded
<1> HIDE DEF R
<1>3. PICK x \in T : \A y \in T : ~(<<y, x>> \in R)
  <2> HIDE DEF T
  <2> QED BY <1>1, <1>2, WFMin
<1>4. \A y \in T : ~(y < x)
  <2>1. \A y \in T : <<y, x>> \in Nat \X Nat
    BY <1>1, <1>3
  <2>2. QED
    BY <1>3, <2>1 DEF R, OpToRel
<1>5. PICK m \in S : x = n - m
  BY <1>3
<1>6. \A y \in S : m >= y
  BY <1>1, <1>4, <1>5
<1>7. QED
  BY <1>5, <1>6 DEF Max

\* What get_mobile_capture_status answers: the newest live photo of each kind.
LEMMA UploadsNewest ==
  ASSUME PhotosTyped, NEW c
  PROVE  /\ \A p \in uploads(c) :
              /\ p \in DOMAIN photo /\ live(p) /\ photo[p].cap = c
              /\ \A m \in DOMAIN photo :
                   live(m) /\ photo[m].cap = c /\ photo[m].type = photo[p].type
                     => m <= p
         /\ \A t \in Types : photosOf(c, t) # {} =>
              \E p \in uploads(c) : photo[p].type = t
<1>1. photo \in Seq(Photo) /\ Len(photo) \in Nat /\ DOMAIN photo = 1 .. Len(photo)
  BY LenProperties DEF PhotosTyped
<1>2. ASSUME NEW t \in Types, photosOf(c, t) # {}
      PROVE  /\ Max(photosOf(c, t)) \in photosOf(c, t)
             /\ \A m \in photosOf(c, t) : m <= Max(photosOf(c, t))
  <2>1. photosOf(c, t) \subseteq 1 .. Len(photo)
    BY <1>1 DEF photosOf
  <2>2. QED
    BY <1>1, <1>2, <2>1, MaxOfSome
<1>3. ASSUME NEW p \in uploads(c)
      PROVE  /\ p \in DOMAIN photo /\ live(p) /\ photo[p].cap = c
             /\ \A m \in DOMAIN photo :
                  live(m) /\ photo[m].cap = c /\ photo[m].type = photo[p].type
                    => m <= p
  <2>1. PICK t \in Types : photosOf(c, t) # {} /\ p = Max(photosOf(c, t))
    BY <1>3 DEF uploads
  <2>2. p \in photosOf(c, t) /\ \A m \in photosOf(c, t) : m <= p
    BY <1>2, <2>1
  <2>3. QED
    BY <2>2 DEF photosOf
<1>4. ASSUME NEW t \in Types, photosOf(c, t) # {}
      PROVE  \E p \in uploads(c) : photo[p].type = t
  <2>1. Max(photosOf(c, t)) \in uploads(c)
    BY <1>4 DEF uploads
  <2>2. Max(photosOf(c, t)) \in photosOf(c, t)
    BY <1>2, <1>4
  <2>3. QED
    BY <2>1, <2>2 DEF photosOf
<1>5. QED
  BY <1>3, <1>4

\* What an answer puts into the slots.
LEMMA Delivery ==
  ASSUME SlotsTyped, poll_apply, NEW t \in Types
  PROVE  \/ /\ slot'[t] \in fetched \ delivered
            /\ photo[slot'[t]].type = t
         \/ /\ slot'[t] = slot[t]
            /\ \A p \in fetched : photo[p].type = t => p \in delivered
<1>1. fetched = poll.uploads
  BY DEF poll_apply, fetched
<1> DEFINE new == poll.uploads \ delivered
<1>2. slot'[t] = IF \E p \in new : photo[p].type = t
                   THEN CHOOSE p \in new : photo[p].type = t ELSE slot[t]
  BY DEF poll_apply, deliver
<1>3. CASE \E p \in new : photo[p].type = t
  BY <1>1, <1>2, <1>3
<1>4. CASE ~\E p \in new : photo[p].type = t
  BY <1>1, <1>2, <1>4
<1>5. QED
  BY <1>3, <1>4

\* The slots keep photos of their kind.
LEMMA SlotsStayTyped ==
  /\ CapturesTyped /\ PhotosTyped /\ PollTyped /\ SlotsTyped
  /\ [FormNext]_vars
  => SlotsTyped'
<1> SUFFICES ASSUME CapturesTyped, PhotosTyped, PollTyped, SlotsTyped,
                    [FormNext]_vars
             PROVE  SlotsTyped'
  OBVIOUS
<1>1. \A p \in DOMAIN photo : p \in DOMAIN photo' /\ photo'[p].type = photo[p].type
  BY PhotosKeep
<1>2. \A t \in Types : slot[t] \in DOMAIN photo \union {0}
  BY DEF SlotsTyped
<1>3. CASE UNCHANGED <<slot, removed>>
  BY <1>1, <1>3 DEF SlotsTyped
<1>4. CASE poll_apply
  <2>1. UNCHANGED <<photo, removed>> /\ DOMAIN slot' = Types
    BY <1>4 DEF poll_apply, deliver, server, history
  <2>2. ASSUME NEW t \in Types
        PROVE  /\ slot'[t] \in DOMAIN photo \union {0}
               /\ slot'[t] # 0 => photo[slot'[t]].type = t
    BY <1>2, <1>4, Delivery DEF PollTyped, SlotsTyped
  <2>3. slot' = [t \in Types |-> slot'[t]]
    BY <1>4 DEF poll_apply, deliver
  <2>4. slot' \in [Types -> DOMAIN photo \union {0}]
    BY <2>2, <2>3
  <2>5. QED
    BY <2>1, <2>2, <2>4 DEF SlotsTyped
<1>5. ASSUME NEW t \in Types, ownUpload(t)
      PROVE  SlotsTyped'
  <2>1. photo \in Seq(Photo) /\ Len(photo) \in Nat /\ DOMAIN photo = 1 .. Len(photo)
    BY LenProperties DEF PhotosTyped
  <2> DEFINE r == [cap |-> 0, type |-> t, st |-> "live",
                   olds |-> {}, ack |-> FALSE]
  <2>2. photo' = Append(photo, r) /\ r \in Photo
    BY <1>5 DEF ownUpload, Photo, PhotoStates
  <2>3. photo'[Len(photo) + 1] = r /\ Len(photo) + 1 \in DOMAIN photo'
    BY <2>1, <2>2, AppendProperties, LenProperties
  <2>4. photo'[Len(photo) + 1].type = t
    BY <2>3
  <2>5. slot' = [slot EXCEPT ![t] = Len(photo) + 1] /\ UNCHANGED removed
    BY <1>5 DEF ownUpload, history
  <2> HIDE DEF r
  <2>6. slot' \in [Types -> DOMAIN photo' \union {0}]
    BY <1>1, <1>2, <2>3, <2>5 DEF SlotsTyped
  <2>7. \A u \in Types : slot'[u] # 0 => photo'[slot'[u]].type = u
    BY <1>1, <1>2, <2>4, <2>5 DEF SlotsTyped
  <2>8. QED
    BY <1>1, <2>5, <2>6, <2>7 DEF SlotsTyped
<1>6. ASSUME NEW t \in Types, removeEvidence(t)
      PROVE  SlotsTyped'
  <2>1. UNCHANGED photo
    BY <1>6 DEF removeEvidence, server
  <2>2. /\ slot[t] # 0 /\ removed' = removed \union {slot[t]}
        /\ slot' = [slot EXCEPT ![t] = 0]
    BY <1>6 DEF removeEvidence
  <2>3. QED
    BY <1>2, <2>1, <2>2 DEF SlotsTyped
<1>7. QED
  BY <1>3, <1>4, <1>5, <1>6, CardFrame DEF create, create_answered,
     close_finish, poll_read, poll_unauthorized, history

\* Answers keep their form.
LEMMA PollStaysTyped ==
  CapturesTyped /\ PhotosTyped /\ PollTyped /\ [FormNext]_vars => PollTyped'
<1> SUFFICES ASSUME CapturesTyped, PhotosTyped, PollTyped, [FormNext]_vars
             PROVE  PollTyped'
  OBVIOUS
<1> DEFINE Was == {"live", "expired", "attached"}
<1>1. \A p \in DOMAIN photo :
        /\ p \in DOMAIN photo'
        /\ photo'[p].type = photo[p].type /\ photo'[p].cap = photo[p].cap
        /\ photo[p].st \in Was => photo'[p].st \in Was
  BY PhotosKeep
<1>2. present \subseteq present'
  BY PresentGrows
<1>3. \A p \in delivered \union fetched : p \in DOMAIN photo /\ photo[p].st \in Was
  BY DEF PollTyped
<1>4. \A p \in delivered \union fetched : p \in DOMAIN photo' /\ photo'[p].st \in Was
  BY <1>1, <1>3
<1>5. ASSUME UNCHANGED <<poll, capture>>, dropped' = dropped,
             delivered' \subseteq delivered
      PROVE  PollTyped'
  <2>1. fetched' = fetched
    BY <1>5 DEF fetched
  <2>2. \A p \in fetched : photo'[p].cap = capture'
    BY <1>1, <1>3, <1>5 DEF PollTyped
  <2>3. \A p, q \in fetched : photo'[p].type = photo'[q].type => p = q
    BY <1>1, <1>3 DEF PollTyped
  <2>4. QED
    BY <1>2, <1>4, <1>5, <2>1, <2>2, <2>3 DEF PollTyped
<1>6. ASSUME poll'.at \in {"off", "asked"}, capture' = 0 => poll'.at = "off",
             dropped' \subseteq dropped \union ({capture} \ {0}),
             delivered' \subseteq delivered \union fetched
      PROVE  PollTyped'
  <2>1. fetched' = {}
    BY <1>6 DEF fetched
  <2>2. dropped' \subseteq present'
    BY <1>2, <1>6 DEF PollTyped, CapturesTyped
  <2>3. QED
    BY <1>4, <1>6, <2>1, <2>2 DEF PollTyped
<1>7. CASE create_answered
  BY <1>6, <1>7 DEF create_answered, show
<1>8. CASE close_finish
  BY <1>6, <1>8 DEF close_finish, show, resetLocalCaptureState
<1>9. CASE poll_read
  <2>1. UNCHANGED <<photo, capture, delivered, dropped>> /\ poll'.at = "answered"
        /\ fetched' = uploads(capture)
    BY <1>9 DEF poll_read, server, history, fetched
  <2>2. capture # 0
    BY <1>9 DEF poll_read, PollTyped
  <2>3. \A p \in uploads(capture) :
          /\ p \in DOMAIN photo /\ photo[p].st = "live" /\ photo[p].cap = capture
          /\ \A m \in uploads(capture) : photo[m].type = photo[p].type => m <= p
    BY UploadsNewest DEF live
  <2>4. \A p \in uploads(capture) : p \in Nat
    BY <2>3, LenProperties DEF PhotosTyped
  <2>5. \A p, q \in uploads(capture) : photo[p].type = photo[q].type => p = q
    <3> SUFFICES ASSUME NEW p \in uploads(capture), NEW q \in uploads(capture),
                        photo[p].type = photo[q].type
                 PROVE  p = q
      OBVIOUS
    <3>1. p <= q /\ q <= p
      BY <2>3
    <3>2. QED
      BY <2>4, <3>1
  <2>6. QED
    BY <1>2, <1>4, <2>1, <2>2, <2>3, <2>5 DEF PollTyped
<1>10. CASE poll_apply
  <2>1. fetched = poll.uploads /\ capture # 0
    BY <1>10 DEF poll_apply, fetched, PollTyped
  <2>2. QED
    BY <1>6, <1>10, <2>1 DEF poll_apply, history
<1>11. CASE poll_unauthorized
  BY <1>6, <1>11 DEF poll_unauthorized, history
<1>12. CASE create
  BY <1>5, <1>12 DEF create, resetLocalCaptureState, history
<1>13. QED
  BY <1>5, <1>7, <1>8, <1>9, <1>10, <1>11, <1>12, CardFrame
     DEF ownUpload, removeEvidence, card, history

\* Slots and answers keep their form in every reachable state.
LEMMA AlwaysCard == FormSpec => [](SlotsTyped /\ PollTyped)
<1>1. FormInit => SlotsTyped /\ PollTyped
  <2> SUFFICES ASSUME FormInit PROVE SlotsTyped /\ PollTyped
    OBVIOUS
  <2>1. /\ slot = [t \in Types |-> 0] /\ removed = {} /\ dropped = {}
        /\ poll = [at |-> "off"] /\ delivered = {}
    BY DEF FormInit, CaptureInit
  <2>2. fetched = {}
    BY <2>1 DEF fetched
  <2>3. QED
    BY <2>1, <2>2 DEF SlotsTyped, PollTyped
<1>2. CapturesTyped /\ PhotosTyped /\ (SlotsTyped /\ PollTyped) /\ [FormNext]_vars
        => (SlotsTyped /\ PollTyped)'
  BY SlotsStayTyped, PollStaysTyped
<1>3. QED
  BY <1>1, <1>2, AlwaysCaptures, AlwaysPhotos, PTL DEF FormSpec

-----------------------------------------------------------------------------
(* The submission                                                          *)

\* A photo that a step commits is recorded when the submission was checked.
LEMMA CommitRecorded ==
  ASSUME CapturesTyped, PhotosTyped, [FormNext]_vars, NEW q \in DOMAIN photo,
         upload_commit(q), submitting = "checked" \/ submitted > 0
  PROVE  /\ q \in since'
         /\ UNCHANGED <<submitting, sent, submitted>>
<1>1. photo[q].st = "read" /\ photo'[q].st = "live"
  <2>1. photo[q] \in Photo
    BY LenProperties, ElementOfSeq DEF PhotosTyped
  <2>2. photo'[q] = [photo[q] EXCEPT !.st = "live"] /\ photo[q].st = "read"
    BY DEF upload_commit
  <2>3. QED
    BY <2>1, <2>2 DEF Photo
<1>2. photo' # photo
  BY <1>1
<1>3. ~create_submission
  <2>1. ASSUME create_submission PROVE FALSE
    <3>1. photo'[q].st = "attached" \/ photo'[q] = photo[q]
      <4>1. photo[q] \in Photo
        BY LenProperties, ElementOfSeq DEF PhotosTyped
      <4>2. QED
        BY <2>1, <4>1 DEF create_submission, Photo
    <3>2. QED
      BY <1>1, <3>1
  <2>2. QED
    BY <2>1
<1>4. ~handleSubmit /\ ~submit_verification /\ ~rotate_verification_session
  BY <1>2 DEF handleSubmit, submit_verification, rotate_verification_session,
     captureVars, server
<1>5. recordCommits /\ UNCHANGED <<submitting, sent, submitted>>
  <2>1. CASE recordCommits
    BY <1>2, <1>3, <1>4, <2>1, CallFrame
  <2>2. CASE ~recordCommits
    <3>0. ASSUME NEW t \in Types, ownUpload(t) PROVE FALSE
      <4> DEFINE r == [cap |-> 0, type |-> t, st |-> "live",
                       olds |-> {}, ack |-> FALSE]
      <4>1. photo' = Append(photo, r) /\ r \in Photo /\ photo \in Seq(Photo)
        BY <3>0 DEF ownUpload, Photo, PhotoStates, PhotosTyped
      <4>2. photo'[q] = photo[q]
        BY <4>1, AppendProperties, LenProperties
      <4>3. QED
        BY <1>1, <4>2
    <3>1. CASE FormStep
      BY <1>2, <1>3, <1>4, <3>0, <3>1 DEF FormStep, loadConfig, removeEvidence,
         submit_failed, submit_answered, submit_lost, poll_unauthorized,
         captureVars, server
    <3>2. QED
      BY <1>2, <2>2, <3>1 DEF FormNext, captureStep, admittedBefore, vars,
         captureVars, server
  <2>3. QED
    BY <2>1, <2>2
<1>6. QED
  BY <1>1, <1>5 DEF recordCommits, checked, committing

\* A photo that is committed already, or is now by a retake.
LEMMA LiveNow ==
  ASSUME CapturesTyped, PhotosTyped, [FormNext]_vars, NEW q \in DOMAIN photo',
         NEW p \in photo'[q].olds, photo'[q].st = "live"
  PROVE  /\ q \in DOMAIN photo /\ p \in DOMAIN photo /\ p \in photo[q].olds
         /\ photo[p].st \in {"live", "expired", "attached"}
         /\ live(q) \/ upload_commit(q)
<1>1. /\ \A r \in DOMAIN photo : photoStep(r)
      /\ \A r \in DOMAIN photo' \ DOMAIN photo : photoArrives(r)
  BY PhotoSteps
<1>2. q \in DOMAIN photo
  BY Arrival
<1>3. p \in photo[q].olds
  BY <1>2, PhotosKeep
<1>4. live(q) \/ upload_commit(q)
  BY <1>1, <1>2 DEF photoStep, live
<1>5. QED
  BY <1>2, <1>3, <1>4 DEF PhotosTyped

\* A commit expires what it replaces, until the submission was checked.
LEMMA ReplacedStays ==
  CapturesTyped /\ PhotosTyped /\ Replaced /\ [FormNext]_vars => Replaced'
<1> SUFFICES ASSUME CapturesTyped, PhotosTyped, Replaced, [FormNext]_vars
             PROVE  Replaced'
  OBVIOUS
<1>0. /\ CallTyped /\ CallTyped' /\ submitted' >= submitted
      /\ submitted' # submitted => create_submission
  BY SubmittedOnce DEF PhotosTyped
<1>1. \A r \in DOMAIN photo : photoStep(r) /\ photo[r] \in Photo
  BY PhotoSteps, LenProperties, ElementOfSeq DEF PhotosTyped
<1>2. \/ submit_verification \/ since \subseteq since'
  BY CallFrame DEF recordCommits, handleSubmit, create_submission,
     rotate_verification_session
<1>3. ASSUME NEW p \in DOMAIN photo', NEW q \in DOMAIN photo',
             photo'[q].st = "live", p \in photo'[q].olds,
             q \notin since' \/ submitted' = 0
      PROVE  photo'[p].st = "expired"
  <2>1. /\ q \in DOMAIN photo /\ p \in DOMAIN photo /\ p \in photo[q].olds
        /\ photo[p].st \in {"live", "expired", "attached"}
        /\ live(q) \/ upload_commit(q)
    BY <1>3, LiveNow
  <2>2. ASSUME photo[p].st = "expired" PROVE photo'[p].st = "expired"
    <3>1. CASE p \in sent /\ create_submission
      <4>1. submitting = "checked" /\ submitted' > 0 /\ since' = since
        BY <1>0, <3>1 DEF create_submission, CallTyped
      <4>2. ~upload_commit(q)
        <5>1. UNCHANGED <<submitting>> \/ ~upload_commit(q)
          BY <2>1, <4>1, CommitRecorded
        <5>2. QED
          BY <3>1, <4>1, <5>1 DEF create_submission
      <4>3. q \in since
        BY <2>1, <3>1, <4>1, <4>2 DEF Replaced
      <4>4. QED
        BY <1>0, <1>3, <4>1, <4>3 DEF CallTyped
    <3>2. CASE ~(p \in sent /\ create_submission)
      BY <1>1, <2>1, <2>2, <3>2 DEF photoStep, live
    <3>3. QED
      BY <3>1, <3>2
  <2>3. CASE live(q)
    <3>1. q \notin since \/ submitted = 0
      <4>1. CASE submit_verification
        BY <4>1 DEF submit_verification
      <4>2. CASE ~submit_verification
        BY <1>0, <1>2, <1>3, <4>2 DEF CallTyped
      <4>3. QED
        BY <4>1, <4>2
    <3>2. photo[p].st = "expired"
      BY <2>1, <2>3, <3>1 DEF Replaced
    <3>3. QED
      BY <2>2, <3>2
  <2>4. CASE upload_commit(q)
    <3>1. submitted = 0
      BY <1>0, <1>3, <2>1, <2>4, CommitRecorded DEF CallTyped
    <3>2. photo[p].st # "attached"
      BY <2>1, <3>1 DEF PhotosTyped
    <3>3. CASE live(p)
      <4>1. p # q
        BY <2>4, <3>3 DEF upload_commit, live
      <4>2. photo'[p] = [photo[p] EXCEPT !.st = "expired"]
        BY <2>1, <2>4, <3>3, <4>1 DEF upload_commit
      <4>3. QED
        BY <1>1, <2>1, <4>2 DEF Photo
    <3>4. QED
      BY <2>1, <2>2, <3>2, <3>3 DEF live
  <2>5. QED
    BY <2>1, <2>3, <2>4
<1>4. ASSUME submitting' = "checked", NEW p \in sent', NEW q \in DOMAIN photo',
             photo'[q].st = "live", p \in photo'[q].olds
      PROVE  q \in since'
  <2>1. /\ q \in DOMAIN photo /\ p \in DOMAIN photo /\ p \in photo[q].olds
        /\ live(q) \/ upload_commit(q)
    BY <1>4, LiveNow
  <2>2. CASE submit_verification
    <3>1. /\ UNCHANGED photo /\ p \in sent /\ submitted = 0
          /\ \A r \in sent : live(r)
      BY <1>4, <2>2 DEF submit_verification, captureVars, server
    <3>2. live(q) /\ live(p)
      BY <1>4, <3>1 DEF live
    <3>3. QED
      BY <2>1, <3>1, <3>2 DEF Replaced, live
  <2>3. CASE ~submit_verification
    <3>1. submitting = "checked" /\ sent' = sent
      BY <1>4, <2>3, CallFrame DEF handleSubmit, create_submission,
         rotate_verification_session
    <3>2. CASE live(q)
      BY <1>2, <1>4, <2>1, <2>3, <3>1, <3>2 DEF Replaced
    <3>3. CASE upload_commit(q)
      BY <2>1, <3>1, <3>3, CommitRecorded
    <3>4. QED
      BY <2>1, <3>2, <3>3
  <2>4. QED
    BY <2>2, <2>3
<1>5. QED
  BY <1>3, <1>4 DEF Replaced, live

\* What was sent, and what was submitted, has a photo of every kind.
LEMMA EveryKindStays ==
  /\ CapturesTyped /\ PhotosTyped /\ SlotsTyped /\ EveryKind
  /\ [FormNext]_vars
  => EveryKind'
<1> SUFFICES ASSUME CapturesTyped, PhotosTyped, SlotsTyped, EveryKind,
                    [FormNext]_vars
             PROVE  EveryKind'
  OBVIOUS
<1>0. /\ CallTyped /\ CallTyped'
      /\ submitted' # submitted => create_submission
  BY SubmittedOnce DEF PhotosTyped
<1>1. \A p \in DOMAIN photo :
        p \in DOMAIN photo' /\ photo'[p].type = photo[p].type
  BY PhotosKeep
<1>2. ASSUME submitting' \in {"sent", "checked"}, NEW t \in Types
      PROVE  \E p \in sent' : p \in DOMAIN photo' /\ photo'[p].type = t
  <2>1. CASE handleSubmit
    <3>1. slot[t] # 0 /\ sent' = evidenceIds /\ UNCHANGED photo
      BY <2>1 DEF handleSubmit, validateRequiredFields, captureVars, server
    <3>2. /\ slot[t] \in evidenceIds /\ slot[t] \in DOMAIN photo
          /\ photo[slot[t]].type = t
      BY <3>1 DEF SlotsTyped, evidenceIds
    <3>3. QED
      BY <3>1, <3>2
  <2>2. CASE ~handleSubmit
    <3>1. submitting \in {"sent", "checked"} /\ sent' = sent
      BY <1>2, <2>2, CallFrame DEF submit_verification, create_submission,
         rotate_verification_session
    <3>2. QED
      BY <1>1, <3>1 DEF EveryKind
  <2>3. QED
    BY <2>1, <2>2
<1>3. ASSUME submitted' > 0, NEW t \in Types
      PROVE  \E p \in DOMAIN photo' :
               photo'[p].type = t /\ photo'[p].st = "attached"
  <2>1. CASE create_submission
    <3>1. PICK p \in sent : p \in DOMAIN photo /\ photo[p].type = t
      BY <2>1 DEF create_submission, EveryKind
    <3>2. photo'[p] = [photo[p] EXCEPT !.st = "attached"]
      BY <2>1, <3>1 DEF create_submission
    <3>3. photo[p] \in Photo
      BY <3>1, LenProperties, ElementOfSeq DEF PhotosTyped
    <3>4. photo'[p].st = "attached"
      BY <3>2, <3>3 DEF Photo
    <3>5. QED
      BY <1>1, <3>1, <3>4
  <2>2. CASE ~create_submission
    <3>1. submitted > 0
      BY <1>0, <1>3, <2>2
    <3>2. PICK p \in DOMAIN photo :
            photo[p].type = t /\ photo[p].st = "attached"
      BY <3>1 DEF EveryKind
    <3>3. photo'[p].st = "attached"
      BY <2>2, <3>2, PhotoSteps DEF photoStep, live
    <3>4. QED
      BY <1>1, <3>2, <3>3
  <2>3. QED
    BY <2>1, <2>2
<1>4. QED
  BY <1>2, <1>3 DEF EveryKind

\* A submission has a photo of every required kind, which only the form asks
\* for; and a photo that a retake has replaced is part of it only when the
\* retake was committed between the check of the submission, which takes live
\* photos only, and its own commit, or after it.
THEOREM SubmissionIsSound == FormSpec => []SubmissionSound
<1>1. FormInit => Replaced /\ EveryKind
  <2> SUFFICES ASSUME FormInit PROVE Replaced /\ EveryKind
    OBVIOUS
  <2>1. DOMAIN photo = {} /\ submitting = "no" /\ submitted = 0
    BY DEF FormInit, CaptureInit
  <2>2. QED
    BY <2>1 DEF Replaced, EveryKind
<1>2. Replaced /\ EveryKind => SubmissionSound
  <2> SUFFICES ASSUME Replaced, EveryKind PROVE SubmissionSound
    OBVIOUS
  <2>1. \A p, q \in DOMAIN photo :
          photo[p].st = "attached" /\ live(q) /\ p \in photo[q].olds
            => q \in since
    BY DEF Replaced
  <2>2. QED
    BY <2>1 DEF EveryKind, SubmissionSound
<1>3. QED
  BY <1>1, <1>2, AlwaysCaptures, AlwaysPhotos, AlwaysCard, ReplacedStays,
     EveryKindStays, PTL DEF FormSpec

-----------------------------------------------------------------------------
(* What the form holds                                                     *)

\* What is placed are photos.
LEMMA PlacedPhotos ==
  ASSUME SlotsTyped
  PROVE  /\ placed \subseteq DOMAIN photo
         /\ \A t \in Types : slot[t] # 0 => slot[t] \in evidenceIds
         /\ \A p \in evidenceIds : \E t \in Types : p = slot[t] /\ p # 0
BY DEF SlotsTyped, placed, evidenceIds

\* What a step adds to the form.
LEMMA PlacedGrows ==
  ASSUME CapturesTyped, PhotosTyped, SlotsTyped, PollTyped, [FormNext]_vars
  PROVE  \/ placed' = placed
         \/ poll_apply /\ placed' \subseteq placed \union fetched
         \/ \E t \in Types : removeEvidence(t) /\ placed' \subseteq placed
         \/ /\ \E t \in Types : ownUpload(t)
            /\ \A p \in placed' : p \in placed \/ photo'[p].cap = 0
<1>1. CASE UNCHANGED <<slot, removed>>
  BY <1>1 DEF placed, evidenceIds
<1>2. CASE poll_apply
  <2>1. removed' = removed
    BY <1>2 DEF poll_apply, history
  <2>2. ASSUME NEW p \in evidenceIds'
        PROVE  p \in evidenceIds \union fetched
    <3>1. PICK t \in Types : p = slot'[t] /\ p # 0
      BY <2>2 DEF evidenceIds
    <3>2. QED
      BY <1>2, <3>1, Delivery, PlacedPhotos
  <2>3. QED
    BY <1>2, <2>1, <2>2 DEF placed
<1>3. ASSUME NEW t \in Types, removeEvidence(t)
      PROVE  placed' \subseteq placed
  <2>1. /\ slot[t] # 0 /\ removed' = removed \union {slot[t]}
        /\ slot' = [slot EXCEPT ![t] = 0]
    BY <1>3 DEF removeEvidence
  <2>2. QED
    BY <2>1 DEF placed, evidenceIds, SlotsTyped
<1>4. ASSUME NEW t \in Types, ownUpload(t)
      PROVE  \A p \in placed' : p \in placed \/ photo'[p].cap = 0
  <2>1. photo \in Seq(Photo) /\ Len(photo) \in Nat
    BY LenProperties DEF PhotosTyped
  <2> DEFINE r == [cap |-> 0, type |-> t, st |-> "live",
                   olds |-> {}, ack |-> FALSE]
  <2>2. photo' = Append(photo, r) /\ r \in Photo
    BY <1>4 DEF ownUpload, Photo, PhotoStates
  <2>3. photo'[Len(photo) + 1] = r
    BY <2>1, <2>2, AppendProperties
  <2>4. photo'[Len(photo) + 1].cap = 0
    BY <2>3
  <2>5. slot' = [slot EXCEPT ![t] = Len(photo) + 1] /\ UNCHANGED removed
    BY <1>4 DEF ownUpload, history
  <2> HIDE DEF r
  <2>6. \A p \in evidenceIds' : p \in evidenceIds \/ p = Len(photo) + 1
    BY <2>5 DEF evidenceIds, SlotsTyped
  <2>7. QED
    BY <2>4, <2>5, <2>6 DEF placed
<1>5. QED
  BY <1>1, <1>2, <1>3, <1>4, CardFrame DEF create, create_answered,
     close_finish, poll_read, poll_unauthorized, history

\* A creation that is done has a capture of its own.
LEMMA NewCaptureUnknown ==
  ASSUME CapturesTyped, PollTyped, PlacedByCard, [FormNext]_vars,
         creating'["page"].at = "done"
  PROVE  creating'["page"].id \notin dropped' \union {capture'}
<1>0. creating \in [{"page", "other"} -> Creation]
  BY DEF CapturesTyped
<1>1. CASE create_mobile_capture_session("page")
  <2>1. creating'["page"].id = nextCapture
    BY <1>0, <1>1 DEF create_mobile_capture_session
  <2>2. UNCHANGED <<capture, dropped>>
    BY <1>1 DEF create_mobile_capture_session, history
  <2>3. nextCapture \in Captures /\ nextCapture \notin present
    BY <1>1, NextCapture, CaptureBoundAssumption
       DEF create_mobile_capture_session, Captures
  <2>4. nextCapture # 0
    BY <2>3, CaptureBoundAssumption DEF Captures
  <2>5. dropped \subseteq present /\ capture \in present \union {0}
    BY DEF PollTyped, CapturesTyped
  <2>6. QED
    BY <2>1, <2>2, <2>3, <2>4, <2>5
<1>2. CASE creating'["page"] = creating["page"]
  <2>1. /\ creating["page"].at = "done"
        /\ creating["page"].id \notin dropped \union {capture}
        /\ creating["page"].id # 0
    BY <1>2, CaptureBoundAssumption
       DEF PlacedByCard, CapturesTyped, present, Captures
  <2>2. ~create_answered
    BY <1>0, <1>2, <2>1 DEF create_answered, Idle
  <2>3. CASE UNCHANGED <<capture, dropped>>
    BY <1>2, <2>1, <2>3
  <2>4. CASE close_finish
    BY <1>2, <2>1, <2>4 DEF close_finish, show
  <2>5. QED
    BY <2>2, <2>3, <2>4, CardFrame DEF create, poll_read, poll_apply,
       poll_unauthorized, ownUpload, removeEvidence, card, history
<1>3. CASE creating'["page"].at # "done"
  BY <1>3
<1>4. ASSUME NEW x \in {"page", "other"}, create_mobile_capture_session(x)
      PROVE  create_mobile_capture_session("page") \/ creating'["page"] = creating["page"]
  BY <1>0, <1>4 DEF create_mobile_capture_session
<1>5. CASE create \/ createInOtherTab
  BY <1>0, <1>2, <1>3, <1>5 DEF create, createInOtherTab, create_read
<1>6. ASSUME NEW x \in {"page", "other"}, creating' = [creating EXCEPT ![x] = Idle]
      PROVE  creating'["page"] = creating["page"] \/ creating'["page"].at # "done"
  BY <1>0, <1>6 DEF Idle
<1>7. QED
  BY <1>1, <1>2, <1>3, <1>4, <1>5, <1>6, CreatingFrame

\* A capture is shown once, and its photos reach the form while it is shown.
LEMMA PlacedStays ==
  /\ CapturesTyped /\ PhotosTyped /\ RetakesMatch /\ SlotsTyped /\ PollTyped
  /\ PlacedByCard /\ [FormNext]_vars
  => PlacedByCard'
<1> SUFFICES ASSUME CapturesTyped, PhotosTyped, RetakesMatch, SlotsTyped,
                    PollTyped, PlacedByCard, [FormNext]_vars
             PROVE  PlacedByCard'
  OBVIOUS
<1>0. 0 \notin DOMAIN photo /\ 0 \notin Captures
  BY LenProperties, CaptureBoundAssumption DEF PhotosTyped, Captures
<1>1. \A p \in DOMAIN photo : photo'[p].cap = photo[p].cap
  BY PhotosKeep
<1>2. placed \subseteq DOMAIN photo /\ fetched \subseteq DOMAIN photo
  BY PlacedPhotos DEF PollTyped
<1>3. /\ capture \notin dropped
      /\ \A p \in placed : photo[p].cap # 0 =>
           photo[p].cap \in dropped \/ (photo[p].cap = capture /\ p \in delivered)
      /\ \A t \in Types : slot[t] \notin removed
  BY DEF PlacedByCard
<1>4. ASSUME NEW p \in placed, photo[p].cap = capture, capture # 0
      PROVE  status.connected /\ (poll.at = "answered" => poll.connected)
  BY <1>4 DEF PlacedByCard
<1>5. fetched # {} => poll.connected
  BY DEF PlacedByCard
<1>6. 0 \notin dropped
  BY <1>0 DEF PollTyped, present
<1>7. creating'["page"].at = "done" =>
        creating'["page"].id \notin dropped' \union {capture'}
  BY NewCaptureUnknown
<1>8. ASSUME UNCHANGED <<capture, status, poll, delivered, slot, dropped, removed>>
      PROVE  PlacedByCard'
  <2>1. placed' = placed /\ fetched' = fetched
    BY <1>8 DEF placed, evidenceIds, fetched
  <2>2. \A p \in placed' : photo'[p].cap # 0 =>
          photo'[p].cap \in dropped' \/ (photo'[p].cap = capture' /\ p \in delivered')
    BY <1>1, <1>2, <1>3, <1>8, <2>1
  <2>3. \A p \in placed' : photo'[p].cap = capture' /\ capture' # 0 =>
          status'.connected /\ (poll'.at = "answered" => poll'.connected)
    BY <1>1, <1>2, <1>4, <1>8, <2>1
  <2>4. fetched' # {} => poll'.connected
    BY <1>5, <1>8, <2>1
  <2>5. QED
    BY <1>3, <1>7, <1>8, <2>2, <2>3, <2>4 DEF PlacedByCard
<1>9. CASE create
  <2>1. UNCHANGED <<photo, capture, poll, slot, dropped, removed>>
    BY <1>9 DEF create, server, history
  <2>2. placed' = placed /\ fetched' = fetched
    BY <2>1 DEF placed, evidenceIds, fetched
  <2>3. capture = 0 \/ ~status.connected
    BY <1>9 DEF create, startView, generateOffered, connectedShown
  <2>4. ASSUME NEW p \in placed, photo[p].cap # 0
        PROVE  photo[p].cap \in dropped
    BY <1>3, <1>4, <2>3, <2>4
  <2>5. \A p \in placed : ~(photo[p].cap = capture /\ capture # 0)
    BY <1>3, <2>4
  <2>6. fetched' # {} => poll'.connected
    BY <1>5, <2>1, <2>2
  <2>7. QED
    BY <1>3, <1>7, <2>1, <2>2, <2>4, <2>5, <2>6 DEF PlacedByCard
<1>10. ASSUME NEW c, show(c), c \notin dropped, c = 0 \/ c # capture,
              UNCHANGED <<photo, slot, removed>>,
              \A p \in placed : photo[p].cap # c \/ c = 0
       PROVE  PlacedByCard'
  <2>1. placed' = placed
    BY <1>10 DEF placed, evidenceIds
  <2>2. /\ capture' = c /\ poll'.at \in {"off", "asked"}
        /\ dropped' = dropped \union ({capture} \ {0, c})
    BY <1>10 DEF show
  <2>3. fetched' = {}
    BY <2>2 DEF fetched
  <2>4. capture' \notin dropped'
    BY <1>10, <2>2
  <2>5. \A p \in placed : photo[p].cap # 0 => photo[p].cap \in dropped'
    BY <1>3, <1>10, <2>2
  <2>6. \A p \in placed : ~(photo[p].cap = capture' /\ capture' # 0)
    BY <1>10, <2>2
  <2>7. QED
    BY <1>3, <1>7, <1>10, <2>1, <2>3, <2>4, <2>5, <2>6 DEF PlacedByCard
<1>11. CASE create_answered
  <2> DEFINE c == creating["page"].id
  <2>1. show(c) /\ UNCHANGED <<photo, slot, removed>>
    BY <1>11 DEF create_answered, server
  <2>2. c \notin dropped /\ c # capture
    BY <1>11 DEF create_answered, PlacedByCard
  <2>3. \A p \in placed : photo[p].cap # c \/ c = 0
    BY <1>3, <2>2
  <2>4. QED
    BY <1>10, <2>1, <2>2, <2>3
<1>12. CASE close_finish
  <2>1. show(0) /\ UNCHANGED <<photo, slot, removed>>
    BY <1>12 DEF close_finish, server
  <2>2. QED
    BY <1>6, <1>10, <2>1
<1>13. CASE poll_read
  <2>1. UNCHANGED <<photo, capture, status, delivered, slot, dropped, removed>>
    BY <1>13 DEF poll_read, server, history
  <2>2. /\ poll'.connected = cap[capture].connected
        /\ fetched' = uploads(capture)
    BY <1>13 DEF poll_read, fetched
  <2>3. placed' = placed
    BY <2>1 DEF placed, evidenceIds
  <2>4. capture # 0
    BY <1>13 DEF poll_read, PollTyped
  <2>5. \A p \in DOMAIN photo : photo[p].cap = capture => cap[capture].connected
    BY <2>4 DEF RetakesMatch
  <2>6. fetched' # {} => poll'.connected
    <3>1. \A p \in uploads(capture) : p \in DOMAIN photo /\ photo[p].cap = capture
      BY UploadsNewest
    <3>2. QED
      BY <2>2, <2>5, <3>1
  <2>7. \A p \in placed' : photo'[p].cap = capture' /\ capture' # 0 =>
          status'.connected /\ (poll'.at = "answered" => poll'.connected)
    BY <1>2, <1>4, <2>1, <2>2, <2>3, <2>5
  <2>8. QED
    BY <1>3, <1>7, <2>1, <2>3, <2>6, <2>7 DEF PlacedByCard
<1>14. CASE poll_apply
  <2>1. UNCHANGED <<photo, capture, dropped, removed>>
    BY <1>14 DEF poll_apply, server, history
  <2>2. /\ status'.connected = poll.connected
        /\ delivered' = delivered \union fetched
        /\ poll'.at \in {"off", "asked"} /\ poll.at = "answered"
    BY <1>14 DEF poll_apply, fetched
  <2>3. placed' \subseteq placed \union fetched
    <3>1. ~\E t \in Types : removeEvidence(t)
      BY <2>2 DEF removeEvidence, card
    <3>2. ~\E t \in Types : ownUpload(t)
      BY <2>2 DEF ownUpload, card
    <3>3. QED
      BY <3>1, <3>2, PlacedGrows
  <2>4. capture # 0 /\ \A p \in fetched : photo[p].cap = capture
    BY <2>2 DEF PollTyped
  <2>5. \A p \in placed' : photo[p].cap # 0 =>
          photo[p].cap \in dropped \/ (photo[p].cap = capture /\ p \in delivered')
    BY <1>3, <2>2, <2>3, <2>4
  <2>6. ASSUME NEW t \in Types PROVE slot'[t] \notin removed
    <3>1. CASE slot'[t] = slot[t]
      BY <1>3, <3>1
    <3>2. CASE slot'[t] \in fetched \ delivered
      <4>1. photo[slot'[t]].cap = capture
        BY <2>4, <3>2
      <4>2. slot'[t] \notin placed
        BY <1>3, <2>4, <3>2, <4>1
      <4>3. QED
        BY <4>2 DEF placed
    <3>3. QED
      BY <1>14, <3>1, <3>2, Delivery
  <2>7. ASSUME NEW p \in placed', photo[p].cap = capture
        PROVE  poll.connected
    BY <1>4, <1>5, <2>2, <2>3, <2>4, <2>7
  <2>8. fetched' = {}
    BY <2>2 DEF fetched
  <2>9. \A p \in placed' : photo'[p].cap = capture' /\ capture' # 0 =>
          status'.connected /\ (poll'.at = "answered" => poll'.connected)
    BY <2>1, <2>2, <2>7
  <2>10. QED
    BY <1>3, <1>7, <2>1, <2>5, <2>6, <2>8, <2>9 DEF PlacedByCard
<1>15. CASE poll_unauthorized
  <2>1. /\ UNCHANGED <<photo, capture, status, delivered, slot, dropped, removed>>
        /\ poll' = [at |-> "off"]
    BY <1>15 DEF poll_unauthorized, server, history
  <2>2. placed' = placed /\ fetched' = {} /\ poll'.at # "answered"
    BY <2>1 DEF placed, evidenceIds, fetched
  <2>3. QED
    BY <1>3, <1>4, <1>7, <2>1, <2>2 DEF PlacedByCard
<1>16. ASSUME UNCHANGED <<capture, status, poll, delivered, dropped>>,
              \A p \in placed' : p \in placed \/ photo'[p].cap = 0,
              \A t \in Types : slot'[t] \notin removed'
       PROVE  PlacedByCard'
  <2>1. fetched' = fetched
    BY <1>16 DEF fetched
  <2>2. \A p \in placed' : photo'[p].cap # 0 =>
          photo'[p].cap \in dropped' \/ (photo'[p].cap = capture' /\ p \in delivered')
    BY <1>1, <1>2, <1>3, <1>16
  <2>3. \A p \in placed' : photo'[p].cap = capture' /\ capture' # 0 =>
          status'.connected /\ (poll'.at = "answered" => poll'.connected)
    <3> SUFFICES ASSUME NEW p \in placed', photo'[p].cap = capture', capture' # 0
                 PROVE  status'.connected /\ (poll'.at = "answered" => poll'.connected)
      OBVIOUS
    <3>1. p \in placed /\ photo[p].cap = capture /\ capture # 0
      BY <1>1, <1>2, <1>16
    <3>2. QED
      BY <1>4, <1>16, <3>1
  <2>4. fetched' # {} => poll'.connected
    BY <1>5, <1>16, <2>1
  <2>5. capture' \notin dropped'
    BY <1>3, <1>16
  <2>6. QED
    BY <1>7, <1>16, <2>2, <2>3, <2>4, <2>5 DEF PlacedByCard
<1>17. ASSUME NEW t \in Types, ownUpload(t)
       PROVE  PlacedByCard'
  <2>1. UNCHANGED <<capture, status, poll, delivered, dropped, removed>>
    BY <1>17 DEF ownUpload, card, history
  <2>2. slot' = [slot EXCEPT ![t] = Len(photo) + 1] /\ slot[t] = 0
    BY <1>17 DEF ownUpload
  <2>3. Len(photo) + 1 \notin DOMAIN photo
    BY LenProperties DEF PhotosTyped
  <2>4. \A u \in Types : slot'[u] \notin removed'
    BY <1>3, <2>1, <2>2, <2>3 DEF SlotsTyped
  <2>5. ~poll_apply
    <3>1. photo' # photo
      <4>1. Len(photo') = Len(photo) + 1 /\ Len(photo) \in Nat
        <5> DEFINE r == [cap |-> 0, type |-> t, st |-> "live",
                         olds |-> {}, ack |-> FALSE]
        <5>1. photo' = Append(photo, r) /\ r \in Photo
          BY <1>17 DEF ownUpload, Photo, PhotoStates
        <5>2. QED
          BY <5>1, AppendProperties, LenProperties DEF PhotosTyped
      <4>2. QED
        BY <4>1
    <3>2. QED
      BY <3>1 DEF poll_apply, server
  <2>6. \A p \in placed' : p \in placed \/ photo'[p].cap = 0
    BY <2>5, PlacedGrows
  <2>7. QED
    BY <1>16, <2>1, <2>4, <2>6
<1>18. ASSUME NEW t \in Types, removeEvidence(t)
       PROVE  PlacedByCard'
  <2>1. UNCHANGED <<photo, capture, status, poll, delivered, dropped>>
    BY <1>18 DEF removeEvidence, card, server
  <2>2. /\ slot[t] # 0 /\ removed' = removed \union {slot[t]}
        /\ slot' = [slot EXCEPT ![t] = 0]
    BY <1>18 DEF removeEvidence
  <2>3. ASSUME NEW u \in Types PROVE slot'[u] \notin removed'
    <3>1. CASE u = t
      BY <1>0, <2>2, <3>1 DEF SlotsTyped
    <3>2. CASE u # t
      BY <1>3, <2>2, <3>2 DEF SlotsTyped
    <3>3. QED
      BY <3>1, <3>2
  <2>4. placed' \subseteq placed
    BY <2>2 DEF placed, evidenceIds, SlotsTyped
  <2>5. QED
    BY <1>16, <2>1, <2>3, <2>4
<1>19. QED
  BY <1>8, <1>9, <1>11, <1>12, <1>13, <1>14, <1>15, <1>17, <1>18, CardFrame

\* Placed photos are accounted for in every reachable state.
LEMMA AlwaysPlaced == FormSpec => []PlacedByCard
<1>1. FormInit => PlacedByCard
  <2> SUFFICES ASSUME FormInit PROVE PlacedByCard
    OBVIOUS
  <2>1. /\ slot = [t \in Types |-> 0] /\ removed = {} /\ dropped = {}
        /\ poll = [at |-> "off"] /\ creating["page"].at = "no"
    BY DEF FormInit, CaptureInit, Idle
  <2>2. fetched = {} /\ placed = {}
    BY <2>1 DEF fetched, placed, evidenceIds
  <2>3. QED
    BY <2>1, <2>2 DEF PlacedByCard
<1>2. QED
  BY <1>1, AlwaysCaptures, AlwaysPhotos, AlwaysMatch, AlwaysCard, PlacedStays,
     PTL DEF FormSpec

\* A committed photo that is live was live before.
LEMMA LiveBefore ==
  ASSUME CapturesTyped, PhotosTyped, [FormNext]_vars, NEW p \in DOMAIN photo,
         photo[p].st \in {"live", "expired", "attached"}, live(p)'
  PROVE  live(p)
<1>1. photoStep(p)
  BY PhotoSteps
<1>2. QED
  BY <1>1 DEF photoStep, live

\* A retake that expires a photo expires what the card knew of before.
LEMMA NewerStaysLive ==
  ASSUME CapturesTyped, PhotosTyped, PollTyped, GoesForward, [FormNext]_vars,
         submitted' = 0,
         NEW m \in delivered \union fetched, NEW p \in DOMAIN photo,
         live(m), live(p), m < p, photo[m].cap = photo[p].cap,
         photo[m].type = photo[p].type, live(m)'
  PROVE  live(p)'
<1>1. photoStep(p) /\ m \in DOMAIN photo
  BY PhotoSteps DEF PollTyped
<1>2. ASSUME NEW q \in DOMAIN photo, upload_commit(q), p \in photo[q].olds
      PROVE  FALSE
  <2>1. m \in photo[q].olds
    BY <1>2 DEF GoesForward
  <2>2. m # q
    BY <1>2 DEF upload_commit, live
  <2>3. photo'[m] = [photo[m] EXCEPT !.st = "expired"]
    BY <1>1, <1>2, <2>1, <2>2 DEF upload_commit
  <2>4. photo[m] \in Photo
    BY <1>1, LenProperties, ElementOfSeq DEF PhotosTyped
  <2>5. photo'[m].st = "expired"
    BY <2>3, <2>4 DEF Photo
  <2>6. QED
    BY <2>5 DEF live
<1>3. ~create_submission
  BY SubmittedOnce DEF PhotosTyped
<1>4. QED
  BY <1>1, <1>2, <1>3 DEF photoStep, live

\* The card goes on to newer photos only.
LEMMA StaysForward ==
  /\ CapturesTyped /\ PhotosTyped /\ SlotsTyped /\ PollTyped /\ PlacedByCard
  /\ (submitted = 0 => GoesForward) /\ [FormNext]_vars
  => (submitted = 0 => GoesForward)'
<1> SUFFICES ASSUME CapturesTyped, PhotosTyped, SlotsTyped, PollTyped,
                    PlacedByCard, submitted = 0 => GoesForward,
                    [FormNext]_vars, submitted' = 0
             PROVE  GoesForward'
  OBVIOUS
<1>0. submitted = 0 /\ ~rotated
  BY SubmittedOnce DEF PhotosTyped, CallTyped
<1> GoesForward
  BY <1>0
<1>1. DOMAIN photo \subseteq Nat
  BY LenProperties DEF PhotosTyped
<1> DEFINE Was == {"live", "expired", "attached"}
           Known == delivered \union fetched
<1>2. /\ Known \subseteq DOMAIN photo /\ \A m \in Known : photo[m].st \in Was
      /\ placed \subseteq DOMAIN photo /\ evidenceIds \subseteq placed
  BY PlacedPhotos DEF PollTyped, placed
<1>3. \A p \in DOMAIN photo :
        /\ photo'[p].cap = photo[p].cap /\ photo'[p].type = photo[p].type
        /\ photo'[p].olds = photo[p].olds
  BY PhotosKeep
<1>4. ~poll_unauthorized
  BY <1>0 DEF poll_unauthorized
<1>5. delivered' \subseteq Known
  BY CardFrame DEF create, create_answered, close_finish, poll_read,
     poll_apply, poll_unauthorized, ownUpload, removeEvidence, card,
     resetLocalCaptureState, fetched
<1>6. \/ fetched' \subseteq fetched
      \/ poll_read /\ fetched' = uploads(capture)
  <2>1. CASE UNCHANGED poll
    BY <2>1 DEF fetched
  <2>2. CASE poll_read
    BY <2>2 DEF poll_read, fetched
  <2>3. CASE create_answered \/ close_finish \/ poll_apply
    <3>1. poll'.at \in {"off", "asked"}
      BY <2>3 DEF create_answered, close_finish, show, poll_apply
    <3>2. QED
      BY <3>1 DEF fetched
  <2>4. QED
    BY <1>4, <2>1, <2>2, <2>3, CardFrame DEF create, ownUpload,
       removeEvidence, card
<1>7. ASSUME NEW m \in delivered' \union fetched',
             NEW p \in DOMAIN photo', NEW q \in DOMAIN photo',
             live(m)', live(p)', m < p,
             photo'[m].cap = photo'[p].cap, photo'[m].type = photo'[p].type,
             p \in photo'[q].olds
      PROVE  m \in photo'[q].olds
  <2>1. p \in DOMAIN photo /\ photo[p].st \in Was
    <3>1. CASE q \in DOMAIN photo
      BY <1>3, <1>7, <3>1 DEF PhotosTyped
    <3>2. CASE q \notin DOMAIN photo
      <4>1. p \in photosOf(phone.cap, photo'[q].type)
        BY <1>7, <3>2, Arrival
      <4>2. QED
        BY <4>1 DEF photosOf, live
    <3>3. QED
      BY <3>1, <3>2
  <2>2. live(p)
    BY <1>7, <2>1, LiveBefore
  <2>3. CASE m \in Known
    <3>1. live(m) /\ m \in DOMAIN photo
      BY <1>2, <1>7, <2>3, LiveBefore
    <3>2. photo[m].cap = photo[p].cap /\ photo[m].type = photo[p].type
      BY <1>3, <1>7, <2>1, <3>1
    <3>3. CASE q \in DOMAIN photo
      <4>1. p \in photo[q].olds
        BY <1>3, <1>7, <3>3
      <4>2. m \in photo[q].olds
        BY <1>7, <2>1, <2>2, <2>3, <3>1, <3>2, <3>3, <4>1 DEF GoesForward
      <4>3. QED
        BY <1>3, <3>3, <4>2
    <3>4. CASE q \notin DOMAIN photo
      <4>1. /\ photo'[q].olds = photosOf(phone.cap, photo'[q].type)
            /\ p \in photosOf(phone.cap, photo'[q].type)
        BY <1>7, <3>4, Arrival
      <4>2. photo[p].cap = phone.cap /\ photo[p].type = photo'[q].type
        BY <4>1 DEF photosOf
      <4>3. QED
        BY <3>1, <3>2, <4>1, <4>2 DEF photosOf
    <3>5. QED
      BY <3>3, <3>4
  <2>4. CASE m \notin Known
    <3>1. poll_read /\ m \in uploads(capture) /\ UNCHANGED photo
      BY <1>5, <1>6, <1>7, <2>4 DEF poll_read, server
    <3>2. m \in DOMAIN photo /\ p <= m
      BY <1>7, <2>1, <2>2, <3>1, UploadsNewest
    <3>3. QED
      BY <1>1, <1>7, <2>1, <3>2
  <2>5. QED
    BY <2>3, <2>4
<1>8. ASSUME NEW m \in delivered', NEW p \in evidenceIds' \union fetched',
             live(m)', m # p, capture' # 0,
             photo'[p].cap = capture', photo'[m].cap = capture',
             photo'[m].type = photo'[p].type
      PROVE  m < p /\ live(p)'
  <2>1. m \in Known /\ m \in DOMAIN photo
    BY <1>2, <1>5, <1>8
  <2>2. live(m)
    BY <1>2, <1>8, <2>1, LiveBefore
  <2>3. ASSUME m \in delivered, p \in evidenceIds \union fetched,
               capture' = capture
        PROVE  m < p /\ live(p)'
    <3>1. p \in DOMAIN photo
      BY <1>2, <2>3
    <3>2. /\ photo[p].cap = capture /\ photo[m].cap = capture /\ capture # 0
          /\ photo[m].type = photo[p].type
      BY <1>3, <1>8, <2>1, <2>3, <3>1
    <3>3. m < p /\ live(p)
      BY <1>8, <2>2, <2>3, <3>2 DEF GoesForward
    <3>4. QED
      BY <1>8, <2>1, <2>2, <3>1, <3>2, <3>3, NewerStaysLive
  <2>4. CASE UNCHANGED <<capture, poll, delivered, slot>>
    BY <1>8, <2>3, <2>4 DEF evidenceIds, fetched
  <2>5. CASE create \/ close_finish
    BY <1>8, <2>5 DEF create, close_finish, resetLocalCaptureState
  <2>6. CASE create_answered
    <3>1. /\ capture' = creating["page"].id /\ fetched' = {}
          /\ evidenceIds' = evidenceIds /\ photo' = photo
      BY <2>6 DEF create_answered, show, fetched, evidenceIds, server
    <3>2. capture' \notin dropped \union {capture}
      BY <2>6, <3>1 DEF create_answered, PlacedByCard
    <3>3. p \in placed /\ photo[p].cap = capture'
      BY <1>2, <1>8, <3>1
    <3>4. QED
      BY <1>8, <3>2, <3>3 DEF PlacedByCard
  <2>7. CASE poll_read
    <3>1. /\ UNCHANGED <<photo, capture, delivered, slot>>
          /\ fetched' = uploads(capture)
      BY <2>7 DEF poll_read, server, fetched
    <3>2. CASE p \in evidenceIds
      BY <1>8, <2>3, <3>1, <3>2
    <3>3. CASE p \in uploads(capture)
      <4>1. p \in DOMAIN photo /\ live(p) /\ m <= p
        BY <1>8, <2>1, <2>2, <3>1, <3>3, UploadsNewest
      <4>2. QED
        BY <1>1, <1>8, <2>1, <3>1, <4>1 DEF live
    <3>4. QED
      BY <1>8, <3>1, <3>2, <3>3 DEF evidenceIds
  <2>8. CASE poll_apply
    <3>1. UNCHANGED <<photo, capture>> /\ fetched' = {}
      BY <2>8 DEF poll_apply, server, fetched
    <3>2. PICK t \in Types : p = slot'[t] /\ p # 0
      BY <1>8, <3>1 DEF evidenceIds
    <3>3. CASE p \in fetched \ delivered /\ photo[p].type = t
      <4>1. CASE m \in delivered
        BY <2>3, <3>1, <3>3, <4>1
      <4>2. CASE m \in fetched
        BY <1>8, <3>1, <3>3, <4>2 DEF PollTyped
      <4>3. QED
        BY <2>1, <4>1, <4>2
    <3>4. CASE p = slot[t] /\ \A f \in fetched : photo[f].type = t => f \in delivered
      <4>1. p \in evidenceIds /\ photo[p].type = t
        BY <3>2, <3>4 DEF evidenceIds, SlotsTyped
      <4>2. m \in delivered
        BY <1>8, <2>1, <3>1, <3>4, <4>1
      <4>3. QED
        BY <2>3, <3>1, <4>1, <4>2
    <3>5. QED
      BY <2>8, <3>2, <3>3, <3>4, Delivery
  <2>9. ASSUME NEW t \in Types, removeEvidence(t)
        PROVE  m < p /\ live(p)'
    <3>1. UNCHANGED <<capture, poll, delivered>> /\ slot' = [slot EXCEPT ![t] = 0]
      BY <2>9 DEF removeEvidence, card
    <3>2. fetched' = fetched /\ evidenceIds' \subseteq evidenceIds
      BY <3>1 DEF fetched, evidenceIds, SlotsTyped
    <3>3. QED
      BY <1>8, <2>3, <3>1, <3>2
  <2>10. ASSUME NEW t \in Types, ownUpload(t)
         PROVE  m < p /\ live(p)'
    <3>1. UNCHANGED <<capture, poll, delivered, removed>>
          /\ slot' = [slot EXCEPT ![t] = Len(photo) + 1]
      BY <2>10 DEF ownUpload, card, history
    <3>2. fetched' = fetched /\ evidenceIds' \subseteq evidenceIds \union {Len(photo) + 1}
      BY <3>1 DEF fetched, evidenceIds, SlotsTyped
    <3>3. photo'[Len(photo) + 1].cap = 0
      <4> DEFINE r == [cap |-> 0, type |-> t, st |-> "live",
                       olds |-> {}, ack |-> FALSE]
      <4>1. photo' = Append(photo, r) /\ r \in Photo /\ photo \in Seq(Photo)
        BY <2>10 DEF ownUpload, Photo, PhotoStates, PhotosTyped
      <4>2. photo'[Len(photo) + 1] = r
        BY <4>1, AppendProperties
      <4>3. QED
        BY <4>2
    <3>4. p \in evidenceIds \union fetched
      BY <1>8, <3>2, <3>3
    <3>5. QED
      BY <1>8, <2>3, <3>1, <3>4
  <2>11. QED
    BY <1>4, <2>4, <2>5, <2>6, <2>7, <2>8, <2>9, <2>10, CardFrame
<1>9. QED
  BY <1>7, <1>8 DEF GoesForward

\* The card goes forward in every reachable state.
LEMMA AlwaysForward == FormSpec => [](submitted = 0 => GoesForward)
<1>1. FormInit => (submitted = 0 => GoesForward)
  <2> SUFFICES ASSUME FormInit PROVE GoesForward
    OBVIOUS
  <2>1. delivered = {} /\ poll = [at |-> "off"]
    BY DEF FormInit, CaptureInit
  <2>2. fetched = {}
    BY <2>1 DEF fetched
  <2>3. QED
    BY <2>1, <2>2 DEF GoesForward
<1>2. QED
  BY <1>1, AlwaysCaptures, AlwaysPhotos, AlwaysCard, AlwaysPlaced,
     StaysForward, PTL DEF FormSpec

\* A late photo stays one, of the same capture and kind.
LEMMA LateStays ==
  ASSUME CapturesTyped, PhotosTyped, StopsComplete, [FormNext]_vars,
         NEW p \in late
  PROVE  /\ p \in late' /\ p \in DOMAIN photo'
         /\ photo'[p].cap = photo[p].cap /\ photo'[p].type = photo[p].type
<1>1. p \in DOMAIN photo /\ p \in late'
  BY SubmittedOnce DEF StopsComplete, PhotosTyped
<1>2. QED
  BY <1>1, PhotosKeep

\* A photo of the form ceases to be live by the commit of a retake, which is
\* late when its capture is completed.
LEMMA ExpiredByRetake ==
  ASSUME CapturesTyped, PhotosTyped, RetakesMatch, [FormNext]_vars,
         submitted' = 0, NEW p \in DOMAIN photo, live(p), ~live(p)'
  PROVE  /\ photo[p].cap \in Captures
         /\ \E q \in DOMAIN photo : /\ p < q /\ live(q)'
                                    /\ photo'[q].cap = photo[p].cap
                                    /\ photo'[q].type = photo[p].type
         /\ cap[photo[p].cap].completed =>
              \E q \in late' : /\ photo'[q].cap = photo[p].cap
                               /\ photo'[q].type = photo[p].type
<1>1. photoStep(p)
  BY PhotoSteps
<1>2. ~create_submission
  BY SubmittedOnce DEF PhotosTyped
<1>3. PICK q \in DOMAIN photo : upload_commit(q) /\ p \in photo[q].olds
  BY <1>1, <1>2 DEF photoStep, live
<1>4. /\ photo[q].cap # 0 /\ photo[p].cap = photo[q].cap
      /\ photo[p].type = photo[q].type
  BY <1>3 DEF RetakesMatch
<1>5. photo[q] \in Photo
  BY LenProperties, ElementOfSeq DEF PhotosTyped
<1>6. photo[p].cap \in Captures
  BY <1>4, <1>5 DEF Photo
<1>7. photo'[q] = [photo[q] EXCEPT !.st = "live"]
  BY <1>3 DEF upload_commit
<1>8. /\ photo'[q].st = "live" /\ photo'[q].cap = photo[q].cap
      /\ photo'[q].type = photo[q].type
  BY <1>5, <1>7 DEF Photo
<1>9. ASSUME cap[photo[p].cap].completed
      PROVE  /\ q \in late' /\ photo'[q].cap = photo[p].cap
             /\ photo'[q].type = photo[p].type
  <2>1. ~usable(photo[q].cap)
    BY <1>4, <1>6, <1>9 DEF RetakesMatch, usable
  <2>2. q \in late'
    BY <1>3, <2>1 DEF upload_commit
  <2>3. QED
    BY <1>4, <1>8, <2>2
<1>10. QED
  BY <1>3, <1>4, <1>6, <1>8, <1>9 DEF live, PhotosTyped

\* A capture is completed when every kind has a live photo.
LEMMA CompletedNow ==
  ASSUME CapturesTyped, StopsComplete, [FormNext]_vars, NEW c \in Captures,
         \/ cap'[c].completed /\ ~cap[c].completed
         \/ c \in ending' /\ c \notin ending
  PROVE  UNCHANGED photo /\ \A t \in Types : photosOf(c, t) # {}
<1>0. cap \in [Captures -> CaptureRow]
  BY DEF CapturesTyped
<1>1. CASE cap'[c].completed /\ ~cap[c].completed
  <2>1. c \in ending
    <3>1. rowStep(c)
      BY RowSteps
    <3>2. QED
      BY <1>0, <1>1, <3>1 DEF rowStep, CaptureRow
  <2>2. \A t \in Types : photosOf(c, t) # {}
    BY <2>1 DEF StopsComplete
  <2>3. UNCHANGED photo
    <3>1. ASSUME NEW d \in Captures, exchange_mobile_capture_token(d)
          PROVE  FALSE
      <4>1. \/ cap'[c] = cap[c]
            \/ cap'[c] = [cap[c] EXCEPT !.st = "connected", !.connected = TRUE]
        BY <1>0, <3>1 DEF exchange_mobile_capture_token
      <4>2. QED
        BY <1>0, <1>1, <4>1 DEF CaptureRow
    <3>2. cap' # cap
      BY <1>1
    <3>3. QED
      BY <3>1, <3>2, RowFrame DEF create_mobile_capture_session,
         revoke_mobile_capture_session, complete_mobile_capture
  <2>4. QED
    BY <2>2, <2>3
<1>2. CASE c \in ending' /\ c \notin ending
  <2>1. complete_read
    <3>1. CASE FormStep
      BY <1>2, <3>1 DEF FormStep, loadConfig, ownUpload, removeEvidence,
         handleSubmit, submit_verification, create_submission,
         rotate_verification_session, submit_failed, submit_answered,
         submit_lost, poll_unauthorized, captureVars, phonePage
    <3>2. CASE CardStep
      BY <1>2, <3>2 DEF CardStep, create, createInOtherTab, create_answered,
         create_failed, otherTab_answered, close, close_finish, poll_read,
         poll_apply, phonePage, create_mobile_capture_session,
         revoke_mobile_capture_session
    <3>3. CASE PhoneStep
      BY <1>2, <3>3 DEF PhoneStep, load, uploadCapture, upload_commit,
         upload_refused, upload_lost, finish, opens,
         exchange_mobile_capture_token, complete_mobile_capture
    <3>4. CASE (\E d \in Captures : due_passes(d)) \/ UNCHANGED vars
      BY <1>2, <3>4 DEF due_passes, vars, captureVars, phonePage
    <3>5. QED
      BY <3>1, <3>2, <3>3, <3>4, StepKinds
  <2>2. QED
    BY <1>2, <2>1 DEF complete_read, server
<1>3. QED
  BY <1>1, <1>2

\* When the card stops its capture is completed, and later retakes are late.
LEMMA StaysComplete ==
  /\ CapturesTyped /\ PhotosTyped /\ RetakesMatch /\ SlotsTyped /\ PollTyped
  /\ PlacedByCard /\ (submitted = 0 => GoesForward)
  /\ (submitted = 0 => StopsComplete) /\ [FormNext]_vars
  => (submitted = 0 => StopsComplete)'
<1> SUFFICES ASSUME CapturesTyped, PhotosTyped, RetakesMatch, SlotsTyped,
                    PollTyped, PlacedByCard, submitted = 0 => GoesForward,
                    submitted = 0 => StopsComplete,
                    [FormNext]_vars, submitted' = 0
             PROVE  StopsComplete'
  OBVIOUS
<1>0. submitted = 0 /\ ~rotated
  BY SubmittedOnce DEF PhotosTyped, CallTyped
<1> GoesForward /\ StopsComplete
  BY <1>0
<1> DEFINE Late(c, t) == \E p \in late' : photo'[p].cap = c /\ photo'[p].type = t
<1>1. ASSUME NEW t \in Types PROVE \A c : overtaken(c, t) => Late(c, t)
  BY LateStays DEF overtaken
<1>2. \A p \in DOMAIN photo :
        /\ p \in DOMAIN photo'
        /\ photo'[p].cap = photo[p].cap /\ photo'[p].type = photo[p].type
  BY PhotosKeep
<1>3. ~poll_unauthorized
  BY <1>0 DEF poll_unauthorized
<1>4. \A c \in Captures : cap[c].completed => cap'[c].completed
  BY RowsKeep
<1>5. ASSUME NEW c \in Captures, cap'[c].completed \/ c \in ending',
             NEW t \in Types
      PROVE  photosOf(c, t)' # {}
  <2>1. CASE cap[c].completed \/ c \in ending
    <3>1. PICK p \in DOMAIN photo : live(p) /\ photo[p].cap = c /\ photo[p].type = t
      BY <2>1 DEF StopsComplete, photosOf
    <3>2. CASE live(p)'
      BY <1>2, <3>1, <3>2 DEF photosOf
    <3>3. CASE ~live(p)'
      <4>1. PICK q \in DOMAIN photo : /\ live(q)'
                                      /\ photo'[q].cap = photo[p].cap
                                      /\ photo'[q].type = photo[p].type
        BY <3>1, <3>3, ExpiredByRetake
      <4>2. QED
        BY <1>2, <3>1, <4>1 DEF photosOf
    <3>4. QED
      BY <3>2, <3>3
  <2>2. CASE ~cap[c].completed /\ c \notin ending
    <3>1. UNCHANGED photo /\ photosOf(c, t) # {}
      BY <1>5, <2>2, CompletedNow
    <3>2. QED
      BY <3>1 DEF photosOf, live
  <2>3. QED
    BY <2>1, <2>2
<1>6. \/ UNCHANGED <<capture, poll>>
      \/ poll_read
      \/ capture' = 0 /\ poll'.at = "off"
      \/ capture' = creating["page"].id /\ poll'.at = "asked"
      \/ /\ poll_apply /\ capture' = capture
         /\ poll'.at = IF poll.completed THEN "off" ELSE "asked"
  <2>1. CASE create_answered
    BY <2>1 DEF create_answered, show
  <2>2. CASE close_finish
    BY <2>2 DEF close_finish, show
  <2>3. CASE poll_apply
    BY <2>3 DEF poll_apply
  <2>4. QED
    BY <1>3, <2>1, <2>2, <2>3, CardFrame DEF create, ownUpload,
       removeEvidence, card
<1>7. capture \in Captures \union {0} /\ 0 \notin Captures
  BY CaptureBoundAssumption DEF CapturesTyped, present, Captures
<1>8. ASSUME poll'.at = "answered", poll'.completed
      PROVE  /\ cap'[capture'].completed
             /\ \A t \in Types :
                  \/ Late(capture', t)
                  \/ \E p \in fetched' : photo'[p].type = t /\ live(p)'
  <2>1. CASE UNCHANGED <<capture, poll>>
    <3>1. /\ cap[capture].completed /\ capture # 0
          /\ \A t \in Types :
               \/ overtaken(capture, t)
               \/ \E p \in fetched : photo[p].type = t /\ live(p)
      BY <1>8, <2>1 DEF StopsComplete, PollTyped
    <3>2. cap'[capture].completed
      BY <1>4, <1>7, <3>1
    <3>3. fetched' = fetched
      BY <2>1 DEF fetched
    <3>4. ASSUME NEW t \in Types, NEW p \in fetched, photo[p].type = t, live(p)
          PROVE  Late(capture, t) \/ live(p)'
      <4>1. p \in DOMAIN photo /\ photo[p].cap = capture
        BY <3>4 DEF PollTyped
      <4>2. QED
        BY <3>1, <3>4, <4>1, ExpiredByRetake
    <3>5. ASSUME NEW p \in fetched PROVE photo'[p].type = photo[p].type
      BY <1>2, <3>5 DEF PollTyped
    <3> HIDE DEF Late
    <3>6. QED
      BY <1>1, <2>1, <3>1, <3>2, <3>3, <3>4, <3>5
  <2>2. CASE poll_read
    <3>1. /\ UNCHANGED <<photo, cap, capture>>
          /\ poll'.completed = cap[capture].completed
          /\ fetched' = uploads(capture) /\ poll.at = "asked"
      BY <2>2 DEF poll_read, server, fetched
    <3>2. capture \in Captures /\ cap[capture].completed
      BY <1>7, <1>8, <3>1 DEF PollTyped
    <3>3. ASSUME NEW t \in Types
          PROVE  \E p \in uploads(capture) : photo[p].type = t /\ live(p)
      BY <3>2, UploadsNewest DEF StopsComplete
    <3>4. QED
      BY <3>1, <3>2, <3>3 DEF live
  <2>3. QED
    BY <1>6, <1>8, <2>1, <2>2
<1>9. ASSUME capture' # 0, poll'.at = "off"
      PROVE  cap'[capture'].completed
  <2>1. CASE UNCHANGED <<capture, poll>>
    BY <1>4, <1>7, <1>9, <2>1 DEF StopsComplete
  <2>2. CASE poll_apply /\ capture' = capture
             /\ poll'.at = IF poll.completed THEN "off" ELSE "asked"
    <3>1. poll.completed /\ poll.at = "answered"
      BY <1>9, <2>2 DEF poll_apply
    <3>2. cap[capture].completed
      BY <3>1 DEF StopsComplete
    <3>3. QED
      BY <1>4, <1>7, <1>9, <2>2, <3>2
  <2>3. CASE poll_read
    BY <1>9, <2>3 DEF poll_read
  <2>4. QED
    BY <1>6, <1>9, <2>1, <2>2, <2>3
<1> DEFINE Fine(t) ==
      slot'[t] # 0 /\ photo'[slot'[t]].st = "expired" =>
        \/ capture' = photo'[slot'[t]].cap /\ poll'.at # "off"
        \/ photo'[slot'[t]].cap \in dropped'
        \/ Late(photo'[slot'[t]].cap, t)
<1>10. ASSUME NEW t \in Types, slot[t] # 0, photo[slot[t]].st = "expired"
       PROVE  /\ \/ capture = photo[slot[t]].cap /\ poll.at # "off"
                 \/ photo[slot[t]].cap \in dropped
                 \/ overtaken(photo[slot[t]].cap, t)
              /\ slot[t] \in DOMAIN photo /\ slot[t] \in placed
  BY <1>10 DEF StopsComplete, SlotsTyped, placed, evidenceIds
<1>11. ASSUME NEW t \in Types, slot'[t] = slot[t],
              UNCHANGED <<capture, poll, dropped>>
       PROVE  Fine(t)
  <2> SUFFICES ASSUME slot[t] # 0, photo'[slot[t]].st = "expired"
               PROVE  \/ capture = photo'[slot[t]].cap /\ poll.at # "off"
                      \/ photo'[slot[t]].cap \in dropped
                      \/ Late(photo'[slot[t]].cap, t)
    BY <1>11
  <2>0. PICK p \in DOMAIN photo : p = slot[t]
    BY DEF SlotsTyped
  <2>1. p \in placed /\ photo[p].type = t /\ photo'[p].st = "expired"
    BY <2>0 DEF SlotsTyped, placed, evidenceIds
  <2>2. photo'[p].cap = photo[p].cap
    BY <1>2
  <2>3. CASE photo[p].st = "expired"
    BY <1>1, <1>10, <2>0, <2>2, <2>3
  <2>4. CASE photo[p].st # "expired"
    <3>1. photoStep(p)
      BY PhotoSteps
    <3>2. live(p) /\ ~live(p)'
      BY <2>1, <2>4, <3>1 DEF photoStep, live
    <3>3. /\ photo[p].cap \in Captures
          /\ cap[photo[p].cap].completed => Late(photo[p].cap, t)
      BY <2>1, <3>2, ExpiredByRetake
    <3>4. photo[p].cap \in dropped \/ photo[p].cap = capture
      BY <1>7, <2>1, <3>3 DEF PlacedByCard
    <3>5. capture # 0 /\ poll.at = "off" => cap[capture].completed
      BY DEF StopsComplete
    <3> HIDE DEF Late
    <3>6. QED
      BY <1>7, <2>0, <2>2, <3>3, <3>4, <3>5
  <2>5. QED
    BY <2>3, <2>4
<1>12. ASSUME NEW t \in Types, UNCHANGED <<photo, slot>>,
              capture # 0 => capture \in dropped', dropped \subseteq dropped'
       PROVE  Fine(t)
  <2> SUFFICES ASSUME slot[t] # 0, photo[slot[t]].st = "expired"
               PROVE  \/ photo[slot[t]].cap \in dropped'
                      \/ Late(photo[slot[t]].cap, t)
    BY <1>12
  <2>1. capture = 0 => poll.at = "off"
    BY DEF PollTyped
  <2> HIDE DEF Late
  <2>2. QED
    BY <1>1, <1>10, <1>12, <2>1
<1>13. ASSUME NEW t \in Types PROVE Fine(t)
  <2>1. CASE UNCHANGED <<capture, poll, dropped, slot>>
    BY <1>11, <2>1
  <2>2. CASE create
    BY <1>11, <2>2 DEF create, history
  <2>3. CASE create_answered
    <3>1. /\ UNCHANGED <<photo, slot>>
          /\ dropped' = dropped \union ({capture} \ {0, creating["page"].id})
      BY <2>3 DEF create_answered, show, server
    <3>2. creating["page"].id # capture
      BY <2>3 DEF create_answered, PlacedByCard
    <3>3. QED
      BY <1>12, <3>1, <3>2
  <2>4. CASE close_finish
    <3>1. UNCHANGED <<photo, slot>> /\ dropped' = dropped \union ({capture} \ {0})
      BY <2>4 DEF close_finish, show, server
    <3>2. QED
      BY <1>12, <3>1
  <2>5. CASE poll_read
    <3>1. /\ UNCHANGED <<photo, slot, capture, dropped>>
          /\ poll.at = "asked" /\ poll'.at = "answered"
      BY <2>5 DEF poll_read, server, history
    <3> HIDE DEF Late
    <3>2. QED
      BY <1>1, <1>10, <3>1
  <2>6. CASE poll_apply
    <3>1. /\ UNCHANGED <<photo, capture, dropped>> /\ poll.at = "answered"
          /\ poll'.at = IF poll.completed THEN "off" ELSE "asked"
      BY <2>6 DEF poll_apply, server, history
    <3> SUFFICES ASSUME slot'[t] # 0, photo[slot'[t]].st = "expired"
                 PROVE  \/ capture = photo[slot'[t]].cap /\ poll'.at # "off"
                        \/ photo[slot'[t]].cap \in dropped
                        \/ Late(photo[slot'[t]].cap, t)
      BY <3>1
    <3>2. capture # 0
      BY <3>1 DEF PollTyped
    <3>3. ASSUME poll.completed
          PROVE  \/ Late(capture, t)
                 \/ \E m \in fetched : photo[m].type = t /\ live(m)
      BY <1>1, <3>1, <3>3 DEF StopsComplete
    <3>4. CASE slot'[t] \in fetched \ delivered /\ photo[slot'[t]].type = t
      <4>1. photo[slot'[t]].cap = capture
        BY <3>4 DEF PollTyped
      <4>2. CASE ~poll.completed
        BY <3>1, <4>1, <4>2
      <4>3. CASE poll.completed
        <5>1. ASSUME NEW m \in fetched, photo[m].type = t, live(m)
              PROVE  FALSE
          <6>1. m = slot'[t]
            BY <3>4, <5>1 DEF PollTyped
          <6>2. QED
            BY <5>1, <6>1 DEF live
        <5> HIDE DEF Late
        <5>2. QED
          BY <3>3, <4>1, <4>3, <5>1
      <4>4. QED
        BY <4>2, <4>3
    <3>5. CASE /\ slot'[t] = slot[t]
               /\ \A m \in fetched : photo[m].type = t => m \in delivered
      <4>1. /\ \/ capture = photo[slot[t]].cap
               \/ photo[slot[t]].cap \in dropped
               \/ Late(photo[slot[t]].cap, t)
            /\ slot[t] \in evidenceIds /\ photo[slot[t]].type = t
        BY <1>1, <1>10, <3>5 DEF SlotsTyped, evidenceIds
      <4>2. CASE ~poll.completed
        BY <3>1, <3>5, <4>1, <4>2
      <4>3. CASE poll.completed /\ capture = photo[slot[t]].cap
        <5>1. ASSUME NEW m \in fetched, photo[m].type = t, live(m)
              PROVE  FALSE
          <6>1. m \in delivered /\ photo[m].cap = capture
            BY <3>5, <5>1 DEF PollTyped
          <6>2. m # slot[t] /\ ~live(slot[t])
            BY <3>5, <5>1 DEF live
          <6>3. QED
            BY <3>2, <4>1, <4>3, <5>1, <6>1, <6>2 DEF GoesForward
        <5> HIDE DEF Late
        <5>2. QED
          BY <3>3, <3>5, <4>3, <5>1
      <4>4. QED
        BY <3>5, <4>1, <4>2, <4>3
    <3>6. QED
      BY <2>6, <3>4, <3>5, Delivery
  <2>7. ASSUME NEW u \in Types, removeEvidence(u)
        PROVE  Fine(t)
    <3>1. UNCHANGED <<capture, poll, dropped>> /\ slot' = [slot EXCEPT ![u] = 0]
      BY <2>7 DEF removeEvidence, card
    <3>2. slot'[t] = slot[t] \/ slot'[t] = 0
      BY <3>1 DEF SlotsTyped
    <3>3. slot'[t] = 0 => Fine(t)
      OBVIOUS
    <3> HIDE DEF Fine
    <3>4. QED
      BY <1>11, <3>1, <3>2, <3>3
  <2>8. ASSUME NEW u \in Types, ownUpload(u)
        PROVE  Fine(t)
    <3>1. /\ UNCHANGED <<capture, poll, dropped>>
          /\ slot' = [slot EXCEPT ![u] = Len(photo) + 1]
      BY <2>8 DEF ownUpload, card, history
    <3>2. slot'[t] = slot[t] \/ slot'[t] = Len(photo) + 1
      BY <3>1 DEF SlotsTyped
    <3> DEFINE r == [cap |-> 0, type |-> u, st |-> "live",
                     olds |-> {}, ack |-> FALSE]
    <3>3. photo' = Append(photo, r) /\ r \in Photo /\ photo \in Seq(Photo)
      BY <2>8 DEF ownUpload, Photo, PhotoStates, PhotosTyped
    <3>4. photo'[Len(photo) + 1] = r
      BY <3>3, AppendProperties
    <3>5. photo'[Len(photo) + 1].st # "expired"
      BY <3>4
    <3>6. slot'[t] = Len(photo) + 1 => Fine(t)
      BY <3>5
    <3> HIDE DEF Fine
    <3>7. QED
      BY <1>11, <3>1, <3>2, <3>6
  <2>9. QED
    BY <1>3, <2>1, <2>2, <2>3, <2>4, <2>5, <2>6, <2>7, <2>8, CardFrame
<1>14. late' \subseteq DOMAIN photo'
  <2>1. late' \subseteq late \union DOMAIN photo
    BY PhotoFrame DEF ownUpload, create_submission, upload_commit, history
  <2>2. QED
    BY <1>2, <2>1 DEF StopsComplete
<1>15. QED
  BY <1>5, <1>8, <1>9, <1>13, <1>14 DEF StopsComplete, overtaken

\* Once a capture is completed only late photos join what a poll answers.
LEMMA NewUploads ==
  ASSUME CapturesTyped, PhotosTyped, RetakesMatch, [FormNext]_vars,
         submitted' = 0, NEW c \in Captures, cap[c].completed,
         NEW p \in uploads(c)'
  PROVE  p \in uploads(c) \/ p \in late'
<1>0. PhotosTyped'
  BY PhotosStayTyped
<1>1. DOMAIN photo' \subseteq Nat /\ 0 \notin Captures
  BY <1>0, LenProperties, CaptureBoundAssumption DEF PhotosTyped, Captures
<1>2. PICK t \in Types : photosOf(c, t)' # {} /\ p = Max(photosOf(c, t)')
  BY DEF uploads
<1>3. /\ p \in photosOf(c, t)'
      /\ \A m \in photosOf(c, t)' : m <= p
  <2>1. Len(photo') \in Nat /\ DOMAIN photo' = 1 .. Len(photo')
    BY <1>0, LenProperties DEF PhotosTyped
  <2>2. photosOf(c, t)' \subseteq 1 .. Len(photo')
    BY <2>1 DEF photosOf
  <2> HIDE DEF photosOf
  <2>3. QED
    BY <1>2, <2>1, <2>2, MaxOfSome
<1>4. /\ p \in DOMAIN photo' /\ live(p)'
      /\ photo'[p].cap = c /\ photo'[p].type = t
  BY <1>3 DEF photosOf
<1>5. p \in DOMAIN photo
  BY <1>1, <1>4, Arrival DEF live
<1>6. photo[p].cap = c /\ photo[p].type = t
  BY <1>4, <1>5, PhotosKeep
<1>7. CASE upload_commit(p)
  BY <1>6, <1>7 DEF upload_commit, RetakesMatch, usable
<1>8. CASE live(p)
  <2>1. ASSUME NEW m \in photosOf(c, t) PROVE m <= p
    <3>1. m \in DOMAIN photo /\ live(m) /\ photo[m].cap = c /\ photo[m].type = t
      BY <2>1 DEF photosOf
    <3>2. CASE live(m)'
      BY <1>3, <3>1, <3>2, PhotosKeep DEF photosOf
    <3>3. CASE ~live(m)'
      <4>1. PICK q \in DOMAIN photo : /\ m < q /\ live(q)'
                                      /\ photo'[q].cap = c /\ photo'[q].type = t
        BY <3>1, <3>3, ExpiredByRetake
      <4>2. q <= p
        BY <1>3, <4>1, PhotosKeep DEF photosOf
      <4>3. QED
        BY <1>1, <1>4, <3>1, <4>1, <4>2, PhotosKeep
    <3>4. QED
      BY <3>2, <3>3
  <2>2. p \in photosOf(c, t)
    BY <1>5, <1>6, <1>8 DEF photosOf
  <2>3. /\ Max(photosOf(c, t)) \in photosOf(c, t)
        /\ \A m \in photosOf(c, t) : m <= Max(photosOf(c, t))
    <3>1. Len(photo) \in Nat /\ DOMAIN photo = 1 .. Len(photo)
      BY LenProperties DEF PhotosTyped
    <3>2. photosOf(c, t) \subseteq 1 .. Len(photo)
      BY <3>1 DEF photosOf
    <3>3. QED
      BY <2>2, <3>1, <3>2, MaxOfSome
  <2>4. p = Max(photosOf(c, t))
    <3>1. photosOf(c, t) \subseteq Nat
      BY LenProperties DEF photosOf, PhotosTyped
    <3>2. QED
      BY <2>1, <2>2, <2>3, <3>1
  <2>5. QED
    BY <2>2, <2>4 DEF uploads
<1>9. QED
  BY <1>4, <1>5, <1>7, <1>8, PhotoSteps DEF photoStep, live

\* When the card stops, it has all of its capture that is not late.
LEMMA StaysWithAll ==
  /\ CapturesTyped /\ PhotosTyped /\ RetakesMatch /\ PollTyped
  /\ (submitted = 0 => StopsComplete) /\ (submitted = 0 => StopsWithAll)
  /\ [FormNext]_vars
  => (submitted = 0 => StopsWithAll)'
<1> SUFFICES ASSUME CapturesTyped, PhotosTyped, RetakesMatch, PollTyped,
                    submitted = 0 => StopsComplete,
                    submitted = 0 => StopsWithAll,
                    [FormNext]_vars, submitted' = 0
             PROVE  StopsWithAll'
  OBVIOUS
<1>0. submitted = 0 /\ ~rotated
  BY SubmittedOnce DEF PhotosTyped, CallTyped
<1> StopsComplete /\ StopsWithAll
  BY <1>0
<1>1. ~poll_unauthorized
  BY <1>0 DEF poll_unauthorized
<1>2. capture \in Captures \union {0} /\ late \subseteq late'
  BY SubmittedOnce DEF CapturesTyped, present, PhotosTyped
<1>3. ASSUME UNCHANGED <<capture, poll>>,
             capture # 0 /\ poll.at = "off" => UNCHANGED <<status, delivered>>
      PROVE  StopsWithAll'
  <2>1. fetched' = fetched
    BY <1>3 DEF fetched
  <2>2. ASSUME capture # 0, cap[capture].completed
        PROVE  uploads(capture)' \subseteq uploads(capture) \union late'
    BY <1>2, <1>3, <2>2, NewUploads
  <2>3. ASSUME capture # 0, poll.at = "off"
        PROVE  /\ status'.completed
               /\ uploads(capture)' \subseteq delivered' \union late'
    <3>1. cap[capture].completed
      BY <2>3 DEF StopsComplete
    <3>2. QED
      BY <1>2, <1>3, <2>2, <2>3, <3>1 DEF StopsWithAll
  <2>4. ASSUME poll.at = "answered", poll.completed
        PROVE  uploads(capture)' \subseteq fetched' \union late'
    <3>1. cap[capture].completed /\ capture # 0
      BY <2>4 DEF StopsComplete, PollTyped
    <3>2. QED
      BY <1>2, <2>1, <2>2, <2>4, <3>1 DEF StopsWithAll
  <2>5. QED
    BY <1>3, <2>3, <2>4 DEF StopsWithAll
<1>4. CASE create
  <2>1. UNCHANGED <<capture, poll>> /\ (capture = 0 \/ ~status.completed)
    BY <1>4 DEF create, startView, generateOffered, completedShown
  <2>2. QED
    BY <1>3, <2>1 DEF StopsWithAll
<1>5. CASE create_answered \/ close_finish
  BY <1>5 DEF create_answered, close_finish, show, StopsWithAll
<1>6. CASE poll_read
  <2>1. /\ UNCHANGED <<photo, late, capture>> /\ poll'.at = "answered"
        /\ fetched' = uploads(capture)
    BY <1>6 DEF poll_read, server, history, fetched
  <2>2. uploads(capture)' = uploads(capture)
    BY <2>1 DEF uploads, photosOf, live
  <2>3. QED
    BY <2>1, <2>2 DEF StopsWithAll
<1>7. CASE poll_apply
  <2>1. /\ UNCHANGED <<photo, late, capture>> /\ poll.at = "answered"
        /\ poll'.at = IF poll.completed THEN "off" ELSE "asked"
        /\ delivered' = delivered \union fetched
        /\ status'.completed = poll.completed
    BY <1>7 DEF poll_apply, server, history, fetched
  <2>2. uploads(capture)' = uploads(capture)
    BY <2>1 DEF uploads, photosOf, live
  <2>3. QED
    BY <2>1, <2>2 DEF StopsWithAll
<1>8. CASE \E t \in Types : ownUpload(t) \/ removeEvidence(t)
  BY <1>3, <1>8 DEF ownUpload, removeEvidence, card
<1>9. QED
  BY <1>1, <1>3, <1>4, <1>5, <1>6, <1>7, <1>8, CardFrame

\* When the card has stopped its capture is completed, in every reachable state.
LEMMA AlwaysComplete == FormSpec => [](submitted = 0 => StopsComplete)
<1>1. FormInit => (submitted = 0 => StopsComplete)
  <2> SUFFICES ASSUME FormInit PROVE StopsComplete
    OBVIOUS
  <2>1. /\ capture = 0 /\ poll.at = "off" /\ late = {}
        /\ \A t \in Types : slot[t] = 0
        /\ ending = {} /\ \A c \in Captures : ~cap[c].completed
    BY DEF FormInit, CaptureInit
  <2>2. QED
    BY <2>1 DEF StopsComplete
<1>2. QED
  BY <1>1, AlwaysCaptures, AlwaysPhotos, AlwaysMatch, AlwaysCard,
     AlwaysPlaced, AlwaysForward, StaysComplete, PTL DEF FormSpec

\* A photo the applicant has removed never returns to the form, however often
\* the polls report it; and one in the form has been superseded on the phone
\* only while the card still polls, in a capture the card has dropped, or by a
\* retake that was committed when its capture was over.
THEOREM SlotsAreExplained == FormSpec => []SlotsExplained
<1>1. PlacedByCard /\ (submitted = 0 => StopsComplete) => SlotsExplained
  BY DEF PlacedByCard, StopsComplete, SlotsExplained, overtaken
<1>2. QED
  BY <1>1, AlwaysPlaced, AlwaysComplete, PTL

\* The card does not stop asking before it has the newest photo of each kind,
\* except for one that was committed when the capture was over.
THEOREM NothingIsForgotten == FormSpec => []NoPhotoForgotten
<1>1. FormInit => (submitted = 0 => StopsWithAll)
  <2> SUFFICES ASSUME FormInit PROVE StopsWithAll
    OBVIOUS
  <2>1. capture = 0 /\ poll.at = "off"
    BY DEF FormInit, CaptureInit
  <2>2. QED
    BY <2>1 DEF StopsWithAll
<1>2. (submitted = 0 => StopsWithAll) => NoPhotoForgotten
  BY DEF StopsWithAll, NoPhotoForgotten, qrView
<1>3. QED
  BY <1>1, <1>2, AlwaysCaptures, AlwaysPhotos, AlwaysMatch, AlwaysCard,
     AlwaysComplete, StaysWithAll, PTL DEF FormSpec
=============================================================================
