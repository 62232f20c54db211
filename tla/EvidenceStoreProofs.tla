------------------------ MODULE EvidenceStoreProofs ------------------------
(* Proofs about EvidenceStore for any requests, objects, handlers and        *)
(* bounds.                                                                   *)
EXTENDS EvidenceStore, RequestLifecycleProofs

\* Uploads and deletions leave the request rows alone.
LEMMA EvidenceStepsKeepRequests ==
  ASSUME \/ \E e \in Evidence : UploadStep(e)
         \/ \E d \in Deleters : DeleteStep(d)
  PROVE  UNCHANGED lifecycleVars
<1>1. ASSUME NEW e \in Evidence, UploadStep(e)
      PROVE  UNCHANGED lifecycleVars
  BY <1>1 DEF UploadStep, upload_evidence, store_temporary_evidence,
     upload_commit, upload_commit_fails, delete_uncommitted_evidence_object,
     upload_dies, put_object_times_out
<1>2. ASSUME NEW d \in Deleters, DeleteStep(d)
      PROVE  UNCHANGED lifecycleVars
  BY <1>2 DEF DeleteStep, cleanup_expired_temporary_uploads, select,
     delete_request_evidence, mark_evidence_deleted, delete_commit,
     delete_abort
<1>3. QED
  BY <1>1, <1>2

\* Evidence never moves a request in its life cycle: the composed system
\* implements RequestLifecycle, so every theorem about it carries over.
THEOREM EvidenceRefinesLifecycle == EvidenceSpec => ImplementsLifecycle
<1>1. EvidenceInit => LifecycleInit
  BY DEF EvidenceInit
<1>2. [EvidenceNext]_vars => [LifecycleNext]_lifecycleVars
  <2> SUFFICES ASSUME [EvidenceNext]_vars
               PROVE  LifecycleNext \/ UNCHANGED lifecycleVars
    OBVIOUS
  <2>1. CASE OtherStep
    BY <2>1 DEF OtherStep, LifecycleNext
  <2>2. ASSUME NEW a \in Applicants, SubmissionStep(a)
        PROVE  LifecycleNext
    <3>1. ApplicantStep(a)
      BY <2>2 DEF SubmissionStep, create_submission_read,
         create_submission_commit, create_submission_abort, ApplicantStep
    <3>2. QED
      BY <3>1 DEF LifecycleNext
  <2>3. CASE UNCHANGED vars
    BY <2>3 DEF vars
  <2>4. QED
    BY <2>1, <2>2, <2>3, EvidenceStepsKeepRequests DEF EvidenceNext
<1>3. QED
  BY <1>1, <1>2, PTL DEF EvidenceSpec, ImplementsLifecycle, LifecycleSpec

\* The types of the request rows hold in the composed system as well.
COROLLARY RowTypes == EvidenceSpec => []LifecycleTypeOK
  BY EvidenceRefinesLifecycle, TypeCorrect, PTL DEF ImplementsLifecycle

\* The steps of the life cycle that are no submission keep what submissions
\* have read and written.
LEMMA OtherStepsKeepSubmissions ==
  ASSUME OtherStep
  PROVE  UNCHANGED <<sub, rows>>
  BY DEF OtherStep, Tick, ExpiryStep, expire_due_requests_read,
     expire_request_if_needed_read, expire_commit, expire_abort, CaseStep,
     create_verification_request, extend_request_expiration, claim_case,
     assign_reviewer, revoke_request, record_decision

\* An appended list of references leaves the earlier ones in place.
LEMMA AppendedRefs ==
  ASSUME NEW d \in Seq(SUBSET Evidence), NEW x \in SUBSET Evidence
  PROVE  /\ Append(d, x) \in Seq(SUBSET Evidence)
         /\ Len(Append(d, x)) = Len(d) + 1
         /\ Len(d) \in Nat
         /\ \A n \in 1 .. Len(d) : Append(d, x)[n] = d[n]
         /\ Append(d, x)[Len(d) + 1] = x
  OBVIOUS

\* A submission that commits is one on an existing request.
LEMMA CommitHasRequest ==
  ASSUME LifecycleTypeOK, NEW a \in Applicants, submit_commit(a)
  PROVE  /\ sub[a].req \in Requests
         /\ rows[sub[a].req] \in 0 .. MaxRows
         /\ rows[sub[a].req] < MaxRows
         /\ rows' = [rows EXCEPT ![sub[a].req] = @ + 1]
         /\ sub' = [sub EXCEPT ![a] = Idle]
  BY DEF LifecycleTypeOK, submit_commit, Idle

-----------------------------------------------------------------------------
\* Every reachable state of the composed system is well typed, and there is
\* one list of references for each submission row.
THEOREM EvidenceTypeCorrect == EvidenceSpec => []EvidenceTypeOK
<1> USE ForAssumption, EvidenceBoundAssumption, BoundAssumption
<1>1. EvidenceInit => EvidenceTypeOK
  BY DEF EvidenceInit, EvidenceTypeOK, LifecycleInit, NoBatch
<1>2. LifecycleTypeOK /\ EvidenceTypeOK /\ [EvidenceNext]_vars
        => EvidenceTypeOK'
  <2> SUFFICES ASSUME LifecycleTypeOK, EvidenceTypeOK, [EvidenceNext]_vars
               PROVE  EvidenceTypeOK'
    OBVIOUS
  <2>0. now \in 0 .. MaxTime
    BY DEF LifecycleTypeOK, Times
  <2> USE DEF EvidenceTypeOK, EvidenceObjectStatus, evidenceRow
  <2>1. CASE OtherStep /\ UNCHANGED evidenceVars
    BY <2>1, OtherStepsKeepSubmissions DEF evidenceVars
  <2>2. ASSUME NEW e \in Evidence, UploadStep(e)
        PROVE  EvidenceTypeOK'
    <3>1. rows' = rows
      BY <2>2, EvidenceStepsKeepRequests DEF lifecycleVars
    <3>2. CASE upload_evidence(e)
      BY <3>1, <3>2 DEF upload_evidence, goto
    <3>3. CASE store_temporary_evidence(e)
      BY <2>0, <3>1, <3>3 DEF store_temporary_evidence, goto
    <3>4. CASE upload_commit(e)
      BY <3>1, <3>4 DEF upload_commit, insertRow, goto
    <3>5. CASE upload_commit_fails(e)
      <4>1. ev' \in [Evidence -> EvidenceObjectStatus \union {"absent"}]
        BY <3>5 DEF upload_commit_fails, insertRow
      <4>2. /\ faults' \in 0 .. MaxFaults
            /\ up' = [up EXCEPT ![e] = "undo"]
            /\ UNCHANGED <<evExpires, evSub, refs, stored, picked, del, unclean>>
        BY <3>5 DEF upload_commit_fails, goto, Fault
      <4>3. QED
        BY <3>1, <4>1, <4>2
    <3>6. CASE delete_uncommitted_evidence_object(e)
      BY <3>1, <3>6 DEF delete_uncommitted_evidence_object, goto
    <3>7. CASE upload_dies(e)
      BY <3>1, <3>7 DEF upload_dies, goto, Fault
    <3>8. CASE put_object_times_out(e)
      BY <3>1, <3>8 DEF put_object_times_out, goto, Fault
    <3>9. QED
      BY <2>2, <3>2, <3>3, <3>4, <3>5, <3>6, <3>7, <3>8 DEF UploadStep
  <2>3. ASSUME NEW a \in Applicants, NEW r \in Requests,
               NEW S \in SUBSET Evidence, create_submission_read(a, r, S)
        PROVE  EvidenceTypeOK'
    BY <2>3 DEF create_submission_read, submit_read
  <2>4. ASSUME NEW a \in Applicants, create_submission_commit(a)
        PROVE  EvidenceTypeOK'
    <3> DEFINE q == sub[a].req
    <3>1. /\ q \in Requests
          /\ rows[q] \in 0 .. MaxRows
          /\ rows[q] < MaxRows
          /\ rows' = [rows EXCEPT ![q] = @ + 1]
      BY <2>4, CommitHasRequest DEF create_submission_commit
    <3>2. /\ refs'[q] = Append(refs[q], picked[a])
          /\ \A r \in Requests \ {q} : refs'[r] = refs[r]
          /\ refs' = [refs EXCEPT ![q] = Append(@, picked[a])]
      BY <2>4, <3>1 DEF create_submission_commit
    <3>3. /\ refs' \in [Requests -> Seq(SUBSET Evidence)]
          /\ Len(refs'[q]) = Len(refs[q]) + 1
      BY <3>1, <3>2, AppendedRefs
    <3>4. rows \in [Requests -> 0 .. MaxRows]
      BY DEF LifecycleTypeOK
    <3>5. \A r \in Requests : Len(refs'[r]) = rows'[r]
      BY <3>1, <3>2, <3>3, <3>4
    <3>6. rows[q] + 1 \in 0 .. MaxRows
      BY <3>1
    <3>7. evSub' \in [Evidence -> 0 .. MaxRows]
      BY <2>4, <3>6 DEF create_submission_commit
    <3>8. QED
      BY <2>4, <3>3, <3>5, <3>7 DEF create_submission_commit
  <2>5. ASSUME NEW a \in Applicants, create_submission_abort(a)
        PROVE  EvidenceTypeOK'
    BY <2>5 DEF create_submission_abort, submit_abort
  <2>6. ASSUME NEW d \in Deleters, DeleteStep(d)
        PROVE  EvidenceTypeOK'
    <3>1. rows' = rows
      BY <2>6, EvidenceStepsKeepRequests DEF lifecycleVars
    <3>2. ASSUME NEW S \in SUBSET Evidence, select(d, S)
          PROVE  EvidenceTypeOK'
      BY <3>1, <3>2 DEF select
    <3>3. ASSUME NEW e \in Evidence, mark_evidence_deleted(d, e)
          PROVE  EvidenceTypeOK'
      BY <3>1, <3>3 DEF mark_evidence_deleted
    <3>4. CASE delete_commit(d)
      BY <3>1, <3>4 DEF delete_commit, NoBatch
    <3>5. CASE delete_abort(d)
      BY <3>1, <3>5 DEF delete_abort, NoBatch, Fault
    <3>6. QED
      BY <2>6, <3>2, <3>3, <3>4, <3>5 DEF DeleteStep,
         cleanup_expired_temporary_uploads, delete_request_evidence
  <2>7. CASE UNCHANGED vars
    BY <2>7 DEF vars, evidenceVars, lifecycleVars
  <2>8. QED
    BY <2>1, <2>2, <2>3, <2>4, <2>5, <2>6, <2>7
       DEF EvidenceNext, SubmissionStep
<1>3. QED
  BY <1>1, <1>2, RowTypes, PTL DEF EvidenceSpec

-----------------------------------------------------------------------------
(* The inductive invariant.  DeletedIsGone needs to know that an object is   *)
(* put before its row exists, and so before any deletion can select it, and   *)
(* that the objects a batch is done with are out of the bucket before its     *)
(* commit; the attachments need to know what an open submission has read.     *)

beforeRow(e) ==
  /\ up[e] \in {"idle", "checked"} => e \notin stored
  /\ up[e] \in {"idle", "checked", "stored"} => ev[e] = "absent"

batchSound(d) ==
  /\ \A e \in del[d].todo : ev[e] # "absent"
  /\ \A e \in del[d].done : ev[e] # "absent" /\ e \notin stored

readSound(a) ==
  \A e \in picked[a] :
    sub[a].req # None /\ For[e] = sub[a].req /\ ev[e] # "absent"

BucketInv ==
  /\ DeletedIsGone
  /\ OrphansExplained
  /\ \A e \in Evidence : beforeRow(e)
  /\ \A d \in Deleters : batchSound(d)
  /\ \A a \in Applicants : readSound(a)

\* The bucket and the rows stay in step: the inductive invariant of
\* EvidenceStore.
LEMMA BucketInvariant == EvidenceSpec => []BucketInv
<1> USE ForAssumption, NoneAssumption
<1>1. EvidenceInit => BucketInv
  BY DEF EvidenceInit, BucketInv, DeletedIsGone, OrphansExplained, beforeRow,
         batchSound, readSound, NoBatch
<1>2. LifecycleTypeOK /\ EvidenceTypeOK /\ BucketInv /\ [EvidenceNext]_vars
        => BucketInv'
  <2> SUFFICES ASSUME LifecycleTypeOK, EvidenceTypeOK, BucketInv,
                      [EvidenceNext]_vars
               PROVE  BucketInv'
    OBVIOUS
  <2> USE DEF BucketInv, DeletedIsGone, OrphansExplained, beforeRow,
              batchSound, readSound, evidenceRow
  <2>0. /\ up \in [Evidence -> {"idle", "checked", "stored", "undo",
                                "answered", "ended"}]
        /\ ev \in [Evidence -> {"temporary", "attached", "deleted", "absent"}]
        /\ stored \subseteq Evidence
        /\ picked \in [Applicants -> SUBSET Evidence]
        /\ del \in [Deleters -> [todo : SUBSET Evidence, done : SUBSET Evidence]]
    BY DEF EvidenceTypeOK, EvidenceObjectStatus
  <2>1. CASE OtherStep /\ UNCHANGED evidenceVars
    BY <2>1, OtherStepsKeepSubmissions DEF evidenceVars
  <2>2. ASSUME NEW e \in Evidence, UploadStep(e)
        PROVE  BucketInv'
    <3>1. sub' = sub
      BY <2>2, EvidenceStepsKeepRequests DEF lifecycleVars
    <3>2. CASE upload_evidence(e)
      BY <2>0, <3>1, <3>2 DEF upload_evidence, goto
    <3>3. CASE store_temporary_evidence(e)
      BY <2>0, <3>1, <3>3 DEF store_temporary_evidence, goto
    <3>4. CASE upload_commit(e)
      BY <2>0, <3>1, <3>4 DEF upload_commit, insertRow, goto
    <3>5. CASE upload_commit_fails(e)
      <4>1. CASE insertRow(e)
        BY <2>0, <3>1, <3>5, <4>1 DEF upload_commit_fails, insertRow, goto
      <4>2. CASE UNCHANGED ev
        BY <2>0, <3>1, <3>5, <4>2 DEF upload_commit_fails, goto
      <4>3. QED
        BY <3>5, <4>1, <4>2 DEF upload_commit_fails
    <3>6. CASE delete_uncommitted_evidence_object(e)
      BY <2>0, <3>1, <3>6 DEF delete_uncommitted_evidence_object, goto
    <3>7. CASE upload_dies(e)
      BY <2>0, <3>1, <3>7 DEF upload_dies, goto
    <3>8. CASE put_object_times_out(e)
      BY <2>0, <3>1, <3>8 DEF put_object_times_out, goto
    <3>9. QED
      BY <2>2, <3>2, <3>3, <3>4, <3>5, <3>6, <3>7, <3>8 DEF UploadStep
  <2>3. ASSUME NEW a \in Applicants, NEW r \in Requests,
               NEW S \in SUBSET Evidence, create_submission_read(a, r, S)
        PROVE  BucketInv'
    <3>1. /\ sub' = [sub EXCEPT ![a] = [req |-> r, status |-> status[r],
                                        count |-> count[r]]]
          /\ \A e \in S : For[e] = r /\ ev[e] # "absent"
          /\ picked' = [picked EXCEPT ![a] = S]
      BY <2>3 DEF create_submission_read, submit_read, available
    <3>2. \A b \in Applicants : readSound(b)'
      BY <2>0, <2>3, <3>1 DEF create_submission_read, LifecycleTypeOK
    <3>3. QED
      BY <2>3, <3>2 DEF create_submission_read
  <2>4. ASSUME NEW a \in Applicants, create_submission_commit(a)
        PROVE  BucketInv'
    <3>1. sub' = [sub EXCEPT ![a] = Idle] /\ sub \in [Applicants ->
               [req : Requests, status : Submittable,
                count : 0 .. MaxSubmissions - 1] \union {Idle}]
      BY <2>4, CommitHasRequest DEF create_submission_commit, LifecycleTypeOK
    <3>2. \A e \in Evidence :
            \/ ev'[e] = ev[e]
            \/ ev'[e] = "attached" /\ ev[e] # "absent"
      BY <2>0, <2>4 DEF create_submission_commit, attach
    <3>3. \A b \in Applicants : readSound(b)'
      BY <2>0, <2>4, <3>1, <3>2 DEF create_submission_commit
    <3>4. UNCHANGED <<up, stored, del, unclean>>
      BY <2>4 DEF create_submission_commit
    <3>5. (DeletedIsGone /\ OrphansExplained)'
      BY <2>0, <3>2, <3>4
    <3>6. (\A e \in Evidence : beforeRow(e))'
      BY <2>0, <3>2, <3>4
    <3>7. (\A d \in Deleters : batchSound(d))'
      BY <2>0, <3>2, <3>4
    <3>8. QED
      BY <3>3, <3>5, <3>6, <3>7
  <2>5. ASSUME NEW a \in Applicants, create_submission_abort(a)
        PROVE  BucketInv'
    BY <2>0, <2>5 DEF create_submission_abort, submit_abort, LifecycleTypeOK
  <2>6. ASSUME NEW d \in Deleters, DeleteStep(d)
        PROVE  BucketInv'
    <3>1. sub' = sub
      BY <2>6, EvidenceStepsKeepRequests DEF lifecycleVars
    <3>2. ASSUME NEW S \in SUBSET Evidence, select(d, S),
                 \A e \in S : ev[e] # "absent"
          PROVE  BucketInv'
      BY <2>0, <3>1, <3>2 DEF select
    <3>3. ASSUME NEW e \in Evidence, mark_evidence_deleted(d, e)
          PROVE  BucketInv'
      BY <2>0, <3>1, <3>3 DEF mark_evidence_deleted
    <3>4. CASE delete_commit(d)
      BY <2>0, <3>1, <3>4 DEF delete_commit, NoBatch
    <3>5. CASE delete_abort(d)
      BY <2>0, <3>1, <3>5 DEF delete_abort, NoBatch
    <3>6. CASE cleanup_expired_temporary_uploads(d)
      BY <3>2, <3>6 DEF cleanup_expired_temporary_uploads
    <3>7. ASSUME NEW r \in Requests, delete_request_evidence(d, r)
          PROVE  BucketInv'
      BY <3>2, <3>7 DEF delete_request_evidence
    <3>8. QED
      BY <2>6, <3>3, <3>4, <3>5, <3>6, <3>7 DEF DeleteStep
  <2>7. CASE UNCHANGED vars
    BY <2>7 DEF vars, evidenceVars, lifecycleVars
  <2>8. QED
    BY <2>1, <2>2, <2>3, <2>4, <2>5, <2>6, <2>7
       DEF EvidenceNext, SubmissionStep
<1>3. QED
  BY <1>1, <1>2, RowTypes, EvidenceTypeCorrect, PTL DEF EvidenceSpec

\* What the database calls deleted is not in the bucket any more, whatever
\* fails and however many deletions run at once.
THEOREM DeletedObjectsAreGone == EvidenceSpec => []DeletedIsGone
  BY BucketInvariant, PTL DEF BucketInv

\* Only a crash, an unanswered put or a failed compensation leaves an object
\* without a row behind.
THEOREM OrphansAreExplained == EvidenceSpec => []OrphansExplained
  BY BucketInvariant, PTL DEF BucketInv

-----------------------------------------------------------------------------
\* A submission's list names its own evidence, and every pointer of an
\* evidence row is backed by the list it points at, although concurrent
\* submissions attach the same rows and deletions overwrite them.
THEOREM AttachmentsAreSound == EvidenceSpec => []AttachmentSound
<1> USE ForAssumption, BoundAssumption
<1> DEFINE Pointers == \A e \in Evidence : evSub[e] <= Len(refs[For[e]])
           AttachInv == AttachmentSound /\ Pointers
<1>1. EvidenceInit => AttachInv
  BY DEF EvidenceInit, AttachmentSound
<1>2. LifecycleTypeOK /\ EvidenceTypeOK /\ BucketInv /\ AttachInv
        /\ [EvidenceNext]_vars => AttachInv'
  <2> SUFFICES ASSUME LifecycleTypeOK, EvidenceTypeOK, BucketInv, AttachInv,
                      [EvidenceNext]_vars
               PROVE  AttachInv'
    OBVIOUS
  <2>0. /\ ev \in [Evidence -> {"temporary", "attached", "deleted", "absent"}]
        /\ evSub \in [Evidence -> 0 .. MaxRows]
        /\ refs \in [Requests -> Seq(SUBSET Evidence)]
        /\ picked \in [Applicants -> SUBSET Evidence]
        /\ \A r \in Requests : Len(refs[r]) = rows[r] /\ Len(refs[r]) \in Nat
    BY DEF EvidenceTypeOK, EvidenceObjectStatus
  \* A status may change as long as submitted evidence stays so.
  <2>1. ASSUME UNCHANGED <<evSub, refs>>,
               \A e \in Evidence :
                 /\ ev[e] \in {"attached", "deleted"}
                      => ev'[e] \in {"attached", "deleted"}
                 /\ ev'[e] = "attached" => ev[e] = "attached"
        PROVE  AttachInv'
    <3>1. ASSUME NEW r \in Requests, NEW n \in 1 .. Len(refs[r]),
                 NEW e \in refs[r][n]
          PROVE  For[e] = r /\ ev'[e] \in {"attached", "deleted"}
                   /\ evSub[e] >= n
      <4>1. e \in Evidence
        BY <2>0
      <4>2. QED
        BY <2>1, <4>1 DEF AttachmentSound
    <3>2. \A e \in Evidence :
            /\ ev'[e] = "attached" => evSub[e] > 0
            /\ evSub[e] > 0 => e \in refs[For[e]][evSub[e]]
      BY <2>1 DEF AttachmentSound
    <3>3. QED
      BY <2>1, <3>1, <3>2 DEF AttachmentSound
  <2>2. ASSUME NEW e \in Evidence, UploadStep(e)
        PROVE  AttachInv'
    <3>1. UNCHANGED <<evSub, refs>>
      BY <2>2 DEF UploadStep, upload_evidence, store_temporary_evidence,
         upload_commit, upload_commit_fails, upload_dies, evidenceRow,
         delete_uncommitted_evidence_object, put_object_times_out
    <3>2. \/ ev' = ev
          \/ ev[e] = "absent" /\ ev' = [ev EXCEPT ![e] = "temporary"]
      BY <2>2 DEF UploadStep, upload_evidence, store_temporary_evidence,
         upload_commit, upload_commit_fails, upload_dies, evidenceRow,
         delete_uncommitted_evidence_object, put_object_times_out, insertRow,
         BucketInv, beforeRow
    <3>3. QED
      BY <2>0, <2>1, <3>1, <3>2
  <2>3. ASSUME NEW a \in Applicants, create_submission_commit(a)
        PROVE  AttachInv'
    <3> DEFINE q == sub[a].req
               top == rows[q] + 1
    <3>1. q \in Requests /\ top = Len(refs[q]) + 1 /\ rows[q] \in Nat
      BY <2>0, <2>3, CommitHasRequest DEF create_submission_commit
    <3>2. \A e \in picked[a] : e \in Evidence /\ For[e] = q
      BY <2>0 DEF BucketInv, readSound
    <3>3. /\ refs'[q] = Append(refs[q], picked[a])
          /\ \A r \in Requests \ {q} : refs'[r] = refs[r]
      BY <2>0, <2>3, <3>1 DEF create_submission_commit
    <3>4. /\ Len(refs'[q]) = top
          /\ \A n \in 1 .. Len(refs[q]) : refs'[q][n] = refs[q][n]
          /\ refs'[q][top] = picked[a]
      BY <2>0, <3>1, <3>3, AppendedRefs
    <3>0. ASSUME NEW r \in Requests
          PROVE  /\ Len(refs[r]) \in Nat
                 /\ Len(refs'[r]) \in Nat
                 /\ Len(refs[r]) <= Len(refs'[r])
                 /\ \A n \in 1 .. Len(refs[r]) : refs'[r][n] = refs[r][n]
                 /\ \A n \in 1 .. Len(refs'[r]) :
                      n \in 1 .. Len(refs[r]) \/ (r = q /\ n = top)
      <4>1. Len(refs[r]) \in Nat
        BY <2>0
      <4>2. CASE r = q
        <5> HIDE DEF q, top
        <5>1. QED
          BY <3>1, <3>4, <4>1, <4>2
      <4>3. CASE r # q
        <5>1. refs'[r] = refs[r]
          BY <3>3, <4>3
        <5>2. QED
          BY <4>1, <5>1
      <4>4. QED
        BY <4>2, <4>3
    <3>5. \A e \in Evidence :
            IF e \in picked[a]
              THEN ev'[e] = "attached" /\ evSub'[e] = top
              ELSE ev'[e] = ev[e] /\ evSub'[e] = evSub[e]
      BY <2>3 DEF create_submission_commit, attach
    <3>6. ASSUME NEW r \in Requests, NEW n \in 1 .. Len(refs'[r]),
                 NEW e \in refs'[r][n]
          PROVE  For[e] = r /\ ev'[e] \in {"attached", "deleted"}
                   /\ evSub'[e] >= n
      <4>1. CASE r = q /\ n = top
        BY <3>1, <3>2, <3>4, <3>5, <4>1
      <4>2. CASE ~(r = q /\ n = top)
        <5>1. n \in 1 .. Len(refs[r]) /\ refs'[r][n] = refs[r][n]
          BY <3>0, <4>2
        <5>2. /\ e \in Evidence
              /\ For[e] = r /\ ev[e] \in {"attached", "deleted"}
              /\ evSub[e] >= n
          BY <2>0, <5>1 DEF AttachmentSound
        <5>3. e \in picked[a] => r = q
          BY <3>2, <5>2
        <5>4. QED
          BY <2>0, <3>1, <3>5, <5>1, <5>2, <5>3
      <4>3. QED
        BY <4>1, <4>2
    <3>7. ASSUME NEW e \in Evidence
          PROVE  /\ ev'[e] = "attached" => evSub'[e] > 0
                 /\ evSub'[e] > 0 => e \in refs'[For[e]][evSub'[e]]
                 /\ evSub'[e] <= Len(refs'[For[e]])
      <4>1. CASE e \in picked[a]
        BY <3>1, <3>2, <3>4, <3>5, <4>1
      <4>2. CASE e \notin picked[a]
        <5>1. ev'[e] = ev[e] /\ evSub'[e] = evSub[e] /\ For[e] \in Requests
          BY <3>5, <4>2
        <5>2. /\ ev[e] = "attached" => evSub[e] > 0
              /\ evSub[e] > 0 => e \in refs[For[e]][evSub[e]]
              /\ evSub[e] <= Len(refs[For[e]])
              /\ evSub[e] \in Nat
          BY <2>0 DEF AttachmentSound
        <5>3. /\ Len(refs[For[e]]) <= Len(refs'[For[e]])
              /\ evSub[e] > 0 =>
                   refs'[For[e]][evSub[e]] = refs[For[e]][evSub[e]]
          BY <3>0, <5>1, <5>2
        <5>4. Len(refs'[For[e]]) \in Nat /\ Len(refs[For[e]]) \in Nat
          BY <3>0, <5>1
        <5>5. QED
          BY <2>0, <5>1, <5>2, <5>3, <5>4
      <4>3. QED
        BY <4>1, <4>2
    <3>8. QED
      BY <3>6, <3>7 DEF AttachmentSound
  <2>4. ASSUME NEW d \in Deleters, DeleteStep(d)
        PROVE  AttachInv'
    <3>1. UNCHANGED <<evSub, refs>>
      BY <2>4 DEF DeleteStep, cleanup_expired_temporary_uploads, select,
         delete_request_evidence, mark_evidence_deleted, delete_commit,
         delete_abort, evidenceRow
    <3>2. \A e \in Evidence : ev'[e] \in {ev[e], "deleted"}
      BY <2>4 DEF DeleteStep, cleanup_expired_temporary_uploads, select,
         delete_request_evidence, mark_evidence_deleted, delete_commit,
         delete_abort, evidenceRow
    <3>3. QED
      BY <2>0, <2>1, <3>1, <3>2
  <2>5. CASE UNCHANGED <<ev, evSub, refs>>
    BY <2>1, <2>5
  <2>6. QED
    BY <2>2, <2>3, <2>4, <2>5 DEF EvidenceNext, SubmissionStep, vars,
       create_submission_read, create_submission_abort, evidenceVars,
       evidenceRow
<1>3. QED
  BY <1>1, <1>2, RowTypes, EvidenceTypeCorrect, BucketInvariant, PTL
     DEF EvidenceSpec

\* A deleted row comes back only by the commit of a submission that had read
\* it before: the missing row lock is the only way around a deletion.
THEOREM OnlyStaleReadsUndoDeletion ==
  EvidenceSpec => DeletionUndoneOnlyByStaleRead
<1>1. EvidenceTypeOK /\ BucketInv /\ [EvidenceNext]_vars =>
        [\A e \in Evidence :
           ev[e] = "deleted" /\ ev'[e] # "deleted" =>
             \E a \in Applicants : e \in picked[a] /\ picked'[a] = {}]_vars
  <2> SUFFICES ASSUME EvidenceTypeOK, BucketInv, EvidenceNext,
                      NEW e \in Evidence,
                      ev[e] = "deleted", ev'[e] # "deleted"
               PROVE  \E a \in Applicants : e \in picked[a] /\ picked'[a] = {}
    OBVIOUS
  <2>0. /\ ev \in [Evidence -> {"temporary", "attached", "deleted", "absent"}]
        /\ picked \in [Applicants -> SUBSET Evidence]
    BY DEF EvidenceTypeOK, EvidenceObjectStatus
  <2>1. ASSUME NEW x \in Evidence, UploadStep(x)
        PROVE  FALSE
    BY <2>0, <2>1 DEF UploadStep, upload_evidence, store_temporary_evidence,
       upload_commit, upload_commit_fails, upload_dies, evidenceRow,
       delete_uncommitted_evidence_object, put_object_times_out, insertRow,
       BucketInv, beforeRow
  <2>2. ASSUME NEW d \in Deleters, DeleteStep(d)
        PROVE  FALSE
    BY <2>2 DEF DeleteStep, cleanup_expired_temporary_uploads, select,
       delete_request_evidence, mark_evidence_deleted, delete_commit,
       delete_abort, evidenceRow
  <2>3. PICK a \in Applicants : create_submission_commit(a)
    BY <2>1, <2>2 DEF EvidenceNext, SubmissionStep, create_submission_read,
       create_submission_abort, evidenceVars, evidenceRow
  <2>4. e \in picked[a] /\ picked'[a] = {}
    BY <2>0, <2>3 DEF create_submission_commit, attach
  <2>5. QED
    BY <2>4
<1>2. QED
  BY <1>1, EvidenceTypeCorrect, BucketInvariant, PTL
     DEF EvidenceSpec, DeletionUndoneOnlyByStaleRead
=============================================================================
