----------------------- MODULE RequestLifecycleProofs -----------------------
(* Proofs about RequestLifecycle for any requests, administrators, handlers *)
(* and bounds.                                                              *)
EXTENDS RequestLifecycle, TLAPS

\* The latest of the decision rows is the one record_decision has added.
LEMMA LastOfAppend ==
  ASSUME NEW S, NEW d \in Seq(S), NEW x \in S
  PROVE  /\ Append(d, x) # << >>
         /\ Append(d, x)[Len(Append(d, x))] = x
<1>1. Len(Append(d, x)) = Len(d) + 1 /\ Len(d) \in Nat
  OBVIOUS
<1>2. Append(d, x)[Len(d) + 1] = x
  OBVIOUS
<1>3. Append(d, x) # << >>
  BY <1>1
<1>4. QED
  BY <1>1, <1>2, <1>3

\* The columns of every reachable row, and what every open handler has read,
\* have their types; in particular the counter satisfies the table's check
\* constraint although concurrent submissions overwrite it.
THEOREM TypeCorrect == LifecycleSpec => []LifecycleTypeOK
<1> USE NoneAssumption, LimitAssumption, BoundAssumption
        DEF Times, Submittable, requestRow
<1>1. LifecycleInit => LifecycleTypeOK
  BY DEF LifecycleInit, LifecycleTypeOK, VerificationStatus, Idle
<1>2. LifecycleTypeOK /\ [LifecycleNext]_lifecycleVars => LifecycleTypeOK'
  <2> SUFFICES ASSUME LifecycleTypeOK, [LifecycleNext]_lifecycleVars
               PROVE  LifecycleTypeOK'
    OBVIOUS
  <2> USE DEF LifecycleTypeOK
  <2>1. CASE Tick
    BY <2>1 DEF Tick
  <2>2. ASSUME NEW a \in Applicants, NEW r \in Requests, submit_read(a, r)
        PROVE  LifecycleTypeOK'
    BY <2>2 DEF submit_read
  <2>3. ASSUME NEW a \in Applicants, submit_commit(a)
        PROVE  LifecycleTypeOK'
    BY <2>3 DEF submit_commit, Idle, VerificationStatus
  <2>4. ASSUME NEW a \in Applicants, submit_abort(a)
        PROVE  LifecycleTypeOK'
    BY <2>4 DEF submit_abort
  <2>5. ASSUME NEW e \in Expirers, expire_due_requests_read(e)
        PROVE  LifecycleTypeOK'
    BY <2>5 DEF expire_due_requests_read
  <2>6. ASSUME NEW e \in Expirers, NEW r \in Requests,
               expire_request_if_needed_read(e, r)
        PROVE  LifecycleTypeOK'
    BY <2>6 DEF expire_request_if_needed_read
  <2>7. ASSUME NEW e \in Expirers, expire_commit(e)
        PROVE  LifecycleTypeOK'
    BY <2>7 DEF expire_commit, VerificationStatus
  <2>8. ASSUME NEW e \in Expirers, expire_abort(e)
        PROVE  LifecycleTypeOK'
    BY <2>8 DEF expire_abort
  <2>9. ASSUME NEW r \in Requests, NEW t \in Times,
               create_verification_request(r, t)
        PROVE  LifecycleTypeOK'
    BY <2>9 DEF create_verification_request, VerificationStatus
  <2>10. ASSUME NEW r \in Requests, NEW t \in Times,
                extend_request_expiration(r, t)
         PROVE  LifecycleTypeOK'
    BY <2>10 DEF extend_request_expiration, VerificationStatus
  <2>11. ASSUME NEW r \in Requests, revoke_request(r)
         PROVE  LifecycleTypeOK'
    BY <2>11 DEF revoke_request, VerificationStatus
  <2>12. ASSUME NEW r \in Requests, NEW adm \in Admins, claim_case(r, adm)
         PROVE  LifecycleTypeOK'
    BY <2>12 DEF claim_case, VerificationStatus
  <2>13. ASSUME NEW r \in Requests, NEW adm \in Admins,
                assign_reviewer(r, adm)
         PROVE  LifecycleTypeOK'
    BY <2>13 DEF assign_reviewer
  <2>14. ASSUME NEW r \in Requests, NEW adm \in Admins,
                NEW target \in DecisionTargets,
                record_decision(r, adm, target)
         PROVE  LifecycleTypeOK'
    BY <2>14 DEF record_decision, upsert_approved_result, DecisionTargets,
                 VerificationStatus
  <2>15. CASE UNCHANGED lifecycleVars
    BY <2>15 DEF lifecycleVars
  <2>16. QED
    BY <2>1, <2>2, <2>3, <2>4, <2>5, <2>6, <2>7, <2>8, <2>9, <2>10, <2>11,
       <2>12, <2>13, <2>14, <2>15
       DEF LifecycleNext, ApplicantStep, ExpiryStep, CaseStep
<1>3. QED
  BY <1>1, <1>2, PTL DEF LifecycleSpec

\* No decision and no review in progress is without a submission of its own:
\* entering the queue always adds a row, and only the queue leads to a review.
THEOREM ReviewsHaveSubmissions == LifecycleSpec => []ReviewNeedsSubmission
<1>1. LifecycleInit => ReviewNeedsSubmission
  BY NoneAssumption DEF LifecycleInit, ReviewNeedsSubmission
<1>2. LifecycleTypeOK /\ ReviewNeedsSubmission /\ [LifecycleNext]_lifecycleVars
        => ReviewNeedsSubmission'
  <2> SUFFICES ASSUME LifecycleTypeOK, ReviewNeedsSubmission, [LifecycleNext]_lifecycleVars
               PROVE  ReviewNeedsSubmission'
    OBVIOUS
  <2> USE NoneAssumption, LimitAssumption, BoundAssumption
          DEF LifecycleTypeOK, ReviewNeedsSubmission, requestRow
  <2>1. CASE Tick
    BY <2>1 DEF Tick
  <2>2. ASSUME NEW a \in Applicants, NEW r \in Requests, submit_read(a, r)
        PROVE  ReviewNeedsSubmission'
    BY <2>2 DEF submit_read
  <2>3. ASSUME NEW a \in Applicants, submit_commit(a)
        PROVE  ReviewNeedsSubmission'
    BY <2>3 DEF submit_commit
  <2>4. ASSUME NEW a \in Applicants, submit_abort(a)
        PROVE  ReviewNeedsSubmission'
    BY <2>4 DEF submit_abort
  <2>5. ASSUME NEW e \in Expirers, expire_due_requests_read(e)
        PROVE  ReviewNeedsSubmission'
    BY <2>5 DEF expire_due_requests_read
  <2>6. ASSUME NEW e \in Expirers, NEW r \in Requests,
               expire_request_if_needed_read(e, r)
        PROVE  ReviewNeedsSubmission'
    BY <2>6 DEF expire_request_if_needed_read
  <2>7. ASSUME NEW e \in Expirers, expire_commit(e)
        PROVE  ReviewNeedsSubmission'
    BY <2>7 DEF expire_commit
  <2>8. ASSUME NEW e \in Expirers, expire_abort(e)
        PROVE  ReviewNeedsSubmission'
    BY <2>8 DEF expire_abort
  <2>9. ASSUME NEW r \in Requests, NEW t \in Times,
               create_verification_request(r, t)
        PROVE  ReviewNeedsSubmission'
    BY <2>9 DEF create_verification_request
  <2>10. ASSUME NEW r \in Requests, NEW t \in Times,
               extend_request_expiration(r, t)
        PROVE  ReviewNeedsSubmission'
    BY <2>10 DEF extend_request_expiration, VerificationStatus
  <2>11. ASSUME NEW r \in Requests, revoke_request(r)
        PROVE  ReviewNeedsSubmission'
    BY <2>11 DEF revoke_request
  <2>12. ASSUME NEW r \in Requests, NEW adm \in Admins, claim_case(r, adm)
        PROVE  ReviewNeedsSubmission'
    BY <2>12 DEF claim_case
  <2>13. ASSUME NEW r \in Requests, NEW adm \in Admins,
               assign_reviewer(r, adm)
        PROVE  ReviewNeedsSubmission'
    BY <2>13 DEF assign_reviewer
  <2>14. ASSUME NEW r \in Requests, NEW adm \in Admins,
               NEW target \in DecisionTargets, record_decision(r, adm, target)
        PROVE  ReviewNeedsSubmission'
    <3>1. target \notin {"queued", "in_review"}
      BY DEF DecisionTargets
    <3>2. /\ decisions[r] \in Seq(DecisionTargets)
          /\ Len(decisions[r]) \in Nat
          /\ Len(decisions'[r]) = Len(decisions[r]) + 1
      BY <2>14 DEF record_decision
    <3>3. status[r] = "in_review" /\ status'[r] = target /\ rows' = rows
      BY <2>14 DEF record_decision
    <3>4. Len(decisions'[r])
            + (IF status'[r] \in {"queued", "in_review"} THEN 1 ELSE 0)
            <= rows'[r]
      BY <3>1, <3>2, <3>3
    <3>5. \A q \in Requests \ {r} :
            decisions'[q] = decisions[q] /\ status'[q] = status[q]
      BY <2>14 DEF record_decision
    <3>6. QED
      BY <3>3, <3>4, <3>5
  <2>15. CASE UNCHANGED lifecycleVars
    BY <2>15 DEF lifecycleVars
  <2>16. QED
    BY <2>1, <2>2, <2>3, <2>4, <2>5, <2>6, <2>7, <2>8, <2>9, <2>10,
       <2>11, <2>12, <2>13, <2>14, <2>15
       DEF LifecycleNext, ApplicantStep, ExpiryStep, CaseStep
<1>3. QED
  BY <1>1, <1>2, TypeCorrect, PTL DEF LifecycleSpec

\* The statuses approved, rejected and more_info always come from the latest
\* decision row, and approved from one that left a verified result.
THEOREM DecisionsBackStatuses == LifecycleSpec => []DecisionBacksStatus
<1>1. LifecycleInit => DecisionBacksStatus
  BY DEF LifecycleInit, DecisionBacksStatus, DecisionTargets
<1>2. LifecycleTypeOK /\ DecisionBacksStatus /\ [LifecycleNext]_lifecycleVars
        => DecisionBacksStatus'
  <2> SUFFICES ASSUME LifecycleTypeOK, DecisionBacksStatus, [LifecycleNext]_lifecycleVars
               PROVE  DecisionBacksStatus'
    OBVIOUS
  <2> USE NoneAssumption, LimitAssumption, BoundAssumption
          DEF LifecycleTypeOK, DecisionBacksStatus, requestRow
  <2>1. CASE Tick
    BY <2>1 DEF Tick
  <2>2. ASSUME NEW a \in Applicants, NEW r \in Requests, submit_read(a, r)
        PROVE  DecisionBacksStatus'
    BY <2>2 DEF submit_read
  <2>3. ASSUME NEW a \in Applicants, submit_commit(a)
        PROVE  DecisionBacksStatus'
    BY <2>3 DEF submit_commit, DecisionTargets
  <2>4. ASSUME NEW a \in Applicants, submit_abort(a)
        PROVE  DecisionBacksStatus'
    BY <2>4 DEF submit_abort
  <2>5. ASSUME NEW e \in Expirers, expire_due_requests_read(e)
        PROVE  DecisionBacksStatus'
    BY <2>5 DEF expire_due_requests_read
  <2>6. ASSUME NEW e \in Expirers, NEW r \in Requests,
               expire_request_if_needed_read(e, r)
        PROVE  DecisionBacksStatus'
    BY <2>6 DEF expire_request_if_needed_read
  <2>7. ASSUME NEW e \in Expirers, expire_commit(e)
        PROVE  DecisionBacksStatus'
    BY <2>7 DEF expire_commit, DecisionTargets
  <2>8. ASSUME NEW e \in Expirers, expire_abort(e)
        PROVE  DecisionBacksStatus'
    BY <2>8 DEF expire_abort
  <2>9. ASSUME NEW r \in Requests, NEW t \in Times,
               create_verification_request(r, t)
        PROVE  DecisionBacksStatus'
    BY <2>9 DEF create_verification_request, DecisionTargets
  <2>10. ASSUME NEW r \in Requests, NEW t \in Times,
               extend_request_expiration(r, t)
        PROVE  DecisionBacksStatus'
    BY <2>10 DEF extend_request_expiration, DecisionTargets
  <2>11. ASSUME NEW r \in Requests, revoke_request(r)
        PROVE  DecisionBacksStatus'
    BY <2>11 DEF revoke_request, DecisionTargets
  <2>12. ASSUME NEW r \in Requests, NEW adm \in Admins, claim_case(r, adm)
        PROVE  DecisionBacksStatus'
    BY <2>12 DEF claim_case, DecisionTargets
  <2>13. ASSUME NEW r \in Requests, NEW adm \in Admins,
               assign_reviewer(r, adm)
        PROVE  DecisionBacksStatus'
    BY <2>13 DEF assign_reviewer
  <2>14. ASSUME NEW r \in Requests, NEW adm \in Admins,
               NEW target \in DecisionTargets, record_decision(r, adm, target)
        PROVE  DecisionBacksStatus'
    <3>1. /\ decisions[r] \in Seq(DecisionTargets)
          /\ decisions'[r] = Append(decisions[r], target)
      BY <2>14 DEF record_decision
    <3>2. decisions'[r] # << >> /\ decisions'[r][Len(decisions'[r])] = target
      BY <3>1, LastOfAppend
    <3>3. /\ status'[r] = target
          /\ target = "approved" => result'[r] = "verified"
      BY <2>14 DEF record_decision, upsert_approved_result
    <3>4. \A q \in Requests \ {r} :
            /\ decisions'[q] = decisions[q]
            /\ status'[q] = status[q]
            /\ result'[q] = result[q]
      BY <2>14 DEF record_decision, upsert_approved_result
    <3>5. QED
      BY <3>2, <3>3, <3>4
  <2>15. CASE UNCHANGED lifecycleVars
    BY <2>15 DEF lifecycleVars
  <2>16. QED
    BY <2>1, <2>2, <2>3, <2>4, <2>5, <2>6, <2>7, <2>8, <2>9, <2>10,
       <2>11, <2>12, <2>13, <2>14, <2>15
       DEF LifecycleNext, ApplicantStep, ExpiryStep, CaseStep
<1>3. QED
  BY <1>1, <1>2, TypeCorrect, PTL DEF LifecycleSpec

\* No interleaving leaves a revoked request with a verified result.
THEOREM RevokedResultsAreUnverified == LifecycleSpec => []RevokedIsUnverified
<1>1. LifecycleInit => RevokedIsUnverified
  BY NoneAssumption DEF LifecycleInit, RevokedIsUnverified
<1>2. LifecycleTypeOK /\ RevokedIsUnverified /\ [LifecycleNext]_lifecycleVars
        => RevokedIsUnverified'
  <2> SUFFICES ASSUME LifecycleTypeOK, RevokedIsUnverified, [LifecycleNext]_lifecycleVars
               PROVE  RevokedIsUnverified'
    OBVIOUS
  <2> USE NoneAssumption, LimitAssumption, BoundAssumption
          DEF LifecycleTypeOK, RevokedIsUnverified, requestRow
  <2>1. CASE Tick
    BY <2>1 DEF Tick
  <2>2. ASSUME NEW a \in Applicants, NEW r \in Requests, submit_read(a, r)
        PROVE  RevokedIsUnverified'
    BY <2>2 DEF submit_read
  <2>3. ASSUME NEW a \in Applicants, submit_commit(a)
        PROVE  RevokedIsUnverified'
    BY <2>3 DEF submit_commit
  <2>4. ASSUME NEW a \in Applicants, submit_abort(a)
        PROVE  RevokedIsUnverified'
    BY <2>4 DEF submit_abort
  <2>5. ASSUME NEW e \in Expirers, expire_due_requests_read(e)
        PROVE  RevokedIsUnverified'
    BY <2>5 DEF expire_due_requests_read
  <2>6. ASSUME NEW e \in Expirers, NEW r \in Requests,
               expire_request_if_needed_read(e, r)
        PROVE  RevokedIsUnverified'
    BY <2>6 DEF expire_request_if_needed_read
  <2>7. ASSUME NEW e \in Expirers, expire_commit(e)
        PROVE  RevokedIsUnverified'
    BY <2>7 DEF expire_commit
  <2>8. ASSUME NEW e \in Expirers, expire_abort(e)
        PROVE  RevokedIsUnverified'
    BY <2>8 DEF expire_abort
  <2>9. ASSUME NEW r \in Requests, NEW t \in Times,
               create_verification_request(r, t)
        PROVE  RevokedIsUnverified'
    BY <2>9 DEF create_verification_request
  <2>10. ASSUME NEW r \in Requests, NEW t \in Times,
               extend_request_expiration(r, t)
        PROVE  RevokedIsUnverified'
    BY <2>10 DEF extend_request_expiration
  <2>11. ASSUME NEW r \in Requests, revoke_request(r)
        PROVE  RevokedIsUnverified'
    BY <2>11 DEF revoke_request
  <2>12. ASSUME NEW r \in Requests, NEW adm \in Admins, claim_case(r, adm)
        PROVE  RevokedIsUnverified'
    BY <2>12 DEF claim_case
  <2>13. ASSUME NEW r \in Requests, NEW adm \in Admins,
               assign_reviewer(r, adm)
        PROVE  RevokedIsUnverified'
    BY <2>13 DEF assign_reviewer
  <2>14. ASSUME NEW r \in Requests, NEW adm \in Admins,
               NEW target \in DecisionTargets, record_decision(r, adm, target)
        PROVE  RevokedIsUnverified'
    BY <2>14 DEF record_decision, upsert_approved_result, DecisionTargets
  <2>15. CASE UNCHANGED lifecycleVars
    BY <2>15 DEF lifecycleVars
  <2>16. QED
    BY <2>1, <2>2, <2>3, <2>4, <2>5, <2>6, <2>7, <2>8, <2>9, <2>10,
       <2>11, <2>12, <2>13, <2>14, <2>15
       DEF LifecycleNext, ApplicantStep, ExpiryStep, CaseStep
<1>3. QED
  BY <1>1, <1>2, TypeCorrect, PTL DEF LifecycleSpec

\* The submission counter never exceeds the number of submissions.
THEOREM CounterIsSound == LifecycleSpec => []SubmissionCounter
<1>1. LifecycleInit => SubmissionCounter
  BY NoneAssumption DEF LifecycleInit, SubmissionCounter, Idle
<1>2. LifecycleTypeOK /\ SubmissionCounter /\ [LifecycleNext]_lifecycleVars
        => SubmissionCounter'
  <2> SUFFICES ASSUME LifecycleTypeOK, SubmissionCounter, [LifecycleNext]_lifecycleVars
               PROVE  SubmissionCounter'
    OBVIOUS
  <2> USE NoneAssumption, LimitAssumption, BoundAssumption
          DEF LifecycleTypeOK, SubmissionCounter, requestRow, Idle
  <2>1. CASE Tick
    BY <2>1 DEF Tick
  <2>2. ASSUME NEW a \in Applicants, NEW r \in Requests, submit_read(a, r)
        PROVE  SubmissionCounter'
    BY <2>2 DEF submit_read
  <2>3. ASSUME NEW a \in Applicants, submit_commit(a)
        PROVE  SubmissionCounter'
    BY <2>3 DEF submit_commit
  <2>4. ASSUME NEW a \in Applicants, submit_abort(a)
        PROVE  SubmissionCounter'
    BY <2>4 DEF submit_abort
  <2>5. ASSUME NEW e \in Expirers, expire_due_requests_read(e)
        PROVE  SubmissionCounter'
    BY <2>5 DEF expire_due_requests_read
  <2>6. ASSUME NEW e \in Expirers, NEW r \in Requests,
               expire_request_if_needed_read(e, r)
        PROVE  SubmissionCounter'
    BY <2>6 DEF expire_request_if_needed_read
  <2>7. ASSUME NEW e \in Expirers, expire_commit(e)
        PROVE  SubmissionCounter'
    BY <2>7 DEF expire_commit
  <2>8. ASSUME NEW e \in Expirers, expire_abort(e)
        PROVE  SubmissionCounter'
    BY <2>8 DEF expire_abort
  <2>9. ASSUME NEW r \in Requests, NEW t \in Times,
               create_verification_request(r, t)
        PROVE  SubmissionCounter'
    BY <2>9 DEF create_verification_request
  <2>10. ASSUME NEW r \in Requests, NEW t \in Times,
               extend_request_expiration(r, t)
        PROVE  SubmissionCounter'
    BY <2>10 DEF extend_request_expiration
  <2>11. ASSUME NEW r \in Requests, revoke_request(r)
        PROVE  SubmissionCounter'
    BY <2>11 DEF revoke_request
  <2>12. ASSUME NEW r \in Requests, NEW adm \in Admins, claim_case(r, adm)
        PROVE  SubmissionCounter'
    BY <2>12 DEF claim_case
  <2>13. ASSUME NEW r \in Requests, NEW adm \in Admins,
               assign_reviewer(r, adm)
        PROVE  SubmissionCounter'
    BY <2>13 DEF assign_reviewer
  <2>14. ASSUME NEW r \in Requests, NEW adm \in Admins,
               NEW target \in DecisionTargets, record_decision(r, adm, target)
        PROVE  SubmissionCounter'
    BY <2>14 DEF record_decision
  <2>15. CASE UNCHANGED lifecycleVars
    BY <2>15 DEF lifecycleVars
  <2>16. QED
    BY <2>1, <2>2, <2>3, <2>4, <2>5, <2>6, <2>7, <2>8, <2>9, <2>10,
       <2>11, <2>12, <2>13, <2>14, <2>15
       DEF LifecycleNext, ApplicantStep, ExpiryStep, CaseStep
<1>3. QED
  BY <1>1, <1>2, TypeCorrect, PTL DEF LifecycleSpec

\* Every status change of every request is one the table allows, or an
\* extension out of "expired", or the commit of a submission or an expiry
\* that read the row before: nothing else gets around require_transition.
THEOREM TransitionsAreExplained == LifecycleSpec => TransitionsExplained
<1>1. LifecycleTypeOK /\ [LifecycleNext]_lifecycleVars
        => [\A r \in Requests : explained(r)]_lifecycleVars
  <2> SUFFICES ASSUME LifecycleTypeOK, LifecycleNext, NEW q \in Requests,
                      exists(q), status'[q] # status[q]
               PROVE  \/ can_transition(status[q], status'[q])
                      \/ status[q] = "expired" /\ status'[q] = "pending"
                      \/ \E a \in Applicants : staleSubmission(a, q)
                      \/ \E e \in Expirers : staleExpiry(e, q)
    BY DEF explained
  <2> USE DEF LifecycleTypeOK, requestRow, exists
  <2>1. ASSUME NEW a \in Applicants, submit_commit(a)
        PROVE  can_transition(status[q], status'[q]) \/ staleSubmission(a, q)
    <3>1. sub[a].req = q /\ status'[q] = "queued"
      BY <2>1 DEF submit_commit
    <3>2. CASE sub[a].status = status[q]
      BY <2>1, <3>1, <3>2 DEF submit_commit
    <3>3. CASE sub[a].status # status[q]
      BY <2>1, <3>1, <3>3 DEF submit_commit, staleSubmission
    <3>4. QED
      BY <3>2, <3>3
  <2>2. ASSUME NEW e \in Expirers, expire_commit(e)
        PROVE  can_transition(status[q], status'[q]) \/ staleExpiry(e, q)
    <3>1. q \in exp[e] /\ status'[q] = "expired"
      BY <2>2 DEF expire_commit
    <3>2. CASE status[q] \in Expirable
      BY <3>1, <3>2 DEF Expirable, can_transition, ALLOWED_TRANSITIONS,
                        VerificationStatus
    <3>3. CASE status[q] \notin Expirable
      BY <2>2, <3>1, <3>3 DEF expire_commit, staleExpiry
    <3>4. QED
      BY <3>2, <3>3
  <2>3. ASSUME NEW r \in Requests, NEW t \in Times,
               extend_request_expiration(r, t)
        PROVE  status[q] = "expired" /\ status'[q] = "pending"
    BY <2>3 DEF extend_request_expiration
  <2>4. ASSUME NEW r \in Requests, revoke_request(r)
        PROVE  can_transition(status[q], status'[q])
    BY <2>4 DEF revoke_request
  <2>5. ASSUME NEW r \in Requests, NEW adm \in Admins, claim_case(r, adm)
        PROVE  can_transition(status[q], status'[q])
    BY <2>5 DEF claim_case
  <2>6. ASSUME NEW r \in Requests, NEW adm \in Admins,
               NEW target \in DecisionTargets, record_decision(r, adm, target)
        PROVE  can_transition(status[q], status'[q])
    BY <2>6 DEF record_decision
  <2>7. ASSUME NEW r \in Requests, NEW t \in Times,
               create_verification_request(r, t)
        PROVE  FALSE
    BY <2>7 DEF create_verification_request
  <2>8. QED
    BY <2>1, <2>2, <2>3, <2>4, <2>5, <2>6, <2>7
       DEF LifecycleNext, ApplicantStep, ExpiryStep, CaseStep, Tick, submit_read, submit_abort,
           expire_due_requests_read, expire_request_if_needed_read,
           expire_abort, assign_reviewer
<1>2. QED
  BY <1>1, TypeCorrect, PTL DEF LifecycleSpec, TransitionsExplained
=============================================================================
