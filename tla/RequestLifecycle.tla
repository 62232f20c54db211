-------------------------- MODULE RequestLifecycle --------------------------
(***************************************************************************)
(* The life of a verification request as the handlers that write the       *)
(* verification_requests row see it: creation, submission, claiming,        *)
(* decision, revocation, extension, assignment and expiry.                  *)
(*                                                                         *)
(* PostgreSQL runs at READ COMMITTED.  A handler that selects the row       *)
(* FOR UPDATE is one atomic step here.  A handler that reads the row        *)
(* without a lock and writes it later (the applicant's submission, every    *)
(* form of expiry) is two steps, a read and a commit, and its commit        *)
(* writes the columns it changed whatever the row holds by then.            *)
(***************************************************************************)
EXTENDS Integers, Sequences, VerificationStateMachine

CONSTANTS
  Requests,        \* ids of verification requests
  Admins,          \* active administrators
  Applicants,      \* submission handlers that may be open at the same time
  Expirers,        \* expiry handlers that may be open at the same time
  None,            \* SQL NULL
  MaxSubmissions,  \* max_submissions of every request
  MaxTime,         \* bound on the clock
  MaxRows          \* bound on the submission rows of a request

ASSUME NoneAssumption == None \notin Requests /\ None \notin Admins
ASSUME LimitAssumption == MaxSubmissions \in Nat \ {0}
ASSUME BoundAssumption == MaxTime \in Nat /\ MaxRows \in Nat

VARIABLES
  now,        \* utc_now()
  status,     \* status column, "absent" before the row exists
  reviewer,   \* assigned_reviewer_id
  count,      \* submission_count
  expires,    \* expires_at
  revokedAt,  \* revoked_at is not null
  rows,       \* number of verification_submissions rows
  decisions,  \* verification_decisions rows, oldest first
  result,     \* verification_results row: "none", "verified" or "revoked"
  sub,        \* what an open submission handler has read
  exp         \* the rows an open expiry handler has read as due

requestRow == <<status, reviewer, count, expires, revokedAt>>
lifecycleVars == <<now, requestRow, rows, decisions, result, sub, exp>>

-----------------------------------------------------------------------------
Times == 0 .. MaxTime

Idle == [req |-> None, status |-> "pending", count |-> 0]

exists(r) == status[r] # "absent"

due(r) == expires[r] <= now

\* Statuses from which create_submission proceeds.
Submittable == {"pending", "more_info"}

\* Statuses an expiry handler writes over; in_review raises
\* InvalidStateTransitionError and the rest return early.
Expirable == {"pending", "queued", "more_info"}

LifecycleInit ==
  /\ now = 0
  /\ status = [r \in Requests |-> "absent"]
  /\ reviewer = [r \in Requests |-> None]
  /\ count = [r \in Requests |-> 0]
  /\ expires = [r \in Requests |-> 0]
  /\ revokedAt = [r \in Requests |-> FALSE]
  /\ rows = [r \in Requests |-> 0]
  /\ decisions = [r \in Requests |-> << >>]
  /\ result = [r \in Requests |-> "none"]
  /\ sub = [a \in Applicants |-> Idle]
  /\ exp = [e \in Expirers |-> {}]

Tick ==
  /\ now < MaxTime
  /\ now' = now + 1
  /\ UNCHANGED <<requestRow, rows, decisions, result, sub, exp>>

create_verification_request(r, t) ==
  /\ ~exists(r)
  /\ t > now
  /\ status' = [status EXCEPT ![r] = "pending"]
  /\ expires' = [expires EXCEPT ![r] = t]
  /\ UNCHANGED <<now, reviewer, count, revokedAt, rows, decisions, result,
                 sub, exp>>

-----------------------------------------------------------------------------
(* create_submission: the row is read with session.get, evidence and payload
   are validated, and the commit writes status and the read count plus one. *)
submit_read_reserving_mutant(a, r) ==
  /\ sub[a] = Idle
  /\ status[r] \in Submittable
  /\ ~due(r)
  /\ count[r] < MaxSubmissions
  /\ sub' = [sub EXCEPT ![a] =
               [req |-> r, status |-> status[r], count |-> count[r]]]
  /\ count' = [count EXCEPT ![r] = @ + 1]
  /\ UNCHANGED <<now, status, reviewer, expires, revokedAt, rows, decisions,
                 result, exp>>

submit_read_unlimited_mutant(a, r) ==
  /\ sub[a] = Idle
  /\ status[r] \in Submittable
  /\ ~due(r)
  /\ sub' = [sub EXCEPT ![a] =
               [req |-> r, status |-> status[r], count |-> count[r]]]
  /\ UNCHANGED <<now, requestRow, rows, decisions, result, exp>>

submit_read(a, r) ==
  /\ sub[a] = Idle
  /\ status[r] \in Submittable
  /\ ~due(r)
  /\ count[r] < MaxSubmissions
  /\ sub' = [sub EXCEPT ![a] =
               [req |-> r, status |-> status[r], count |-> count[r]]]
  /\ UNCHANGED <<now, requestRow, rows, decisions, result, exp>>

submit_commit_under_review_mutant(a) ==
  LET r == sub[a].req IN
  /\ r # None
  /\ rows[r] < MaxRows
  /\ can_transition(sub[a].status, "queued")
  /\ status' = [status EXCEPT ![r] = IF @ = "in_review" THEN @ ELSE "queued"]
  /\ count' = [count EXCEPT ![r] = sub[a].count + 1]
  /\ rows' = [rows EXCEPT ![r] = @ + 1]
  /\ sub' = [sub EXCEPT ![a] = Idle]
  /\ UNCHANGED <<now, reviewer, expires, revokedAt, decisions, result, exp>>

submit_commit(a) ==
  LET r == sub[a].req IN
  /\ r # None
  /\ rows[r] < MaxRows
  /\ can_transition(sub[a].status, "queued")
  /\ status' = [status EXCEPT ![r] = "queued"]
  /\ count' = [count EXCEPT ![r] = sub[a].count + 1]
  /\ rows' = [rows EXCEPT ![r] = @ + 1]
  /\ sub' = [sub EXCEPT ![a] = Idle]
  /\ UNCHANGED <<now, reviewer, expires, revokedAt, decisions, result, exp>>

\* SubmissionValidationError, a disconnect or a crash before the commit.
submit_abort(a) ==
  /\ sub[a].req # None
  /\ sub' = [sub EXCEPT ![a] = Idle]
  /\ UNCHANGED <<now, requestRow, rows, decisions, result, exp>>

-----------------------------------------------------------------------------
expirable(r) == status[r] \in Expirable /\ due(r)

\* The job reads every due row in one query.
expire_due_requests_read(e) ==
  /\ exp[e] = {}
  /\ \E r \in Requests : expirable(r)
  /\ exp' = [exp EXCEPT ![e] = {r \in Requests : expirable(r)}]
  /\ UNCHANGED <<now, requestRow, rows, decisions, result, sub>>

\* An applicant's request (link, OAuth, upload, submission) reads one row.
expire_request_if_needed_read(e, r) ==
  /\ exp[e] = {}
  /\ expirable(r)
  /\ exp' = [exp EXCEPT ![e] = {r}]
  /\ UNCHANGED <<now, requestRow, rows, decisions, result, sub>>

expire_commit(e) ==
  /\ exp[e] # {}
  /\ status' = [r \in Requests |->
                  IF r \in exp[e] THEN "expired" ELSE status[r]]
  /\ exp' = [exp EXCEPT ![e] = {}]
  /\ UNCHANGED <<now, reviewer, count, expires, revokedAt, rows, decisions,
                 result, sub>>

expire_abort(e) ==
  /\ exp[e] # {}
  /\ exp' = [exp EXCEPT ![e] = {}]
  /\ UNCHANGED <<now, requestRow, rows, decisions, result, sub>>

-----------------------------------------------------------------------------
claim_case(r, adm) ==
  /\ status[r] = "queued"
  /\ reviewer[r] = None
  /\ can_transition(status[r], "in_review")
  /\ status' = [status EXCEPT ![r] = "in_review"]
  /\ reviewer' = [reviewer EXCEPT ![r] = adm]
  /\ UNCHANGED <<now, count, expires, revokedAt, rows, decisions, result,
                 sub, exp>>

\* A new or an existing result row ends up verified either way.
upsert_approved_result(r) == [result EXCEPT ![r] = "verified"]

record_decision_without_result_mutant(r, adm, target) ==
  /\ status[r] = "in_review"
  /\ reviewer[r] = adm
  /\ can_transition(status[r], target)
  /\ decisions' = [decisions EXCEPT ![r] = Append(@, target)]
  /\ status' = [status EXCEPT ![r] = target]
  /\ UNCHANGED <<now, reviewer, count, expires, revokedAt, rows, result,
                 sub, exp>>

record_decision(r, adm, target) ==
  /\ status[r] = "in_review"
  /\ reviewer[r] = adm
  /\ can_transition(status[r], target)
  /\ decisions' = [decisions EXCEPT ![r] = Append(@, target)]
  /\ status' = [status EXCEPT ![r] = target]
  /\ result' = IF target = "approved" THEN upsert_approved_result(r)
                                      ELSE result
  /\ UNCHANGED <<now, reviewer, count, expires, revokedAt, rows, sub, exp>>

\* "revoked" returns early and "expired" raises before the transition check;
\* the table refuses both as well.
revoke_request(r) ==
  /\ exists(r)
  /\ can_transition(status[r], "revoked")
  /\ status' = [status EXCEPT ![r] = "revoked"]
  /\ revokedAt' = [revokedAt EXCEPT ![r] = TRUE]
  /\ result' = [result EXCEPT ![r] = IF @ = "none" THEN @ ELSE "revoked"]
  /\ UNCHANGED <<now, reviewer, count, expires, rows, decisions, sub, exp>>

extend_requeues_mutant(r, t) ==
  /\ exists(r)
  /\ t > now
  /\ status[r] # "revoked"
  /\ expires' = [expires EXCEPT ![r] = t]
  /\ status' = [status EXCEPT ![r] = IF @ = "expired" THEN "queued" ELSE @]
  /\ UNCHANGED <<now, reviewer, count, revokedAt, rows, decisions, result,
                 sub, exp>>

extend_reopens_mutant(r, t) ==
  /\ exists(r)
  /\ t > now
  /\ status[r] # "revoked"
  /\ expires' = [expires EXCEPT ![r] = t]
  /\ status' = [status EXCEPT ![r] =
                  IF @ \in {"expired", "rejected"} THEN "pending" ELSE @]
  /\ UNCHANGED <<now, reviewer, count, revokedAt, rows, decisions, result,
                 sub, exp>>

extend_request_expiration(r, t) ==
  /\ exists(r)
  /\ t > now
  /\ status[r] # "revoked"
  /\ expires' = [expires EXCEPT ![r] = t]
  /\ status' = [status EXCEPT ![r] = IF @ = "expired" THEN "pending" ELSE @]
  /\ UNCHANGED <<now, reviewer, count, revokedAt, rows, decisions, result,
                 sub, exp>>

assign_reviewer(r, adm) ==
  /\ exists(r)
  /\ reviewer' = [reviewer EXCEPT ![r] = adm]
  /\ UNCHANGED <<now, status, count, expires, revokedAt, rows, decisions,
                 result, sub, exp>>

-----------------------------------------------------------------------------
ApplicantStep(a) ==
  \/ \E r \in Requests : submit_read(a, r)
  \/ submit_commit(a)
  \/ submit_abort(a)

ExpiryStep(e) ==
  \/ expire_due_requests_read(e)
  \/ \E r \in Requests : expire_request_if_needed_read(e, r)
  \/ expire_commit(e)
  \/ expire_abort(e)

\* The administrators' handlers that touch the request row only.
CaseStep(r) ==
  \/ \E t \in Times : create_verification_request(r, t)
  \/ \E t \in Times : extend_request_expiration(r, t)
  \/ \E adm \in Admins : claim_case(r, adm) \/ assign_reviewer(r, adm)

LifecycleNext ==
  \/ Tick
  \/ \E a \in Applicants : ApplicantStep(a)
  \/ \E e \in Expirers : ExpiryStep(e)
  \/ \E r \in Requests :
       \/ CaseStep(r)
       \/ revoke_request(r)
       \/ \E adm \in Admins, target \in DecisionTargets :
            record_decision(r, adm, target)

LifecycleSpec == LifecycleInit /\ [][LifecycleNext]_lifecycleVars

-----------------------------------------------------------------------------
(* Properties                                                              *)

\* Every column holds a value of its type; a handler that is open has read a
\* submittable row below the submission limit, so that the count it will
\* write satisfies the table's check constraint.
LifecycleTypeOK ==
  /\ now \in Times
  /\ status \in [Requests -> VerificationStatus \union {"absent"}]
  /\ reviewer \in [Requests -> Admins \union {None}]
  /\ count \in [Requests -> 0 .. MaxSubmissions]
  /\ expires \in [Requests -> Times]
  /\ revokedAt \in [Requests -> BOOLEAN]
  /\ rows \in [Requests -> 0 .. MaxRows]
  /\ decisions \in [Requests -> Seq(DecisionTargets)]
  /\ result \in [Requests -> {"none", "verified", "revoked"}]
  /\ sub \in [Applicants ->
               [req : Requests, status : Submittable,
                count : 0 .. MaxSubmissions - 1] \union {Idle}]
  /\ exp \in [Expirers -> SUBSET Requests]

\* A review works on a submission of its own: the decisions recorded on a
\* request, and the review it is waiting for or under, never outnumber the
\* submission rows, whatever stale submission or expiry is committed between
\* the steps of the reviewer.
ReviewNeedsSubmission ==
  \A r \in Requests :
    Len(decisions[r]) + (IF status[r] \in {"queued", "in_review"} THEN 1 ELSE 0)
      <= rows[r]

\* A request shows a decided status only while its latest decision row says
\* the same, and an approved one has a verified result.
DecisionBacksStatus ==
  \A r \in Requests :
    status[r] \in DecisionTargets =>
      /\ decisions[r] # << >>
      /\ decisions[r][Len(decisions[r])] = status[r]
      /\ status[r] = "approved" => result[r] = "verified"

\* While a request is revoked, its result does not vouch for the applicant.
RevokedIsUnverified ==
  \A r \in Requests : status[r] = "revoked" => result[r] # "verified"

\* The counter never runs ahead of the submissions it counts, nor does the
\* count an open handler has read, although concurrent submissions overwrite
\* each other's counts.
SubmissionCounter ==
  /\ \A r \in Requests : count[r] <= rows[r]
  /\ \A a \in Applicants :
       sub[a].req # None => sub[a].count <= rows[sub[a].req]

\* The step commits a submission that was read when the row had another
\* status: the submission row is inserted and the handler ends.
staleSubmission(a, r) ==
  /\ sub[a].req = r /\ sub[a].status # status[r]
  /\ sub'[a] = Idle
  /\ rows'[r] = rows[r] + 1
  /\ status'[r] = "queued"

\* The step commits an expiry that was read when the row could expire.
staleExpiry(e, r) ==
  /\ r \in exp[e] /\ status[r] \notin Expirable
  /\ exp'[e] = {}
  /\ status'[r] = "expired"

explained(r) ==
  exists(r) /\ status'[r] # status[r] =>
    \/ can_transition(status[r], status'[r])
    \/ status[r] = "expired" /\ status'[r] = "pending"
    \/ \E a \in Applicants : staleSubmission(a, r)
    \/ \E e \in Expirers : staleExpiry(e, r)

\* Every status change is one the transition table allows, or the extension
\* of an expired request, or is itself the commit of a submission or of an
\* expiry whose unlocked read is out of date: those two commits are the only
\* way around the table, and they write "queued" and "expired" only.
TransitionsExplained ==
  [][\A r \in Requests : explained(r)]_lifecycleVars

\* What src/README.md ("State transitions are enforced server-side") and
\* test_revoked_is_terminal say, and the code does not keep: a request that
\* was revoked stays so.  The commit of a submission or an expiry that read
\* the row before the revocation overwrites the status and leaves revoked_at.
RevokedIsTerminal ==
  \A r \in Requests : revokedAt[r] => status[r] = "revoked"

\* What the README and the tests say, and the code does not keep: a case that
\* comes back from "more info" can be claimed again.  claim_case refuses one
\* that has a reviewer.
ResubmittedIsClaimable ==
  \A r \in Requests :
    status[r] = "queued" /\ decisions[r] # << >> => reviewer[r] = None
=============================================================================
