# TLA+ verification of the BAKABOOST ID verification service

The service lets an administrator create an identity verification request for a
Discord user. The user opens a link, signs in with Discord, uploads photos of a
document and of themselves, and submits the case. A reviewer claims and decides
it. An approval issues a one-time access grant with a Discord invite behind it,
and a gateway worker gives the user the verified role when they are in the
guild. The back end is Python (FastAPI, SQLAlchemy on PostgreSQL, an S3 bucket,
Redis, discord.py), the front end TypeScript.

This directory holds TLA+ modules of the parts that carry state, TLC
configurations that check them on small instances, and proofs for TLAPS that
hold for every value of the constants.

## 1. Inventory

What each part keeps, what it does, and what makes it correct. `PROJECT.json`
lists all parts with their source files, under `components`.

| Part | State | Operations | Interacts with | What must hold |
| --- | --- | --- | --- | --- |
| Request state machine | none (a table) | `can_transition`, `require_transition` | every handler that moves a request | all status changes are in the table |
| Verification requests | row of `verification_requests` | create, revoke, extend, assign, expire (job and on access) | submissions, review, grants | statuses, decisions, results and counters agree; revoked is final |
| Submissions | rows of `verification_submissions`, `submission_count` | `create_submission` | request row, evidence rows, session | at most `max_submissions`; every review has its submission; refers to its own evidence |
| Review | `verification_decisions`, `verification_results` | claim, decide | request row, automatic grant | a decided status is backed by a decision; approved means verified |
| Access grants | row of `discord_access_grants`, invite at Discord | issue, re-issue, revoke, expire, check, consume | request row, Discord, worker | nothing before an approval; used once per issue; revocation is effective |
| Gateway worker | handlers in flight, member cache, roles at Discord | join, reconcile every 10 s, compensate | grants, Discord | a usable grant is used; a role is backed by a grant |
| Evidence | row of `evidence_objects`, object in the bucket | upload, compensate, attach, clean up, delete | bucket, submissions | rows and objects agree; deleted means gone |
| Maintenance jobs | `system_job_runs` | request expiry, grant expiry, upload cleanup, retention | all of the above | a job never undoes what a person did |
| Mobile capture | `mobile_capture_sessions`, QR and phone tokens; the hand-off card and the phone's pages | create, connect, upload, retake, complete, revoke, poll | evidence, verification session, identity form | one use per QR code; one usable hand-off; the newest photo reaches the form |
| Capture cards | camera stream, dialog, captured file, challenge step, timers | open, frame, challenge, retake, use, upload, remove | browser, identity form | the camera runs only where it shows; a preview has its file; the challenge ends |
| Identity form | photo slots, the submission under way | load, fill, submit | capture cards, phone, session | a photo of every kind, none that was replaced when it was checked |
| Verification entry | entry context, OAuth state, `verification_sessions` | open link, start and finish OAuth, rotate, end | request, Discord | a sign-in is used once; only the assigned user gets a session |
| Applicant pages | page, status shown, call under way | guard, load, poll, redirect, sign out | status, access and session routes | no redirect loop; nothing shown as done that is not; the outcome arrives |
| Administrator sessions | `admin_sessions`, security version, cookies, a token per tab | establish, read, validate, limit, end, invalidate | team, front end | a session is valid only with its row, its version and its token |
| Administrator team | `admins`, `admin_invitations`, Cloudflare policy | invite, resend, withdraw, accept, change role, disable, enable | sessions, mail, Cloudflare | there is always an owner; only owners change accounts; an invitation is used once |
| Reviewer queue and case page | a copy of the queue or of a case per tab, filter, reads and calls under way | filter, claim, open, refresh, decide, revoke, extend, assign | request handlers | nobody decides on what was not shown; an old copy is explained |
| Rate limiting | counters in Redis | count, expire | all public routes | at most n calls per window |
| Notes, audit, email, settings, file validation, request creation form | reads, append-only rows, pure checks | | | |

What is hard about this code:

* **Lost updates.** PostgreSQL runs at READ COMMITTED. The administrators'
  handlers lock the request row (`with_for_update`); the applicant's handlers
  and the jobs read it without a lock and write it later.
* **Two stores, one commit.** The bucket and Discord take part in no
  transaction. Each upload, deletion, invite and role is a remote call before
  or after a commit, with a compensation that may itself fail.
* **Several workers on one grant.** The join handler and the reconciliation
  loop both look for the grant of a user, call Discord, and consume it later.
* **Stale objects.** The session keeps loaded objects after a commit
  (`expire_on_commit=False`), and the member cache lags behind Discord.
* **Crashes and timeouts** between any two of these steps.
* **Late answers in the browser.** Camera permissions, encoded frames, uploads,
  polls and reads are awaited without being cancelled. Their answers arrive
  out of order, after a dialog was closed, or after the page was left.
* **Copies.** A tab decides, claims and changes by what it was last told; a
  second tab of the same browser shares its cookies and not its memory.
* **Lost answers.** A call that was committed looks like one that failed, and
  the form or dialog offers it again.

The complete list, each with the line where it bites and the properties that
would catch it, is under `hazards` in `PROJECT.json`.

## 2. Modules

    VerificationStateMachine         statuses and the transition table
            |
    RequestLifecycle                 the request row and its handlers
       |             |
    AccessGrants   EvidenceStore     composed with it; each implements it
    ReviewDesk                       the reviewers' tabs around it

    ApplicantPages                   the applicant's browser and sign-in
    CaptureCard                      one photo card and its camera
    MobileCapture                    the hand-off to a phone
        |
    IdentityForm                     the form with the hand-off in it
    AdminSession                     sessions, cookies, tokens of tabs
        |
    AdminTeam                        roles and invitations, from those tabs

    OneTimeCredential                abstract: issued once, used at most once

    RequestLifecycleProofs, AccessGrantsProofs, EvidenceStoreProofs,
    ReviewDeskProofs, ApplicantPagesProofs, CaptureCardProofs,
    IdentityFormProofs, AdminTeamProofs
    MC...                            (for TLC)

`OneTimeCredential` is the abstract specification that three mechanisms are
shown to implement, each by an `INSTANCE ... WITH` a mapping of its own: the QR
tokens of `IdentityForm`, the sign-ins of `ApplicantPages` (an entry context that
turns into an OAuth state), and the invitation links of `AdminTeam`.

**How handlers become actions.** A handler that selects the row `FOR UPDATE`
and commits is one action: nobody else writes the row in between. A handler that
reads without a lock is a read action, which records what it read, and a commit
action, which writes the columns the handler assigns, whatever the row holds by
then. This is what SQLAlchemy's UPDATE of the changed columns does. A commit
may also not come (`..._abort`). Every call to Discord or to the bucket is an
action of its own. A failure, a crash or an answer that is lost costs one of
`MaxFaults`. Action names are the names of the functions; `map` in
`PROJECT.json` gives the lines of each.

### RequestLifecycle

| Variable | Code |
| --- | --- |
| `status`, `reviewer`, `count`, `expires`, `revokedAt` | columns of `VerificationRequest` |
| `rows` | number of `verification_submissions` rows of a request |
| `decisions`, `result` | `verification_decisions` (oldest first), `verification_results` |
| `sub[a]` | status and count that open submission handler `a` has read |
| `exp[e]` | rows that open expiry handler `e` has read as due |
| `now` | `utc_now()` |

`submit_read` / `submit_commit` are `create_submission` around its validation;
the commit writes the count it *read* plus one. `expire_due_requests_read` (the
job, a batch) and `expire_request_if_needed_read` (any call of the applicant,
one row) share `expire_commit`. The other actions are the administrators'
handlers. `in_review` has no transition to `expired`, so that the on-access
expiry of such a row raises and changes nothing: there is no step for it.

### AccessGrants

Extends RequestLifecycle with the grant row (`grant`, `grantExpires`,
`grantInvite`), the invites that exist at Discord, membership and roles, the
worker's member cache (`seen`), and the handlers of the worker (`task`).
`issuedCount`, `usedCount` and `faults` are history.

* `perform_decision` is `record_decision` followed, after an approval, by the
  automatic `issue_access_grant` in the same session. `auto` holds the requests
  for which the second part is outstanding. It does not look at the status
  again: `SELECT ... FOR UPDATE` returns the object the session has loaded.
* `issue_access_grant` creates the invite and then commits. When the commit
  fails, the cleanup call passes its argument by position to a keyword-only
  parameter and raises, so the invite stays.
* `revoke_request_and_grant` is the request's revocation with what it does to
  the grant row; `revoke_access_grant` is the administrator's revocation of the
  grant alone, which deletes the invite before it commits.
* `find_eligible_grant`, `add_roles`, `consume_access_grant` and
  `remove_role_after_failed_consumption` are the steps of `on_member_join` and
  of `_grant_existing_member_access`, which are the same handler twice; `Tasks`
  is the number of them in flight. The role is given first and the grant is
  consumed second, and the role is taken back when the consumption is refused.
* `loop` is the reconciliation task. `on_ready` starts it after a first
  reconciliation whose errors nobody catches: when that fails, the worker serves
  joins and reconciles nothing until it connects again (`reconnected`).
* External, from how the worker uses it: `guild_join`, `member_update`,
  `reconnected`.

### EvidenceStore

Extends RequestLifecycle with the evidence rows (`ev`, `evExpires`, `evSub`),
the reference lists of submissions (`refs`), the bucket (`stored`), the upload
handlers (`up`), the rows a submission has read (`picked`), and deletion batches
(`del`). `unclean` and `faults` are history.

* An upload checks the request, puts the object, commits the row. A failed
  commit may have been applied; the handler removes the object either way.
* A submission reads temporary, unexpired rows of its request and attaches them
  in the commit of the request row.
* A deletion (cleanup of expired uploads, or an administrator's deletion of a
  request's evidence) selects rows, removes their objects one at a time and
  commits all rows at once. `expires_at` of an attached row is NULL in the
  database; the model keeps the old value, which nothing reads.

### CaptureCard

One card of the form: a document side, a selfie or the guided face capture.
`state` is `cameraState` / `captureState`, `tracked` is `streamRef`, `on` the
streams whose tracks run at all, `file` is `capturedFileRef`, `shots` the frames
in `toBlob`, `timer`, `step` and `reopen` the timers. `getUserMedia_granted` and
`_refused`, `canvasToBlob_fails`, `uploadEvidence_answered` and the others are
answers of the browser; none of the handlers checks whether its dialog is still
there, so an answer may come in any state. The photo from the phone
replaces what the card renders, not its hooks: a camera goes on behind it.
`abandoned`, the calls whose dialog was closed, replaced or left before the
browser answered, is history.

### MobileCapture and IdentityForm

`cap` are the rows of `mobile_capture_sessions`, `photo` the uploads in the order
they were sent. The phone's upload reads (`read`) and commits later, expiring the
photos of the same kind it has seen; its completion is a check and a commit as
well. The card creates, closes and polls; another tab may create as well
(`creating["other"]`). IdentityForm adds the page, the slots filled by the cards
or by the poll, and the submission: `submit_verification` checks the photos sent
without a lock, `create_submission` attaches them at its commit, and
`rotate_verification_session` is a commit of its own; the answer may be lost
after either, and the 401 of a poll may come after the last. The form has one
submission under way. `since`, `dropped`, `late` and `removed` are history. The
bucket is left to EvidenceStore.

### ApplicantPages

`page`, `phase`, `call` and `shown` are what the browser has; `ctx` and `oauth`
the rows behind a sign-in. `serve` answers a call with what is true then, `apply`
is the page's handler for the answer (`check` of the guard, `load_...` of the
pages, `refreshWaiting`, `loadAccess`), and leaving a page voids its call.
The pages `more-info` and `rejected` have no guard: they are opened by
their address at any status, and show their step before any answer.
`statusChanges`, `grantChanges`, `time_passes` and `session_ends` are what
administrators, the worker and the clock do, bounded by `MaxChanges`; what they
may do is in the transition table and in AccessGrants. `from` and `passed` are history.

### AdminSession and AdminTeam

`live` are the usable rows of `admin_sessions`, oldest first; `jar` the cookies of
a browser and `token` the `adminCsrfToken` of each tab. A secret is written as
the session it belongs to and becomes `"old"` when it is replaced. A call of a
tab is admitted (session, token, role) in one step and carried out in a later
one, and its answer arrives in a third, or is lost. A new session is put into
the transaction together with the query for the sessions it pushes out
(`evicts`), and committed later. The changes of accounts take the lock of all
owners (`lock_active_super_admins`) and check the caller under it; the
invitations do not. The version of another's account is read under the lock; that
of the caller's own account is the one loaded at admission, since the session
keeps the loaded object. An invitation is checked, mailed, then committed, and
the commit may fail: the link is in the mail and belongs to no row.

A tab has one call under way. The page allows more (a refresh beside the action
on a member), so that nothing is claimed about the token of a single tab.

### ReviewDesk

Extends RequestLifecycle: the administrators' handlers run when a tab calls them,
the applicant submits beside them. `shown` is the copy a tab has, `reads` the
reads under way in the order they were asked, `call` the change under way.
`read_served` takes the copy, `read_arrives` shows it, whichever was asked first;
`read_fails` keeps what was shown. `call_served` runs the handler or refuses,
`claim_answered` and `panel_answered` are the page's continuation, and
`answer_lost` the error path of a change that was committed. `old`, `late`, `by`
and `untold` are history. Left out: the search text (it re-arms the timer as a
filter does), notes, the audit timeline, previews, the reviewer picker and
expiry. One call per tab at a time is a bound of the model.

## 3. Runs

| Run | Instance | Shows |
| --- | --- | --- |
| `request_lifecycle` | 2 requests, 2 submissions and 1 expiry in flight, limit 2, 2 rows, time 0..2 | the safety properties of the request row |
| `access_grants` | 1 request, 2 worker handlers, 1 grant expiry, 2 invites, 1 fault, time 0..1 | the safety properties of access, that AccessGrants implements RequestLifecycle, and `GrantSettles` |
| `evidence_store` | 1 request, 2 objects, 2 submissions, 1 batch, 1 expiry, 1 fault, time 0..1 | the safety properties of evidence, and that EvidenceStore implements RequestLifecycle |
| `capture_card` | a card of each kind, 3 calls for the camera, 2 frames in encoding | what late answers of the browser can do to a card; `ChallengeEnds` |
| `identity_form` | 1 kind of photo, 2 captures, 2 uploads, 1 disturbance | which photos the form gets, holds and submits; QR codes are one-time |
| `applicant_pages` | 2 sign-ins, 4 changes by others, 1 failed call | routing, sign-in, progress shown, and that the outcome arrives |
| `admin_team` | 2 people, 2 tabs of one browser or of two, 6 session rows, a limit of 1, 2 changes, 2 invitations, 2 links | owners and invitations |
| `review_desk` | 1 case, 2 tabs of one reviewer or of two, 2 reads per tab, 4 moves, 2 submissions | what tabs show and decide |
| `revoked_terminal`, `one_usable_capture`, `resubmitted_claimable`, `link_authenticates` | the smallest instance with the case | each refutes one statement (section 5) |

**Bounds.** `MaxTime`, `MaxRows`, `MaxInvites` and `MaxFaults` are guards in the
modules, named as constants. Two requests are needed for the expiry job to write
a batch of which one row is stale. Two submissions in flight are the least that
can overwrite each other, two rows the least at which the counter can lag, and
a limit of 2 the least with a resubmission. Three instants are enough for a
request to be open, due and extended again; the composed modules need two, since
grants and uploads expire one instant after they were made. Two worker handlers are the join
and the reconciliation. Two invites let a grant be issued again. One fault is
enough for every compensation to be needed, and for it to fail, except both at
once; the proofs cover every number of faults. The clock bound ends every
behaviour, so that the configurations do not check for deadlock.

In the browser modules every bound counts what a user or a fault may start, never
what must follow: answers, timers and polls are not counted. Three calls for the
camera are one that is abandoned, one that replaces it and one after a retake.
Two captures are the least with a hand-off that was replaced, two uploads the
least with a retake. Four changes take a request from the submission to an issued
grant. Two changes of the team are the least in which owners remove each other
or a caller is demoted while it acts; a limit of one session makes every second
sign-in of a browser meet it, and sign-ins at the same time exceed it. Four moves are a claim, a decision, its lost answer
and the retry. These bounds end every behaviour as well, and a page may simply
be left open, so these configurations do not check for deadlock either. Three
bounds are on what runs at the same time: one call per tab in AdminTeam and in
ReviewDesk (where reads overlap, calls that change something do not), and one
submission at a time in IdentityForm.

**Symmetry** is used for handler slots, objects, requests, tabs and
administrators, only in runs without liveness properties.

### The properties

| Property | In words |
| --- | --- |
| `ReviewNeedsSubmission` | decisions plus the review awaited or under way never outnumber the submissions |
| `DecisionBacksStatus` | a decided status agrees with the latest decision; approved has a verified result |
| `SubmissionCounter` | lost updates make the counter lag, never run ahead |
| `TransitionsExplained` | a status change is in the table, or the extension of an expired request, or itself the commit of a submission or an expiry whose read is out of date, which write `queued` and `expired` only |
| `AccessNeedsApproval` | no grant, invite, worker handler or role without an approving decision |
| `GrantUsedOnce` | at most one consumption per issue |
| `RoleAccountedFor` | without failures a role is backed by a used grant or by a handler that will settle it |
| `GrantSettles` | a grant a member may use is eventually used or ceases to be usable, unless the loop could not be started |
| `DeletedIsGone` | a deleted row has no object |
| `OrphansExplained` | an object without a row is in the hands of its handler or was left by a crash, an unanswered put or a failed compensation |
| `AttachmentSound` | submissions and evidence rows refer to each other consistently |
| `DeletionUndoneOnlyByStaleRead` | a deleted row comes back only by the commit of a submission that had read it |
| `ImplementsLifecycle` | the composed module implements `LifecycleSpec` |
| `CameraHeld` | no step leaves a camera on that the card cannot turn off, except the answer to a call whose dialog went away while the browser was asking |
| `DialogMatchesCamera` | a live dialog has a stream, a preview has a file, a closed one holds no camera |
| `ChallengeEnds` | a guided capture ends in a preview or an error, or is covered by the phone's photo |
| `SlotsExplained` | a removed photo does not return; a superseded one in the form is about to be replaced, or its retake came too late |
| `SubmissionSound` | a submission has a photo of every required kind, and a replaced one only if the retake was committed after the submission was checked |
| `NoPhotoForgotten` | the card asks on until it has every photo of its capture that was committed in time |
| `HandoffIsOneTime`, `EntryIsOneTime`, `InvitationIsOneTime` | QR codes, sign-ins and invitation links implement `OneTimeCredential` |
| `NoRedirectLoop` | the page a status leads to accepts that status |
| `SessionsBacked` | every session has a sign-in of its own behind it |
| `StepsShownWereDone` | neither the link nor a guarded page shows a step as complete that the request has not completed since the last submission |
| `WaitingLeaves`, `InviteArrives` | the waiting room, and the access page while it polls, follow what happens without the user |
| `LastSuperAdmin` | there is always an active owner |
| `OwnersOnly` | an account is changed only while the caller is an active owner, whenever the call was admitted |
| `DecidedWhatWasSeen` | a decision comes from a page that showed every submission |
| `StaleCaseExplained` | a quiet case page shows its own last change, or has a reason not to |
| `QueueMatchesFilter` | a quiet queue shows what its filter says, or has a reason not to |

`DecidedWhatWasSeen` holds for a reason one would not guess. A stale tab of
another reviewer is refused because the case has another reviewer. A stale tab of
the *same* reviewer is stopped only because a resubmitted case is `queued` and, as
it keeps its reviewer, cannot be claimed: the defect of section 5 also is what
keeps an old page from deciding on new evidence. Whoever repairs the one needs a
version check in `record_decision` for the other.

Every property has a mutant: a variant of a definition with a plausible bug
(names ending in `_mutant`) under which TLC finds the property violated.

**Fairness.** `FairAccessSpec` assumes weak fairness of `on_ready` and of
`TaskStep(k)`, what a handler of the worker does when nothing fails. Handlers
start with a join or while the reconciliation loop runs. The loop
(`gateway_worker.py`, `_reconciliation_loop`) calls the eligibility check for
every issued grant every ten seconds, catches the exceptions of a round, and the
event loop resumes handlers that wait. Nothing starts it again when `on_ready`
has failed; this is a state of the model (`loop = "stopped"`) without fairness,
and `GrantSettles` names it. Failures are bounded by `MaxFaults`. `CardSpec`
assumes weak fairness of the challenge's timers and of `toBlob`, which call back
by the contract of the browser; `PagesSpec` of the server's answer and of the
page's handling of it. `FormSpec` and the others have none. None is assumed of a
camera permission, which the user may ignore, nor of users, administrators, the
clock, or the maintenance jobs, for which the repository has no scheduler.

## 4. Proofs

Every safety property of a passing run, every action property and every
refinement is also a theorem; only the four liveness properties are not. The
eight proof modules are checked by TLAPS without gaps. No fairness is used.

The assumptions are the ones on the constants: `None` is neither a request nor an
administrator, the bounds are naturals, `MaxSubmissions`, `InviteTTL` and
`MaxActiveSessions` are positive, every request has an owner and every object a
request; the queue of `ReviewDesk` starts with a request that exists and its tabs
belong to administrators; the founder of the team is an administrator, and the
names of sessions are not the two words that stand for no session and for a token
of before. The tabs of AdminTeam are finite, since the proofs count the calls
under way, and so are the required kinds of evidence of MobileCapture. Otherwise the sets of requests, handlers, users, objects, tabs and
administrators are arbitrary and need not be finite.

The proofs of the browser modules share a layout. Frame lemmas say which actions
touch a group of variables; step lemmas say what these actions do to it, once,
for all invariants that depend on it; then each invariant is shown to be kept,
and the theorem follows. The invariants were checked with TLC on the instances
of the runs before they were proved.

**RequestLifecycleProofs.** `TypeCorrect` is inductive by itself: an open
submission has read a count below the limit, which bounds what its commit
writes although the row may have moved on. The counter and the four properties
of statuses are each inductive together with the types. `ReviewNeedsSubmission`
is the one to argue about: a commit queues the request and adds a row in one
step, every claim keeps `queued` and `in_review` together under one unit, every
decision trades that unit for a row of its own, and the extension leads back to
`pending`, not `queued`. `TransitionsAreExplained` is an action property of the
same invariant: a step outside the table is the commit itself, not a step beside
an open handler.

**AccessGrantsProofs.** `AccessRefinesLifecycle` maps every step to a step or a
stutter of `LifecycleSpec`, which carries the types of the request row over.
`ApprovalFirst` is inductive because `granting` counts the pending issues and
the grants an expiry handler has read, not only the rows. `UsedOnce` holds as
the consumption requires an issued grant under the row lock, so the unit of
credit that `issued` stands for is spent once. `RoleAccounted` needs the types
of the handlers: a role is given by a handler that moves to `consume`, and
leaves it only by using the grant, by removing the role, or by a fault.

**EvidenceStoreProofs.** `EvidenceRefinesLifecycle` again carries the request
row. `BucketInvariant` proves the conjunction `BucketInv`, the strengthening of
`DeletedIsGone` and `OrphansExplained`: there is no object before
the put and no row before the commit (`beforeRow`); what a batch has done is out of the
bucket, and what a batch or a submission has read exists as a row (`batchSound`,
`readSound`), so that no put can follow a deletion. `AttachmentsAreSound` uses
that a commit appends to the list of its own request only, and that the new
index is the largest. `OnlyStaleReadsUndoDeletion` is an action property.

`RevokedResultsAreUnverified` is proved and not part of a run.

**ReviewDeskProofs.** `DecisionsWereSeen` rests on two invariants. `Untouched`: a
request without a reviewer waits in the queue, and no tab has its case page, a
copy that shows more, or a call on it other than a claim. As no handler takes a
reviewer off a request, a review starts at most once. `CopiesCurrent`: while a
review goes on, every copy of the case that shows it, and every decision made on
one, counts the submissions there are, because a submission that is committed
later ends the review and no review follows it. The other two theorems share one
shape, `settles`: of the reads under way and the copy shown, whatever does not
have a property is late or will be followed by one that has it. `OldReplaced` is
this for "not older than the tab's own change", `FilterFollowed` for "made with
the current filter"; a read that is asked for last settles everything, one that
is over makes those before it late.

**ApplicantPagesProofs.** `NoCircles` compares the routing table with the lists
of the pages (`Routed`). `EachSessionBacked` counts the states that are used up
(`SessionsCounted`), with sign-ins numbered in the order they start. For
`ProgressIsTrue`, `StatusesReached` says of the status of the request, of an
answer under way and of what each page shows that the request has gone through
what the status stands for, and that no later submission has taken it back. The
unguarded pages are not part of it.

**CaptureCardProofs.** `DialogMatchesCamera` is inductive with the types.
`CamerasAreHeld` is an action property: every step keeps the camera, lets it go or
calls for it (`CameraKinds`), except the browser's two answers, and `CallsOverlap`
says that of two calls under way all but the newest have been abandoned, so that
only an abandoned one can take the place of a stream the card holds.

**IdentityFormProofs.** `CapturesTyped` numbers the captures and knows that the
card and the phone only hold ones that exist; with it the hand-offs implement
`OneTimeCredential`. For `SubmissionIsSound`, `Replaced` says that a photo whose
retake is committed is no longer live, unless the retake came after the check
(`since`), and `EveryKind` that the photos sent have every required kind until
they are attached. `SlotsAreExplained` is the longest: `PlacedByCard` (a capture
is shown once, and its photos reach the form while it is shown), `GoesForward` (the card goes on to newer photos only, and a
retake of a newer photo also replaces the older ones) and `StopsComplete` (when
the card has stopped, its capture is completed, so that later retakes are late).
The last two hold until the form is submitted. `NothingIsForgotten` adds
`StopsWithAll`: when the card has stopped, it has what the completed capture had.

**AdminTeamProofs.** `AnOwnerStays` and `OnlyOwnersChange` follow from the lock on
the owners' rows and the second check under it. The types need `CallsOK`, what
each step of a call carries, and `ChangesCounted`: a version, also one a call has
loaded, plus the changes under way is at most one above the changes asked for.
`LinksOwned` gives each link to at most one invitation, and a link whose commit
failed to none, from which `InvitationsAreOneTime` follows.

**Only model-checked.** `GrantSettles`, `ChallengeEnds`, `WaitingLeaves` and
`InviteArrives` are liveness properties under fairness, which
these provers do not reach. The refutations of section 5 are TLC's.

## 5. Where the code and its documents disagree

Four runs are expected to end in a counterexample; `findings` in `PROJECT.json`
quotes the statements.

| Run | The statement | The behaviour |
| --- | --- | --- |
| `revoked_terminal` | transitions are enforced by the server; a revoked request stays revoked | a submission (or an expiry) that read the row before the revocation commits after it and overwrites it |
| `one_usable_capture` | one usable hand-off per session | the lock covers rows that exist: two creations at once leave two |
| `resubmitted_claimable` | a case resubmitted after "more info" is queued and can be claimed | it keeps its reviewer, and `claim_case` refuses it; the same happens to a queued case that was assigned |
| `link_authenticates` | an ended session is renewed by signing in from the private link | the link offers it only while the request is pending |

The passing properties allow for the following, which the models also show. On
the server:

* Two submissions that read the same count exceed `max_submissions` by one row
  (`SubmissionCounter` bounds the counter, not the rows).
* Of two worker handlers on one grant, the second finds it consumed and removes
  the role the first has given; a failure or a crash after `add_roles` leaves the
  role with a grant that is then revoked (`RoleAccountedFor`, `faults > 0`).
* The automatic issue reads a stale status after a revocation; the cleanup call
  after a failed issue raises `TypeError` and leaves the invite.
* A deletion between a submission's read and its commit leaves an attached row
  without an object (`DeletionUndoneOnlyByStaleRead`).
* A first reconciliation that fails leaves the worker without its loop
  (`gateway_worker.py:138`; `GrantSettles`).
* A retake that is committed between a submission's check and its commit leaves
  the replaced photo submitted, where the comment of the upload says "Keep the
  newest object active." (`SubmissionSound`).
* Overlapping creations leave two usable invitations of one email, which the
  docstring of `create_admin_invitation` excludes; an owner who is demoted
  between admission and execution still invites.
* Sessions that are created at the same time exceed `admin_max_active_sessions`:
  the query of `_enforce_active_session_limit` sees committed rows only.
* An owner who revokes their own sessions from two tabs raises the security
  version once: each call adds one to the version it had loaded. A session that
  was created in between stays usable.

In the browser:

* A camera whose permission is granted after its dialog was closed stays on, and
  so does, behind the received photo, the camera of a dialog that the phone's
  photo covers (`CameraHeld`).
* The pages that ask for more information and that tell of a rejection have no
  guard. Opened by their address, they show the earlier steps as complete for
  every status, the first one also without a session (`StepsShownWereDone`).
* A refresh of the team page and an action on a member read the session at the
  same time; when the answers cross, the tab is left with an old token.
* A poll refused after the rotation of the session sends the applicant to the
  session-expired page although the submission stands.
* The access page says that it "is checking automatically" while it has stopped
  polling at the answer of a grant that had ended (`approved-access.tsx:114`,
  `:685`), so that a grant issued later does not get there (`InviteArrives`).
* Revoking one's own sessions ends the current one too, where the page says
  "Your other administrator sessions were revoked."
  (`admin-team-access.tsx:1445`). Signing out with a token another tab has
  replaced leaves the session live.
* The invitation screen says the token was removed from the address bar
  (`admin-invitation-screen.tsx:541`) before it is.
* The error of a refused claim is taken down at once by the reload that follows,
  which uses the filter of the moment of the click; an older answer of a
  refresh takes down the error of a newer one that failed; a claim that succeeds
  opens the case even if the tab has moved on.

## 6. Not modelled, and why

* Field checks, file validation, token formats, hashing and wording: data that no
  property tells apart. A refusal is a step that does not happen, or an abort.
* Direct messages after a grant: best effort, they change an audit row only.
* Members who leave, and roles given or taken by hand in Discord: outside the
  program; the properties of roles speak about the worker's own effects.
* Retention: `schedule_evidence_retention` has no caller, so that
  `process_due_evidence_deletions` never finds a due row.
* Audit rows, notes, previews, email, settings, readiness: nothing reads them
  back to decide anything.
* Authorization by permission and origin checks: stateless; the models start
  behind them. The request token of administrators is in AdminSession.
* Rate limiting and the Cloudflare policy: a refusal is a call that does not
  happen, and the application reads nothing back from the policy.
* The form that creates a request: one call, which is an action of
  RequestLifecycle. A lost answer loses the private link.
* `AdminAccessGate` with `components/admin/layout.tsx`, and the step-up route and
  `rotate_admin_session`: no page uses them.
* Layout, text, animation and the choice among several cameras.
* Several requests of one user in `access_grants`: the choice of the newest
  grant is in the module (`latest`) and in the proofs, not in the instance.

## 7. Plan

1. An abstract specification of access (a user gains the role at most once per
   approval) that AccessGrants without failures implements, and an instance with
   two requests of one user.
2. MobileCapture over EvidenceStore, so that the bucket of the phone's uploads is
   part of `BucketInv`.

## 8. Running

    tlc -workers 2 -config MCRequestLifecycle.cfg MCRequestLifecycle
    tlc -workers 2 -config MCAccessGrants.cfg MCAccessGrants
    tlc -workers 2 -config MCEvidenceStore.cfg MCEvidenceStore
    tlc -workers 2 -config MCCaptureCard.cfg MCCaptureCard
    tlc -workers 2 -config MCIdentityForm.cfg MCIdentityForm
    tlc -workers 2 -config MCApplicantPages.cfg MCApplicantPages
    tlc -workers 2 -config MCAdminTeam.cfg MCAdminTeam
    tlc -workers 2 -config MCReviewDesk.cfg MCReviewDesk
    tlc -workers 2 -config MCRevokedIsTerminal.cfg MCRequestLifecycle
    tlc -workers 2 -config MCResubmittedClaimable.cfg MCRequestLifecycle
    tlc -workers 2 -config MCOneUsableCapture.cfg MCIdentityForm
    tlc -workers 2 -config MCLinkAuthenticates.cfg MCApplicantPages
    tlapm RequestLifecycleProofs.tla
    tlapm AccessGrantsProofs.tla
    tlapm EvidenceStoreProofs.tla
    tlapm ReviewDeskProofs.tla
    tlapm ApplicantPagesProofs.tla
    tlapm CaptureCardProofs.tla
    tlapm IdentityFormProofs.tla
    tlapm AdminTeamProofs.tla

The largest instances, `identity_form`, `review_desk` and `admin_team`, have three to
seven million distinct states and take one to four minutes; the others take about
one or less. The proofs of AdminTeam take about five minutes from nothing, those
of IdentityForm and ReviewDesk two to three.
