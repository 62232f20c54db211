--------------------------- MODULE ApplicantPages ---------------------------
(***************************************************************************)
(* The applicant's browser between the private link and Discord: signing    *)
(* in through a one-time entry context and a one-time OAuth state, the      *)
(* guard that routes by the request's status, and the pages that poll.      *)
(*                                                                         *)
(* Each page has at most one call under way.  The server answers with what  *)
(* it knows at that moment, the page applies the answer later, and leaving  *)
(* the page makes the answer void.  Meanwhile administrators, the gateway   *)
(* worker and the clock change the request, the grant and the session.      *)
(***************************************************************************)
EXTENDS Integers, FiniteSets, VerificationStateMachine

CONSTANTS
  MaxLogins,   \* bound on the sign-ins that are started
  MaxChanges,  \* bound on the changes of status, grant and session
  MaxFaults    \* bound on the calls that fail

ASSUME PagesBoundAssumption ==
  MaxLogins \in Nat /\ MaxChanges \in Nat /\ MaxFaults \in Nat

Logins == 1 .. MaxLogins

VARIABLES
  status, grant,   \* the request and its access grant
  overdue,         \* the request's expires_at is past
  session,         \* the browser's verification session is valid
  sessions,        \* number of sessions created
  ctx, oauth,      \* entry contexts and OAuth states, by sign-in
  page, phase,     \* what the browser shows
  call,            \* the call of the page that is under way
  shown,           \* the status, or the grant, the page has got
  continuing,      \* continueWithDiscord is under way
  from,            \* the status for which a guard sent the browser here
  passed,          \* statuses since the last submission (history)
  changes, faults

requestVars == <<status, grant, overdue, passed>>
loginVars == <<session, sessions, ctx, oauth>>
pageVars == <<page, phase, call, shown, continuing, from>>
vars == <<requestVars, loginVars, pageVars, changes, faults>>

NoCall == [at |-> "none"]
Asked == [at |-> "asked"]

access_unguarded_mutant(p) ==
  IF p = "identity" THEN {"pending", "more_info"} ELSE VerificationStatus

\* Pages behind VerificationStatusGuard, with the statuses they allow.
Allowed(p) ==
  CASE p = "identity" -> {"pending", "more_info"}
    [] p = "waiting" -> {"queued", "in_review"}
    [] p = "access" -> {"approved"}
    [] OTHER -> VerificationStatus

Guarded == {"identity", "waiting", "access"}

\* Pages that load something when they are shown.
Loading == {"link", "account-confirmed", "more-info", "rejected"}
Plain == {"expired", "revoked", "session-expired", "access-denied", "home",
          "discord", "api-error", "server"}

path_of_rejected_mutant(s) ==
  CASE s = "pending" -> "account-confirmed"
    [] s = "more_info" -> "identity"
    [] s \in {"queued", "in_review", "rejected"} -> "waiting"
    [] s = "approved" -> "access"
    [] OTHER -> s

getVerificationStatusPath(s) ==
  CASE s = "pending" -> "account-confirmed"
    [] s = "more_info" -> "more-info"
    [] s \in {"queued", "in_review"} -> "waiting"
    [] s = "approved" -> "access"
    [] OTHER -> s

PagesInit ==
  /\ status = "pending" /\ grant = "not_issued" /\ passed = {}
  /\ overdue = FALSE
  /\ session = FALSE /\ sessions = 0
  /\ ctx = [i \in Logins |-> "absent"]
  /\ oauth = [i \in Logins |-> "absent"]
  /\ page = "link" /\ phase = "loading" /\ call = Asked
  /\ shown = "none" /\ continuing = FALSE /\ from = "none"
  /\ changes = 0 /\ faults = 0

-----------------------------------------------------------------------------
(* Showing a page                                                          *)

\* A page is shown from its beginning, and makes its first call.
enter(p, for) ==
  /\ page' = p
  /\ phase' = CASE p \in Guarded -> "checking"
                [] p \in Loading -> "loading"
                [] OTHER -> "ready"
  /\ call' = IF p \in Guarded \union Loading THEN Asked ELSE NoCall
  /\ shown' = "none"
  /\ continuing' = FALSE
  /\ from' = for

stay == UNCHANGED <<page, continuing, from>>

\* The applicant opens the link, or a page by its address.
openPage(p) ==
  /\ page \notin {p, "discord"}
  /\ enter(p, "none")
  /\ UNCHANGED <<requestVars, loginVars, changes, faults>>

\* get_applicant_access knows no grant of a request that is not approved.
visibleGrant == IF status = "approved" THEN grant ELSE "not_issued"

\* ensure_request_is_available: a decided request that is overdue keeps its
\* status and is unavailable as well.
available == status \notin {"expired", "revoked"} /\ ~overdue

\* A call for an overdue request that may still expire makes it expire.
expire_request_if_needed ==
  IF overdue /\ can_transition(status, "expired")
    THEN /\ status' = "expired"
         /\ passed' = passed \union {"expired"}
         /\ UNCHANGED <<grant, overdue>>
    ELSE UNCHANGED requestVars

\* The server answers; the link needs no session, an available request only.
serve ==
  /\ call = Asked
  /\ IF page = "link" THEN expire_request_if_needed ELSE UNCHANGED requestVars
  /\ call' = [at |-> "answered",
              ok |-> IF page = "link" THEN available ELSE session,
              status |-> status, grant |-> visibleGrant]
  /\ stay
  /\ UNCHANGED <<loginVars, phase, shown, changes, faults>>

answered == call.at = "answered"

\* 401: the bridge goes to the page that says so.
session_expired ==
  /\ answered /\ ~call.ok /\ page # "link"
  /\ enter("session-expired", "none")
  /\ UNCHANGED <<requestVars, loginVars, changes, faults>>

\* The call fails.  A guard or a loading page shows its error, a poll is
\* repeated.
call_fails ==
  /\ call = Asked
  /\ faults < MaxFaults
  /\ faults' = faults + 1
  /\ phase' = IF phase = "ready" THEN phase ELSE "failed"
  /\ call' = IF phase = "ready" THEN Asked ELSE NoCall
  /\ stay
  /\ UNCHANGED <<requestVars, loginVars, shown, changes>>

guardChecking == page \in Guarded /\ phase = "checking"

\* VerificationStatusGuard.
check ==
  /\ guardChecking /\ answered /\ call.ok
  /\ IF call.status \in Allowed(page)
       THEN /\ phase' = "ready"
            /\ call' = IF page = "identity" THEN NoCall ELSE Asked
            /\ stay
            /\ UNCHANGED shown
       ELSE enter(getVerificationStatusPath(call.status), call.status)
  /\ UNCHANGED <<requestVars, loginVars, changes, faults>>

\* Pages that have no way on: the guard cannot tell the status, the link is
\* unavailable or shows a status only, the account could not be loaded.
guardFailed == page \in Guarded /\ phase = "failed"
unavailableCard == page = "link" /\ phase = "failed"
accountError == page = "account-confirmed" /\ phase = "failed"
resultView == page = "rejected"

reload ==
  /\ guardFailed \/ unavailableCard \/ accountError \/ resultView
  /\ enter(page, "none")
  /\ UNCHANGED <<requestVars, loginVars, changes, faults>>

-----------------------------------------------------------------------------
(* The private link and Discord                                            *)

entryLoading == page = "link" /\ phase = "loading"

\* The link's answer: the request, or "unavailable".
load_entry ==
  /\ entryLoading /\ answered
  /\ phase' = IF call.ok THEN "ready" ELSE "failed"
  /\ shown' = call.status
  /\ call' = NoCall
  /\ stay
  /\ UNCHANGED <<requestVars, loginVars, changes, faults>>

\* Only a pending request may be signed in to; any other shows its status.
canAuthenticate(s) == s = "pending"
linkView == page = "link" /\ phase = "ready"
existingStatus == linkView /\ ~canAuthenticate(shown)
continueOffered == linkView /\ ~existingStatus /\ ~continuing

\* The next sign-in that has no entry context yet.
nextLogin == Cardinality({i \in Logins : ctx[i] # "absent"}) + 1

\* createEntryContext succeeds for an available request.
continueWithDiscord ==
  /\ continueOffered
  /\ nextLogin <= MaxLogins
  /\ IF available
       THEN continuing' = TRUE /\ ctx' = [ctx EXCEPT ![nextLogin] = "live"]
       ELSE UNCHANGED <<continuing, ctx>>
  /\ expire_request_if_needed
  /\ UNCHANGED <<session, sessions, oauth, page, phase, call, shown, from,
                 changes, faults>>

\* Pages from which going back in the browser repeats an address of a sign-in.
Returned == {"discord", "account-confirmed", "access-denied"}

start_expired_mutant(i) ==
  /\ ctx[i] \in {"live", "dead"}
  /\ continuing \/ page \in Returned
  /\ ctx' = [ctx EXCEPT ![i] = "used"]
  /\ IF available
       THEN oauth' = [oauth EXCEPT ![i] = "live"] /\ enter("discord", "none")
       ELSE UNCHANGED oauth /\ enter("api-error", "none")
  /\ UNCHANGED <<requestVars, session, sessions, changes, faults>>

\* The context is consumed and committed first; the state is created when the
\* request is still available.  Going back and on again repeats the call.
start_discord_oauth(i) ==
  /\ ctx[i] # "absent"
  /\ continuing \/ page \in Returned
  /\ IF ctx[i] = "live"
       THEN /\ ctx' = [ctx EXCEPT ![i] = "used"]
            /\ IF available
                 THEN /\ oauth' = [oauth EXCEPT ![i] = "live"]
                      /\ enter("discord", "none")
                 ELSE UNCHANGED oauth /\ enter("api-error", "none")
            /\ expire_request_if_needed
       ELSE /\ UNCHANGED <<ctx, oauth, requestVars>>
            /\ enter("api-error", "none")
  /\ UNCHANGED <<session, sessions, changes, faults>>

callback_uncommitted_mutant(i) ==
  /\ oauth[i] = "live"
  /\ page \in Returned
  /\ \/ /\ session' = TRUE
        /\ sessions' = sessions + 1
        /\ enter("account-confirmed", "none")
        /\ UNCHANGED oauth
     \/ /\ enter("access-denied", "none")
        /\ oauth' = [oauth EXCEPT ![i] = "used"]
        /\ UNCHANGED <<session, sessions>>
  /\ UNCHANGED <<requestVars, ctx, changes, faults>>

\* The state is consumed and committed before Discord is asked; then the
\* request must be available and the account must be the assigned one.
discord_oauth_callback(i) ==
  /\ oauth[i] # "absent"
  /\ page \in Returned
  /\ oauth' = [oauth EXCEPT ![i] = IF @ = "live" THEN "used" ELSE @]
  /\ \/ /\ oauth[i] = "live" /\ available
        /\ session' = TRUE
        /\ sessions' = sessions + 1
        /\ enter("account-confirmed", "none")
     \/ /\ oauth[i] = "live" /\ available
        /\ enter("access-denied", "none")
        /\ UNCHANGED <<session, sessions>>
     \/ /\ enter("api-error", "none")
        /\ UNCHANGED <<session, sessions>>
  /\ IF oauth[i] = "live" THEN expire_request_if_needed
                           ELSE UNCHANGED requestVars
  /\ UNCHANGED <<ctx, changes, faults>>

credential_expires(i) ==
  /\ changes < MaxChanges
  /\ changes' = changes + 1
  /\ \/ ctx[i] = "live" /\ ctx' = [ctx EXCEPT ![i] = "dead"] /\ UNCHANGED oauth
     \/ oauth[i] = "live" /\ oauth' = [oauth EXCEPT ![i] = "dead"]
        /\ UNCHANGED ctx
  /\ UNCHANGED <<requestVars, session, sessions, pageVars, faults>>

-----------------------------------------------------------------------------
(* The pages of a signed-in applicant                                      *)

\* A page that loads the account or the status when it is shown.
loaded(p) ==
  /\ page = p /\ phase = "loading" /\ answered /\ call.ok
  /\ phase' = "ready"
  /\ shown' = call.status
  /\ call' = NoCall
  /\ stay
  /\ UNCHANGED <<requestVars, loginVars, changes, faults>>

load_account == loaded("account-confirmed")
load_message == loaded("more-info")
load_result == loaded("rejected")

accountView == page = "account-confirmed" /\ phase = "ready"
\* The form may be opened although the message could not be loaded.
moreInfoView == page = "more-info"

toForm ==
  /\ enter("identity", "none")
  /\ UNCHANGED <<requestVars, loginVars, changes, faults>>

continueToIdentity == accountView /\ toForm
updateVerification == moreInfoView /\ toForm

formView == page = "identity" /\ phase = "ready"

\* The identity form was submitted; its page goes to the waiting room.  An
\* overdue request expires instead, as by any other call.
submitVerification ==
  /\ formView
  /\ session
  /\ ~overdue
  /\ status \in {"pending", "more_info"}
  /\ status' = "queued"
  /\ enter("waiting", "none")
  /\ passed' = {"queued"}
  /\ UNCHANGED <<grant, overdue, loginVars, changes, faults>>

waitingView == page = "waiting" /\ phase = "ready"
inReviewShown == shown = "in_review"

refresh_stops_in_review_mutant ==
  /\ waitingView /\ answered /\ call.ok
  /\ IF call.status \in {"queued", "in_review"}
       THEN /\ shown' = call.status
            /\ call' = IF inReviewShown THEN NoCall ELSE Asked
            /\ stay
            /\ UNCHANGED phase
       ELSE enter(getVerificationStatusPath(call.status), call.status)
  /\ UNCHANGED <<requestVars, loginVars, changes, faults>>

\* The waiting room polls until the status is no longer its own.
refreshWaiting ==
  /\ waitingView /\ answered /\ call.ok
  /\ IF call.status \in {"queued", "in_review"}
       THEN /\ shown' = call.status
            /\ call' = Asked
            /\ stay
            /\ UNCHANGED phase
       ELSE enter(getVerificationStatusPath(call.status), call.status)
  /\ UNCHANGED <<requestVars, loginVars, changes, faults>>

accessView == page = "access" /\ phase = "ready"
accessLoading == accessView /\ shown = "none"
accessReady == accessView /\ shown = "issued"
accessPreparing == accessView /\ ~accessLoading /\ ~accessReady

\* The invite is opened.  It works while the grant is issued, and the worker
\* sees the arrival.
enterDiscord ==
  /\ accessReady
  /\ grant' = IF visibleGrant = "issued" THEN "consumed" ELSE grant
  /\ enter("server", "none")
  /\ UNCHANGED <<status, overdue, passed, loginVars, changes, faults>>

load_once_mutant ==
  /\ accessView /\ answered /\ call.ok
  /\ shown' = call.grant
  /\ call' = NoCall
  /\ stay
  /\ UNCHANGED <<requestVars, loginVars, phase, changes, faults>>

\* The access page polls until it has seen a grant, and then no more.
loadAccess ==
  /\ accessLoading \/ accessPreparing
  /\ answered /\ call.ok
  /\ shown' = call.grant
  /\ call' = IF call.grant = "not_issued" THEN Asked ELSE NoCall
  /\ stay
  /\ UNCHANGED <<requestVars, loginVars, phase, changes, faults>>

\* VerificationLogoutButton, wherever the call ends.
logout ==
  /\ session
  /\ page \in Guarded \union {"account-confirmed", "more-info"}
  /\ session' = FALSE
  /\ enter("home", "none")
  /\ UNCHANGED <<requestVars, sessions, ctx, oauth, changes, faults>>

-----------------------------------------------------------------------------
(* What others change                                                      *)

change == changes < MaxChanges /\ changes' = changes + 1

\* A review, a revocation, or an expiry found by any other call.
statusChanges(s) ==
  /\ change
  /\ s # "queued"
  /\ s = "expired" => overdue
  /\ can_transition(status, s)
  /\ status' = s
  /\ passed' = passed \union {s}
  /\ UNCHANGED <<grant, overdue, loginVars, pageVars, faults>>

\* The expiration time passes.
time_passes ==
  /\ change
  /\ ~overdue
  /\ overdue' = TRUE
  /\ UNCHANGED <<status, grant, passed, loginVars, pageVars, faults>>

\* The expiration is extended; a request that had expired is pending again.
extend_request_expiration ==
  /\ change
  /\ status # "revoked"
  /\ overdue
  /\ overdue' = FALSE
  /\ status' = IF status = "expired" THEN "pending" ELSE status
  /\ passed' = passed \union {status'}
  /\ UNCHANGED <<grant, loginVars, pageVars, faults>>

\* The grant is issued after an approval, used, withdrawn or issued again.
grantChanges(g) ==
  /\ change
  /\ \/ g = "issued" /\ grant # "issued" /\ status = "approved"
     \/ g \in {"consumed", "expired", "revoked"} /\ grant = "issued"
  /\ grant' = g
  /\ UNCHANGED <<status, overdue, passed, loginVars, pageVars, faults>>

session_ends ==
  /\ change
  /\ session
  /\ session' = FALSE
  /\ UNCHANGED <<requestVars, sessions, ctx, oauth, pageVars, faults>>

-----------------------------------------------------------------------------
(* The progress every page of the verification shows                       *)

StepOrder == <<"account", "identity", "queue", "review", "access">>

\* verificationStatusPresentation, what the link shows of a status.
presentedStep(s) ==
  CASE s = "queued" -> "queue"
    [] s \in {"in_review", "rejected"} -> "review"
    [] s = "more_info" -> "identity"
    [] s = "approved" -> "access"
    [] OTHER -> "account"

currentStep ==
  CASE existingStatus -> presentedStep(shown)
    [] formView \/ moreInfoView -> "identity"
    [] waitingView -> IF inReviewShown THEN "review" ELSE "queue"
    [] accessView -> "access"
    [] resultView -> "review"
    [] OTHER -> "account"

completeSteps ==
  {StepOrder[i] : i \in {i \in DOMAIN StepOrder :
     \E j \in DOMAIN StepOrder : i < j /\ StepOrder[j] = currentStep}}

-----------------------------------------------------------------------------
apply ==
  \/ session_expired \/ check \/ load_entry
  \/ load_account \/ load_message \/ load_result
  \/ refreshWaiting \/ loadAccess

\* The application's own pages; a sign-in or a call that ends shows the others.
Addressed ==
  Guarded \union Loading \union {"expired", "revoked", "home"}

UserStep ==
  \/ \E p \in Addressed : openPage(p)
  \/ continueWithDiscord \/ continueToIdentity \/ updateVerification
  \/ submitVerification
  \/ enterDiscord \/ reload \/ logout

LoginStep ==
  \E i \in Logins :
    \/ start_discord_oauth(i) \/ discord_oauth_callback(i)
    \/ credential_expires(i)

OtherStep ==
  \/ \E s \in VerificationStatus : statusChanges(s)
  \/ \E g \in AccessGrantStatus : grantChanges(g)
  \/ time_passes \/ extend_request_expiration
  \/ session_ends

PagesNext ==
  \/ serve \/ call_fails \/ apply
  \/ UserStep \/ LoginStep \/ OtherStep

\* The server answers and the browser applies; a poll that failed is repeated.
PagesSpec ==
  PagesInit /\ [][PagesNext]_vars /\ WF_vars(serve) /\ WF_vars(apply)

-----------------------------------------------------------------------------
(* Properties                                                              *)

\* The page a guard or the waiting room sends the applicant to accepts the
\* status it was chosen for: routing by status never goes round in circles.
NoRedirectLoop ==
  from # "none" /\ phase = "checking" => from \in Allowed(page)

\* Each session has its own sign-in behind it, started from the link and used
\* once, although contexts, states and their addresses can be replayed.
SessionsBacked ==
  /\ sessions <= Cardinality({i \in Logins : oauth[i] = "used"})
  /\ \A i \in Logins : oauth[i] # "absent" => ctx[i] = "used"

\* Neither the link nor a page behind the guard shows a step as complete that
\* the request has not completed since the last submission, however late the
\* answers arrive.  Nothing guards the pages "more-info" and "rejected": opened
\* by their address they show the steps before their own as complete, whatever
\* the status of the request.
StepsShownWereDone ==
  page \notin {"more-info", "rejected"} =>
  \A step \in completeSteps :
    CASE step = "account" -> sessions > 0
      [] step = "identity" -> "queued" \in passed
      [] step = "queue" -> passed \intersect {"in_review", "rejected"} # {}
      [] step = "review" -> "approved" \in passed
      [] OTHER -> TRUE

\* A sign-in is its entry context until Discord is asked, then its state.
signIn ==
  [i \in Logins |->
    IF oauth[i] # "absent" THEN oauth[i]
    ELSE IF ctx[i] = "used" THEN "dead" ELSE ctx[i]]

SignIns == INSTANCE OneTimeCredential WITH Ids <- Logins, credential <- signIn

\* A sign-in that was started from the link ends at most once, and is of no
\* use after it, whichever of its two addresses is visited again.
EntryIsOneTime == SignIns!CredentialSpec

\* An applicant in the waiting room gets to the outcome, or to the page that
\* says the session is over, without doing anything.
WaitingLeaves ==
  (waitingView /\ (status \notin {"queued", "in_review"} \/ ~session))
    ~> (~waitingView \/ (status \in {"queued", "in_review"} /\ session))

\* The page has no answer yet, or the one that makes it poll on, and the next
\* one is not of a grant that has ended.
stillPolling ==
  /\ accessView /\ session
  /\ shown \in {"none", "not_issued"}
  /\ answered => call.grant \in {"not_issued", "issued"}

\* A grant that is issued while the access page polls, and stays so, gets there
\* as the invite, however many calls fail or find no grant before.  A page that
\* was answered with a grant that had ended asks no more and does not show a
\* later one.
InviteArrives ==
  (stillPolling /\ visibleGrant = "issued")
    ~> (accessReady \/ ~accessView \/ ~session \/ visibleGrant # "issued")

\* The page of an ended session says: "Reopen your original private
\* verification link and authenticate with Discord again."  The link offers
\* that for every request that is not closed.
LinkAuthenticates ==
  page = "session-expired" /\ available => canAuthenticate(status)
=============================================================================
