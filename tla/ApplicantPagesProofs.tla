------------------------- MODULE ApplicantPagesProofs -------------------------
(* Proofs about ApplicantPages for any numbers of sign-ins, changes and      *)
(* failed calls.  Fairness is not needed for them.                           *)
EXTENDS ApplicantPages, FiniteSetTheorems, TLAPS

SignInState == {"absent", "live", "used", "dead"}

\* What the routing reads has its type.
Known ==
  /\ status \in VerificationStatus
  /\ answered => call.status \in VerificationStatus

\* The page that was chosen for a status accepts it.
Routed == from # "none" => from \in Allowed(page)

\* Sign-ins are numbered in the order they are started; one that has a state
\* has used up its context.
SignInsOrdered ==
  /\ ctx \in [Logins -> SignInState] /\ oauth \in [Logins -> SignInState]
  /\ \E k \in 0 .. MaxLogins : \A i \in Logins : ctx[i] # "absent" <=> i <= k
  /\ \A i \in Logins : oauth[i] # "absent" => ctx[i] = "used"

\* Each session has used up a state.
SessionsCounted ==
  /\ sessions \in Nat
  /\ sessions <= Cardinality({i \in Logins : oauth[i] = "used"})

\* What a request must have gone through to have the status s.
Behind(s) ==
  /\ s \in {"queued", "in_review", "more_info", "approved", "rejected"}
       => sessions > 0 /\ "queued" \in passed
  /\ s \in {"in_review", "rejected", "approved"}
       => passed \intersect {"in_review", "rejected"} # {}
  /\ s = "approved" => "approved" \in passed

\* The status of the request, the one of an answer under way and the ones that
\* pages show have all been reached since the last submission; a page that
\* needs a session had one.
StatusesReached ==
  /\ session => sessions > 0
  /\ Behind(status)
  /\ answered => /\ Behind(call.status)
                 /\ call.ok /\ page # "link" => sessions > 0
  /\ linkView => Behind(shown)
  /\ formView => sessions > 0
  /\ waitingView => Behind("queued")
  /\ page = "waiting" /\ inReviewShown => Behind("in_review")
  /\ accessView => Behind("approved")

-----------------------------------------------------------------------------
(* What a step does to the page and to the request                         *)

\* A page is shown anew: one the applicant or the browser asked for, the same
\* one again, or the one for the status of an answer.
LEMMA PageCases ==
  ASSUME [PagesNext]_vars
  PROVE  \/ UNCHANGED <<page, from>>
         \/ \E p \in Guarded \union Loading \union Plain : enter(p, "none")
         \/ enter(page, "none")
         \/ answered /\ enter(getVerificationStatusPath(call.status), call.status)
<1>1. CASE serve \/ call_fails
  BY <1>1 DEF serve, call_fails, stay
<1>2. CASE apply
  BY <1>2 DEF apply, session_expired, check, load_entry, load_account,
     load_message, load_result, loaded, refreshWaiting, loadAccess, stay, Plain
<1>3. CASE UserStep
  <2>1. Addressed \subseteq Guarded \union Loading \union Plain
    BY DEF Addressed, Plain
  <2>2. QED
    BY <1>3, <2>1 DEF UserStep, openPage, continueWithDiscord,
       continueToIdentity, updateVerification, toForm, submitVerification,
       enterDiscord, reload, logout, Plain, Guarded
<1>4. CASE LoginStep
  BY <1>4 DEF LoginStep, start_discord_oauth, discord_oauth_callback,
     credential_expires, pageVars, Loading, Plain
<1>5. CASE OtherStep
  BY <1>5 DEF OtherStep, statusChanges, grantChanges, time_passes,
     extend_request_expiration, session_ends, pageVars
<1>6. CASE UNCHANGED vars
  BY <1>6 DEF vars, pageVars
<1>7. QED
  BY <1>1, <1>2, <1>3, <1>4, <1>5, <1>6 DEF PagesNext

\* Which steps touch the request: a submission, a change by others, and the
\* expiry that a call finds.
LEMMA RequestFrame ==
  ASSUME [PagesNext]_vars
  PROVE  \/ UNCHANGED <<status, passed>>
         \/ submitVerification
         \/ \E s \in VerificationStatus : statusChanges(s)
         \/ /\ status' \in {status, "expired", "pending"}
            /\ passed' = passed \union {status'}
            /\ ~submitVerification
<1>0. submitVerification \/ ~submitVerification
  OBVIOUS
<1>1. CASE serve
  BY <1>0, <1>1 DEF serve, expire_request_if_needed, requestVars
<1>2. CASE call_fails \/ apply
  BY <1>2 DEF call_fails, apply, session_expired, check, load_entry,
     load_account, load_message, load_result, loaded, refreshWaiting,
     loadAccess, requestVars
<1>3. CASE UserStep
  BY <1>0, <1>3 DEF UserStep, openPage, continueWithDiscord,
     continueToIdentity, updateVerification, toForm, enterDiscord, reload,
     logout, requestVars, expire_request_if_needed
<1>4. CASE LoginStep
  BY <1>0, <1>4 DEF LoginStep, start_discord_oauth, discord_oauth_callback,
     credential_expires, requestVars, expire_request_if_needed
<1>5. CASE OtherStep
  BY <1>0, <1>5 DEF OtherStep, grantChanges, time_passes,
     extend_request_expiration, session_ends, requestVars
<1>6. CASE UNCHANGED vars
  BY <1>6 DEF vars, requestVars
<1>7. QED
  BY <1>1, <1>2, <1>3, <1>4, <1>5, <1>6 DEF PagesNext

\* Which steps touch the sign-ins.
LEMMA LoginFrame ==
  ASSUME [PagesNext]_vars
  PROVE  \/ UNCHANGED loginVars
         \/ logout \/ session_ends \/ continueWithDiscord
         \/ \E i \in Logins : \/ start_discord_oauth(i)
                              \/ discord_oauth_callback(i)
                              \/ credential_expires(i)
<1>1. CASE serve \/ call_fails \/ apply
  BY <1>1 DEF serve, call_fails, apply, session_expired, check, load_entry,
     load_account, load_message, load_result, loaded, refreshWaiting,
     loadAccess
<1>2. CASE UserStep
  BY <1>2 DEF UserStep, openPage, continueToIdentity,
     updateVerification, toForm, submitVerification, enterDiscord, reload
<1>3. CASE OtherStep
  BY <1>3 DEF OtherStep, statusChanges, grantChanges, time_passes,
     extend_request_expiration
<1>4. CASE UNCHANGED vars
  BY <1>4 DEF vars
<1>5. QED
  BY <1>1, <1>2, <1>3, <1>4 DEF PagesNext, LoginStep

\* Which steps answer or apply.
LEMMA CallFrame ==
  ASSUME [PagesNext]_vars
  PROVE  \/ UNCHANGED call
         \/ serve
         \/ call' \in {NoCall, Asked}
<1>1. CASE call_fails \/ apply
  BY <1>1 DEF call_fails, apply, session_expired, check, load_entry,
     load_account, load_message, load_result, loaded, refreshWaiting,
     loadAccess, enter
<1>2. CASE UserStep
  BY <1>2 DEF UserStep, openPage, continueWithDiscord, continueToIdentity,
     updateVerification, toForm, submitVerification, enterDiscord, reload,
     logout, enter
<1>3. CASE LoginStep
  BY <1>3 DEF LoginStep, start_discord_oauth, discord_oauth_callback,
     credential_expires, pageVars, enter
<1>4. CASE OtherStep
  BY <1>4 DEF OtherStep, statusChanges, grantChanges, time_passes,
     extend_request_expiration, session_ends, pageVars
<1>5. CASE UNCHANGED vars
  BY <1>5 DEF vars, pageVars
<1>6. QED
  BY <1>1, <1>2, <1>3, <1>4, <1>5 DEF PagesNext

-----------------------------------------------------------------------------
(* Routing                                                                 *)

\* Statuses stay statuses.
LEMMA KnownStays == Known /\ [PagesNext]_vars => Known'
<1> SUFFICES ASSUME Known, [PagesNext]_vars PROVE Known'
  OBVIOUS
<1>1. status' \in VerificationStatus
  BY RequestFrame DEF Known, submitVerification, statusChanges,
     VerificationStatus
<1>2. answered' => call'.status \in VerificationStatus
  BY CallFrame DEF Known, serve, NoCall, Asked, answered
<1>3. QED
  BY <1>1, <1>2 DEF Known

\* The statuses are known in every reachable state.
LEMMA AlwaysKnown == PagesSpec => []Known
<1>1. PagesInit => Known
  BY DEF PagesInit, Known, VerificationStatus, answered, Asked
<1>2. QED
  BY <1>1, KnownStays, PTL DEF PagesSpec

\* getVerificationStatusPath agrees with the pages' own lists.
LEMMA PathAccepts ==
  ASSUME NEW s \in VerificationStatus
  PROVE  s \in Allowed(getVerificationStatusPath(s))
BY DEF Allowed, getVerificationStatusPath, VerificationStatus

\* Routing by status never goes round in circles: the page that a guard or the
\* waiting room chooses for a status accepts this status.
THEOREM NoCircles == PagesSpec => []NoRedirectLoop
<1>1. PagesInit => Routed
  BY DEF PagesInit, Routed
<1>2. Known /\ Routed /\ [PagesNext]_vars => Routed'
  BY PageCases, PathAccepts DEF Known, Routed, enter
<1>3. Routed => NoRedirectLoop
  BY DEF Routed, NoRedirectLoop
<1>4. QED
  BY <1>1, <1>2, <1>3, AlwaysKnown, PTL DEF PagesSpec

-----------------------------------------------------------------------------
(* Sign-ins                                                                *)

\* A new sign-in is one that has not been started.
LEMMA NextLogin ==
  ASSUME SignInsOrdered
  PROVE  /\ nextLogin \in 1 .. MaxLogins + 1
         /\ \A i \in Logins : ctx[i] # "absent" <=> i < nextLogin
<1>1. PICK k \in 0 .. MaxLogins : \A i \in Logins : ctx[i] # "absent" <=> i <= k
  BY DEF SignInsOrdered
<1>2. {i \in Logins : ctx[i] # "absent"} = 1 .. k
  BY <1>1, PagesBoundAssumption DEF Logins
<1>3. Cardinality(1 .. k) = k
  BY <1>1, PagesBoundAssumption, FS_Interval
<1>4. nextLogin = k + 1
  BY <1>2, <1>3 DEF nextLogin
<1>5. QED
  BY <1>1, <1>4, PagesBoundAssumption DEF Logins

\* A sign-in is started once, and gets a state when it uses up its context.
LEMMA SignInsStayOrdered == SignInsOrdered /\ [PagesNext]_vars => SignInsOrdered'
<1> SUFFICES ASSUME SignInsOrdered, [PagesNext]_vars PROVE SignInsOrdered'
  OBVIOUS
<1>0. ctx \in [Logins -> SignInState] /\ oauth \in [Logins -> SignInState]
  BY DEF SignInsOrdered
<1>1. PICK k \in 0 .. MaxLogins : \A i \in Logins : ctx[i] # "absent" <=> i <= k
  BY DEF SignInsOrdered
<1>2. CASE UNCHANGED <<ctx, oauth>>
  BY <1>2 DEF SignInsOrdered
<1>3. CASE continueWithDiscord
  <2>1. CASE UNCHANGED <<ctx, oauth>>
    BY <1>2, <2>1
  <2>2. CASE ctx' = [ctx EXCEPT ![nextLogin] = "live"] /\ UNCHANGED oauth
    <3>1. nextLogin \in 1 .. MaxLogins
      BY <1>3, NextLogin, PagesBoundAssumption DEF continueWithDiscord
    <3>2. \A i \in Logins : ctx[i] # "absent" <=> i < nextLogin
      BY NextLogin
    <3>3. \A i \in Logins : ctx'[i] # "absent" <=> i <= nextLogin
      BY <1>0, <2>2, <3>1, <3>2, PagesBoundAssumption DEF Logins
    <3>4. oauth[nextLogin] = "absent"
      BY <3>1, <3>2, PagesBoundAssumption DEF SignInsOrdered, Logins
    <3>5. \A i \in Logins : oauth'[i] # "absent" => ctx'[i] = "used"
      BY <1>0, <2>2, <3>4 DEF SignInsOrdered
    <3>6. ctx' \in [Logins -> SignInState]
      BY <1>0, <2>2 DEF SignInState
    <3>7. nextLogin \in 0 .. MaxLogins
      BY <3>1, PagesBoundAssumption
    <3>8. QED
      BY <1>0, <2>2, <3>3, <3>5, <3>6, <3>7 DEF SignInsOrdered
  <2>3. QED
    BY <1>3, <2>1, <2>2 DEF continueWithDiscord
<1>4. ASSUME NEW i \in Logins, ctx[i] # "absent",
             NEW s \in SignInState \ {"absent"},
             ctx' = [ctx EXCEPT ![i] = s]
      PROVE  /\ ctx' \in [Logins -> SignInState]
             /\ \A j \in Logins : ctx'[j] # "absent" <=> j <= k
  BY <1>0, <1>1, <1>4
<1>5. ASSUME NEW i \in Logins, start_discord_oauth(i)
      PROVE  SignInsOrdered'
  <2>1. CASE ctx[i] = "live"
    <3>1. ctx' = [ctx EXCEPT ![i] = "used"]
      BY <1>5, <2>1 DEF start_discord_oauth
    <3>2. /\ ctx' \in [Logins -> SignInState]
          /\ \A j \in Logins : ctx'[j] # "absent" <=> j <= k
      BY <1>4, <2>1, <3>1 DEF SignInState
    <3>3. UNCHANGED oauth \/ oauth' = [oauth EXCEPT ![i] = "live"]
      BY <1>5, <2>1 DEF start_discord_oauth
    <3>4. oauth' \in [Logins -> SignInState]
      BY <1>0, <3>3 DEF SignInState
    <3>5. \A j \in Logins : oauth'[j] # "absent" => ctx'[j] = "used"
      BY <1>0, <3>1, <3>3 DEF SignInsOrdered
    <3>6. QED
      BY <3>2, <3>4, <3>5 DEF SignInsOrdered
  <2>2. CASE ctx[i] # "live"
    BY <1>2, <1>5, <2>2 DEF start_discord_oauth
  <2>3. QED
    BY <2>1, <2>2
<1>6. ASSUME NEW i \in Logins, discord_oauth_callback(i)
      PROVE  SignInsOrdered'
  BY <1>0, <1>6 DEF discord_oauth_callback, SignInsOrdered, SignInState
<1>7. ASSUME NEW i \in Logins, credential_expires(i)
      PROVE  SignInsOrdered'
  <2>1. CASE ctx[i] = "live" /\ ctx' = [ctx EXCEPT ![i] = "dead"]
             /\ UNCHANGED oauth
    <3>1. /\ ctx' \in [Logins -> SignInState]
          /\ \A j \in Logins : ctx'[j] # "absent" <=> j <= k
      BY <1>4, <2>1 DEF SignInState
    <3>2. \A j \in Logins : oauth'[j] # "absent" => ctx'[j] = "used"
      BY <1>0, <2>1 DEF SignInsOrdered
    <3>3. QED
      BY <1>0, <2>1, <3>1, <3>2 DEF SignInsOrdered
  <2>2. CASE oauth[i] = "live" /\ oauth' = [oauth EXCEPT ![i] = "dead"]
             /\ UNCHANGED ctx
    BY <1>0, <2>2 DEF SignInsOrdered, SignInState
  <2>3. QED
    BY <1>7, <2>1, <2>2 DEF credential_expires
<1>8. QED
  BY <1>2, <1>3, <1>5, <1>6, <1>7, LoginFrame
     DEF loginVars, logout, session_ends

\* Sign-ins are ordered in every reachable state.
LEMMA Ordered == PagesSpec => []SignInsOrdered
<1>1. PagesInit => SignInsOrdered
  <2> SUFFICES ASSUME PagesInit PROVE SignInsOrdered
    OBVIOUS
  <2>1. 0 \in 0 .. MaxLogins /\ \A i \in Logins : ~(i <= 0)
    BY PagesBoundAssumption DEF Logins
  <2>2. \A i \in Logins : ctx[i] # "absent" <=> i <= 0
    BY <2>1 DEF PagesInit
  <2>3. QED
    BY <2>1, <2>2 DEF PagesInit, SignInsOrdered, SignInState
<1>2. QED
  BY <1>1, SignInsStayOrdered, PTL DEF PagesSpec

\* A session is created by the callback alone, which uses up a live state.
LEMMA SessionsStayCounted ==
  SignInsOrdered /\ SessionsCounted /\ [PagesNext]_vars => SessionsCounted'
<1> SUFFICES ASSUME SignInsOrdered, SessionsCounted, [PagesNext]_vars
             PROVE  SessionsCounted'
  OBVIOUS
<1> DEFINE used == {i \in Logins : oauth[i] = "used"}
<1>0. /\ sessions \in Nat /\ sessions <= Cardinality(used)
      /\ oauth \in [Logins -> SignInState]
  BY DEF SessionsCounted, SignInsOrdered
<1>1. IsFiniteSet(used)
  <2>1. IsFiniteSet(Logins)
    BY PagesBoundAssumption, FS_Interval DEF Logins
  <2>2. QED
    BY <2>1, FS_Subset
<1>2. ASSUME NEW i \in Logins, oauth[i] = "live",
             oauth' = [oauth EXCEPT ![i] = "used"]
      PROVE  Cardinality(used') = Cardinality(used) + 1
  <2>1. used' = used \union {i} /\ i \notin used
    BY <1>0, <1>2
  <2>2. QED
    BY <1>1, <2>1, FS_AddElement
<1>3. Cardinality(used) \in Nat
  BY <1>1, FS_CardinalityType
<1>4. ASSUME NEW i \in Logins, discord_oauth_callback(i)
      PROVE  SessionsCounted'
  <2>1. CASE oauth[i] = "live"
    <3>1. oauth' = [oauth EXCEPT ![i] = "used"]
      BY <1>4, <2>1 DEF discord_oauth_callback
    <3>2. Cardinality(used') = Cardinality(used) + 1
      BY <1>2, <2>1, <3>1
    <3>3. sessions' \in {sessions, sessions + 1}
      BY <1>4 DEF discord_oauth_callback
    <3> HIDE DEF used
    <3>4. sessions' \in Nat /\ sessions' <= Cardinality(used')
      BY <1>0, <1>3, <3>2, <3>3
    <3>5. QED
      BY <3>4 DEF SessionsCounted, used
  <2>2. CASE oauth[i] # "live"
    <3>1. oauth' = oauth
      BY <1>0, <1>4, <2>2 DEF discord_oauth_callback
    <3>2. UNCHANGED sessions
      BY <1>4, <2>2 DEF discord_oauth_callback
    <3>3. QED
      BY <3>1, <3>2 DEF SessionsCounted
  <2>3. QED
    BY <2>1, <2>2
<1>5. ASSUME \A i \in Logins : oauth[i] = "used" <=> oauth'[i] = "used",
             UNCHANGED sessions
      PROVE  SessionsCounted'
  BY <1>5 DEF SessionsCounted
<1>6. ASSUME NEW i \in Logins, start_discord_oauth(i) \/ credential_expires(i)
      PROVE  SessionsCounted'
  <2>1. UNCHANGED sessions
    BY <1>6 DEF start_discord_oauth, credential_expires
  <2>2. \/ UNCHANGED oauth
        \/ ctx[i] = "live" /\ oauth' = [oauth EXCEPT ![i] = "live"]
        \/ oauth[i] = "live" /\ oauth' = [oauth EXCEPT ![i] = "dead"]
    BY <1>6 DEF start_discord_oauth, credential_expires
  <2>3. ctx[i] = "live" => oauth[i] # "used"
    BY DEF SignInsOrdered
  <2>4. QED
    BY <1>0, <1>5, <2>1, <2>2, <2>3
<1>7. CASE UNCHANGED <<sessions, oauth>>
  BY <1>7 DEF SessionsCounted
<1>8. QED
  BY <1>4, <1>6, <1>7, LoginFrame
     DEF loginVars, logout, session_ends, continueWithDiscord

\* The sessions are counted in every reachable state.
LEMMA Counted == PagesSpec => []SessionsCounted
<1>1. PagesInit => SessionsCounted
  <2> SUFFICES ASSUME PagesInit PROVE SessionsCounted
    OBVIOUS
  <2>1. {i \in Logins : oauth[i] = "used"} = {}
    BY DEF PagesInit
  <2>2. QED
    BY <2>1, FS_EmptySet DEF PagesInit, SessionsCounted
<1>2. QED
  BY <1>1, SessionsStayCounted, Ordered, PTL DEF PagesSpec

\* Every session has a sign-in of its own behind it, whichever addresses of
\* the sign-ins are visited again.
THEOREM EachSessionBacked == PagesSpec => []SessionsBacked
<1>1. SignInsOrdered /\ SessionsCounted => SessionsBacked
  BY DEF SignInsOrdered, SessionsCounted, SessionsBacked
<1>2. QED
  BY <1>1, Ordered, Counted, PTL

\* A sign-in is a one-time credential: it implements OneTimeCredential, its
\* context and then its state being the credential.
THEOREM SignInsAreOneTime == PagesSpec => EntryIsOneTime
<1>1. PagesInit => SignIns!CredentialInit
  BY DEF PagesInit, signIn, SignIns!CredentialInit
<1>2. SignInsOrdered /\ [PagesNext]_vars => [SignIns!CredentialNext]_signIn
  <2> SUFFICES ASSUME SignInsOrdered, [PagesNext]_vars, NEW j \in Logins
               PROVE  \/ SignIns!issue(j) \/ SignIns!use(j)
                      \/ SignIns!withdraw(j) \/ SignIns!keep(j)
    BY DEF SignIns!CredentialNext
  <2> USE DEF SignIns!issue, SignIns!use, SignIns!withdraw, SignIns!keep
  <2>0. /\ ctx \in [Logins -> SignInState] /\ oauth \in [Logins -> SignInState]
        /\ oauth[j] # "absent" => ctx[j] = "used"
    BY DEF SignInsOrdered
  <2>1. ASSUME ctx'[j] = ctx[j], oauth'[j] = oauth[j]
        PROVE  SignIns!keep(j)
    BY <2>1 DEF signIn
  <2>2. CASE continueWithDiscord
    <3>1. CASE UNCHANGED <<ctx, oauth>>
      BY <2>1, <3>1
    <3>2. CASE ctx' = [ctx EXCEPT ![nextLogin] = "live"] /\ UNCHANGED oauth
      <4>1. CASE j = nextLogin
        <5>1. ctx[j] = "absent"
          BY <4>1, NextLogin, PagesBoundAssumption DEF Logins
        <5>2. ctx'[j] = "live" /\ oauth'[j] = "absent" /\ oauth[j] = "absent"
          BY <2>0, <3>2, <4>1, <5>1
        <5>3. QED
          BY <5>1, <5>2 DEF signIn
      <4>2. CASE j # nextLogin
        BY <2>0, <2>1, <3>2, <4>2
      <4>3. QED
        BY <4>1, <4>2
    <3>3. QED
      BY <2>2, <3>1, <3>2 DEF continueWithDiscord
  <2>3. ASSUME NEW i \in Logins,
               \/ start_discord_oauth(i) \/ discord_oauth_callback(i)
               \/ credential_expires(i)
        PROVE  \/ SignIns!use(j) \/ SignIns!withdraw(j) \/ SignIns!keep(j)
    <3>1. CASE i # j
      BY <2>0, <2>1, <2>3, <3>1
         DEF start_discord_oauth, discord_oauth_callback, credential_expires
    <3>2. CASE i = j
      BY <2>0, <2>3, <3>2 DEF start_discord_oauth, discord_oauth_callback,
         credential_expires, signIn, SignInState
    <3>3. QED
      BY <3>1, <3>2
  <2>4. QED
    BY <2>1, <2>2, <2>3, LoginFrame DEF loginVars, logout, session_ends
<1>3. QED
  BY <1>1, <1>2, Ordered, PTL
     DEF PagesSpec, EntryIsOneTime, SignIns!CredentialSpec

-----------------------------------------------------------------------------
(* The progress                                                            *)

\* What the request has gone through is forgotten only by a new submission,
\* which leaves the form's page.
LEMMA BehindStays ==
  ASSUME SessionsCounted, [PagesNext]_vars
  PROVE  /\ sessions > 0 => sessions' > 0
         /\ \/ submitVerification
            \/ \A s : Behind(s) => Behind(s)'
<1>0. sessions' = sessions \/ sessions' = sessions + 1
  BY LoginFrame DEF loginVars, logout, session_ends, continueWithDiscord,
     start_discord_oauth, discord_oauth_callback, credential_expires
<1>1. sessions > 0 => sessions' > 0
  BY <1>0 DEF SessionsCounted
<1>2. submitVerification \/ passed \subseteq passed'
  BY RequestFrame DEF statusChanges
<1>3. QED
  BY <1>1, <1>2 DEF Behind

\* A page is shown anew, and then shows nothing of the request; or it goes on.
LEMMA ViewCases ==
  ASSUME [PagesNext]_vars
  PROVE  \/ \E p, f : enter(p, f)
         \/ UNCHANGED <<page, phase, shown>>
         \/ call_fails /\ UNCHANGED <<page, shown>>
         \/ apply /\ UNCHANGED page /\ ~submitVerification
<1>1. CASE serve \/ call_fails
  BY <1>1 DEF serve, call_fails, stay
<1>2. CASE apply
  <2>1. UNCHANGED page \/ \E p, f : enter(p, f)
    BY <1>2 DEF apply, session_expired, check, load_entry, load_account,
       load_message, load_result, loaded, refreshWaiting, loadAccess, stay
  <2>2. ~submitVerification \/ \E p, f : enter(p, f)
    BY DEF submitVerification
  <2>3. QED
    BY <1>2, <2>1, <2>2
<1>3. CASE UserStep
  BY <1>3 DEF UserStep, openPage, continueWithDiscord, continueToIdentity,
     updateVerification, toForm, submitVerification, enterDiscord, reload,
     logout
<1>4. CASE LoginStep
  BY <1>4 DEF LoginStep, start_discord_oauth, discord_oauth_callback,
     credential_expires, pageVars
<1>5. CASE OtherStep
  BY <1>5 DEF OtherStep, statusChanges, grantChanges, time_passes,
     extend_request_expiration, session_ends, pageVars
<1>6. CASE UNCHANGED vars
  BY <1>6 DEF vars, pageVars
<1>7. QED
  BY <1>1, <1>2, <1>3, <1>4, <1>5, <1>6 DEF PagesNext

\* Statuses are reached one after the other.
LEMMA StatusReached ==
  ASSUME Known, SessionsCounted, StatusesReached, [PagesNext]_vars
  PROVE  Behind(status)'
<1>1. CASE UNCHANGED <<status, passed>>
  BY <1>1, BehindStays DEF StatusesReached, submitVerification, Behind
<1>2. CASE submitVerification
  <2>1. sessions > 0 /\ UNCHANGED sessions
    BY <1>2 DEF submitVerification, StatusesReached, loginVars
  <2>2. status' = "queued" /\ passed' = {"queued"}
    BY <1>2 DEF submitVerification
  <2>3. QED
    BY <2>1, <2>2 DEF Behind
<1>3. ASSUME NEW s \in VerificationStatus, statusChanges(s)
      PROVE  Behind(status)'
  <2>1. /\ status' = s /\ passed' = passed \union {s} /\ UNCHANGED sessions
        /\ s # "queued"
        /\ s \in ALLOWED_TRANSITIONS[status]
    BY <1>3 DEF statusChanges, can_transition, loginVars
  <2>2. /\ s = "in_review" => status \in {"queued", "more_info"}
        /\ s = "more_info" => status \in {"in_review", "rejected"}
        /\ s = "approved" => status = "in_review"
        /\ s = "rejected" => status \in {"in_review", "more_info"}
    BY <2>1 DEF ALLOWED_TRANSITIONS, Known, VerificationStatus
  <2>3. Behind(status)
    BY DEF StatusesReached
  <2>4. QED
    BY <2>1, <2>2, <2>3 DEF Behind
<1>4. CASE /\ status' \in {status, "expired", "pending"}
           /\ passed' = passed \union {status'}
           /\ ~submitVerification
  <2>1. Behind(status)
    BY DEF StatusesReached
  <2>2. sessions > 0 => sessions' > 0
    BY BehindStays
  <2>3. QED
    BY <1>4, <2>1, <2>2 DEF Behind
<1>5. QED
  BY <1>1, <1>2, <1>3, <1>4, RequestFrame

\* An answer tells of a status that was reached.
LEMMA AnswerReached ==
  ASSUME SessionsCounted, StatusesReached, [PagesNext]_vars, answered'
  PROVE  /\ Behind(call.status)'
         /\ call'.ok /\ page' # "link" => sessions' > 0
<1>1. ~ \E p, f : enter(p, f)
  BY DEF enter, answered, NoCall, Asked
<1>2. UNCHANGED page /\ ~submitVerification
  BY <1>1, PageCases DEF submitVerification
<1>3. CASE serve
  <2>1. /\ UNCHANGED sessions /\ call'.status = status
        /\ page # "link" => call'.ok = session
    BY <1>3 DEF serve, loginVars
  <2>2. Behind(call.status)'
    BY <1>2, <2>1, BehindStays DEF StatusesReached, Behind
  <2>3. QED
    BY <1>2, <2>1, <2>2 DEF StatusesReached
<1>4. CASE UNCHANGED call
  <2>1. /\ answered /\ Behind(call.status)
        /\ call.ok /\ page # "link" => sessions > 0
    BY <1>4 DEF StatusesReached, answered
  <2>2. QED
    BY <1>2, <1>4, <2>1, BehindStays
<1>5. QED
  BY <1>3, <1>4, CallFrame DEF answered, NoCall, Asked

\* What the pages show was reached.
LEMMA ReachedStays ==
  Known /\ SessionsCounted /\ StatusesReached /\ [PagesNext]_vars
    => StatusesReached'
<1> SUFFICES ASSUME Known, SessionsCounted, StatusesReached, [PagesNext]_vars
             PROVE  StatusesReached'
  OBVIOUS
<1>1. session' => sessions' > 0
  <2>1. ASSUME NEW i \in Logins, discord_oauth_callback(i)
        PROVE  UNCHANGED session \/ sessions' = sessions + 1
    BY <2>1 DEF discord_oauth_callback
  <2>2. UNCHANGED session \/ ~session' \/ sessions' = sessions + 1
    BY <2>1, LoginFrame DEF loginVars, logout, session_ends,
       continueWithDiscord, start_discord_oauth, credential_expires
  <2>3. sessions' = sessions + 1 => sessions' > 0
    BY DEF SessionsCounted
  <2>4. QED
    BY <2>2, <2>3, BehindStays DEF StatusesReached
<1> DEFINE
      views == /\ linkView => Behind(shown)
               /\ formView => sessions > 0
               /\ waitingView => Behind("queued")
               /\ page = "waiting" /\ inReviewShown => Behind("in_review")
               /\ accessView => Behind("approved")
<1>2. ASSUME NEW p, NEW f, enter(p, f)
      PROVE  views'
  <2>1. phase' = "ready" => p \notin Guarded \union Loading
    BY <1>2 DEF enter
  <2>2. page' = p /\ shown' = "none"
    BY <1>2 DEF enter
  <2>3. ~linkView' /\ ~formView' /\ ~waitingView' /\ ~accessView'
        /\ ~inReviewShown'
    BY <2>1, <2>2 DEF linkView, formView, waitingView, accessView,
       Guarded, Loading, inReviewShown
  <2>4. QED
    BY <2>3
<1>3. ASSUME UNCHANGED <<page, shown>>, phase' = phase \/ phase' # "ready"
      PROVE  views'
  <2>1. ~submitVerification
    BY <1>3 DEF submitVerification, formView, enter
  <2>2. views
    BY DEF StatusesReached
  <2>3. /\ linkView' => linkView
        /\ formView' => formView
        /\ waitingView' => waitingView
        /\ accessView' => accessView
    BY <1>3 DEF linkView, formView, waitingView, accessView
  <2>4. linkView' => Behind(shown)'
    BY <1>3, <2>1, <2>2, <2>3, BehindStays DEF Behind
  <2>5. page' = "waiting" /\ inReviewShown' => Behind("in_review")'
    BY <1>3, <2>1, <2>2, BehindStays DEF inReviewShown
  <2>6. QED
    BY <2>1, <2>2, <2>3, <2>4, <2>5, BehindStays
<1>4. ASSUME apply, UNCHANGED page, ~submitVerification
      PROVE  views'
  <2>0. /\ \A s : Behind(s) => Behind(s)'
        /\ sessions > 0 => sessions' > 0
        /\ UNCHANGED <<sessions, passed>>
    BY <1>4, BehindStays DEF apply, session_expired, check, load_entry,
       load_account, load_message, load_result, loaded, refreshWaiting,
       loadAccess, loginVars, requestVars
  <2> USE DEF linkView, formView, waitingView, accessView, inReviewShown,
              StatusesReached
  <2>1. ASSUME NEW p, NEW f, enter(p, f)
        PROVE  views'
    <3>1. page' = p /\ page' = page
      BY <1>4, <2>1 DEF enter
    <3>2. QED
      BY <1>2, <2>1, <3>1
  <2>2. CASE check
    <3>1. CASE phase' = "ready" /\ UNCHANGED shown /\ call.status \in Allowed(page)
      <4>1. sessions > 0 /\ Behind(call.status) /\ page \in Guarded
        BY <2>2 DEF check, guardChecking, Guarded
      <4>2. CASE page = "identity"
        BY <1>4, <2>0, <4>1, <4>2
      <4>3. CASE page = "waiting"
        <5>1. call.status \in {"queued", "in_review"}
          BY <3>1, <4>3 DEF Allowed
        <5>2. Behind("queued")
          BY <4>1, <5>1 DEF Behind
        <5>3. QED
          BY <1>4, <2>0, <3>1, <4>3, <5>2
      <4>4. CASE page = "access"
        <5>1. call.status = "approved"
          BY <3>1, <4>4 DEF Allowed
        <5>2. QED
          BY <1>4, <2>0, <4>1, <4>4, <5>1
      <4>5. QED
        BY <4>1, <4>2, <4>3, <4>4 DEF Guarded
    <3>2. QED
      BY <2>1, <2>2, <3>1 DEF check
  <2>3. CASE load_entry
    <3>1. page = "link" /\ shown' = call.status /\ Behind(call.status)
      BY <2>3 DEF load_entry, entryLoading
    <3>2. Behind(shown)'
      BY <2>0, <3>1 DEF Behind
    <3>3. QED
      BY <1>4, <3>1, <3>2
  <2>4. CASE load_account \/ load_message \/ load_result
    <3>1. /\ page \in {"account-confirmed", "more-info", "rejected"}
          /\ sessions > 0
      BY <2>4 DEF load_account, load_message, load_result, loaded
    <3>2. QED
      BY <1>4, <2>0, <3>1
  <2>5. CASE refreshWaiting
    <3>1. CASE /\ shown' = call.status /\ UNCHANGED phase
               /\ Behind(call.status)
      BY <1>4, <2>0, <2>5, <3>1 DEF refreshWaiting
    <3>2. QED
      BY <2>1, <2>5, <3>1 DEF refreshWaiting
  <2>6. CASE loadAccess
    <3>1. accessView /\ UNCHANGED phase
      BY <2>6 DEF loadAccess, accessLoading, accessPreparing
    <3>2. QED
      BY <1>4, <2>0, <3>1
  <2>7. QED
    BY <1>4, <2>1, <2>2, <2>3, <2>4, <2>5, <2>6 DEF apply, session_expired
<1>5. QED
  BY <1>1, <1>2, <1>3, <1>4, StatusReached, AnswerReached, ViewCases
     DEF StatusesReached, call_fails

\* A step is complete when a later one is the current one.
LEMMA Completed ==
  ASSUME NEW step \in completeSteps
  PROVE  /\ step \in {"account", "identity", "queue", "review"}
         /\ currentStep \in {"identity", "queue", "review", "access"}
         /\ step = "identity" => currentStep # "identity"
         /\ step = "queue" => currentStep \in {"review", "access"}
         /\ step = "review" => currentStep = "access"
<1>1. DOMAIN StepOrder = 1 .. 5
  BY DEF StepOrder
<1>2. PICK i \in 1 .. 5, j \in 1 .. 5 :
        i < j /\ StepOrder[j] = currentStep /\ step = StepOrder[i]
  BY <1>1 DEF completeSteps
<1>3. /\ StepOrder[1] = "account" /\ StepOrder[2] = "identity"
      /\ StepOrder[3] = "queue" /\ StepOrder[4] = "review"
      /\ StepOrder[5] = "access"
  BY DEF StepOrder
<1>4. QED
  BY <1>2, <1>3

\* Neither the link nor a page behind the guard shows a step as complete that
\* the request has not completed since its last submission, however late the
\* answers arrive.
THEOREM ProgressIsTrue == PagesSpec => []StepsShownWereDone
<1>1. PagesInit => StatusesReached
  BY DEF PagesInit, StatusesReached, Behind, answered, Asked, linkView,
     formView, waitingView, accessView
<1>2. StatusesReached => StepsShownWereDone
  <2> SUFFICES ASSUME StatusesReached, page \notin {"more-info", "rejected"}
               PROVE  StepsShownWereDone
    BY DEF StepsShownWereDone
  <2> USE DEF StatusesReached
  <2>1. /\ currentStep \in {"identity", "queue", "review", "access"}
             => sessions > 0
        /\ currentStep \in {"queue", "review", "access"} => Behind("queued")
        /\ currentStep \in {"review", "access"} => Behind("rejected")
        /\ currentStep = "access" => Behind("approved")
    <3> USE DEF formView, moreInfoView, waitingView, accessView, resultView
    <3>0. ~moreInfoView /\ ~resultView
      OBVIOUS
    <3>1. CASE existingStatus
      <4>1. page = "link" /\ Behind(shown) /\ currentStep = presentedStep(shown)
        BY <3>1 DEF existingStatus, linkView, currentStep
      <4>2. QED
        BY <4>1 DEF presentedStep, Behind
    <3>2. CASE formView
      <4>1. currentStep = "identity"
        BY <3>2 DEF existingStatus, linkView, currentStep
      <4>2. QED
        BY <3>2, <4>1
    <3>3. CASE waitingView
      <4>1. currentStep = IF inReviewShown THEN "review" ELSE "queue"
        BY <3>3 DEF existingStatus, linkView, currentStep
      <4>2. QED
        BY <3>3, <4>1 DEF Behind
    <3>4. CASE accessView
      <4>1. currentStep = "access"
        BY <3>4 DEF existingStatus, linkView, currentStep
      <4>2. QED
        BY <3>4, <4>1 DEF Behind
    <3>5. CASE ~(existingStatus \/ formView \/ waitingView \/ accessView)
      <4>1. currentStep = "account"
        BY <3>0, <3>5 DEF currentStep
      <4>2. QED
        BY <4>1
    <3>6. QED
      BY <3>1, <3>2, <3>3, <3>4, <3>5
  <2>2. ASSUME NEW step \in completeSteps
        PROVE  CASE step = "account" -> sessions > 0
                 [] step = "identity" -> "queued" \in passed
                 [] step = "queue" ->
                      passed \intersect {"in_review", "rejected"} # {}
                 [] step = "review" -> "approved" \in passed
                 [] OTHER -> TRUE
    <3>1. /\ step = "account" => sessions > 0
          /\ step = "identity" => "queued" \in passed
          /\ step = "queue" => passed \intersect {"in_review", "rejected"} # {}
          /\ step = "review" => "approved" \in passed
          /\ step \in {"account", "identity", "queue", "review"}
      BY <2>1, Completed DEF Behind
    <3>2. QED
      BY <3>1
  <2>3. QED
    BY <2>2 DEF StepsShownWereDone
<1>3. QED
  BY <1>1, <1>2, ReachedStays, AlwaysKnown, Counted, PTL DEF PagesSpec
=============================================================================
