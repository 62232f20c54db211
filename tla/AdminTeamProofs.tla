-------------------------- MODULE AdminTeamProofs --------------------------
(* Proofs about AdminTeam, and with it AdminSession, for any administrators, *)
(* tabs, browsers, sessions and bounds.                                      *)
EXTENDS AdminTeam, SequenceTheorems, FiniteSetTheorems, TLAPS

(* What the variables may hold                                             *)

\* What a call is for, how far it has come and how it was answered; the rows,
\* and what a call may be about; invitations.
Ops == {"none", "load", "enter", "logout", "accept"} \union Sensitive
CallSteps ==
  {"none", "restore", "restored", "establish", "creating", "created",
   "limited", "request", "admitted", "mailing", "answered"}
Codes == {"none", "ok", "401", "403", "409", "500", "502"}
Row == [id : Sessions \union {"none"}, version : Nat]
Args ==
  {<<>>} \union {<<x>> : x \in Admins \union Invites}
         \union (Admins \X AdminRole)
Call == [op : Ops, arg : Args, at : CallSteps, version : Nat, row : Row,
         evicts : SUBSET Sessions, csrf : Token, code : Codes]
Invite ==
  [email : Admins \union {"none"}, role : AdminRole \union {"none"},
   state : {"absent", "live", "accepted", "revoked", "expired"},
   link : 0 .. MaxLinks]
Link == [to : Admins \union {"none"}, kept : BOOLEAN]

\* The types of all variables that the properties speak of.
StateTypeOK ==
  /\ browser \in [Tabs -> Admins]
  /\ role \in [Admins -> AdminRole \union {"none"}]
  /\ active \in [Admins -> BOOLEAN]
  /\ version \in [Admins -> Nat \ {0}]
  /\ jar \in [Admins -> [session : Sessions \union {"none"}, csrf : Token]]
  /\ token \in [Tabs -> Token]
  /\ page \in [Tabs -> {"login", "team", "out"} \union InvitationScreens]
  /\ call \in [Tabs -> Call]
  /\ changes \in 0 .. MaxChanges
  /\ invite \in [Invites -> Invite]
  /\ links \in Seq(Link) /\ Len(links) <= MaxLinks

\* A call under way has what its step needs: a role, an invitation, the mail of
\* an invitation.
CallOK(c) ==
  /\ c.op \in {"role", "invite"} /\ c.at # "answered"
       => c.arg \in Admins \X AdminRole
  /\ c.op \in {"resend", "withdraw"} /\ c.at # "answered"
       => c.arg[1] \in Invites
  /\ c.at = "mailing" => c.op = "invite"
CallsOK == \A t \in Tabs : CallOK(call[t])

\* The calls that may still change an account.
pendingChanges ==
  {t \in Tabs : call[t].op \in Members /\ call[t].at # "answered"}

\* Each change of an account was asked for: with those still to come, no
\* version, of an account or of a caller when it was admitted, gets above the
\* number of changes.
counted(n) == n + Cardinality(pendingChanges) <= changes + 1
ChangesCounted ==
  /\ \A a \in Admins : counted(version[a])
  /\ \A t \in Tabs : at(t, "admitted") => counted(call[t].version)

-----------------------------------------------------------------------------
\* Links are numbered as they are mailed; those that were kept belong to one
\* invitation each.
LinksOwned ==
  /\ \A i \in Invites : /\ invite[i].link \in 0 .. Len(links)
                        /\ invite[i].state = "live" => invite[i].link # 0
                        /\ invite[i].state = "absent" => invite[i].link = 0
                        /\ invite[i].link # 0 => links[invite[i].link].kept
  /\ \A i, j \in Invites :
       invite[i].link = invite[j].link /\ invite[i].link # 0 => i = j

-----------------------------------------------------------------------------
\* The steps in which an owner changes an account.
MemberStep(t) ==
  \/ change_admin_role(t) \/ disable_admin(t) \/ enable_admin(t)
  \/ revoke_admin_access_sessions(t)

\* Which steps touch the accounts.
LEMMA AccountFrame ==
  ASSUME [TeamNext]_vars
  PROVE  \/ UNCHANGED accountVars
         \/ \E t \in Tabs :
              \/ MemberStep(t)
              \/ accept_admin_invitation(t)
<1>1. ASSUME NEW t \in Tabs, SessionStep(t), leavePage
      PROVE  UNCHANGED accountVars
  BY <1>1 DEF SessionStep, restoreAdminSession, restored,
     establishAdminSession, enforce_active_session_limit,
     create_admin_session, established,
     destroy_admin_session, logoutAdminSession
<1>2. ASSUME NEW t \in Tabs, TeamStep(t)
      PROVE  UNCHANGED accountVars \/ MemberStep(t)
             \/ accept_admin_invitation(t)
  BY <1>1, <1>2 DEF TeamStep, getCurrentAdminSession, loadTeam, admit,
     answered, create_admin_invitation, send_admin_invitation_email,
     resend_admin_invitation, revoke_admin_invitation, invitation_answered,
     invitation_unanswered, MemberStep
<1>3. ASSUME NEW t \in Tabs, UserStep(t)
      PROVE  UNCHANGED accountVars
  BY <1>3 DEF UserStep, openTeam, refresh, reloadPage, performSensitiveAction,
     inviteDialog, invitationActions, openInvitation, handleAcceptInvitation,
     handleAdminLogout, act
<1>4. QED
  BY <1>2, <1>3 DEF TeamNext, answer_lost, admin_session_expires,
     invitation_expires, vars, sessionVars

\* Which steps touch the rows of the sessions.
\* Which steps touch the invitations.
LEMMA InvitationFrame ==
  ASSUME [TeamNext]_vars
  PROVE  \/ UNCHANGED <<invite, links>>
         \/ \E t \in Tabs :
              \/ send_admin_invitation_email(t)
              \/ resend_admin_invitation(t)
              \/ revoke_admin_invitation(t)
              \/ accept_admin_invitation(t)
         \/ \E i \in Invites : invitation_expires(i)
<1>1. ASSUME NEW t \in Tabs, SessionStep(t), leavePage
      PROVE  UNCHANGED <<invite, links>>
  BY <1>1 DEF SessionStep, restoreAdminSession, restored,
     establishAdminSession, enforce_active_session_limit,
     create_admin_session, established,
     destroy_admin_session, logoutAdminSession, leavePage
<1>2. ASSUME NEW t \in Tabs, TeamStep(t)
      PROVE  UNCHANGED <<invite, links>> \/ send_admin_invitation_email(t)
             \/ resend_admin_invitation(t) \/ revoke_admin_invitation(t)
             \/ accept_admin_invitation(t)
  BY <1>1, <1>2 DEF TeamStep, getCurrentAdminSession, loadTeam, admit,
     answered, change_admin_role, disable_admin, enable_admin,
     revoke_admin_access_sessions, create_admin_invitation,
     invitation_answered, invitation_unanswered, teamVars, leavePage, refused,
     nothingToDo, change_admin_role, disable_admin, enable_admin,
     revoke_admin_access_sessions
<1>3. ASSUME NEW t \in Tabs, UserStep(t)
      PROVE  UNCHANGED <<invite, links>>
  BY <1>3 DEF UserStep, openTeam, refresh, reloadPage, performSensitiveAction,
     inviteDialog, invitationActions, openInvitation, handleAcceptInvitation,
     handleAdminLogout, teamVars, act
<1>4. QED
  BY <1>2, <1>3 DEF TeamNext, answer_lost, admin_session_expires, vars,
     sessionVars, teamVars

\* Which steps touch the cookies.
LEMMA JarFrame ==
  ASSUME [TeamNext]_vars
  PROVE  \/ UNCHANGED jar
         \/ \E t \in Tabs :
              \/ restoreAdminSession(t)
              \/ restored(t)
              \/ established(t)
              \/ logoutAdminSession(t)
              \/ getCurrentAdminSession(t)
              \/ loadTeam(t)
<1>1. ASSUME NEW t \in Tabs, SessionStep(t), leavePage
      PROVE  UNCHANGED jar \/ restoreAdminSession(t) \/ restored(t)
             \/ established(t) \/ logoutAdminSession(t)
  BY <1>1 DEF SessionStep, establishAdminSession, enforce_active_session_limit,
     create_admin_session,
     destroy_admin_session
<1>2. ASSUME NEW t \in Tabs, TeamStep(t)
      PROVE  UNCHANGED jar \/ restoreAdminSession(t) \/ restored(t)
             \/ established(t) \/ logoutAdminSession(t)
             \/ getCurrentAdminSession(t) \/ loadTeam(t)
  BY <1>1, <1>2 DEF TeamStep, admit, answered, change_admin_role,
     disable_admin, enable_admin, revoke_admin_access_sessions,
     create_admin_invitation, send_admin_invitation_email,
     resend_admin_invitation, revoke_admin_invitation,
     accept_admin_invitation, invitation_answered, invitation_unanswered
<1>3. ASSUME NEW t \in Tabs, UserStep(t)
      PROVE  UNCHANGED jar
  BY <1>3 DEF UserStep, openTeam, refresh, reloadPage, performSensitiveAction,
     inviteDialog, invitationActions, openInvitation, handleAcceptInvitation,
     handleAdminLogout, act
<1>4. QED
  BY <1>2, <1>3 DEF TeamNext, answer_lost, admin_session_expires,
     invitation_expires, vars, sessionVars, tabVars

\* Which steps touch the tokens of the tabs.
LEMMA TokenFrame ==
  ASSUME [TeamNext]_vars
  PROVE  \/ UNCHANGED token
         \/ \E t \in Tabs :
              \/ restoreAdminSession(t)
              \/ restored(t)
              \/ establishAdminSession(t)
              \/ established(t)
              \/ logoutAdminSession(t)
              \/ getCurrentAdminSession(t)
              \/ loadTeam(t)
              \/ answered(t)
              \/ reloadPage(t)
<1>1. ASSUME NEW t \in Tabs, SessionStep(t), leavePage
      PROVE  UNCHANGED token \/ restoreAdminSession(t)
             \/ restored(t) \/ establishAdminSession(t) \/ established(t)
             \/ logoutAdminSession(t)
  BY <1>1 DEF SessionStep, enforce_active_session_limit,
     create_admin_session, destroy_admin_session
<1>2. ASSUME NEW t \in Tabs, TeamStep(t)
      PROVE  UNCHANGED token \/ restoreAdminSession(t)
             \/ restored(t) \/ establishAdminSession(t) \/ established(t)
             \/ logoutAdminSession(t) \/ getCurrentAdminSession(t)
             \/ loadTeam(t) \/ answered(t)
  BY <1>1, <1>2 DEF TeamStep, admit, change_admin_role, disable_admin,
     enable_admin, revoke_admin_access_sessions, create_admin_invitation,
     send_admin_invitation_email, resend_admin_invitation,
     revoke_admin_invitation, accept_admin_invitation, invitation_answered,
     invitation_unanswered
<1>3. ASSUME NEW t \in Tabs, UserStep(t)
      PROVE  UNCHANGED token \/ reloadPage(t)
  BY <1>3 DEF UserStep, openTeam, refresh, performSensitiveAction,
     inviteDialog, invitationActions, openInvitation, handleAcceptInvitation,
     handleAdminLogout, act
<1>4. QED
  BY <1>2, <1>3 DEF TeamNext, answer_lost, admin_session_expires,
     invitation_expires, vars, sessionVars, tabVars

\* Which steps touch the pages.
LEMMA PageFrame ==
  ASSUME [TeamNext]_vars
  PROVE  \/ UNCHANGED page
         \/ \E t \in Tabs :
              \/ establishAdminSession(t)
              \/ logoutAdminSession(t)
              \/ answered(t)
              \/ invitation_answered(t)
              \/ invitation_unanswered(t)
              \/ openTeam(t)
              \/ \E k \in Links : openInvitation(t, k)
              \/ handleAcceptInvitation(t)
<1>1. ASSUME NEW t \in Tabs, SessionStep(t), leavePage
      PROVE  UNCHANGED page \/ establishAdminSession(t)
             \/ logoutAdminSession(t)
  BY <1>1 DEF SessionStep, restoreAdminSession, restored,
     enforce_active_session_limit, create_admin_session, established,
     destroy_admin_session
<1>2. ASSUME NEW t \in Tabs, TeamStep(t)
      PROVE  UNCHANGED page \/ establishAdminSession(t)
             \/ logoutAdminSession(t) \/ answered(t) \/ invitation_answered(t)
             \/ invitation_unanswered(t)
  BY <1>1, <1>2 DEF TeamStep, getCurrentAdminSession, loadTeam, admit,
     change_admin_role, disable_admin, enable_admin,
     revoke_admin_access_sessions, create_admin_invitation,
     send_admin_invitation_email, resend_admin_invitation,
     revoke_admin_invitation, accept_admin_invitation
<1>3. ASSUME NEW t \in Tabs, UserStep(t)
      PROVE  UNCHANGED page \/ openTeam(t)
             \/ (\E k \in Links : openInvitation(t, k))
             \/ handleAcceptInvitation(t)
  BY <1>3 DEF UserStep, refresh, reloadPage, performSensitiveAction,
     inviteDialog, invitationActions, handleAdminLogout, act
<1>4. QED
  BY <1>2, <1>3 DEF TeamNext, answer_lost, admin_session_expires,
     invitation_expires, vars, sessionVars, tabVars

\* A change is counted as long as there are changes left.
LEMMA ChangesFrame ==
  ASSUME [TeamNext]_vars
  PROVE  \/ changes' = changes
         \/ changes < MaxChanges /\ changes' = changes + 1
<1>1. ASSUME NEW t \in Tabs, SessionStep(t)
      PROVE  changes' = changes
  BY <1>1 DEF SessionStep, restoreAdminSession, restored,
     establishAdminSession, enforce_active_session_limit,
     create_admin_session, established,
     destroy_admin_session, logoutAdminSession
<1>2. ASSUME NEW t \in Tabs, TeamStep(t)
      PROVE  changes' = changes
  BY <1>1, <1>2 DEF TeamStep, getCurrentAdminSession, loadTeam, admit,
     answered, change_admin_role, disable_admin, enable_admin,
     revoke_admin_access_sessions, create_admin_invitation,
     send_admin_invitation_email, resend_admin_invitation,
     revoke_admin_invitation, accept_admin_invitation, invitation_answered,
     invitation_unanswered
<1>3. ASSUME NEW t \in Tabs, UserStep(t)
      PROVE  \/ changes' = changes
             \/ changes < MaxChanges /\ changes' = changes + 1
  BY <1>3 DEF UserStep, openTeam, refresh, reloadPage, performSensitiveAction,
     inviteDialog, invitationActions, openInvitation, handleAcceptInvitation,
     handleAdminLogout, act
<1>4. QED
  BY <1>2, <1>3 DEF TeamNext, answer_lost, admin_session_expires,
     invitation_expires, vars, sessionVars

-----------------------------------------------------------------------------
(* What the helpers of the calls return                                    *)

\* The helpers that change a call leave a call.
LEMMA CallTypes ==
  ASSUME StateTypeOK, NEW t \in Tabs
  PROVE  /\ Idle \in Call /\ NoRow \in Row
         /\ \A step \in CallSteps : to(t, step) => call' \in [Tabs -> Call]
         /\ \A code \in Codes : answer(t, code) => call' \in [Tabs -> Call]
         /\ \A op \in Ops, arg \in Args :
              begin(t, op, arg) => call' \in [Tabs -> Call]
         /\ done(t) => call' \in [Tabs -> Call]
         /\ initialized(t) => call' \in [Tabs -> Call]
         /\ \A a : invalidate_admin_security_state(t, a)
              => call' \in [Tabs -> Call]
         /\ \A s \in Token, step \in CallSteps, code \in Codes :
              rotate_admin_csrf_token(t, s, step, code)
                => call' \in [Tabs -> Call]
<1> USE DEF StateTypeOK
<1>1. Idle \in Call /\ NoRow \in Row /\ <<>> \in Args
  BY DEF Idle, NoRow, Call, Row, Ops, Args, CallSteps, Codes, Token
<1>2. ASSUME NEW step \in CallSteps, to(t, step) PROVE call' \in [Tabs -> Call]
  BY <1>2 DEF to, Call
<1>3. ASSUME NEW code \in Codes, answer(t, code) PROVE call' \in [Tabs -> Call]
  BY <1>1, <1>3 DEF answer, Call, CallSteps
<1>4. ASSUME NEW op \in Ops, NEW arg \in Args, begin(t, op, arg)
      PROVE  call' \in [Tabs -> Call]
  BY <1>1, <1>4 DEF begin, Call, CallSteps, Idle
<1>5. ASSUME done(t) PROVE call' \in [Tabs -> Call]
  BY <1>1, <1>5 DEF done
<1>6. ASSUME initialized(t) PROVE call' \in [Tabs -> Call]
  BY <1>1, <1>6 DEF initialized, Call, CallSteps, Idle
<1>7. ASSUME NEW a, invalidate_admin_security_state(t, a)
      PROVE  call' \in [Tabs -> Call]
  BY <1>3, <1>7 DEF invalidate_admin_security_state, Codes
<1>8. ASSUME NEW s \in Token, NEW step \in CallSteps, NEW code \in Codes,
             rotate_admin_csrf_token(t, s, step, code)
      PROVE  call' \in [Tabs -> Call]
  <2>1. ASSUME NEW u \in Tabs PROVE call'[u] \in Call
    <3>1. CASE u = t
      BY <1>8, <3>1 DEF rotate_admin_csrf_token, Call
    <3>2. CASE u # t
      BY <1>8, <3>2 DEF rotate_admin_csrf_token, superseded, Call, Token
    <3>3. QED
      BY <3>1, <3>2
  <2>2. QED
    BY <1>8, <2>1 DEF rotate_admin_csrf_token
<1>9. QED
  BY <1>1, <1>2, <1>3, <1>4, <1>5, <1>6, <1>7, <1>8

-----------------------------------------------------------------------------
(* Types                                                                   *)

\* A change that an owner makes: the last owner stays.
accountChanged(t, a) ==
  /\ at(t, "admitted") /\ call[t].op \in Members
  /\ lock_active_super_admins(t)
  /\ invalidate_admin_security_state(t, a)
  /\ UNCHANGED browser
  /\ \/ /\ call[t].op = "role" /\ UNCHANGED active
        /\ role' = [role EXCEPT ![a] = call[t].arg[2]]
        /\ call[t].arg[2] # "super_admin" => ~would_remove_last_super_admin(a)
     \/ /\ active' = [active EXCEPT ![a] = FALSE] /\ UNCHANGED role
        /\ ~would_remove_last_super_admin(a)
     \/ active' = [active EXCEPT ![a] = TRUE] /\ UNCHANGED role
     \/ UNCHANGED <<role, active>>

\* A change of an account is carried out by an owner, or does nothing.
LEMMA MemberEffect ==
  ASSUME NEW t \in Tabs, MemberStep(t)
  PROVE  \/ /\ at(t, "admitted") /\ call[t].op \in Members
            /\ answer(t, "409") \/ answer(t, "ok")
            /\ UNCHANGED <<accountVars, live>>
         \/ \E a : accountChanged(t, a)
<1>1. CASE change_admin_role(t)
  BY <1>1 DEF change_admin_role, refused, nothingToDo, accountChanged,
     admitted, Members
<1>2. CASE disable_admin(t)
  BY <1>2 DEF disable_admin, refused, nothingToDo, accountChanged, admitted,
     Members
<1>3. CASE enable_admin(t)
  BY <1>3 DEF enable_admin, refused, nothingToDo, accountChanged, admitted,
     Members
<1>4. CASE revoke_admin_access_sessions(t)
  BY <1>4 DEF revoke_admin_access_sessions, refused, accountChanged,
     admitted, Members
<1>5. QED
  BY <1>1, <1>2, <1>3, <1>4 DEF MemberStep

\* The accounts stay typed.
LEMMA AccountTypes ==
  ASSUME StateTypeOK, CallsOK, [TeamNext]_vars
  PROVE  /\ browser' = browser
         /\ role' \in [Admins -> AdminRole \union {"none"}]
         /\ active' \in [Admins -> BOOLEAN]
         /\ version' \in [Admins -> Nat \ {0}]
<1> USE DEF StateTypeOK
<1>1. CASE UNCHANGED accountVars
  BY <1>1 DEF accountVars
<1>2. ASSUME NEW t \in Tabs, NEW a, accountChanged(t, a)
      PROVE  /\ browser' = browser
             /\ role' \in [Admins -> AdminRole \union {"none"}]
             /\ active' \in [Admins -> BOOLEAN]
             /\ version' \in [Admins -> Nat \ {0}]
  <2>1. /\ version' = [version EXCEPT ![a] =
               IF a = browser[t] THEN call[t].version + 1 ELSE @ + 1]
        /\ call[t].version \in Nat
    BY <1>2 DEF accountChanged, invalidate_admin_security_state, Call
  <2>2. version' \in [Admins -> Nat \ {0}]
    <3>1. version' = [b \in Admins |->
            IF b = a THEN IF b = browser[t] THEN call[t].version + 1
                                            ELSE version[b] + 1
            ELSE version[b]]
      BY <2>1
    <3>2. ASSUME NEW b \in Admins PROVE version'[b] \in Nat \ {0}
      <4>1. version[b] \in Nat \ {0}
        OBVIOUS
      <4>2. QED
        BY <2>1, <3>1, <4>1
    <3>3. QED
      BY <3>1, <3>2
  <2>3. call[t].op = "role" /\ at(t, "admitted") => call[t].arg[2] \in AdminRole
    BY <1>2 DEF CallsOK, CallOK, at
  <2>4. QED
    BY <1>2, <2>2, <2>3 DEF accountChanged
<1>6. ASSUME NEW t \in Tabs, accept_admin_invitation(t)
      PROVE  /\ browser' = browser /\ version' = version
             /\ role' \in [Admins -> AdminRole \union {"none"}]
             /\ active' \in [Admins -> BOOLEAN]
  BY <1>6 DEF accept_admin_invitation, acceptable, pendingInvitations, Invite
<1>7. QED
  BY <1>1, <1>2, <1>6, AccountFrame, MemberEffect

\* Cookies, tokens and pages stay typed.
LEMMA TabTypes ==
  ASSUME StateTypeOK, [TeamNext]_vars
  PROVE  /\ jar' \in [Admins -> [session : Sessions \union {"none"}, csrf : Token]]
         /\ token' \in [Tabs -> Token]
         /\ page' \in [Tabs -> {"login", "team", "out"} \union InvitationScreens]
         /\ changes' \in 0 .. MaxChanges
<1> USE DEF StateTypeOK
<1>0. ASSUME NEW t \in Tabs
      PROVE  /\ browser[t] \in Admins /\ call[t].csrf \in Token
             /\ call[t].row.id \in Sessions \union {"none"}
             /\ cookies(t).session \in Token
  BY DEF Call, Row, Token, cookies
<1>1. jar' \in [Admins -> [session : Sessions \union {"none"}, csrf : Token]]
  <2>1. ASSUME NEW t \in Tabs, NEW s, NEW step, NEW code,
               rotate_admin_csrf_token(t, s, step, code)
        PROVE  jar' \in [Admins -> [session : Sessions \union {"none"}, csrf : Token]]
    BY <2>1 DEF rotate_admin_csrf_token, superseded, Token
  <2>2. ASSUME NEW t \in Tabs,
               \/ restoreAdminSession(t) \/ getCurrentAdminSession(t)
        PROVE  jar' \in [Admins -> [session : Sessions \union {"none"}, csrf : Token]]
    BY <2>1, <2>2 DEF restoreAdminSession, getCurrentAdminSession
  <2>3. ASSUME NEW t \in Tabs,
               \/ restored(t) \/ established(t) \/ logoutAdminSession(t) \/ loadTeam(t)
        PROVE  jar' \in [Admins -> [session : Sessions \union {"none"}, csrf : Token]]
    <3>1. CASE restored(t) \/ loadTeam(t)
      <4> DEFINE b == browser[t]
                 c == call[t].csrf
      <4>1. b \in Admins /\ c \in Token
        BY <1>0
      <4>2. jar' = [jar EXCEPT ![b].csrf = c]
        BY <3>1 DEF restored, loadTeam
      <4> HIDE DEF b, c
      <4>3. QED
        BY <4>1, <4>2
    <3>2. CASE established(t)
      BY <1>0, <3>2 DEF established
    <3>3. CASE logoutAdminSession(t)
      BY <3>3 DEF logoutAdminSession, NoCookies, Token
    <3>4. QED
      BY <2>3, <3>1, <3>2, <3>3
  <2>4. QED
    BY <2>2, <2>3, JarFrame
<1>2. token' \in [Tabs -> Token]
  <2>0. "none" \in Token
    BY DEF Token
  <2>1. ASSUME NEW t \in Tabs,
               \/ restoreAdminSession(t) \/ getCurrentAdminSession(t)
        PROVE  token' \in [Tabs -> Token]
    BY <2>1 DEF restoreAdminSession, getCurrentAdminSession,
       rotate_admin_csrf_token, superseded, Token
  <2>2. ASSUME NEW t \in Tabs,
               \/ restored(t) \/ established(t) \/ loadTeam(t)
        PROVE  token' \in [Tabs -> Token]
    BY <1>0, <2>2 DEF restored, established, initialized, loadTeam
  <2>3. ASSUME NEW t \in Tabs,
               \/ establishAdminSession(t) \/ logoutAdminSession(t)
               \/ answered(t) \/ reloadPage(t)
        PROVE  token' \in [Tabs -> Token]
    BY <2>0, <2>3 DEF establishAdminSession, logoutAdminSession, answered,
       reloadPage, session_expired, clearAdminSessionState
  <2>4. QED
    BY <2>1, <2>2, <2>3, TokenFrame
<1>3. page' \in [Tabs -> {"login", "team", "out"} \union InvitationScreens]
  BY PageFrame DEF InvitationScreens, establishAdminSession,
     logoutAdminSession, answered, session_expired, invitation_answered,
     invitation_unanswered, openTeam, openInvitation, handleAcceptInvitation
<1>4. changes' \in 0 .. MaxChanges
  BY ChangesFrame, AdminBoundAssumption
<1>5. QED
  BY <1>1, <1>2, <1>3, <1>4

\* Invitations and links stay typed.
LEMMA InvitationTypes ==
  ASSUME StateTypeOK, CallsOK, [TeamNext]_vars
  PROVE  /\ invite' \in [Invites -> Invite]
         /\ links' \in Seq(Link) /\ Len(links') <= MaxLinks
<1> USE DEF StateTypeOK
<1>0. Len(links) \in Nat
  BY LenProperties
<1>1. ASSUME NEW e \in Admins \union {"none"}, NEW kept \in BOOLEAN,
             mailed(e, kept)
      PROVE  /\ links' \in Seq(Link) /\ Len(links') <= MaxLinks
             /\ Len(links) + 1 \in 0 .. MaxLinks
  <2>1. [to |-> e, kept |-> kept] \in Link
    BY DEF Link
  <2>2. QED
    BY <1>0, <1>1, <2>1, AppendProperties, TeamBoundAssumption DEF mailed
<1>8. ASSUME NEW i \in Invites,
             NEW state \in {"accepted", "revoked", "expired"},
             invite' = [invite EXCEPT ![i].state = state]
      PROVE  invite' \in [Invites -> Invite]
  <2>1. [invite[i] EXCEPT !.state = state] \in Invite
    BY DEF Invite
  <2>2. QED
    BY <1>8, <2>1
<1>2. ASSUME NEW t \in Tabs, send_admin_invitation_email(t)
      PROVE  /\ invite' \in [Invites -> Invite]
             /\ links' \in Seq(Link) /\ Len(links') <= MaxLinks
  <2>1. target(t) \in Admins /\ call[t].arg[2] \in AdminRole
    BY <1>2 DEF send_admin_invitation_email, at, target, CallsOK,
       CallOK
  <2>2. QED
    <3>1. CASE UNCHANGED <<invite, links>>
      BY <3>1
    <3>2. ASSUME mailed(target(t), TRUE), NEW i \in Invites,
                 invite' = [invite EXCEPT ![i] =
                  [email |-> target(t), role |-> call[t].arg[2],
                   state |-> "live", link |-> Len(links) + 1]]
          PROVE  /\ invite' \in [Invites -> Invite]
                 /\ links' \in Seq(Link) /\ Len(links') <= MaxLinks
      <4>1. [email |-> target(t), role |-> call[t].arg[2],
             state |-> "live", link |-> Len(links) + 1] \in Invite
        BY <1>1, <2>1, <3>2 DEF Invite
      <4>2. QED
        BY <1>1, <2>1, <3>2, <4>1
    <3>4. ASSUME mailed(target(t), FALSE), UNCHANGED invite
          PROVE  /\ invite' \in [Invites -> Invite]
                 /\ links' \in Seq(Link) /\ Len(links') <= MaxLinks
      BY <1>1, <2>1, <3>4
    <3>3. QED
      BY <1>2, <3>1, <3>2, <3>4 DEF send_admin_invitation_email, freshInvite
<1>3. ASSUME NEW t \in Tabs, resend_admin_invitation(t)
      PROVE  /\ invite' \in [Invites -> Invite]
             /\ links' \in Seq(Link) /\ Len(links') <= MaxLinks
  <2> DEFINE x == target(t)
  <2>1. CASE UNCHANGED <<invite, links>>
    BY <2>1
  <2>0. /\ x \in Invites
        /\ invite[x] \in Invite /\ invite[x].email \in Admins \union {"none"}
    <3>1. x \in Invites
      BY <1>3 DEF resend_admin_invitation, admitted, at, CallsOK, CallOK,
         target
    <3>2. QED
      BY <3>1 DEF Invite
  <2>2. CASE /\ mailed(invite[x].email, TRUE)
             /\ invite' = [invite EXCEPT ![x].link = Len(links) + 1]
    <3> HIDE DEF x
    <3>3. [invite[x] EXCEPT !.link = Len(links) + 1] \in Invite
      BY <1>1, <2>0, <2>2 DEF Invite
    <3>4. QED
      BY <1>1, <2>0, <2>2, <3>3
  <2>4. CASE mailed(invite[x].email, FALSE) /\ UNCHANGED invite
    BY <1>1, <2>0, <2>4
  <2>3. QED
    BY <1>3, <2>1, <2>2, <2>4 DEF resend_admin_invitation
<1>4. ASSUME NEW t \in Tabs, revoke_admin_invitation(t)
      PROVE  invite' \in [Invites -> Invite] /\ links' = links
  <2>1. target(t) \in Invites
    BY <1>4 DEF revoke_admin_invitation, admitted, at, CallsOK, CallOK,
         target
  <2>2. QED
    BY <1>4, <1>8, <2>1 DEF revoke_admin_invitation
<1>5. ASSUME NEW t \in Tabs, accept_admin_invitation(t)
      PROVE  invite' \in [Invites -> Invite] /\ links' = links
  BY <1>5, <1>8 DEF accept_admin_invitation, acceptable, pendingInvitations
<1>6. ASSUME NEW i \in Invites, invitation_expires(i)
      PROVE  invite' \in [Invites -> Invite] /\ links' = links
  BY <1>6, <1>8 DEF invitation_expires
<1>7. QED
  BY <1>2, <1>3, <1>4, <1>5, <1>6, InvitationFrame

\* The row of a session that is being made is kept with the call.
LEMMA RowCall ==
  ASSUME StateTypeOK, NEW t \in Tabs, NEW r \in Row,
         call' = [call EXCEPT ![t].at = "creating", ![t].row = r]
  PROVE  /\ call' \in [Tabs -> Call]
         /\ call'[t] = [call[t] EXCEPT !.at = "creating", !.row = r]
<1>1. call[t] \in Call /\ "creating" \in CallSteps
  BY DEF StateTypeOK, CallSteps
<1>2. [call[t] EXCEPT !.at = "creating", !.row = r] \in Call
  BY <1>1 DEF Call
<1>3. call' = [call EXCEPT ![t] = [call[t] EXCEPT !.at = "creating", !.row = r]]
  BY DEF StateTypeOK
<1>4. QED
  BY <1>2, <1>3 DEF StateTypeOK

\* The calls stay typed.
LEMMA CallTyped ==
  ASSUME StateTypeOK, [TeamNext]_vars
  PROVE  call' \in [Tabs -> Call]
<1>0. <<>> \in Args /\ "ok" \in Codes
  BY DEF Args, Codes
<1> USE DEF CallSteps, Codes
<1>1. ASSUME NEW t \in Tabs, SessionStep(t)
      PROVE  call' \in [Tabs -> Call]
  <2>0. cookies(t).session \in Token /\ browser[t] \in Admins
    BY DEF cookies, StateTypeOK, Token
  <2>1. CASE restoreAdminSession(t)
    BY <2>0, <2>1, CallTypes DEF restoreAdminSession
  <2>2. CASE restored(t) \/ established(t)
    BY <2>2, CallTypes DEF restored, established
  <2>3. CASE establishAdminSession(t)
    <3>1. CASE session_expired(t)
      BY <3>1, CallTypes DEF session_expired, clearAdminSessionState
    <3>2. CASE freshSessions # {} /\
            call' = [call EXCEPT ![t].at = "creating",
                      ![t].row = [id |-> freshSession, version |-> version[browser[t]]]]
      <4>1. freshSession \in Sessions
        BY <3>2 DEF freshSession, freshSessions
      <4>2. [id |-> freshSession, version |-> version[browser[t]]] \in Row
        BY <2>0, <4>1 DEF Row, StateTypeOK
      <4>3. QED
        BY <3>2, <4>2, RowCall
    <3>3. QED
      BY <2>3, <3>1, <3>2 DEF establishAdminSession
  <2>4. CASE create_admin_session(t)
    <3>1. call[t] \in Call /\ call[t].row.id \in Token
      BY DEF StateTypeOK, Call, Row, Token
    <3>2. [call[t] EXCEPT !.at = "created", !.csrf = call[t].row.id] \in Call
      BY <3>1 DEF Call
    <3>3. call' = [call EXCEPT ![t] =
            [call[t] EXCEPT !.at = "created", !.csrf = call[t].row.id]]
      BY <2>4 DEF create_admin_session, StateTypeOK
    <3>4. QED
      BY <3>2, <3>3 DEF StateTypeOK
  <2>8. CASE enforce_active_session_limit(t)
    <3>1. PICK gone \in SUBSET Sessions :
            call' = [call EXCEPT ![t].at = "limited", ![t].evicts = gone]
      BY <2>8 DEF enforce_active_session_limit
    <3>2. [call[t] EXCEPT !.at = "limited", !.evicts = gone] \in Call
      BY DEF StateTypeOK, Call
    <3>3. call' = [call EXCEPT ![t] =
            [call[t] EXCEPT !.at = "limited", !.evicts = gone]]
      BY <3>1 DEF StateTypeOK
    <3>4. QED
      BY <3>2, <3>3 DEF StateTypeOK
  <2>5. CASE destroy_admin_session(t)
    BY <2>5, CallTypes DEF destroy_admin_session
  <2>6. CASE logoutAdminSession(t)
    BY <2>6, CallTypes DEF logoutAdminSession, clearAdminSessionState
  <2>7. QED
    BY <1>1, <2>1, <2>2, <2>3, <2>4, <2>5, <2>6, <2>8 DEF SessionStep
<1>2. ASSUME NEW t \in Tabs, TeamStep(t)
      PROVE  call' \in [Tabs -> Call]
  <2>0. cookies(t).session \in Token
    BY DEF cookies, StateTypeOK, Token
  <2>1. CASE getCurrentAdminSession(t)
    BY <2>0, <2>1, CallTypes DEF getCurrentAdminSession
  <2>2. CASE loadTeam(t) \/ invitation_unanswered(t)
    BY <2>2, CallTypes DEF loadTeam, invitation_unanswered, StateTypeOK
  <2>3. CASE admit(t)
    <3> DEFINE c == [call[t] EXCEPT !.at = "admitted",
                                    !.version = version[browser[t]]]
    <3>1. CASE call' = [call EXCEPT ![t].at = "admitted",
                                    ![t].version = version[browser[t]]]
      <4>1. c \in Call
        BY DEF StateTypeOK, Call
      <4>2. call' = [call EXCEPT ![t] = c]
        BY <3>1 DEF StateTypeOK
      <4>3. QED
        BY <4>1, <4>2 DEF StateTypeOK
    <3>2. QED
      BY <2>3, <3>1, CallTypes DEF admit, require_sensitive_permission
  <2>4. CASE answered(t) \/ invitation_answered(t)
    BY <1>0, <2>4, CallTypes DEF answered, invitation_answered,
       session_expired, clearAdminSessionState, Ops
  <2>5. CASE MemberStep(t)
    BY <2>5, CallTypes, MemberEffect DEF accountChanged
  <2>6. CASE \/ create_admin_invitation(t) \/ send_admin_invitation_email(t)
             \/ resend_admin_invitation(t) \/ revoke_admin_invitation(t)
             \/ accept_admin_invitation(t)
    BY <2>6, CallTypes DEF create_admin_invitation,
       send_admin_invitation_email, resend_admin_invitation,
       revoke_admin_invitation, accept_admin_invitation
  <2>7. QED
    BY <1>1, <1>2, <2>1, <2>2, <2>3, <2>4, <2>5, <2>6 DEF TeamStep, MemberStep
<1>3. ASSUME NEW t \in Tabs, UserStep(t)
      PROVE  call' \in [Tabs -> Call]
  <2>1. CASE openTeam(t) \/ refresh(t) \/ handleAdminLogout(t)
    BY <1>0, <2>1, CallTypes DEF openTeam, refresh, handleAdminLogout, Ops
  <2>2. CASE reloadPage(t) \/ handleAcceptInvitation(t)
    <3>1. /\ [Idle EXCEPT !.op = "load", !.at = "restore"] \in Call
          /\ [Idle EXCEPT !.op = "accept", !.at = "request"] \in Call
      BY CallTypes DEF Idle, Call, Ops
    <3>2. QED
      BY <2>2, <3>1 DEF reloadPage, handleAcceptInvitation, StateTypeOK
  <2>3. CASE \E k \in Links : openInvitation(t, k)
    BY <2>3 DEF openInvitation, StateTypeOK
  <2>4. ASSUME NEW op \in Sensitive, NEW arg \in Args, act(t, op, arg)
        PROVE  call' \in [Tabs -> Call]
    BY <2>4, CallTypes DEF act, Ops
  <2>5. CASE performSensitiveAction(t)
    BY <2>4, <2>5 DEF performSensitiveAction, Args, Sensitive, Members
  <2>6. CASE inviteDialog(t) \/ invitationActions(t)
    BY <2>4, <2>6 DEF inviteDialog, invitationActions, Args, Sensitive,
       Invitations
  <2>7. QED
    BY <1>3, <2>1, <2>2, <2>3, <2>5, <2>6 DEF UserStep
<1>4. ASSUME NEW t \in Tabs, answer_lost(t)
      PROVE  call' \in [Tabs -> Call]
  BY <1>4, CallTypes DEF answer_lost
<1>5. QED
  BY <1>2, <1>3, <1>4 DEF TeamNext, admin_session_expires,
     invitation_expires, tabVars, vars, sessionVars, StateTypeOK

\* A call under way keeps what its step needs.
LEMMA CallsStayOK ==
  ASSUME StateTypeOK, CallsOK, [TeamNext]_vars
  PROVE  CallsOK'
<1> USE DEF CallsOK
<1>0. CallOK(Idle) /\ \A t \in Tabs : call[t] \in Call
  BY DEF CallOK, Idle, StateTypeOK
<1>1. ASSUME NEW t \in Tabs, NEW c, CallOK(c), call' = [call EXCEPT ![t] = c]
      PROVE  CallsOK'
  BY <1>1 DEF StateTypeOK
<1>2. ASSUME NEW t \in Tabs, NEW step \in CallSteps, to(t, step),
             \/ step = "establish"
             \/ step = "mailing" /\ call[t].op = "invite",
             ~at(t, "answered")
      PROVE  CallsOK'
  <2>1. call' = [call EXCEPT ![t] = [call[t] EXCEPT !.at = step]]
    BY <1>2 DEF to, StateTypeOK
  <2>2. CallOK([call[t] EXCEPT !.at = step])
    BY <1>0, <1>2 DEF CallOK, Call, at
  <2>3. QED
    BY <1>1, <2>1, <2>2
<1>3. ASSUME NEW t \in Tabs, NEW code, answer(t, code)
      PROVE  CallsOK'
  <2>1. call' = [call EXCEPT ![t] =
          [call[t] EXCEPT !.at = "answered", !.code = code, !.arg = <<>>]]
    BY <1>3 DEF answer, StateTypeOK
  <2>2. CallOK([call[t] EXCEPT !.at = "answered", !.code = code, !.arg = <<>>])
    BY <1>0, <1>3 DEF CallOK, Call
  <2>3. QED
    BY <1>1, <2>1, <2>2
<1>4. ASSUME NEW t \in Tabs, NEW op \in Ops, NEW arg, begin(t, op, arg),
             op \in {"role", "invite"} => arg \in Admins \X AdminRole,
             op \in {"resend", "withdraw"} => arg[1] \in Invites
      PROVE  CallsOK'
  <2> DEFINE c == [Idle EXCEPT !.op = op, !.arg = arg,
                     !.at = IF token[t] = "none" THEN "restore" ELSE "request"]
  <2>1. call' = [call EXCEPT ![t] = c]
    BY <1>4 DEF begin
  <2>2. CallOK(c)
    BY <1>4 DEF CallOK, Idle
  <2>3. QED
    BY <1>1, <2>1, <2>2
<1>5. ASSUME NEW t \in Tabs, done(t) PROVE CallsOK'
  BY <1>0, <1>1, <1>5 DEF done
<1>6. ASSUME NEW t \in Tabs, initialized(t), ~at(t, "answered")
      PROVE  CallsOK'
  <2> DEFINE c == [Idle EXCEPT !.op = call[t].op, !.arg = call[t].arg,
                               !.at = "request"]
  <2>1. \/ call' = [call EXCEPT ![t] = Idle]
        \/ call' = [call EXCEPT ![t] = c]
    BY <1>6 DEF initialized, StateTypeOK
  <2>2. CallOK(c)
    BY <1>6 DEF CallOK, Idle, at
  <2>3. QED
    BY <1>0, <1>1, <2>1, <2>2
<1>7. ASSUME NEW t \in Tabs, NEW a, invalidate_admin_security_state(t, a)
      PROVE  CallsOK'
  BY <1>3, <1>7 DEF invalidate_admin_security_state
<1>8. ASSUME NEW t \in Tabs, NEW s, NEW step, NEW code,
             rotate_admin_csrf_token(t, s, step, code), ~at(t, "answered"),
             step \in {"restored", "answered"}
      PROVE  CallsOK'
  <2>1. CallOK([call[t] EXCEPT !.at = step, !.csrf = s, !.code = code])
    BY <1>0, <1>8 DEF CallOK, Call, at
  <2>2. ASSUME NEW u \in Tabs
        PROVE  CallOK([call[u] EXCEPT !.csrf = superseded(s, @)])
    BY <1>0 DEF CallOK, Call
  <2>3. ASSUME NEW u \in Tabs PROVE CallOK(call'[u])
    BY <1>8, <2>1, <2>2 DEF rotate_admin_csrf_token
  <2>4. QED
    BY <2>3
<1>9. ASSUME NEW t \in Tabs, SessionStep(t)
      PROVE  CallsOK'
  <2>1. CASE restoreAdminSession(t)
    <3>1. CASE get_valid_admin_session(browser[t], cookies(t).session)
      BY <1>8, <2>1, <3>1 DEF restoreAdminSession, at
    <3>2. CASE to(t, "establish")
      BY <1>2, <2>1, <3>2 DEF restoreAdminSession, at, CallSteps
    <3>3. QED
      BY <2>1, <3>1, <3>2 DEF restoreAdminSession
  <2>2. CASE restored(t) \/ established(t)
    BY <1>6, <2>2 DEF restored, established, at
  <2>3. CASE establishAdminSession(t)
    <3>1. CASE session_expired(t)
      BY <1>5, <3>1 DEF session_expired, clearAdminSessionState
    <3>2. CASE freshSessions # {} /\
            call' = [call EXCEPT ![t].at = "creating",
                      ![t].row = [id |-> freshSession,
                                  version |-> version[browser[t]]]]
      <4> DEFINE r == [id |-> freshSession, version |-> version[browser[t]]]
                 c == [call[t] EXCEPT !.at = "creating", !.row = r]
      <4>2. call' = [call EXCEPT ![t] = c]
        BY <3>2 DEF StateTypeOK
      <4>3. CallOK(c)
        BY <1>0, <2>3 DEF CallOK, Call, establishAdminSession, at
      <4>4. QED
        BY <1>1, <4>2, <4>3
    <3>3. QED
      BY <2>3, <3>1, <3>2 DEF establishAdminSession
  <2>4. CASE create_admin_session(t)
    <3> DEFINE c == [call[t] EXCEPT !.at = "created", !.csrf = call[t].row.id]
    <3>1. call' = [call EXCEPT ![t] = c]
      BY <2>4 DEF create_admin_session, StateTypeOK
    <3>2. CallOK(c)
      BY <1>0, <2>4 DEF CallOK, Call, create_admin_session, at
    <3>3. QED
      BY <1>1, <3>1, <3>2
  <2>8. CASE enforce_active_session_limit(t)
    <3>1. PICK gone :
            call' = [call EXCEPT ![t].at = "limited", ![t].evicts = gone]
      BY <2>8 DEF enforce_active_session_limit
    <3> DEFINE c == [call[t] EXCEPT !.at = "limited", !.evicts = gone]
    <3>2. call' = [call EXCEPT ![t] = c]
      BY <3>1 DEF StateTypeOK
    <3>3. CallOK(c)
      BY <1>0, <2>8 DEF CallOK, Call, enforce_active_session_limit, at
    <3>4. QED
      BY <1>1, <3>2, <3>3
  <2>5. CASE destroy_admin_session(t)
    BY <1>3, <2>5 DEF destroy_admin_session, at
  <2>6. CASE logoutAdminSession(t)
    BY <1>5, <2>6 DEF logoutAdminSession, clearAdminSessionState
  <2>7. QED
    BY <1>9, <2>1, <2>2, <2>3, <2>4, <2>5, <2>6, <2>8 DEF SessionStep
<1>10. ASSUME NEW t \in Tabs, TeamStep(t)
       PROVE  CallsOK'
  <2>1. CASE getCurrentAdminSession(t)
    <3>1. CASE get_valid_admin_session(browser[t], cookies(t).session)
      BY <1>8, <2>1, <3>1 DEF getCurrentAdminSession, at
    <3>2. CASE answer(t, "401")
      BY <1>3, <2>1, <3>2 DEF getCurrentAdminSession, at
    <3>3. QED
      BY <2>1, <3>1, <3>2 DEF getCurrentAdminSession
  <2>2. CASE loadTeam(t) \/ invitation_unanswered(t)
    BY <1>5, <2>2 DEF loadTeam, invitation_unanswered
  <2>3. CASE admit(t)
    <3> DEFINE c == [call[t] EXCEPT !.at = "admitted",
                                    !.version = version[browser[t]]]
    <3>1. CASE call' = [call EXCEPT ![t].at = "admitted",
                                    ![t].version = version[browser[t]]]
      <4>1. call' = [call EXCEPT ![t] = c]
        BY <3>1 DEF StateTypeOK
      <4>2. CallOK(c)
        BY <1>0, <2>3 DEF CallOK, Call, admit, at
      <4>3. QED
        BY <1>1, <4>1, <4>2
    <3>2. QED
      BY <1>3, <2>3, <3>1 DEF admit
  <2>4. CASE answered(t) \/ invitation_answered(t)
    BY <1>4, <1>5, <2>4 DEF answered, invitation_answered, session_expired,
       clearAdminSessionState, Ops
  <2>5. CASE MemberStep(t)
    BY <1>3, <1>7, <2>5, MemberEffect DEF accountChanged
  <2>6. CASE \/ send_admin_invitation_email(t) \/ resend_admin_invitation(t)
             \/ revoke_admin_invitation(t) \/ accept_admin_invitation(t)
    BY <1>3, <2>6 DEF send_admin_invitation_email,
       resend_admin_invitation, revoke_admin_invitation,
       accept_admin_invitation, admitted, at
  <2>7. CASE create_admin_invitation(t)
    BY <1>2, <1>3, <2>7 DEF create_admin_invitation, admitted, at,
       CallSteps
  <2>8. QED
    BY <1>9, <1>10, <2>1, <2>2, <2>3, <2>4, <2>5, <2>6, <2>7
       DEF TeamStep, MemberStep
<1>11. ASSUME NEW t \in Tabs, UserStep(t)
       PROVE  CallsOK'
  <2>1. CASE openTeam(t) \/ refresh(t) \/ handleAdminLogout(t)
    BY <1>4, <2>1 DEF openTeam, refresh, handleAdminLogout, Ops
  <2>2. CASE reloadPage(t) \/ handleAcceptInvitation(t)
    <3>1. /\ CallOK([Idle EXCEPT !.op = "load", !.at = "restore"])
          /\ CallOK([Idle EXCEPT !.op = "accept", !.at = "request"])
      BY DEF Idle, CallOK
    <3>2. QED
      BY <1>1, <2>2, <3>1 DEF reloadPage, handleAcceptInvitation
  <2>3. CASE \E k \in Links : openInvitation(t, k)
    BY <2>3 DEF openInvitation
  <2>4. CASE performSensitiveAction(t)
    <3>1. ASSUME NEW a \in Admins, NEW r \in AdminRole, act(t, "role", <<a, r>>)
          PROVE  CallsOK'
      BY <1>4, <3>1 DEF act, Ops, Sensitive, Members
    <3>2. ASSUME NEW op \in {"sessions", "disable", "enable"}, NEW arg,
                 act(t, op, arg)
          PROVE  CallsOK'
      BY <1>4, <3>2 DEF act, Ops, Sensitive, Members
    <3>3. QED
      BY <2>4, <3>1, <3>2 DEF performSensitiveAction
  <2>5. CASE inviteDialog(t)
    BY <1>4, <2>5 DEF inviteDialog, act, Ops, Sensitive, Invitations
  <2>6. CASE invitationActions(t)
    BY <1>4, <2>6 DEF invitationActions, act, Ops, Sensitive, Invitations
  <2>7. QED
    BY <1>11, <2>1, <2>2, <2>3, <2>4, <2>5, <2>6 DEF UserStep
<1>12. ASSUME NEW t \in Tabs, answer_lost(t)
       PROVE  CallsOK'
  BY <1>5, <1>12 DEF answer_lost
<1>13. QED
  BY <1>10, <1>11, <1>12 DEF TeamNext, admin_session_expires,
     invitation_expires, tabVars, vars, sessionVars

\* The types, and what calls have.
TeamTyped == StateTypeOK /\ CallsOK

\* The first states are well typed.
LEMMA InitTyped == TeamInit => TeamTyped
<1> SUFFICES ASSUME TeamInit PROVE TeamTyped
  OBVIOUS
<1> USE AdminBoundAssumption, TeamBoundAssumption DEF TeamInit, AdminInit
<1>1. /\ browser \in [Tabs -> Admins]
      /\ role \in [Admins -> AdminRole \union {"none"}]
      /\ version \in [Admins -> Nat \ {0}]
  BY DEF AdminRole
<1>2. active \in [Admins -> BOOLEAN]
  OBVIOUS
<1>4. /\ jar \in [Admins -> [session : Sessions \union {"none"}, csrf : Token]]
      /\ token \in [Tabs -> Token]
      /\ page \in [Tabs -> {"login", "team", "out"} \union InvitationScreens]
          /\ changes \in 0 .. MaxChanges
  BY DEF NoCookies, Token
<1>5. Idle \in Call /\ CallOK(Idle)
  BY DEF Idle, NoRow, Call, Row, Ops, Args, CallSteps, Codes, Token, CallOK
<1>6. call \in [Tabs -> Call] /\ CallsOK
  BY <1>5 DEF CallsOK
<1>7. /\ invite \in [Invites -> Invite]
      /\ links \in Seq(Link) /\ Len(links) <= MaxLinks
  BY DEF NoInvite, Invite, Links
<1>8. QED
  BY <1>1, <1>2, <1>4, <1>6, <1>7 DEF TeamTyped, StateTypeOK

\* Every step keeps the types.
LEMMA StaysTyped == TeamTyped /\ [TeamNext]_vars => TeamTyped'
<1> SUFFICES ASSUME TeamTyped, [TeamNext]_vars PROVE TeamTyped'
  OBVIOUS
<1> USE DEF TeamTyped
<1>1. StateTypeOK'
  BY AccountTypes, TabTypes, InvitationTypes, CallTyped DEF StateTypeOK
<1>2. QED
  BY <1>1, CallsStayOK

\* The types hold in every reachable state.
LEMMA Typed == TeamSpec => []TeamTyped
<1>1. QED
  BY InitTyped, StaysTyped, PTL DEF TeamSpec

-----------------------------------------------------------------------------
\* There is always an active owner, although owners may demote and disable
\* each other at the same time.
THEOREM AnOwnerStays == TeamSpec => []LastSuperAdmin
<1>1. TeamInit => LastSuperAdmin
  BY AdminBoundAssumption DEF TeamInit, AdminInit, LastSuperAdmin, super_admins
<1>2. TeamTyped /\ LastSuperAdmin /\ [TeamNext]_vars => LastSuperAdmin'
  <2> SUFFICES ASSUME TeamTyped, LastSuperAdmin, [TeamNext]_vars
               PROVE  LastSuperAdmin'
    OBVIOUS
  <2>0. /\ role \in [Admins -> AdminRole \union {"none"}]
        /\ active \in [Admins -> BOOLEAN]
    BY DEF TeamTyped, StateTypeOK
  <2>1. CASE UNCHANGED accountVars
    BY <2>1 DEF accountVars, LastSuperAdmin, super_admins
  <2>2. ASSUME NEW t \in Tabs, NEW a, accountChanged(t, a)
        PROVE  LastSuperAdmin'
    <3>1. CASE would_remove_last_super_admin(a)
      <4>1. super_admins \subseteq super_admins'
        BY <2>0, <2>2, <3>1 DEF accountChanged, super_admins
      <4>2. QED
        BY <4>1 DEF LastSuperAdmin
    <3>2. CASE a \notin super_admins
      <4>1. super_admins \subseteq super_admins'
        BY <2>0, <2>2, <3>2 DEF accountChanged, super_admins
      <4>2. QED
        BY <4>1 DEF LastSuperAdmin
    <3>3. CASE a \in super_admins /\ ~would_remove_last_super_admin(a)
      <4>1. super_admins # {a}
        <5>1. Cardinality({a}) = 1
          BY FS_Singleton
        <5>2. QED
          BY <3>3, <5>1 DEF would_remove_last_super_admin
      <4>2. PICK b \in super_admins : b # a
        BY <3>3, <4>1
      <4>3. b \in super_admins'
        BY <2>0, <2>2, <4>2 DEF accountChanged, super_admins
      <4>4. QED
        BY <4>3 DEF LastSuperAdmin
    <3>4. QED
      BY <3>1, <3>2, <3>3
  <2>3. ASSUME NEW t \in Tabs, accept_admin_invitation(t)
        PROVE  LastSuperAdmin'
    <3>1. \A b \in super_admins : role'[b] = role[b] /\ active'[b] = active[b]
      BY <2>0, <2>3 DEF accept_admin_invitation, super_admins
    <3>2. QED
      BY <3>1 DEF LastSuperAdmin, super_admins
  <2>4. QED
    BY <2>1, <2>2, <2>3, AccountFrame, MemberEffect DEF accountVars
<1>3. QED
  BY <1>1, <1>2, Typed, PTL DEF TeamSpec

\* An account is changed only in the name of an administrator who is an active
\* owner at that moment.
THEOREM OnlyOwnersChange == TeamSpec => OwnersOnly
<1> DEFINE A == \A a \in Admins :
       role[a] # "none" /\ (\/ role'[a] # role[a] \/ active'[a] # active[a]
                            \/ version'[a] # version[a])
         => \E t \in Tabs : /\ at(t, "admitted") /\ call[t].op \in Members
                            /\ call'[t].at = "answered"
                            /\ browser[t] \in super_admins
<1>1. TeamTyped /\ [TeamNext]_vars => A
  <2> SUFFICES ASSUME TeamTyped, [TeamNext]_vars, NEW a \in Admins,
                      role[a] # "none",
                      \/ role'[a] # role[a] \/ active'[a] # active[a]
                      \/ version'[a] # version[a]
               PROVE  \E t \in Tabs :
                        /\ at(t, "admitted") /\ call[t].op \in Members
                        /\ call'[t].at = "answered"
                        /\ browser[t] \in super_admins
    OBVIOUS
  <2>1. CASE UNCHANGED accountVars
    BY <2>1 DEF accountVars
  <2>2. ASSUME NEW t \in Tabs, accept_admin_invitation(t)
        PROVE  FALSE
    BY <2>2 DEF accept_admin_invitation, TeamTyped, StateTypeOK
  <2>3. ASSUME NEW t \in Tabs, NEW b, accountChanged(t, b)
        PROVE  /\ at(t, "admitted") /\ call[t].op \in Members
               /\ call'[t].at = "answered"
               /\ browser[t] \in super_admins
    <3>1. call[t] \in Call
      BY DEF TeamTyped, StateTypeOK
    <3>2. call'[t] = [call[t] EXCEPT !.at = "answered", !.code = "ok", !.arg = <<>>]
      BY <2>3 DEF accountChanged, invalidate_admin_security_state, answer,
         TeamTyped, StateTypeOK
    <3>3. call'[t].at = "answered"
      BY <3>1, <3>2 DEF Call
    <3>4. QED
      BY <2>3, <3>3 DEF accountChanged, lock_active_super_admins
  <2>4. QED
    BY <2>1, <2>2, <2>3, AccountFrame, MemberEffect DEF accountVars
<1>2. QED
  BY <1>1, Typed, PTL DEF TeamSpec, OwnersOnly

-----------------------------------------------------------------------------
(* What a step does to the calls                                           *)

\* A call is given up, begun, or goes on with what it needed a token for.
renewed(t) ==
  \E c \in Call :
    /\ call' = [call EXCEPT ![t] = c]
    /\ c.at \in {"none", "restore", "request"}
    /\ c.op \in Members =>
         \/ t \in pendingChanges
         \/ changes' = changes + 1 /\ UNCHANGED version

\* A call moves on, and is about the same as before.
moved(t) ==
  \E c \in Call :
    /\ call' = [call EXCEPT ![t] = c]
    /\ c.op = call[t].op
    /\ c.at \in CallSteps \ {"none", "admitted"}
    /\ at(t, "answered") => c.at = "answered"

\* A call is admitted, with the version of the caller's account.
permitted(t) ==
  \E c \in Call :
    /\ call' = [call EXCEPT ![t] = c]
    /\ c.op = call[t].op /\ c.at = "admitted"
    /\ c.version = version[browser[t]]
    /\ ~at(t, "answered")
    /\ UNCHANGED version

\* The session's token is replaced, and copies of it in other calls are old.
rotated(t) ==
  \E s, code : \E step \in {"restored", "answered"} :
    /\ ~at(t, "answered")
    /\ rotate_admin_csrf_token(t, s, step, code)

\* Each step does one of these to the calls.
LEMMA CallCases ==
  ASSUME TeamTyped, [TeamNext]_vars
  PROVE  \/ UNCHANGED call
         \/ \E t \in Tabs : \/ renewed(t) \/ moved(t) \/ permitted(t)
                            \/ rotated(t)
                            \/ \E a : accountChanged(t, a)
<1> USE DEF TeamTyped
<1>0. ASSUME NEW t \in Tabs
      PROVE  call[t] \in Call /\ Idle \in Call /\ <<>> \in Args
  BY CallTypes DEF StateTypeOK, Args
<1>1. ASSUME NEW t \in Tabs,
             \E step \in {"establish", "mailing"} : to(t, step),
             ~at(t, "answered")
      PROVE  moved(t)
  <2>1. PICK step \in {"establish", "mailing"} : to(t, step)
    BY <1>1
  <2> DEFINE c == [call[t] EXCEPT !.at = step]
  <2>2. c \in Call
    BY <1>0 DEF Call, CallSteps
  <2>3. call' = [call EXCEPT ![t] = c]
    BY <2>1 DEF to, StateTypeOK
  <2>4. c.op = call[t].op /\ c.at = step
    BY <1>0 DEF Call
  <2> HIDE DEF c
  <2>5. QED
    BY <1>1, <2>2, <2>3, <2>4 DEF moved, CallSteps
<1>2. ASSUME NEW t \in Tabs, \E code \in Codes : answer(t, code)
      PROVE  moved(t)
  <2>1. PICK code \in Codes : answer(t, code)
    BY <1>2
  <2> DEFINE c == [call[t] EXCEPT !.at = "answered", !.code = code, !.arg = <<>>]
  <2>2. c \in Call
    BY <1>0 DEF Call, CallSteps
  <2>3. call' = [call EXCEPT ![t] = c]
    BY <2>1 DEF answer, StateTypeOK
  <2>4. c.op = call[t].op /\ c.at = "answered"
    BY <1>0 DEF Call
  <2> HIDE DEF c
  <2>5. QED
    BY <1>2, <2>2, <2>3, <2>4 DEF moved, CallSteps
<1>3. ASSUME NEW t \in Tabs, NEW op \in Ops, NEW arg \in Args,
             begin(t, op, arg),
             op \in Members => changes' = changes + 1 /\ UNCHANGED version
      PROVE  renewed(t)
  <2> DEFINE c == [Idle EXCEPT !.op = op, !.arg = arg,
                     !.at = IF token[t] = "none" THEN "restore" ELSE "request"]
  <2>1. c \in Call
    BY <1>0 DEF Call, CallSteps
  <2>2. c.at \in {"none", "restore", "request"} /\ c.op = op
    BY DEF Idle
  <2>3. call' = [call EXCEPT ![t] = c]
    BY <1>3 DEF begin
  <2> HIDE DEF c
  <2>4. QED
    BY <1>3, <2>1, <2>2, <2>3 DEF renewed
<1>4. ASSUME NEW t \in Tabs, done(t)
      PROVE  renewed(t)
  <2>1. Idle.at = "none" /\ Idle.op \notin Members
    BY DEF Idle, Members
  <2>2. QED
    BY <1>0, <1>4, <2>1 DEF done, renewed
<1>5. ASSUME NEW t \in Tabs, initialized(t), ~at(t, "answered")
      PROVE  renewed(t)
  <2> DEFINE c == [Idle EXCEPT !.op = call[t].op, !.arg = call[t].arg,
                               !.at = "request"]
  <2>1. c \in Call
    BY <1>0 DEF Call, CallSteps
  <2>2. c.at = "request" /\ c.op = call[t].op
    BY DEF Idle
  <2>3. done(t) \/ call' = [call EXCEPT ![t] = c]
    BY <1>5 DEF initialized, done, StateTypeOK
  <2>4. call[t].op \in Members => t \in pendingChanges
    BY <1>5 DEF pendingChanges, at
  <2> HIDE DEF c
  <2>5. QED
    BY <1>4, <2>1, <2>2, <2>3, <2>4 DEF renewed
<1>6. ASSUME NEW t \in Tabs, SessionStep(t)
      PROVE  renewed(t) \/ moved(t) \/ rotated(t)
  <2>1. CASE restoreAdminSession(t)
    BY <1>1, <2>1 DEF restoreAdminSession, rotated, at
  <2>2. CASE restored(t) \/ established(t)
    BY <1>5, <2>2 DEF restored, established, at
  <2>3. CASE establishAdminSession(t)
    <3>1. CASE session_expired(t)
      BY <1>4, <3>1 DEF session_expired, clearAdminSessionState
    <3>2. ASSUME NEW r, call' = [call EXCEPT ![t].at = "creating", ![t].row = r]
          PROVE  moved(t)
      <4> DEFINE c == [call[t] EXCEPT !.at = "creating", !.row = r]
      <4>1. call' = [call EXCEPT ![t] = c] /\ call'[t] = c
        BY <3>2 DEF StateTypeOK
      <4>2. c \in Call
        BY <4>1, CallTyped
      <4>3. c.op = call[t].op /\ c.at = "creating"
        BY <1>0 DEF Call
      <4> HIDE DEF c
      <4>4. QED
        BY <2>3, <4>1, <4>2, <4>3
           DEF moved, establishAdminSession, at, CallSteps
    <3>3. QED
      BY <2>3, <3>1, <3>2 DEF establishAdminSession
  <2>4. CASE create_admin_session(t)
    <3> DEFINE c == [call[t] EXCEPT !.at = "created", !.csrf = call[t].row.id]
    <3>1. call' = [call EXCEPT ![t] = c] /\ call'[t] = c
      BY <2>4 DEF create_admin_session, StateTypeOK
    <3>2. c \in Call
      BY <3>1, CallTyped
    <3>3. c.op = call[t].op /\ c.at = "created"
      BY <1>0 DEF Call
    <3> HIDE DEF c
    <3>4. QED
      BY <2>4, <3>1, <3>2, <3>3 DEF moved, create_admin_session, at, CallSteps
  <2>5. CASE enforce_active_session_limit(t)
    <3>1. PICK gone :
            call' = [call EXCEPT ![t].at = "limited", ![t].evicts = gone]
      BY <2>5 DEF enforce_active_session_limit
    <3> DEFINE c == [call[t] EXCEPT !.at = "limited", !.evicts = gone]
    <3>2. call' = [call EXCEPT ![t] = c] /\ call'[t] = c
      BY <3>1 DEF StateTypeOK
    <3>3. c \in Call
      BY <3>2, CallTyped
    <3>4. c.op = call[t].op /\ c.at = "limited"
      BY <1>0 DEF Call
    <3> HIDE DEF c
    <3>5. QED
      BY <2>5, <3>2, <3>3, <3>4
         DEF moved, enforce_active_session_limit, at, CallSteps
  <2>6. CASE destroy_admin_session(t)
    BY <1>2, <2>6 DEF destroy_admin_session, Codes
  <2>7. CASE logoutAdminSession(t)
    BY <1>4, <2>7 DEF logoutAdminSession, clearAdminSessionState
  <2>8. QED
    BY <1>6, <2>1, <2>2, <2>3, <2>4, <2>5, <2>6, <2>7 DEF SessionStep
<1>7. ASSUME NEW t \in Tabs, TeamStep(t)
      PROVE  \/ UNCHANGED call
             \/ renewed(t) \/ moved(t) \/ permitted(t) \/ rotated(t)
             \/ \E a : accountChanged(t, a)
  <2>1. CASE getCurrentAdminSession(t)
    BY <1>2, <2>1 DEF getCurrentAdminSession, rotated, at, Codes
  <2>2. CASE loadTeam(t) \/ invitation_unanswered(t)
    BY <1>4, <2>2 DEF loadTeam, invitation_unanswered
  <2>3. CASE admit(t)
    <3> DEFINE c == [call[t] EXCEPT !.at = "admitted",
                                    !.version = version[browser[t]]]
    <3>1. CASE call' = [call EXCEPT ![t].at = "admitted",
                                    ![t].version = version[browser[t]]]
      <4>1. call' = [call EXCEPT ![t] = c] /\ call'[t] = c
        BY <3>1 DEF StateTypeOK
      <4>2. c \in Call
        BY <4>1, CallTyped
      <4>3. /\ c.op = call[t].op /\ c.at = "admitted"
            /\ c.version = version[browser[t]]
        BY <1>0 DEF Call
      <4> HIDE DEF c
      <4>4. QED
        BY <2>3, <4>1, <4>2, <4>3 DEF permitted, admit, at, accountVars
    <3>2. QED
      BY <1>2, <2>3, <3>1 DEF admit, require_sensitive_permission, Codes
  <2>4. CASE answered(t) \/ invitation_answered(t)
    BY <1>0, <1>3, <1>4, <2>4 DEF answered, invitation_answered,
       session_expired, clearAdminSessionState, Ops, Members
  <2>5. CASE MemberStep(t)
    BY <1>2, <2>5, MemberEffect DEF Codes
  <2>6. CASE \/ send_admin_invitation_email(t) \/ resend_admin_invitation(t)
             \/ revoke_admin_invitation(t) \/ accept_admin_invitation(t)
    BY <1>2, <2>6 DEF send_admin_invitation_email,
       resend_admin_invitation, revoke_admin_invitation,
       accept_admin_invitation, Codes
  <2>7. CASE create_admin_invitation(t)
    BY <1>1, <1>2, <2>7 DEF create_admin_invitation, admitted, at, Codes
  <2>8. QED
    BY <1>6, <1>7, <2>1, <2>2, <2>3, <2>4, <2>5, <2>6, <2>7
       DEF TeamStep, MemberStep
<1>8. ASSUME NEW t \in Tabs, UserStep(t)
      PROVE  UNCHANGED call \/ renewed(t)
  <2>1. CASE openTeam(t) \/ refresh(t) \/ handleAdminLogout(t)
    BY <1>0, <1>3, <2>1 DEF openTeam, refresh, handleAdminLogout, Ops, Members
  <2>2. CASE reloadPage(t) \/ handleAcceptInvitation(t)
    <3> DEFINE c == [Idle EXCEPT !.op = "load", !.at = "restore"]
               d == [Idle EXCEPT !.op = "accept", !.at = "request"]
    <3>1. /\ c \in Call /\ c.at = "restore" /\ c.op \notin Members
          /\ d \in Call /\ d.at = "request" /\ d.op \notin Members
      BY CallTypes DEF Idle, Call, Ops, CallSteps, Members
    <3>2. call' = [call EXCEPT ![t] = c] \/ call' = [call EXCEPT ![t] = d]
      BY <2>2 DEF reloadPage, handleAcceptInvitation
    <3> HIDE DEF c, d
    <3>3. QED
      BY <3>1, <3>2 DEF renewed
  <2>3. CASE \E k \in Links : openInvitation(t, k)
    BY <2>3 DEF openInvitation
  <2>4. ASSUME NEW op \in Sensitive, NEW arg \in Args, act(t, op, arg)
        PROVE  renewed(t)
    BY <1>3, <2>4 DEF act, Ops, accountVars
  <2>5. CASE performSensitiveAction(t)
    BY <2>4, <2>5 DEF performSensitiveAction, Args, Sensitive, Members
  <2>6. CASE inviteDialog(t) \/ invitationActions(t)
    BY <2>4, <2>6 DEF inviteDialog, invitationActions, Args, Sensitive,
       Invitations
  <2>7. QED
    BY <1>8, <2>1, <2>2, <2>3, <2>5, <2>6 DEF UserStep
<1>9. ASSUME NEW t \in Tabs, answer_lost(t)
      PROVE  renewed(t)
  BY <1>4, <1>9 DEF answer_lost
<1>10. QED
  BY <1>7, <1>8, <1>9 DEF TeamNext, admin_session_expires,
     invitation_expires, tabVars, vars, sessionVars

-----------------------------------------------------------------------------
\* Every reachable state is well typed, and no version gets above the number
\* of changes, although a caller writes its own from an earlier read.
THEOREM TeamTypeCorrect == TeamSpec => []TeamTypeOK
<1>0. /\ IsFiniteSet(pendingChanges) /\ Cardinality(pendingChanges) \in Nat
      /\ IsFiniteSet(pendingChanges') /\ Cardinality(pendingChanges') \in Nat
  <2>1. IsFiniteSet(Tabs)
    BY AdminBoundAssumption
  <2>2. IsFiniteSet(pendingChanges) /\ IsFiniteSet(pendingChanges')
    BY <2>1, FS_Subset DEF pendingChanges
  <2>3. QED
    BY <2>2, FS_CardinalityType
<1>1. TeamInit => ChangesCounted
  <2> SUFFICES ASSUME TeamInit PROVE ChangesCounted
    OBVIOUS
  <2>1. pendingChanges = {}
    BY DEF TeamInit, AdminInit, pendingChanges, Idle, Members
  <2>2. Cardinality(pendingChanges) = 0
    BY <2>1, FS_EmptySet
  <2>3. QED
    BY <2>2 DEF ChangesCounted, counted, at, Idle, TeamInit, AdminInit
<1>2. TeamTyped /\ ChangesCounted /\ [TeamNext]_vars => ChangesCounted'
  <2> SUFFICES ASSUME TeamTyped, ChangesCounted, [TeamNext]_vars
               PROVE  ChangesCounted'
    OBVIOUS
  <2>0. /\ version \in [Admins -> Nat \ {0}] /\ changes \in Nat
        /\ call \in [Tabs -> Call] /\ browser \in [Tabs -> Admins]
        /\ changes' = changes \/ changes' = changes + 1
        /\ \A t \in Tabs : call[t].version \in Nat
    BY ChangesFrame, AdminBoundAssumption DEF TeamTyped, StateTypeOK, Call
  \* The calls still to come grow no faster than the changes asked for.
  <2> DEFINE Paid == Cardinality(pendingChanges') - Cardinality(pendingChanges)
                       <= changes' - changes
  <2>1. ASSUME Paid, UNCHANGED version,
               \A u \in Tabs : call'[u].at = "admitted" =>
                 \/ at(u, "admitted") /\ call'[u].version = call[u].version
                 \/ call'[u].version = version[browser[u]]
        PROVE  ChangesCounted'
    <3>1. ASSUME NEW n \in Nat, counted(n)
          PROVE  n + Cardinality(pendingChanges') <= changes' + 1
      BY <1>0, <2>0, <2>1, <3>1 DEF counted
    <3>2. \A a \in Admins : version[a] \in Nat /\ counted(version[a])
      BY <2>0 DEF ChangesCounted
    <3>3. ASSUME NEW u \in Tabs, call'[u].at = "admitted"
          PROVE  call'[u].version \in Nat /\ counted(call'[u].version)
      BY <2>0, <2>1, <3>2, <3>3 DEF ChangesCounted
    <3>4. QED
      BY <2>1, <3>1, <3>2, <3>3 DEF ChangesCounted, counted, at
  <2>2. ASSUME pendingChanges' \subseteq pendingChanges
        PROVE  Paid
    <3>1. Cardinality(pendingChanges') <= Cardinality(pendingChanges)
      BY <1>0, <2>2, FS_Subset
    <3>2. QED
      BY <1>0, <2>0, <3>1
  <2>3. ASSUME NEW t \in Tabs, pendingChanges' \subseteq pendingChanges \union {t},
               changes' = changes + 1
        PROVE  Paid
    <3>1. /\ IsFiniteSet(pendingChanges \union {t})
          /\ Cardinality(pendingChanges \union {t}) \in Nat
          /\ Cardinality(pendingChanges \union {t})
               <= Cardinality(pendingChanges) + 1
      <4>1. /\ IsFiniteSet(pendingChanges \union {t})
            /\ Cardinality(pendingChanges \union {t}) =
                 IF t \in pendingChanges THEN Cardinality(pendingChanges)
                                         ELSE Cardinality(pendingChanges) + 1
        BY <1>0, FS_AddElement
      <4>2. QED
        BY <1>0, <4>1
    <3>2. Cardinality(pendingChanges')
            <= Cardinality(pendingChanges \union {t})
      BY <2>3, <3>1, FS_Subset
    <3>3. QED
      BY <1>0, <2>0, <2>3, <3>1, <3>2
  <2>4. ASSUME NEW t \in Tabs, NEW a, accountChanged(t, a)
        PROVE  ChangesCounted'
    <3>0. /\ call'[t].at = "answered"
          /\ \A u \in Tabs \ {t} : call'[u] = call[u]
      BY <2>0, <2>4 DEF accountChanged, invalidate_admin_security_state,
         answer, Call
    <3>1. t \in pendingChanges /\ pendingChanges' \subseteq pendingChanges \ {t}
      BY <2>4, <3>0 DEF accountChanged, pendingChanges, at
    <3>2. /\ IsFiniteSet(pendingChanges \ {t})
          /\ Cardinality(pendingChanges \ {t}) = Cardinality(pendingChanges) - 1
      BY <1>0, <3>1, FS_RemoveElement
    <3>3. Cardinality(pendingChanges') <= Cardinality(pendingChanges) - 1
      BY <3>1, <3>2, FS_Subset
    <3>4. version' = [version EXCEPT ![a] =
                        IF a = browser[t] THEN call[t].version + 1 ELSE @ + 1]
      BY <2>4 DEF accountChanged, invalidate_admin_security_state
    <3>5. counted(call[t].version)
      BY <2>4 DEF accountChanged, ChangesCounted
    <3>6. ASSUME NEW n \in Nat, counted(n)
          PROVE  /\ (n + 1) + Cardinality(pendingChanges') <= changes' + 1
                 /\ n + Cardinality(pendingChanges') <= changes' + 1
      BY <1>0, <2>0, <3>3, <3>6 DEF counted
    <3>7. ASSUME NEW b \in Admins
          PROVE  version'[b] + Cardinality(pendingChanges') <= changes' + 1
      <4>1. /\ counted(version[b]) /\ version[b] \in Nat
            /\ call[t].version \in Nat
            /\ \/ version'[b] = version[b]
               \/ version'[b] = version[b] + 1
               \/ version'[b] = call[t].version + 1
        BY <2>0, <3>4 DEF ChangesCounted
      <4>2. QED
        BY <3>5, <3>6, <4>1
    <3>8. ASSUME NEW u \in Tabs, call'[u].at = "admitted"
          PROVE  call'[u].version + Cardinality(pendingChanges') <= changes' + 1
      <4>1. call'[u] = call[u] /\ counted(call[u].version)
        BY <3>0, <3>8 DEF ChangesCounted, at
      <4>2. QED
        BY <2>0, <3>6, <4>1
    <3>9. QED
      BY <3>7, <3>8 DEF ChangesCounted, counted, at
  <2>5. ASSUME ~ \E t \in Tabs : \E a : accountChanged(t, a)
        PROVE  UNCHANGED version
    BY <2>5, AccountFrame, MemberEffect DEF accountVars,
       accept_admin_invitation
  <2> DEFINE Kept(u) ==
        \/ call'[u].at = "admitted" =>
             at(u, "admitted") /\ call'[u].version = call[u].version
        \/ call'[u].version = version[browser[u]]
  <2>6. CASE UNCHANGED call
    <3>1. pendingChanges' = pendingChanges /\ \A u \in Tabs : Kept(u)
      BY <2>6 DEF pendingChanges, at
    <3>2. ASSUME NEW t \in Tabs, NEW a, accountChanged(t, a)
          PROVE  FALSE
      <4>1. call[t] \in Call /\ call[t].at = "admitted"
        BY <2>0, <3>2 DEF accountChanged, at
      <4>2. call'[t] = [call[t] EXCEPT !.at = "answered", !.code = "ok",
                                       !.arg = <<>>]
        BY <2>0, <3>2 DEF accountChanged, invalidate_admin_security_state,
           answer
      <4>3. QED
        BY <2>6, <4>1, <4>2 DEF Call
    <3>3. QED
      BY <2>1, <2>2, <2>5, <3>1, <3>2
  <2>7. ASSUME NEW t \in Tabs, moved(t) \/ permitted(t) \/ rotated(t)
        PROVE  pendingChanges' \subseteq pendingChanges /\ \A u \in Tabs : Kept(u)
    <3>1. ASSUME NEW u \in Tabs
          PROVE  /\ call'[u].op = call[u].op
                 /\ at(u, "answered") => call'[u].at = "answered"
                 /\ Kept(u)
      <4>1. CASE moved(t)
        BY <2>0, <4>1 DEF moved, at
      <4>2. CASE permitted(t)
        BY <2>0, <4>2 DEF permitted, at
      <4>3. CASE rotated(t)
        <5>1. CASE u = t
          BY <2>0, <4>3, <5>1 DEF rotated, at, rotate_admin_csrf_token, Call
        <5>2. CASE u # t
          BY <2>0, <4>3, <5>2 DEF rotated, at, rotate_admin_csrf_token, Call
        <5>3. QED
          BY <5>1, <5>2
      <4>4. QED
        BY <2>7, <4>1, <4>2, <4>3
    <3>2. QED
      BY <3>1 DEF pendingChanges, at
  <2>8. ASSUME NEW t \in Tabs, renewed(t)
        PROVE  Paid /\ \A u \in Tabs : Kept(u)
    <3>1. \A u \in Tabs \ {t} : call'[u] = call[u]
      BY <2>0, <2>8 DEF renewed
    <3>2. /\ call'[t].op \in Members =>
               t \in pendingChanges \/ changes' = changes + 1
          /\ call'[t].at # "admitted"
      BY <2>0, <2>8 DEF renewed
    <3>3. \/ pendingChanges' \subseteq pendingChanges
          \/ /\ pendingChanges' \subseteq pendingChanges \union {t}
             /\ changes' = changes + 1
      BY <3>1, <3>2 DEF pendingChanges
    <3>4. QED
      BY <2>2, <2>3, <3>1, <3>2, <3>3 DEF at
  <2>9. QED
    BY <2>1, <2>2, <2>4, <2>5, <2>6, <2>7, <2>8, CallCases
<1>3. TeamTyped /\ ChangesCounted => TeamTypeOK
  <2> SUFFICES ASSUME TeamTyped, ChangesCounted PROVE TeamTypeOK
    OBVIOUS
  <2> USE DEF TeamTyped, StateTypeOK
  <2>1. ASSUME NEW a \in Admins PROVE version[a] \in 1 .. MaxChanges + 1
    BY <1>0, AdminBoundAssumption DEF ChangesCounted, counted
  <2>2. version \in [Admins -> 1 .. MaxChanges + 1]
    BY <2>1
  <2>3. \A i \in Invites :
       invite[i].state \in {"absent", "live", "accepted", "revoked", "expired"}
    BY DEF Invite
  <2>4. QED
    BY <2>2, <2>3 DEF TeamTypeOK
<1>4. QED
  BY <1>1, <1>2, <1>3, Typed, PTL DEF TeamSpec

-----------------------------------------------------------------------------
(* Invitation links                                                        *)

\* An invitation is made or sent again with the next link, or its state ends;
\* or a link was mailed and its commit failed.
linked(i) ==
  /\ \E e \in Link : e.kept /\ links' = Append(links, e)
  /\ Len(links) < MaxLinks
  /\ invite[i].state \in {"absent", "live"}
  /\ invite'[i].link = Len(links) + 1 /\ invite'[i].state = "live"
ended(i) ==
  /\ links' = links
  /\ invite'[i].link = invite[i].link
  /\ \/ invite[i].state = "live" /\ invite'[i].state \in {"accepted", "expired"}
     \/ invite[i].state # "accepted" /\ invite'[i].state = "revoked"
unkept ==
  /\ \E e \in Link : ~e.kept /\ links' = Append(links, e)
  /\ UNCHANGED invite
LEMMA InvitationCases ==
  ASSUME TeamTyped, [TeamNext]_vars
  PROVE  \/ UNCHANGED <<invite, links>>
         \/ unkept
         \/ \E i \in Invites :
              /\ linked(i) \/ ended(i)
              /\ \A j \in Invites \ {i} : invite'[j] = invite[j]
<1> USE DEF TeamTyped, StateTypeOK
<1>0. ASSUME NEW a \in Admins \union {"none"}, NEW kept \in BOOLEAN,
             mailed(a, kept)
      PROVE  /\ Len(links) < MaxLinks
             /\ \E e \in Link : e.kept = kept /\ links' = Append(links, e)
  <2>1. [to |-> a, kept |-> kept] \in Link
    BY DEF Link
  <2>2. QED
    BY <1>0, <2>1 DEF mailed
<1>1. ASSUME NEW t \in Tabs, send_admin_invitation_email(t)
      PROVE  \/ UNCHANGED <<invite, links>> \/ unkept
             \/ \E i \in Invites :
                  /\ linked(i)
                  /\ \A j \in Invites \ {i} : invite'[j] = invite[j]
  <2>0. target(t) \in Admins
    BY <1>1 DEF send_admin_invitation_email, at, target, CallsOK, CallOK
  <2>1. ASSUME mailed(target(t), TRUE), NEW i \in freshInvite,
               invite' = [invite EXCEPT ![i] =
                  [email |-> target(t), role |-> call[t].arg[2],
                   state |-> "live", link |-> Len(links) + 1]]
        PROVE  i \in Invites /\ linked(i)
               /\ \A j \in Invites \ {i} : invite'[j] = invite[j]
    <3>1. i \in Invites /\ invite[i].state = "absent"
      BY DEF freshInvite
    <3>2. QED
      BY <1>0, <2>0, <2>1, <3>1 DEF linked
  <2>2. ASSUME mailed(target(t), FALSE), UNCHANGED invite
        PROVE  unkept
    BY <1>0, <2>0, <2>2 DEF unkept
  <2>3. QED
    BY <1>1, <2>1, <2>2 DEF send_admin_invitation_email
<1>2. ASSUME NEW t \in Tabs, resend_admin_invitation(t)
      PROVE  \/ UNCHANGED <<invite, links>> \/ unkept
             \/ \E i \in Invites :
                  /\ linked(i)
                  /\ \A j \in Invites \ {i} : invite'[j] = invite[j]
  <2> DEFINE i == target(t)
  <2>0. /\ i \in Invites
        /\ invite[i] \in Invite /\ invite[i].email \in Admins \union {"none"}
    <3>1. i \in Invites
      BY <1>2 DEF resend_admin_invitation, admitted, CallsOK, CallOK, target,
         at
    <3>2. QED
      BY <3>1 DEF Invite
  <2>1. CASE /\ invite[i].state = "live"
             /\ mailed(invite[i].email, TRUE)
             /\ invite' = [invite EXCEPT ![i].link = Len(links) + 1]
    <3> HIDE DEF i
    <3>1. linked(i) /\ \A j \in Invites \ {i} : invite'[j] = invite[j]
      BY <1>0, <2>0, <2>1 DEF linked, Invite
    <3>2. QED
      BY <2>0, <3>1
  <2>2. CASE mailed(invite[i].email, FALSE) /\ UNCHANGED invite
    BY <1>0, <2>0, <2>2 DEF unkept
  <2>3. QED
    BY <1>2, <2>1, <2>2 DEF resend_admin_invitation
<1>3. ASSUME NEW i \in Invites, NEW state \in {"accepted", "revoked", "expired"},
             invite' = [invite EXCEPT ![i].state = state], UNCHANGED links,
             \/ invite[i].state = "live" /\ state # "revoked"
             \/ invite[i].state # "accepted" /\ state = "revoked"
      PROVE  ended(i) /\ \A j \in Invites \ {i} : invite'[j] = invite[j]
  BY <1>3 DEF ended, Invite
<1>4. ASSUME NEW t \in Tabs, revoke_admin_invitation(t)
      PROVE  \/ UNCHANGED <<invite, links>>
             \/ \E i \in Invites :
                  /\ ended(i)
                  /\ \A j \in Invites \ {i} : invite'[j] = invite[j]
  <2>1. target(t) \in Invites
    BY <1>4 DEF revoke_admin_invitation, admitted, CallsOK, CallOK, target, at
  <2>2. QED
    BY <1>3, <1>4, <2>1 DEF revoke_admin_invitation
<1>5. ASSUME NEW t \in Tabs, accept_admin_invitation(t)
      PROVE  \/ UNCHANGED <<invite, links>>
             \/ \E i \in Invites :
                  /\ ended(i)
                  /\ \A j \in Invites \ {i} : invite'[j] = invite[j]
  BY <1>3, <1>5 DEF accept_admin_invitation, acceptable, pendingInvitations
<1>6. ASSUME NEW i \in Invites, invitation_expires(i)
      PROVE  ended(i) /\ \A j \in Invites \ {i} : invite'[j] = invite[j]
  BY <1>3, <1>6 DEF invitation_expires
<1>7. QED
  BY <1>1, <1>2, <1>4, <1>5, <1>6, InvitationFrame

\* Links stay numbered, and owned by one invitation.
LEMMA LinksStayOwned ==
  TeamTyped /\ LinksOwned /\ [TeamNext]_vars => LinksOwned'
<1> SUFFICES ASSUME TeamTyped, LinksOwned, [TeamNext]_vars
             PROVE  LinksOwned'
  OBVIOUS
<1> USE DEF LinksOwned
<1>0. /\ Len(links) \in Nat
      /\ \A i \in Invites : invite[i].link \in 0 .. Len(links)
  BY DEF TeamTyped, StateTypeOK
<1>1. CASE UNCHANGED <<invite, links>>
  BY <1>1
<1>2. ASSUME NEW i \in Invites, linked(i),
             \A j \in Invites \ {i} : invite'[j] = invite[j]
      PROVE  LinksOwned'
  <2>1. /\ Len(links') = Len(links) + 1 /\ links'[Len(links) + 1].kept
        /\ \A k \in 1 .. Len(links) : links'[k] = links[k]
    BY <1>2 DEF linked, TeamTyped, StateTypeOK
  <2>2. QED
    BY <1>0, <1>2, <2>1 DEF linked
<1>5. CASE unkept
  <2>1. /\ Len(links') = Len(links) + 1
        /\ \A k \in 1 .. Len(links) : links'[k] = links[k]
    BY <1>5 DEF unkept, TeamTyped, StateTypeOK
  <2>2. QED
    BY <1>0, <1>5, <2>1 DEF unkept
<1>3. ASSUME NEW i \in Invites, ended(i),
             \A j \in Invites \ {i} : invite'[j] = invite[j]
      PROVE  LinksOwned'
  BY <1>0, <1>3 DEF ended
<1>4. QED
  BY <1>1, <1>2, <1>3, <1>5, InvitationCases

\* Whether a link works depends on its owner and on whether it was kept: the
\* links ls mailed so far, and the invitations inv.
linkValue(inv, ls, k) ==
  CASE k > Len(ls) -> "absent"
    [] \E i \in Invites : inv[i].link = k /\ inv[i].state = "live" -> "live"
    [] \E i \in Invites : inv[i].link = k /\ inv[i].state = "accepted" -> "used"
    [] k <= Len(ls) /\ ~ls[k].kept -> "absent"
    [] OTHER -> "dead"
ownerValue(state) ==
  CASE state = "live" -> "live" [] state = "accepted" -> "used"
    [] OTHER -> "dead"
LEMMA LinkValue ==
  ASSUME NEW inv, NEW ls, Len(ls) \in Nat, NEW k \in Nat \ {0},
         \A i \in Invites : /\ inv[i].link \in 0 .. Len(ls)
                            /\ inv[i].link # 0 => ls[inv[i].link].kept,
         \A i, j \in Invites : inv[i].link = inv[j].link /\ inv[i].link # 0
                                 => i = j
  PROVE  /\ k > Len(ls) => linkValue(inv, ls, k) = "absent"
         /\ \A i \in Invites : inv[i].link = k =>
              linkValue(inv, ls, k) = ownerValue(inv[i].state)
         /\ k <= Len(ls) /\ (\A i \in Invites : inv[i].link # k)
              => linkValue(inv, ls, k) = IF ls[k].kept THEN "dead" ELSE "absent"
<1>1. CASE k > Len(ls)
  <2>1. \A i \in Invites : inv[i].link # k
    BY <1>1
  <2>2. QED
    BY <1>1, <2>1 DEF linkValue
<1>2. ASSUME ~(k > Len(ls)), NEW i \in Invites, inv[i].link = k
      PROVE  linkValue(inv, ls, k) = ownerValue(inv[i].state)
  <2>1. ls[k].kept /\ \A j \in Invites : inv[j].link = k => j = i
    BY <1>2
  <2>2. QED
    BY <1>2, <2>1 DEF linkValue, ownerValue
<1>3. ASSUME k <= Len(ls), \A i \in Invites : inv[i].link # k
      PROVE  linkValue(inv, ls, k) = IF ls[k].kept THEN "dead" ELSE "absent"
  BY <1>3 DEF linkValue
<1>4. QED
  BY <1>1, <1>2, <1>3

\* Each invitation link creates at most one account, and is of no use once it
\* was used, withdrawn, replaced by resend_admin_invitation or has expired.
THEOREM InvitationsAreOneTime == TeamSpec => InvitationIsOneTime
<1>1. TeamInit => Invitation!CredentialInit
  <2> SUFFICES ASSUME TeamInit PROVE Invitation!CredentialInit
    OBVIOUS
  <2>1. ASSUME NEW k \in Links PROVE invitationLink[k] = "absent"
    <3>1. k > 0 /\ Len(links) = 0
      BY TeamBoundAssumption DEF TeamInit, Links
    <3>2. \A i \in Invites : invite[i].link # k
      BY <3>1 DEF TeamInit, NoInvite
    <3>3. QED
      BY <3>1, <3>2 DEF invitationLink
  <2>2. QED
    BY <2>1 DEF invitationLink, Invitation!CredentialInit
<1>2. TeamInit => LinksOwned
  BY DEF TeamInit, LinksOwned, NoInvite
<1>3. TeamTyped /\ LinksOwned /\ LinksOwned' /\ [TeamNext]_vars
        => [Invitation!CredentialNext]_invitationLink
  <2> SUFFICES ASSUME TeamTyped, LinksOwned, LinksOwned', [TeamNext]_vars,
                      NEW k \in Links
               PROVE  \/ Invitation!issue(k) \/ Invitation!use(k)
                      \/ Invitation!withdraw(k) \/ Invitation!keep(k)
    BY DEF Invitation!CredentialNext
  <2> USE DEF Invitation!issue, Invitation!use, Invitation!withdraw,
              Invitation!keep
  <2>0. /\ Len(links) \in Nat /\ Len(links') \in Nat
        /\ k \in Nat \ {0}
    BY TeamBoundAssumption, StaysTyped DEF TeamTyped, StateTypeOK, Links
  <2>a. /\ k > Len(links) => invitationLink[k] = "absent"
        /\ \A i \in Invites : invite[i].link = k =>
             invitationLink[k] = ownerValue(invite[i].state)
        /\ k <= Len(links) /\ (\A i \in Invites : invite[i].link # k)
             => invitationLink[k] =
                  IF links[k].kept THEN "dead" ELSE "absent"
    <3>1. invitationLink[k] = linkValue(invite, links, k)
      BY DEF invitationLink, linkValue
    <3>2. QED
      BY <2>0, <3>1, LinkValue DEF LinksOwned
  <2>b. /\ k > Len(links') => invitationLink'[k] = "absent"
        /\ \A i \in Invites : invite'[i].link = k =>
             invitationLink'[k] = ownerValue(invite'[i].state)
        /\ k <= Len(links') /\ (\A i \in Invites : invite'[i].link # k)
             => invitationLink'[k] =
                  IF links'[k].kept THEN "dead" ELSE "absent"
    <3>1. invitationLink'[k] = linkValue(invite', links', k)
      BY DEF invitationLink, linkValue
    <3>2. QED
      BY <2>0, <3>1, LinkValue DEF LinksOwned
  <2>1. CASE UNCHANGED <<invite, links>>
    BY <2>1 DEF invitationLink
  <2>2. ASSUME NEW i \in Invites, linked(i),
               \A j \in Invites \ {i} : invite'[j] = invite[j]
        PROVE  \/ Invitation!issue(k) \/ Invitation!withdraw(k)
               \/ Invitation!keep(k)
    <3>1. /\ Len(links') = Len(links) + 1
          /\ \A n \in 1 .. Len(links) : links'[n] = links[n]
      BY <2>2 DEF linked, TeamTyped, StateTypeOK
    <3>2. CASE k = Len(links) + 1
      <4>1. invitationLink[k] = "absent" /\ invitationLink'[k] = "live"
        BY <2>0, <2>2, <2>a, <2>b, <3>1, <3>2 DEF linked, ownerValue
      <4>2. QED
        BY <4>1
    <3>3. CASE k = invite[i].link
      <4>1. k # Len(links) + 1 /\ k <= Len(links)
        BY <2>0, <3>3 DEF LinksOwned
      <4>2. invite[i].state = "live"
        BY <2>0, <2>2, <3>3 DEF linked, LinksOwned
      <4>3. invitationLink[k] = "live"
        BY <2>a, <3>3, <4>2 DEF ownerValue
      <4>4. \A j \in Invites : invite'[j].link # k
        BY <2>0, <2>2, <3>3, <4>1 DEF linked, LinksOwned
      <4>7. links'[k].kept
        BY <2>0, <3>1, <3>3, <4>1 DEF LinksOwned
      <4>5. invitationLink'[k] = "dead"
        BY <2>0, <2>b, <3>1, <4>1, <4>4, <4>7
      <4>6. QED
        BY <4>3, <4>5
    <3>4. CASE k # Len(links) + 1 /\ k # invite[i].link
      <4>1. invite'[i].link # k
        BY <2>2, <3>4 DEF linked
      <4>2. CASE k > Len(links)
        <5>1. k > Len(links')
          BY <2>0, <3>1, <3>4, <4>2
        <5>2. QED
          BY <2>a, <2>b, <4>2, <5>1
      <4>3. CASE k <= Len(links) /\ \E j \in Invites : invite[j].link = k
        <5>1. PICK j \in Invites \ {i} : invite[j].link = k
          BY <3>4, <4>3
        <5>2. QED
          BY <2>2, <2>a, <2>b, <5>1
      <4>4. CASE k <= Len(links) /\ \A j \in Invites : invite[j].link # k
        <5>1. /\ k <= Len(links') /\ links'[k] = links[k]
              /\ \A j \in Invites : invite'[j].link # k
          BY <2>0, <2>2, <3>1, <4>1, <4>4
        <5>2. QED
          BY <2>a, <2>b, <4>4, <5>1
      <4>5. QED
        BY <2>0, <4>2, <4>3, <4>4
    <3>5. QED
      BY <3>2, <3>3, <3>4
  <2>3. ASSUME NEW i \in Invites, ended(i),
               \A j \in Invites \ {i} : invite'[j] = invite[j]
        PROVE  \/ Invitation!use(k) \/ Invitation!withdraw(k)
               \/ Invitation!keep(k)
    <3>0. links' = links
      BY <2>3 DEF ended
    <3>1. CASE invite[i].link = k
      <4>1. /\ invitationLink[k] = ownerValue(invite[i].state)
            /\ invitationLink'[k] = ownerValue(invite'[i].state)
        BY <2>3, <2>a, <2>b, <3>1 DEF ended
      <4>2. QED
        BY <2>3, <4>1 DEF ended, ownerValue
    <3>2. CASE \E j \in Invites \ {i} : invite[j].link = k
      BY <2>3, <2>a, <2>b, <3>2
    <3>3. CASE \A j \in Invites : invite[j].link # k
      <4>1. \A j \in Invites : invite'[j].link # k
        BY <2>3, <3>3 DEF ended
      <4>2. QED
        BY <2>0, <2>a, <2>b, <3>0, <3>3, <4>1
    <3>4. QED
      BY <3>1, <3>2, <3>3
  <2>5. CASE unkept
    <3>1. /\ Len(links') = Len(links) + 1 /\ ~links'[Len(links) + 1].kept
          /\ \A n \in 1 .. Len(links) : links'[n] = links[n]
      BY <2>5 DEF unkept, TeamTyped, StateTypeOK
    <3>2. invite' = invite
      BY <2>5 DEF unkept
    <3>3. CASE \E i \in Invites : invite[i].link = k
      BY <2>a, <2>b, <3>2, <3>3
    <3>4. CASE \A i \in Invites : invite[i].link # k
      <4>1. CASE k > Len(links) + 1
        BY <2>0, <2>a, <2>b, <3>1, <4>1
      <4>2. CASE k = Len(links) + 1
        BY <2>0, <2>a, <2>b, <3>1, <3>2, <3>4, <4>2
      <4>3. CASE k <= Len(links)
        BY <2>0, <2>a, <2>b, <3>1, <3>2, <3>4, <4>3
      <4>4. QED
        BY <2>0, <4>1, <4>2, <4>3
    <3>5. QED
      BY <3>3, <3>4
  <2>4. QED
    BY <2>1, <2>2, <2>3, <2>5, InvitationCases
<1>4. QED
  BY <1>1, <1>2, <1>3, LinksStayOwned, Typed, PTL
     DEF TeamSpec, InvitationIsOneTime, Invitation!CredentialSpec
=============================================================================
