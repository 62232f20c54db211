------------------------------ MODULE AdminTeam ------------------------------
(***************************************************************************)
(* Team & Access: administrators' roles, disabling and enabling, revoked    *)
(* sessions, and the invitations that create administrators.  The calls     *)
(* come from the tabs of AdminSession.                                      *)
(*                                                                         *)
(* A sensitive call is admitted first, and carried out in a later step: the *)
(* caller may have lost the role in between.  Changes of an account check   *)
(* the caller again under a lock on all owners; invitations do not.  An     *)
(* invitation is mailed between its checks and its commit.                  *)
(***************************************************************************)
EXTENDS AdminSession

CONSTANTS
  MaxInvites,  \* bound on invitations
  MaxLinks     \* bound on invitation links, new ones and resent ones

ASSUME TeamBoundAssumption == MaxInvites \in Nat /\ MaxLinks \in Nat

Invites == 1 .. MaxInvites
Links == 1 .. MaxLinks

VARIABLES
  seen,        \* the team each tab has loaded
  invite,      \* the invitations
  links,       \* the links mailed so far, and whether the server kept them
  opened       \* the link a tab's invitation page was opened with

teamVars == <<seen, invite, links, opened>>
vars == <<sessionVars, teamVars>>

NoInvite == [email |-> "none", role |-> "none", state |-> "absent", link |-> 0]
NoTeam == [owner |-> FALSE, member |-> [a \in Admins |-> "none"],
           pending |-> {}]

TeamInit ==
  /\ AdminInit
  /\ seen = [t \in Tabs |-> NoTeam]
  /\ invite = [i \in Invites |-> NoInvite]
  /\ links = <<>>
  /\ opened = [t \in Tabs |-> 0]

Members == {"role", "disable", "enable", "sessions"}
Invitations == {"invite", "resend", "withdraw"}
Sensitive == Members \union Invitations

-----------------------------------------------------------------------------
(* Loading the page                                                        *)

\* A tab that leaves a page forgets what it had loaded.
leavePage ==
  /\ seen' = [t \in Tabs |-> IF page'[t] = "team" THEN seen[t] ELSE NoTeam]
  /\ UNCHANGED <<invite, links, opened>>

InvitationScreens ==
  {"invite_ready", "invite_accepting", "invite_accepted", "invite_error"}

\* "Continue" on the login page, the dashboard link of an accepted or a failed
\* invitation, and a new visit after Cloudflare's logout.
loginView(t) == page[t] = "login"
dashboardOffered(t) == page[t] \in {"invite_accepted", "invite_error"}
signedOut(t) == page[t] = "out"

openTeam(t) ==
  /\ loginView(t) \/ dashboardOffered(t) \/ signedOut(t)
  /\ idle(t)
  /\ page' = [page EXCEPT ![t] = "team"]
  /\ opened' = [opened EXCEPT ![t] = 0]
  /\ begin(t, "load", <<>>)
  /\ UNCHANGED <<accountVars, live, jar, token, changes,
                 seen, invite, links>>

teamView(t) == page[t] = "team" /\ idle(t)

\* The Refresh button, or a reload of the page, which forgets the token.
refresh(t) ==
  /\ teamView(t)
  /\ begin(t, "load", <<>>)
  /\ UNCHANGED <<accountVars, live, jar, token, page, changes,
                 teamVars>>

reloadPage(t) ==
  /\ teamView(t)
  /\ token' = [token EXCEPT ![t] = "none"]
  /\ seen' = [seen EXCEPT ![t] = NoTeam]
  /\ call' = [call EXCEPT ![t] =
       [Idle EXCEPT !.op = "load", !.at = "restore"]]
  /\ UNCHANGED <<accountVars, live, jar, page, changes,
                 invite, links, opened>>

pendingInvitations == {i \in Invites : invite[i].state = "live"}

list_admin_team ==
  [a \in Admins |-> IF role[a] = "none" THEN "none"
                    ELSE IF active[a] THEN role[a] ELSE "disabled"]

\* loadTeam reads the session, and with it replaces the token, and reads the
\* team and the invitations, which are for owners.
getCurrentAdminSession(t) ==
  /\ at(t, "request") /\ call[t].op = "load"
  /\ LET a == browser[t]
         s == cookies(t).session
     IN IF get_valid_admin_session(a, s)
          THEN /\ rotate_admin_csrf_token(t, s, "answered",
                    IF role[a] = "super_admin" THEN "ok" ELSE "403")
               /\ UNCHANGED live
          ELSE /\ answer(t, "401")
               /\ live' = dropped(a, s)
               /\ UNCHANGED <<jar, token>>
  /\ UNCHANGED <<accountVars, page, changes, teamVars>>

\* The session's answer counts even when the team is refused.
loadTeam(t) ==
  /\ at(t, "answered") /\ call[t].op = "load" /\ call[t].code # "401"
  /\ token' = [token EXCEPT ![t] = call[t].csrf]
  /\ jar' = [jar EXCEPT ![browser[t]].csrf = call[t].csrf]
  /\ seen' = IF call[t].code = "ok"
               THEN [seen EXCEPT ![t] =
                      [owner |-> TRUE, member |-> list_admin_team,
                       pending |-> pendingInvitations]]
               ELSE seen
  /\ done(t)
  /\ UNCHANGED <<accountVars, live, page, changes,
                 invite, links, opened>>

-----------------------------------------------------------------------------
(* What the page offers                                                    *)

isSelf(t, a) == browser[t] = a
ownerView(t) == teamView(t) /\ seen[t].owner
memberRow(t, a) == ownerView(t) /\ seen[t].member[a] # "none"
roleOffered(t, a) == memberRow(t, a) /\ ~isSelf(t, a)
sessionsOffered(t, a) == memberRow(t, a)
disableOffered(t, a) ==
  memberRow(t, a) /\ ~isSelf(t, a) /\ seen[t].member[a] # "disabled"
enableOffered(t, a) ==
  memberRow(t, a) /\ ~isSelf(t, a) /\ seen[t].member[a] = "disabled"

inviteOffered(t) == ownerView(t)
invitationRow(t, i) == ownerView(t) /\ i \in seen[t].pending
resendOffered(t, i) == invitationRow(t, i)
revokeOffered(t, i) == invitationRow(t, i)

act(t, op, arg) ==
  /\ changes < MaxChanges
  /\ changes' = changes + 1
  /\ begin(t, op, arg)
  /\ UNCHANGED <<accountVars, live, jar, token, page, teamVars>>

\* performSensitiveAction
performSensitiveAction(t) ==
  \E a \in Admins :
    \/ \E r \in AdminRole :
         roleOffered(t, a) /\ r # seen[t].member[a] /\ act(t, "role", <<a, r>>)
    \/ sessionsOffered(t, a) /\ act(t, "sessions", <<a>>)
    \/ disableOffered(t, a) /\ act(t, "disable", <<a>>)
    \/ enableOffered(t, a) /\ act(t, "enable", <<a>>)

\* The dialog takes any address and role.
inviteDialog(t) ==
  /\ inviteOffered(t)
  /\ \E a \in Admins, r \in AdminRole : act(t, "invite", <<a, r>>)

invitationActions(t) ==
  \E i \in Invites :
    \/ resendOffered(t, i) /\ act(t, "resend", <<i>>)
    \/ revokeOffered(t, i) /\ act(t, "withdraw", <<i>>)

-----------------------------------------------------------------------------
(* Sensitive calls                                                         *)

admit(t) ==
  /\ at(t, "request") /\ call[t].op \in Sensitive
  /\ LET code == require_sensitive_permission(t)
     IN IF code = "ok"
          THEN call' = [call EXCEPT ![t].at = "admitted",
                                    ![t].version = version[browser[t]]]
          ELSE answer(t, code)
  /\ UNCHANGED <<accountVars, live, jar, token, page, changes,
                 teamVars>>

admitted(t, op) == at(t, "admitted") /\ call[t].op = op

super_admins == {a \in Admins : active[a] /\ role[a] = "super_admin"}

\* _lock_active_super_admins: the caller must be among the owners it locks.
lock_active_super_admins(t) == browser[t] \in super_admins

would_remove_last_super_admin(a) ==
  a \in super_admins /\ Cardinality(super_admins) <= 1

target(t) == call[t].arg[1]

refused(t) ==
  answer(t, "409") /\ UNCHANGED <<accountVars, live>>
nothingToDo(t) ==
  answer(t, "ok") /\ UNCHANGED <<accountVars, live>>

change_admin_role(t) ==
  /\ admitted(t, "role")
  /\ LET a == target(t)
         r == call[t].arg[2]
     IN CASE ~lock_active_super_admins(t) -> refused(t)
          [] lock_active_super_admins(t) /\ role[a] = r -> nothingToDo(t)
          [] lock_active_super_admins(t) /\ role[a] # r /\ r # "super_admin"
               /\ would_remove_last_super_admin(a) -> refused(t)
          [] OTHER -> /\ role' = [role EXCEPT ![a] = r]
                      /\ invalidate_admin_security_state(t, a)
                      /\ UNCHANGED <<browser, active>>
  /\ UNCHANGED <<jar, token, page, changes, teamVars>>

disable_unlocked_mutant(t) ==
  /\ admitted(t, "disable")
  /\ LET a == target(t)
     IN IF ~active[a] THEN nothingToDo(t)
        ELSE /\ active' = [active EXCEPT ![a] = FALSE]
             /\ invalidate_admin_security_state(t, a)
             /\ UNCHANGED <<browser, role>>
  /\ UNCHANGED <<jar, token, page, changes, teamVars>>

disable_admin(t) ==
  /\ admitted(t, "disable")
  /\ LET a == target(t)
     IN CASE ~lock_active_super_admins(t) -> refused(t)
          [] lock_active_super_admins(t) /\ ~active[a] -> nothingToDo(t)
          [] lock_active_super_admins(t) /\ active[a]
               /\ would_remove_last_super_admin(a) -> refused(t)
          [] OTHER -> /\ active' = [active EXCEPT ![a] = FALSE]
                      /\ invalidate_admin_security_state(t, a)
                      /\ UNCHANGED <<browser, role>>
  /\ UNCHANGED <<jar, token, page, changes, teamVars>>

enable_admin(t) ==
  /\ admitted(t, "enable")
  /\ LET a == target(t)
     IN CASE ~lock_active_super_admins(t) -> refused(t)
          [] lock_active_super_admins(t) /\ active[a] -> nothingToDo(t)
          [] OTHER -> /\ active' = [active EXCEPT ![a] = TRUE]
                      /\ invalidate_admin_security_state(t, a)
                      /\ UNCHANGED <<browser, role>>
  /\ UNCHANGED <<jar, token, page, changes, teamVars>>

revoke_sessions_unlocked_mutant(t) ==
  /\ admitted(t, "sessions")
  /\ invalidate_admin_security_state(t, target(t))
  /\ UNCHANGED <<browser, role, active, jar, token, page, changes,
                 teamVars>>

revoke_admin_access_sessions(t) ==
  /\ admitted(t, "sessions")
  /\ IF lock_active_super_admins(t)
       THEN /\ invalidate_admin_security_state(t, target(t))
            /\ UNCHANGED <<browser, role, active>>
       ELSE refused(t)
  /\ UNCHANGED <<jar, token, page, changes, teamVars>>

-----------------------------------------------------------------------------
(* Invitations                                                             *)

freshInvite == {i \in Invites : invite[i].state = "absent"}

\* Checks of create_admin_invitation: no account and no usable invitation.
invitable(a) ==
  /\ role[a] = "none"
  /\ \A i \in pendingInvitations : invite[i].email # a

\* The checks lock nothing when there is nothing yet to lock; the mail is sent
\* before the commit.
create_admin_invitation(t) ==
  /\ admitted(t, "invite")
  /\ IF invitable(target(t))
       THEN to(t, "mailing")
       ELSE answer(t, "409")
  /\ UNCHANGED <<accountVars, live, jar, token, page, changes,
                 seen, invite, links, opened>>

\* The mail to a is sent, with a link that the commit keeps or does not.
mailed(a, kept) ==
  /\ Len(links) < MaxLinks
  /\ links' = Append(links, [to |-> a, kept |-> kept])

\* The mail is sent and the invitation committed; or the mail fails; or it is
\* sent and the commit fails, and the link in it never works.
send_admin_invitation_email(t) ==
  /\ at(t, "mailing")
  /\ \/ /\ mailed(target(t), TRUE)
        /\ \E i \in freshInvite :
             /\ \A j \in freshInvite : i <= j
             /\ invite' = [invite EXCEPT ![i] =
                  [email |-> target(t), role |-> call[t].arg[2],
                   state |-> "live", link |-> Len(links) + 1]]
        /\ answer(t, "ok")
     \/ answer(t, "502") /\ UNCHANGED <<invite, links>>
     \/ mailed(target(t), FALSE) /\ answer(t, "500") /\ UNCHANGED invite
  /\ UNCHANGED <<accountVars, live, jar, token, page, changes,
                 seen, opened>>

\* resend_admin_invitation keeps its lock until the mail is sent and the new
\* link committed; a mail or a commit that fails leaves the old link.
resend_admin_invitation(t) ==
  /\ admitted(t, "resend")
  /\ LET i == target(t) IN
     \/ /\ invite[i].state = "live"
        /\ mailed(invite[i].email, TRUE)
        /\ invite' = [invite EXCEPT ![i].link = Len(links) + 1]
        /\ answer(t, "ok")
     \/ answer(t, IF invite[i].state = "live" THEN "502" ELSE "409")
        /\ UNCHANGED <<invite, links>>
     \/ /\ invite[i].state = "live"
        /\ mailed(invite[i].email, FALSE) /\ answer(t, "500")
        /\ UNCHANGED invite
  /\ UNCHANGED <<accountVars, live, jar, token, page, changes,
                 seen, opened>>

revoke_admin_invitation(t) ==
  /\ admitted(t, "withdraw")
  /\ IF invite[target(t)].state = "accepted"
       THEN answer(t, "409") /\ UNCHANGED invite
       ELSE /\ invite' = [invite EXCEPT ![target(t)].state = "revoked"]
            /\ answer(t, "ok")
  /\ UNCHANGED <<accountVars, live, jar, token, page, changes,
                 seen, links, opened>>

invitation_expires(i) ==
  /\ invite[i].state = "live"
  /\ changes < MaxChanges
  /\ changes' = changes + 1
  /\ invite' = [invite EXCEPT ![i].state = "expired"]
  /\ UNCHANGED <<accountVars, live, tabVars, seen, links, opened>>

\* A mailed link is opened, from the mail or from the address bar, where a
\* failed acceptance leaves it.
openInvitation(t, k) ==
  /\ k \in DOMAIN links /\ links[k].to = browser[t]
  /\ page[t] \in {"login", "invite_error"}
  /\ idle(t)
  /\ page' = [page EXCEPT ![t] = "invite_ready"]
  /\ opened' = [opened EXCEPT ![t] = k]
  /\ UNCHANGED <<accountVars, live, jar, token, call, changes,
                 seen, invite, links>>

readyScreen(t) == page[t] = "invite_ready"
acceptingScreen(t) == page[t] = "invite_accepting"

handleAcceptInvitation(t) ==
  /\ readyScreen(t)
  /\ page' = [page EXCEPT ![t] = "invite_accepting"]
  /\ call' = [call EXCEPT ![t] = [Idle EXCEPT !.op = "accept",
                                              !.at = "request"]]
  /\ UNCHANGED <<accountVars, live, jar, token, changes,
                 teamVars>>

accept_withdrawn_mutant(t) ==
  /\ at(t, "request") /\ call[t].op = "accept"
  /\ LET a == browser[t]
         usableInvites == {i \in Invites :
                             /\ invite[i].state \in {"live", "revoked"}
                             /\ invite[i].link = opened[t]
                             /\ invite[i].email = a}
     IN IF usableInvites # {} /\ role[a] = "none"
          THEN \E i \in usableInvites :
                 /\ invite' = [invite EXCEPT ![i].state = "accepted"]
                 /\ role' = [role EXCEPT ![a] = invite[i].role]
                 /\ active' = [active EXCEPT ![a] = TRUE]
                 /\ answer(t, "ok")
          ELSE answer(t, "409") /\ UNCHANGED <<invite, role, active>>
  /\ UNCHANGED <<browser, version, live, jar, token, page, changes, seen,
                 links, opened>>

\* The usable invitations of the link that is open in t.  The identity is the
\* one Cloudflare vouches for; it must be the invited one.
acceptable(t) ==
  {i \in pendingInvitations :
    invite[i].link = opened[t] /\ invite[i].email = browser[t]}

\* accept_admin_invitation makes an account of one that has none.
accept_admin_invitation(t) ==
  /\ at(t, "request") /\ call[t].op = "accept"
  /\ LET a == browser[t]
     IN IF acceptable(t) # {} /\ role[a] = "none"
          THEN \E i \in acceptable(t) :
                 /\ invite' = [invite EXCEPT ![i].state = "accepted"]
                 /\ role' = [role EXCEPT ![a] = invite[i].role]
                 /\ active' = [active EXCEPT ![a] = TRUE]
                 /\ answer(t, "ok")
          ELSE answer(t, "409") /\ UNCHANGED <<invite, role, active>>
  /\ UNCHANGED <<browser, version, live, jar, token, page, changes, seen,
                 links, opened>>

\* The page's answer.  An accepted invitation goes on to a session.
invitation_answered(t) ==
  /\ acceptingScreen(t) /\ at(t, "answered")
  /\ IF call[t].code = "ok"
       THEN page' = [page EXCEPT ![t] = "invite_accepted"]
            /\ begin(t, "enter", <<>>)
       ELSE page' = [page EXCEPT ![t] = "invite_error"]
            /\ done(t)
  /\ UNCHANGED <<accountVars, live, jar, token, changes,
                 teamVars>>

\* The acceptance's answer was lost.
invitation_unanswered(t) ==
  /\ acceptingScreen(t) /\ idle(t)
  /\ page' = [page EXCEPT ![t] = "invite_error"]
  /\ UNCHANGED <<accountVars, live, jar, token, call, changes,
                 teamVars>>

-----------------------------------------------------------------------------
(* Answers of sensitive calls                                              *)

\* 401 goes to the login page, success loads the team again, anything else is
\* shown.
answered(t) ==
  /\ at(t, "answered") /\ call[t].op \in Sensitive \union {"load"}
  /\ call[t].op = "load" => call[t].code = "401"
  /\ CASE call[t].code = "401" -> session_expired(t)
       [] call[t].code = "ok" -> begin(t, "load", <<>>)
                                 /\ UNCHANGED <<token, page>>
       [] OTHER -> done(t)
                   /\ UNCHANGED <<token, page>>
  /\ leavePage
  /\ UNCHANGED <<accountVars, live, jar, changes>>

TeamStep(t) ==
  \/ SessionStep(t) /\ leavePage
  \/ getCurrentAdminSession(t) \/ loadTeam(t)
  \/ admit(t) \/ answered(t)
  \/ change_admin_role(t) \/ disable_admin(t) \/ enable_admin(t)
  \/ revoke_admin_access_sessions(t)
  \/ create_admin_invitation(t) \/ send_admin_invitation_email(t)
  \/ resend_admin_invitation(t) \/ revoke_admin_invitation(t)
  \/ accept_admin_invitation(t)
  \/ invitation_answered(t) \/ invitation_unanswered(t)

UserStep(t) ==
  \/ openTeam(t) \/ refresh(t) \/ reloadPage(t)
  \/ performSensitiveAction(t) \/ inviteDialog(t) \/ invitationActions(t)
  \/ \E k \in Links : openInvitation(t, k)
  \/ handleAcceptInvitation(t)
  \/ handleAdminLogout(t) /\ UNCHANGED teamVars

TeamNext ==
  \/ \E t \in Tabs :
       TeamStep(t) \/ UserStep(t) \/ (answer_lost(t) /\ UNCHANGED teamVars)
  \/ \E a \in Admins : admin_session_expires(a) /\ UNCHANGED teamVars
  \/ \E i \in Invites : invitation_expires(i)

TeamSpec == TeamInit /\ [][TeamNext]_vars

-----------------------------------------------------------------------------
(* Properties                                                              *)

\* Every variable holds a value of its type, and a security version is never
\* above the number of changes.
TeamTypeOK ==
  /\ role \in [Admins -> AdminRole \union {"none"}]
  /\ active \in [Admins -> BOOLEAN]
  /\ version \in [Admins -> 1 .. MaxChanges + 1]
  /\ jar \in [Admins -> [session : Sessions \union {"none"}, csrf : Token]]
  /\ token \in [Tabs -> Token]
  /\ page \in [Tabs -> {"login", "team", "out"} \union InvitationScreens]
  /\ \A i \in Invites :
       invite[i].state \in {"absent", "live", "accepted", "revoked", "expired"}
  /\ Len(links) <= MaxLinks
  /\ changes \in 0 .. MaxChanges

\* There is always an active owner, although owners may demote and disable
\* each other at the same time.
LastSuperAdmin == super_admins # {}

\* The role, the state or the sessions of an account are changed only while
\* the administrator in whose name it is done is an active owner, whenever the
\* call was admitted.
OwnersOnly ==
  [][\A a \in Admins :
       role[a] # "none" /\ (\/ role'[a] # role[a] \/ active'[a] # active[a]
                            \/ version'[a] # version[a])
         => \E t \in Tabs : /\ at(t, "admitted") /\ call[t].op \in Members
                            /\ call'[t].at = "answered"
                            /\ browser[t] \in super_admins]_vars

\* A link works until its invitation is accepted, withdrawn, expired or sent
\* again.  A mailed one that was not kept never did.
invitationLink ==
  [k \in Links |->
    CASE k > Len(links) -> "absent"
      [] \E i \in Invites : invite[i].link = k /\ invite[i].state = "live"
           -> "live"
      [] \E i \in Invites : invite[i].link = k /\ invite[i].state = "accepted"
           -> "used"
      [] k <= Len(links) /\ ~links[k].kept -> "absent"
      [] OTHER -> "dead"]

Invitation ==
  INSTANCE OneTimeCredential WITH Ids <- Links, credential <- invitationLink

\* Each invitation link creates at most one account, and none once it was
\* withdrawn or replaced.
InvitationIsOneTime == Invitation!CredentialSpec
=============================================================================
