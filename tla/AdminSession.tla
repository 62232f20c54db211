---------------------------- MODULE AdminSession ----------------------------
(***************************************************************************)
(* Administrator sessions: the rows the server keeps, the cookies a browser *)
(* has, and the request-verification token each of its tabs keeps in        *)
(* memory.                                                                 *)
(*                                                                         *)
(* Every read of the session replaces the token on the server, in the       *)
(* cookie and in the tab that asked, and in no other tab.  A tab without a  *)
(* token reads the session first and creates one when there is none.  The   *)
(* steps of different tabs interleave, and answers arrive late, out of      *)
(* order or not at all.  A tab has one call under way: the calls that cross *)
(* are those of different tabs.                                             *)
(***************************************************************************)
EXTENDS Integers, FiniteSets, SequencesExt

CONSTANTS
  Admins, Founder,    \* administrators and invitees, by email, and the
                      \* administrator the bootstrap script made
  Tabs, Browsers,     \* tabs, and the ways they may belong to browsers
  Sessions,           \* pool of session rows
  OtherRoles,         \* the roles besides the owners': reviewer and admin
  MaxActiveSessions,  \* admin_max_active_sessions
  MaxChanges          \* bound on changes, sign-outs, expiries, lost answers

ASSUME AdminBoundAssumption ==
  /\ Founder \in Admins /\ Browsers \subseteq [Tabs -> Admins]
  /\ IsFiniteSet(Tabs)
  /\ Sessions \intersect {"none", "old"} = {}
  /\ MaxActiveSessions \in Nat \ {0}
  /\ MaxChanges \in Nat

AdminRole == OtherRoles \union {"super_admin"}

VARIABLES
  browser,                \* whose browser a tab belongs to, never changed
  role, active, version,  \* the accounts; role "none": no account
  live,                   \* rows not revoked or expired, oldest first
  jar,                    \* the cookies of each browser
  token,                  \* adminCsrfToken of each tab
  page,                   \* what each tab shows
  call,                   \* the call of each tab that is under way
  changes

accountVars == <<browser, role, active, version>>
tabVars == <<jar, token, page, call>>
sessionVars == <<accountVars, live, tabVars, changes>>

(* Only which secret a session accepts matters: a copy of it is written as  *)
(* the session, and becomes "old" when the session gets another one.        *)
Token == Sessions \union {"none", "old"}

NoCookies == [session |-> "none", csrf |-> "none"]
NoRow == [id |-> "none", version |-> 0]
\* A call: version is that of the caller's account when it was admitted, and
\* evicts the sessions that a new one pushes out.
Idle == [op |-> "none", arg |-> <<>>, at |-> "none", version |-> 0,
         row |-> NoRow, evicts |-> {}, csrf |-> "none", code |-> "none"]

AdminInit ==
  /\ browser \in Browsers
  /\ \E owners \in SUBSET Admins :
       /\ Founder \in owners
       /\ role = [a \in Admins |->
                   IF a \in owners THEN "super_admin" ELSE "none"]
       /\ active = [a \in Admins |-> a \in owners]
  /\ version = [a \in Admins |-> 1]
  /\ live = [a \in Admins |-> <<>>]
  /\ jar = [a \in Admins |-> NoCookies]
  /\ token = [t \in Tabs |-> "none"]
  /\ page = [t \in Tabs |-> "login"]
  /\ call = [t \in Tabs |-> Idle]
  /\ changes = 0

-----------------------------------------------------------------------------
(* The server's sessions                                                   *)

\* get_valid_admin_session for the session s that a's browser presents.
get_valid_admin_session(a, s) ==
  active[a] /\ \E r \in ToSet(live[a]) : r.id = s /\ r.version = version[a]

\* A new random secret is one that nobody has a copy of.
freshSessions ==
  {s \in Sessions :
    /\ \A a \in Admins : /\ \A r \in ToSet(live[a]) : r.id # s
                         /\ jar[a].session # s /\ jar[a].csrf # s
    /\ \A t \in Tabs : s \notin {call[t].row.id, call[t].csrf, token[t]}
                               \union call[t].evicts}
freshSession == CHOOSE s \in freshSessions : TRUE

\* rotate_admin_csrf_token: all copies of the secret of s are old, but for the
\* one in the answer to the tab t.
superseded(s, copy) == IF copy = s THEN "old" ELSE copy
rotate_admin_csrf_token(t, s, step, code) ==
  /\ token' = [u \in Tabs |-> superseded(s, token[u])]
  /\ jar' = [a \in Admins |->
              [jar[a] EXCEPT !.csrf = superseded(s, @)]]
  /\ call' = [u \in Tabs |->
       IF u = t THEN [call[t] EXCEPT !.at = step, !.csrf = s, !.code = code]
       ELSE [call[u] EXCEPT !.csrf = superseded(s, @)]]

answer(t, code) ==
  call' = [call EXCEPT ![t].at = "answered", ![t].code = code, ![t].arg = <<>>]

invalidate_twice_mutant(t, a) ==
  /\ version' = [version EXCEPT ![a] = @ + 2]
  /\ live' = [live EXCEPT ![a] = <<>>]
  /\ answer(t, "ok")

\* invalidate_admin_security_state, and the answer to the tab t.  The caller's
\* own account was loaded when the call was admitted and is not read again
\* under the lock: the version it gets may be one that others have written
\* meanwhile, or an earlier one.
invalidate_admin_security_state(t, a) ==
  /\ version' = [version EXCEPT ![a] =
       IF a = browser[t] THEN call[t].version + 1 ELSE @ + 1]
  /\ live' = [live EXCEPT ![a] = <<>>]
  /\ answer(t, "ok")

\* A session that is found invalid, logged out or expired is revoked.
dropped(a, s) ==
  LET found == {i \in DOMAIN live[a] : live[a][i].id = s}
  IN IF found = {} THEN live
     ELSE [live EXCEPT ![a] = RemoveAt(@, CHOOSE i \in found : TRUE)]

admin_session_expires(a) ==
  /\ changes < MaxChanges
  /\ changes' = changes + 1
  /\ \E r \in ToSet(live[a]) : live' = dropped(a, r.id)
  /\ UNCHANGED <<accountVars, tabVars>>

-----------------------------------------------------------------------------
(* A tab and its calls                                                     *)

cookies(t) == jar[browser[t]]
idle(t) == call[t].at = "none"
at(t, step) == call[t].at = step
to(t, step) == call' = [call EXCEPT ![t].at = step]
done(t) == call' = [call EXCEPT ![t] = Idle]

\* A handler starts its call; ensureAdminSession first, without a token.
begin(t, op, arg) ==
  call' = [call EXCEPT ![t] =
    [Idle EXCEPT !.op = op, !.arg = arg,
                 !.at = IF token[t] = "none" THEN "restore" ELSE "request"]]

\* The tab has a token, and goes on with what it needed one for.
initialized(t) ==
  /\ token' = [token EXCEPT ![t] = call[t].csrf]
  /\ call' = [call EXCEPT ![t] =
       IF @.op = "enter" THEN Idle
       ELSE [Idle EXCEPT !.op = call[t].op, !.arg = call[t].arg,
                         !.at = "request"]]

\* clearAdminSessionState
clearAdminSessionState(t) ==
  /\ token' = [token EXCEPT ![t] = "none"]
  /\ done(t)

\* signalAdminSessionExpired: the bridge goes to the login page.
session_expired(t) ==
  clearAdminSessionState(t) /\ page' = [page EXCEPT ![t] = "login"]

\* restoreAdminSession: the session is read, and its token replaced, or the
\* answer is 401.
restoreAdminSession(t) ==
  /\ at(t, "restore")
  /\ LET a == browser[t]
         s == cookies(t).session
     IN IF get_valid_admin_session(a, s)
          THEN rotate_admin_csrf_token(t, s, "restored", "ok") /\ UNCHANGED live
          ELSE /\ to(t, "establish")
               /\ live' = dropped(a, s)
               /\ UNCHANGED <<jar, token>>
  /\ UNCHANGED <<accountVars, page, changes>>

restored(t) ==
  /\ at(t, "restored")
  /\ jar' = [jar EXCEPT ![browser[t]].csrf = call[t].csrf]
  /\ initialized(t)
  /\ UNCHANGED <<accountVars, live, page, changes>>

\* establishAdminSession: the account is read, and the new session gets the
\* version it has.
establishAdminSession(t) ==
  /\ at(t, "establish")
  /\ LET a == browser[t] IN
     IF role[a] # "none" /\ active[a]
       THEN /\ freshSessions # {}
            /\ call' = [call EXCEPT ![t].at = "creating",
                 ![t].row = [id |-> freshSession, version |-> version[a]]]
            /\ UNCHANGED <<token, page>>
       ELSE session_expired(t)
  /\ UNCHANGED <<accountVars, live, jar, changes>>

\* enforce_active_session_limit: the query sees the committed sessions and the
\* new one, and locks nothing.  (The row locks that keep a change of the
\* account out until the commit are left out, so more orders are checked.)
enforce_active_session_limit(t) ==
  /\ at(t, "creating")
  /\ LET rows == live[browser[t]]
         over == Len(rows) + 1 - MaxActiveSessions
     IN call' = [call EXCEPT ![t].at = "limited",
                   ![t].evicts =
                     {s \in Sessions : \E i \in 1 .. over : rows[i].id = s}]
  /\ UNCHANGED <<accountVars, live, jar, token, page, changes>>

\* create_admin_session ends with the route's commit.  Two creations that did
\* not see each other's session both stay.
create_admin_session(t) ==
  /\ at(t, "limited")
  /\ live' = [live EXCEPT ![browser[t]] =
       Append(SelectSeq(@, LAMBDA r : r.id \notin call[t].evicts),
              call[t].row)]
  /\ call' = [call EXCEPT ![t].at = "created", ![t].csrf = call[t].row.id]
  /\ UNCHANGED <<accountVars, jar, token, page, changes>>

established(t) ==
  /\ at(t, "created")
  /\ jar' = [jar EXCEPT ![browser[t]] =
       [session |-> call[t].row.id, csrf |-> call[t].csrf]]
  /\ initialized(t)
  /\ UNCHANGED <<accountVars, live, page, changes>>

\* validate_admin_session_csrf: header, cookie and session agree.
validate_admin_session_csrf(t) ==
  token[t] = cookies(t).session /\ cookies(t).csrf = cookies(t).session

\* The dependencies of a sensitive route: session, CSRF, then permission.
\* The role is read here and not again.
require_sensitive_permission(t) ==
  LET a == browser[t]
  IN CASE ~get_valid_admin_session(a, cookies(t).session) -> "401"
       [] ~validate_admin_session_csrf(t) -> "403"
       [] role[a] # "super_admin" -> "403"
       [] OTHER -> "ok"

\* The shell offers to sign out on every page, in the sidebar and the drawer.
sidebar(t) == page[t] = "team"
mobileDrawer(t) == page[t] = "team"

handleAdminLogout(t) ==
  /\ sidebar(t) \/ mobileDrawer(t)
  /\ idle(t)
  /\ changes < MaxChanges
  /\ changes' = changes + 1
  /\ begin(t, "logout", <<>>)
  /\ UNCHANGED <<accountVars, live, jar, token, page>>

\* destroy_admin_session
destroy_admin_session(t) ==
  /\ at(t, "request") /\ call[t].op = "logout"
  /\ LET a == browser[t]
         s == cookies(t).session
     IN IF get_valid_admin_session(a, s) /\ validate_admin_session_csrf(t)
          THEN answer(t, "ok") /\ live' = dropped(a, s)
          ELSE /\ answer(t, IF s = "none" THEN "ok" ELSE "403")
               /\ UNCHANGED live
  /\ UNCHANGED <<accountVars, jar, token, page, changes>>

\* logoutAdminSession ends.  The browser leaves for Cloudflare's logout
\* whatever the answer was; only a granted one clears the cookies.
logoutAdminSession(t) ==
  /\ at(t, "answered") /\ call[t].op = "logout"
  /\ jar' = IF call[t].code = "ok"
              THEN [jar EXCEPT ![browser[t]] = NoCookies] ELSE jar
  /\ page' = [page EXCEPT ![t] = "out"]
  /\ clearAdminSessionState(t)
  /\ UNCHANGED <<accountVars, live, changes>>

\* An answer does not arrive: the handler shows an error, and the browser has
\* neither the cookies nor the token of it.
answer_lost(t) ==
  /\ call[t].at \in {"restored", "created", "answered"}
  /\ call[t].op # "logout"
  /\ changes < MaxChanges
  /\ changes' = changes + 1
  /\ done(t)
  /\ UNCHANGED <<accountVars, live, jar, token, page>>

SessionStep(t) ==
  \/ restoreAdminSession(t) \/ restored(t)
  \/ establishAdminSession(t) \/ enforce_active_session_limit(t)
  \/ create_admin_session(t) \/ established(t)
  \/ destroy_admin_session(t) \/ logoutAdminSession(t)
=============================================================================
