---------------------------- MODULE AccessGrants ----------------------------
(***************************************************************************)
(* Discord access: grants issued to approved requests, the invites behind  *)
(* them, and the gateway worker that gives a member the verified role and   *)
(* then consumes the grant.  Composed with RequestLifecycle: a decision or  *)
(* a revocation is a step of both.                                          *)
(*                                                                         *)
(* issue_access_grant, revoke_access_grant and the consumption lock the     *)
(* rows they decide on and are one step each; the expiry of a grant reads   *)
(* and writes without a lock and is two.  Every call of the worker to       *)
(* Discord is a step of its own, and may fail.                              *)
(***************************************************************************)
EXTENDS RequestLifecycle

CONSTANTS
  Users,          \* Discord users
  Owner,          \* assigned_discord_user_id of each request
  GrantExpirers,  \* grant expiry handlers that may be open at the same time
  Tasks,          \* join and reconciliation handlers of the worker
  InviteTTL,      \* discord_invite_max_age_seconds
  MaxInvites,     \* bound on the invites ever created
  MaxFaults       \* bound on failed calls and crashes

ASSUME OwnerAssumption == Owner \in [Requests -> Users]
ASSUME AccessBoundAssumption ==
  InviteTTL \in Nat \ {0} /\ MaxInvites \in Nat /\ MaxFaults \in Nat

VARIABLES
  grant,         \* status of the grant row, "not_issued" without one
  grantExpires,  \* its expires_at
  grantInvite,   \* its invite_reference, 0 before the first
  issuedCount,   \* times the grant was issued (history)
  usedCount,     \* times the grant was consumed (history)
  auto,          \* approvals whose handler has yet to issue the grant
  gexp,          \* the grants an open expiry handler has read as due
  invites,       \* invites that exist at Discord
  minted,        \* number of invites created so far
  member,        \* users in the guild
  role,          \* users with the verified role
  seen,          \* users with the role in the worker's member cache
  task,          \* what each handler of the worker is doing
  joins,         \* users whose on_member_join has not looked for a grant yet
  loop,          \* the reconciliation loop: "starting", "running", "stopped"
  faults         \* failed calls and crashes so far

grantRow == <<grant, grantExpires, grantInvite, issuedCount, usedCount>>
discordVars == <<invites, minted, member, role, seen>>
workerVars == <<task, joins, loop>>
accessVars == <<grantRow, auto, gexp, discordVars, workerVars, faults>>
vars == <<lifecycleVars, accessVars>>

-----------------------------------------------------------------------------
NoTask == [pc |-> "idle", req |-> None]

grantDue(r) == grantExpires[r] <= now

Fault == faults < MaxFaults /\ faults' = faults + 1

AccessInit ==
  /\ LifecycleInit
  /\ grant = [r \in Requests |-> "not_issued"]
  /\ grantExpires = [r \in Requests |-> 0]
  /\ grantInvite = [r \in Requests |-> 0]
  /\ issuedCount = [r \in Requests |-> 0]
  /\ usedCount = [r \in Requests |-> 0]
  /\ auto = {}
  /\ gexp = [e \in GrantExpirers |-> {}]
  /\ invites = {}
  /\ minted = 0
  /\ member = [u \in Users |-> FALSE]
  /\ role = [u \in Users |-> FALSE]
  /\ seen = [u \in Users |-> FALSE]
  /\ task = [k \in Tasks |-> NoTask]
  /\ joins = {}
  /\ loop = "starting"
  /\ faults = 0

-----------------------------------------------------------------------------
(* Decision, issuing and revoking                                          *)

perform_any_decision_mutant(r, adm, target) ==
  /\ record_decision(r, adm, target)
  /\ auto' = auto \union {r}
  /\ UNCHANGED <<grantRow, gexp, discordVars, workerVars, faults>>

\* The approving handler goes on to issue_access_grant in the same database
\* session, where the request object it has refreshed stays "approved".
perform_decision(r, adm, target) ==
  /\ record_decision(r, adm, target)
  /\ auto' = IF target = "approved" THEN auto \union {r} ELSE auto
  /\ UNCHANGED <<grantRow, gexp, discordVars, workerVars, faults>>

create_targeted_discord_invite(r) ==
  /\ minted < MaxInvites
  /\ minted' = minted + 1
  /\ invites' = invites \union
                  {[id |-> minted + 1, req |-> r, exp |-> now + InviteTTL]}
  /\ UNCHANGED <<member, role, seen>>

\* The part after the status check: the invite is created, and the row is
\* committed, or its commit fails and the cleanup call raises TypeError, which
\* is logged: the invite stays.
issue_access_grant(r) ==
  /\ grant[r] \notin {"issued", "consumed"}
  /\ create_targeted_discord_invite(r)
  /\ \/ /\ grant' = [grant EXCEPT ![r] = "issued"]
        /\ grantExpires' = [grantExpires EXCEPT ![r] = now + InviteTTL]
        /\ grantInvite' = [grantInvite EXCEPT ![r] = minted + 1]
        /\ issuedCount' = [issuedCount EXCEPT ![r] = @ + 1]
        /\ UNCHANGED <<usedCount, faults>>
     \/ Fault /\ UNCHANGED grantRow
  /\ UNCHANGED <<lifecycleVars, gexp, workerVars>>

grant_discord_access(r) ==
  /\ status[r] = "approved"
  /\ issue_access_grant(r)
  /\ UNCHANGED auto

auto_issue(r) ==
  /\ r \in auto
  /\ issue_access_grant(r)
  /\ auto' = auto \ {r}

\* A grant exists already, Discord refuses the invite, or the process dies.
auto_give_up(r) ==
  /\ r \in auto
  /\ auto' = auto \ {r}
  /\ UNCHANGED <<lifecycleVars, grantRow, gexp, discordVars, workerVars, faults>>

revoke_resets_request_mutant(r) ==
  /\ exists(r)
  /\ status' = [status EXCEPT ![r] = "revoked"]
  /\ revokedAt' = [revokedAt EXCEPT ![r] = TRUE]
  /\ grant' = [grant EXCEPT ![r] = IF @ = "not_issued" THEN @ ELSE "revoked"]
  /\ UNCHANGED <<now, reviewer, count, expires, rows, decisions, result, sub,
                 exp, grantExpires, grantInvite, issuedCount, usedCount,
                 auto, gexp, discordVars, workerVars, faults>>

\* revoke_request writes the grant row, whatever its status, and leaves the
\* invite and the role alone.
revoke_request_and_grant(r) ==
  /\ revoke_request(r)
  /\ grant' = [grant EXCEPT ![r] = IF @ = "not_issued" THEN @ ELSE "revoked"]
  /\ UNCHANGED <<grantExpires, grantInvite, issuedCount, usedCount,
                 auto, gexp, discordVars, workerVars, faults>>

\* Discord answers 404 for an invite that is used or gone, which is fine.
delete_discord_invite(id) == {i \in invites : i.id # id}

\* The invite of an issued grant is deleted at Discord before the commit; an
\* error there leaves everything as it was, one after it loses the commit.
revoke_access_grant(r) ==
  /\ grant[r] \notin {"not_issued", "revoked"}
  /\ invites' = IF grant[r] = "issued"
                  THEN delete_discord_invite(grantInvite[r])
                  ELSE invites
  /\ \/ grant' = [grant EXCEPT ![r] = "revoked"] /\ UNCHANGED faults
     \/ Fault /\ UNCHANGED grant
  /\ UNCHANGED <<lifecycleVars, grantExpires, grantInvite, issuedCount,
                 usedCount, auto, gexp, minted, member, role, seen, workerVars>>

-----------------------------------------------------------------------------
(* Grant expiry                                                            *)

expirableGrants == {r \in Requests : grant[r] = "issued" /\ grantDue(r)}

\* The job reads every due grant.
expire_due_access_grants_read(e) ==
  /\ gexp[e] = {}
  /\ expirableGrants # {}
  /\ gexp' = [gexp EXCEPT ![e] = expirableGrants]
  /\ UNCHANGED <<lifecycleVars, grantRow, auto, discordVars, workerVars, faults>>

\* The applicant's access page and the worker's eligibility check read one.
expire_grant_if_needed_read(e, r) ==
  /\ gexp[e] = {}
  /\ r \in expirableGrants
  /\ gexp' = [gexp EXCEPT ![e] = {r}]
  /\ UNCHANGED <<lifecycleVars, grantRow, auto, discordVars, workerVars, faults>>

expire_grants_commit(e) ==
  /\ gexp[e] # {}
  /\ grant' = [r \in Requests |->
                 IF r \in gexp[e] THEN "expired" ELSE grant[r]]
  /\ gexp' = [gexp EXCEPT ![e] = {}]
  /\ UNCHANGED <<lifecycleVars, grantExpires, grantInvite, issuedCount,
                 usedCount, auto, discordVars, workerVars, faults>>

expire_grants_abort(e) ==
  /\ gexp[e] # {}
  /\ gexp' = [gexp EXCEPT ![e] = {}]
  /\ UNCHANGED <<lifecycleVars, grantRow, auto, discordVars, workerVars, faults>>

-----------------------------------------------------------------------------
(* The gateway worker: on_member_join and _grant_existing_member_access     *)

\* The issued grant of the owner with the latest issued_at.
latest(r) ==
  \A q \in Requests :
    Owner[q] = Owner[r] /\ grant[q] = "issued"
      => grantExpires[q] <= grantExpires[r]

eligible(r) ==
  grant[r] = "issued" /\ latest(r) /\ ~grantDue(r) /\ status[r] = "approved"

start(k, r) ==
  /\ task[k] = NoTask
  /\ member[Owner[r]]
  /\ eligible(r)
  /\ task' = [task EXCEPT ![k] = [pc |-> "add", req |-> r]]

\* The handler of a join looks for a grant once, whatever the loop does.
on_member_join(k, r) ==
  /\ Owner[r] \in joins
  /\ start(k, r)
  /\ joins' = joins \ {Owner[r]}
  /\ UNCHANGED <<lifecycleVars, grantRow, auto, gexp, discordVars, loop,
                 faults>>

\* No grant, or the lookup raises: the handler ends.
on_member_join_ends(u) ==
  /\ u \in joins
  /\ \/ UNCHANGED faults /\ \A r \in Requests : Owner[r] = u => ~eligible(r)
     \/ Fault
  /\ joins' = joins \ {u}
  /\ UNCHANGED <<lifecycleVars, grantRow, auto, gexp, discordVars, task, loop>>

\* _grant_existing_member_access, in the first reconciliation of on_ready and
\* then in the loop.
reconcile(k, r) ==
  /\ loop # "stopped"
  /\ start(k, r)
  /\ UNCHANGED <<lifecycleVars, grantRow, auto, gexp, discordVars, joins, loop,
                 faults>>

\* on_ready starts the loop after its first reconciliation.
on_ready ==
  /\ loop = "starting"
  /\ loop' = "running"
  /\ UNCHANGED <<lifecycleVars, grantRow, auto, gexp, discordVars, task, joins,
                 faults>>

\* The guild or the role is not there, or the first reconciliation raises,
\* which nothing in on_ready catches: the loop is not started.
on_ready_raises ==
  /\ loop = "starting"
  /\ Fault
  /\ loop' = "stopped"
  /\ UNCHANGED <<lifecycleVars, grantRow, auto, gexp, discordVars, task, joins>>

\* Discord begins a new session with the worker and on_ready is called again.
reconnected ==
  /\ loop = "stopped"
  /\ loop' = "starting"
  /\ UNCHANGED <<lifecycleVars, grantRow, auto, gexp, discordVars, task, joins,
                 faults>>

goto(k, pc) == task' = [task EXCEPT ![k].pc = pc]

finish_keeping_grant_mutant(k) == goto(k, "idle")

finish(k) == task' = [task EXCEPT ![k] = NoTask]

\* The call is skipped when the member cache shows the role.
add_roles(k) ==
  LET u == Owner[task[k].req] IN
  /\ task[k].pc = "add"
  /\ role' = [role EXCEPT ![u] = @ \/ ~seen[u]]
  /\ goto(k, "consume")
  /\ UNCHANGED <<lifecycleVars, grantRow, auto, gexp, invites, minted, member,
                 seen, joins, loop, faults>>

\* Forbidden and HTTPException end the handler, any other exception leads to
\* the removal of the role; the call may have taken effect before it failed.
add_roles_fails(k) ==
  LET u == Owner[task[k].req] IN
  /\ task[k].pc = "add"
  /\ ~seen[u]
  /\ Fault
  /\ \E applied \in BOOLEAN : role' = [role EXCEPT ![u] = @ \/ applied]
  /\ finish(k) \/ goto(k, "remove")
  /\ UNCHANGED <<lifecycleVars, grantRow, auto, gexp, invites, minted, member,
                 seen, joins, loop>>

consumeGrant(r) ==
  /\ grant' = [grant EXCEPT ![r] = "consumed"]
  /\ usedCount' = [usedCount EXCEPT ![r] = @ + 1]
  /\ UNCHANGED <<grantExpires, grantInvite, issuedCount>>

consumable_twice_mutant(r) ==
  grant[r] \in {"issued", "consumed"} /\ ~grantDue(r)
    /\ status[r] = "approved"

consumable_inverted_expiry_mutant(r) ==
  grant[r] = "issued" /\ grantDue(r) /\ status[r] = "approved"

consumable(r) == grant[r] = "issued" /\ ~grantDue(r) /\ status[r] = "approved"

consume_without_removal_mutant(k) ==
  LET r == task[k].req IN
  /\ task[k].pc = "consume"
  /\ IF consumable(r)
       THEN consumeGrant(r)
       ELSE UNCHANGED grantRow
  /\ finish(k)
  /\ UNCHANGED <<lifecycleVars, auto, gexp, discordVars, joins, loop, faults>>

\* The grant and the request are revalidated under their row locks.
consume_access_grant(k) ==
  LET r == task[k].req IN
  /\ task[k].pc = "consume"
  /\ IF consumable(r)
       THEN consumeGrant(r) /\ finish(k)
       ELSE /\ grant' = [grant EXCEPT ![r] =
                           IF @ = "issued" /\ grantDue(r) THEN "expired" ELSE @]
            /\ goto(k, "remove")
            /\ UNCHANGED <<grantExpires, grantInvite, issuedCount, usedCount>>
  /\ UNCHANGED <<lifecycleVars, auto, gexp, discordVars, joins, loop, faults>>

\* The database aborts the transaction (a deadlock with revoke_request, which
\* locks in the other order), or answers too late that it has committed.
consume_access_grant_raises(k) ==
  LET r == task[k].req IN
  /\ task[k].pc = "consume"
  /\ Fault
  /\ (consumable(r) /\ consumeGrant(r)) \/ UNCHANGED grantRow
  /\ goto(k, "remove")
  /\ UNCHANGED <<lifecycleVars, auto, gexp, discordVars, joins, loop>>

remove_role_after_failed_consumption(k) ==
  /\ task[k].pc = "remove"
  /\ role' = [role EXCEPT ![Owner[task[k].req]] = FALSE]
  /\ finish(k)
  /\ UNCHANGED <<lifecycleVars, grantRow, auto, gexp, invites, minted, member,
                 seen, joins, loop, faults>>

remove_roles_fails(k) ==
  /\ task[k].pc = "remove"
  /\ Fault
  /\ finish(k)
  /\ UNCHANGED <<lifecycleVars, grantRow, auto, gexp, discordVars, joins, loop>>

\* The worker dies and comes back: on_ready starts with a fresh cache, and the
\* joins it was told of are lost.
worker_restart ==
  /\ Fault
  /\ task' = [k \in Tasks |-> NoTask]
  /\ joins' = {}
  /\ loop' = "starting"
  /\ seen' = role
  /\ UNCHANGED <<lifecycleVars, grantRow, auto, gexp, invites, minted, member,
                 role>>

-----------------------------------------------------------------------------
(* Discord                                                                 *)

\* The gateway delivers a member update to the cache.
member_update(u) ==
  /\ seen[u] # role[u]
  /\ seen' = [seen EXCEPT ![u] = role[u]]
  /\ UNCHANGED <<lifecycleVars, grantRow, auto, gexp, invites, minted, member,
                 role, workerVars, faults>>

\* The user enters the guild with an invite targeted at them, which is then
\* used up (max_uses is one), or in some way of their own.
guild_join(u) ==
  /\ ~member[u]
  /\ member' = [member EXCEPT ![u] = TRUE]
  /\ \/ \E i \in invites : /\ Owner[i.req] = u /\ i.exp > now
                           /\ invites' = invites \ {i}
     \/ UNCHANGED invites
  /\ joins' = joins \union {u}
  /\ UNCHANGED <<lifecycleVars, grantRow, auto, gexp, minted, role, seen, task,
                 loop, faults>>

-----------------------------------------------------------------------------
RowStep ==
  \/ Tick
  \/ \E a \in Applicants : ApplicantStep(a)
  \/ \E e \in Expirers : ExpiryStep(e)
  \/ \E r \in Requests : CaseStep(r)

GrantStep(r) ==
  \/ \E adm \in Admins, target \in DecisionTargets :
       perform_decision(r, adm, target)
  \/ grant_discord_access(r)
  \/ auto_issue(r)
  \/ auto_give_up(r)
  \/ revoke_request_and_grant(r)
  \/ revoke_access_grant(r)

GrantExpiryStep(e) ==
  \/ expire_due_access_grants_read(e)
  \/ \E r \in Requests : expire_grant_if_needed_read(e, r)
  \/ expire_grants_commit(e)
  \/ expire_grants_abort(e)

\* What a handler of the worker does next when nothing fails.
TaskStep(k) ==
  \/ \E r \in Requests : on_member_join(k, r) \/ reconcile(k, r)
  \/ add_roles(k)
  \/ consume_access_grant(k)
  \/ remove_role_after_failed_consumption(k)

TaskFault(k) ==
  \/ add_roles_fails(k)
  \/ consume_access_grant_raises(k)
  \/ remove_roles_fails(k)

LoopStep == on_ready \/ on_ready_raises \/ reconnected

MemberStep(u) == on_member_join_ends(u) \/ member_update(u) \/ guild_join(u)

AccessNext ==
  \/ RowStep /\ UNCHANGED accessVars
  \/ \E r \in Requests : GrantStep(r)
  \/ \E e \in GrantExpirers : GrantExpiryStep(e)
  \/ \E k \in Tasks : TaskStep(k) \/ TaskFault(k)
  \/ LoopStep \/ worker_restart
  \/ \E u \in Users : MemberStep(u)

AccessSpec == AccessInit /\ [][AccessNext]_vars

\* The event loop resumes every handler, on_ready among them.  Handlers start
\* with a join, or again and again while the reconciliation loop runs; nothing
\* makes it run again once on_ready has failed.
FairAccessSpec ==
  AccessSpec /\ WF_vars(on_ready) /\ \A k \in Tasks : WF_vars(TaskStep(k))

-----------------------------------------------------------------------------
(* Properties                                                              *)

TaskPCs == {"add", "consume", "remove"}

\* Every variable holds a value of its type; a handler of the worker that is
\* not idle works on a request.
AccessTypeOK ==
  /\ grant \in [Requests -> AccessGrantStatus]
  /\ grantExpires \in [Requests -> 0 .. MaxTime + InviteTTL]
  /\ grantInvite \in [Requests -> 0 .. MaxInvites]
  /\ issuedCount \in [Requests -> Nat]
  /\ usedCount \in [Requests -> Nat]
  /\ auto \subseteq Requests
  /\ gexp \in [GrantExpirers -> SUBSET Requests]
  /\ invites \subseteq [id : 1 .. MaxInvites, req : Requests,
                        exp : 0 .. MaxTime + InviteTTL]
  /\ minted \in 0 .. MaxInvites
  /\ member \in [Users -> BOOLEAN]
  /\ role \in [Users -> BOOLEAN]
  /\ seen \in [Users -> BOOLEAN]
  /\ task \in [Tasks -> [pc : TaskPCs, req : Requests] \union {NoTask}]
  /\ joins \subseteq Users
  /\ loop \in {"starting", "running", "stopped"}
  /\ faults \in 0 .. MaxFaults

\* An administrator has approved r at some time.
wasApproved(r) ==
  \E n \in 1 .. Len(decisions[r]) : decisions[r][n] = "approved"

\* A grant of r exists, is about to be issued, or is about to be expired.
granting(r) ==
  \/ grant[r] # "not_issued"
  \/ r \in auto
  \/ \E e \in GrantExpirers : r \in gexp[e]

\* Nothing of Discord access exists before an approval: no pending issue, no
\* grant row, no invite, no handler at work and no verified role, whatever
\* fails and whatever stale value is written.
AccessNeedsApproval ==
  /\ \A r \in Requests : granting(r) => wasApproved(r)
  /\ \A i \in invites : wasApproved(i.req)
  /\ \A k \in Tasks : task[k] # NoTask => wasApproved(task[k].req)
  /\ \A u \in Users :
       role[u] => \E r \in Requests : Owner[r] = u /\ wasApproved(r)

\* A grant is consumed at most once per time it was issued, although the join
\* handler and the reconciliation may try at the same time.
GrantUsedOnce ==
  \A r \in Requests :
    usedCount[r] + (IF grant[r] = "issued" THEN 1 ELSE 0) <= issuedCount[r]

\* Unless a call has failed or the worker has died, a user who has the role
\* has used a grant, or a handler is on its way to consume the grant or to
\* take the role back: the compensation leaves no role behind.
RoleAccountedFor ==
  \A u \in Users :
    role[u] =>
      \/ faults > 0
      \/ \E r \in Requests : Owner[r] = u /\ usedCount[r] > 0
      \/ \E k \in Tasks : /\ task[k].pc \in {"consume", "remove"}
                         /\ Owner[task[k].req] = u

\* A grant that a member may use does not stay unused: the reconciliation
\* loop finds it again after every failed call and every crash, until it is
\* consumed, revoked, expired or superseded.  The one exception is a worker
\* whose on_ready has failed, which has no loop.
GrantSettles ==
  \A r \in Requests :
    (eligible(r) /\ member[Owner[r]]) ~> (~eligible(r) \/ loop = "stopped")

\* Restricted to the request rows, every step of this module is a step of
\* RequestLifecycle: granting access never moves a request in its life cycle.
ImplementsLifecycle == LifecycleSpec
=============================================================================
