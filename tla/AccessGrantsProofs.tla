------------------------- MODULE AccessGrantsProofs -------------------------
(* Proofs about AccessGrants for any requests, users, handlers and bounds.   *)
EXTENDS AccessGrants, RequestLifecycleProofs

\* Access control never moves a request in its life cycle: the composed system
\* implements RequestLifecycle, so every theorem about it carries over.
THEOREM AccessRefinesLifecycle == AccessSpec => ImplementsLifecycle
<1>1. AccessInit => LifecycleInit
  BY DEF AccessInit
<1>2. [AccessNext]_vars => [LifecycleNext]_lifecycleVars
  <2> SUFFICES ASSUME [AccessNext]_vars
               PROVE  LifecycleNext \/ UNCHANGED lifecycleVars
    OBVIOUS
  <2>1. CASE RowStep
    BY <2>1 DEF RowStep, LifecycleNext
  <2>2. ASSUME NEW r \in Requests, GrantStep(r)
        PROVE  LifecycleNext \/ UNCHANGED lifecycleVars
    <3>1. ASSUME NEW adm \in Admins, NEW target \in DecisionTargets,
                 perform_decision(r, adm, target)
          PROVE  LifecycleNext
      BY <3>1 DEF perform_decision, LifecycleNext
    <3>2. CASE revoke_request_and_grant(r)
      BY <3>2 DEF revoke_request_and_grant, LifecycleNext
    <3>3. CASE grant_discord_access(r) \/ auto_issue(r)
      BY <3>3 DEF grant_discord_access, auto_issue, issue_access_grant
    <3>4. CASE auto_give_up(r) \/ revoke_access_grant(r)
      BY <3>4 DEF auto_give_up, revoke_access_grant
    <3>5. QED
      BY <2>2, <3>1, <3>2, <3>3, <3>4 DEF GrantStep
  <2>3. ASSUME NEW e \in GrantExpirers, GrantExpiryStep(e)
        PROVE  UNCHANGED lifecycleVars
    BY <2>3 DEF GrantExpiryStep, expire_due_access_grants_read,
                expire_grant_if_needed_read, expire_grants_commit,
                expire_grants_abort
  <2>4. ASSUME NEW k \in Tasks, TaskStep(k) \/ TaskFault(k)
        PROVE  UNCHANGED lifecycleVars
    BY <2>4 DEF TaskStep, TaskFault, on_member_join, reconcile, start, add_roles,
                consume_access_grant, remove_role_after_failed_consumption,
                add_roles_fails, consume_access_grant_raises,
                remove_roles_fails
  <2>5. CASE worker_restart
    BY <2>5 DEF worker_restart
  <2>6. ASSUME NEW u \in Users, MemberStep(u)
        PROVE  UNCHANGED lifecycleVars
    BY <2>6 DEF MemberStep, on_member_join_ends, member_update, guild_join
  <2>7. CASE LoopStep
    BY <2>7 DEF LoopStep, on_ready, on_ready_raises, reconnected
  <2>8. CASE UNCHANGED vars
    BY <2>8 DEF vars
  <2>9. QED
    BY <2>1, <2>2, <2>3, <2>4, <2>5, <2>6, <2>7, <2>8 DEF AccessNext
<1>3. QED
  BY <1>1, <1>2, PTL DEF AccessSpec, ImplementsLifecycle, LifecycleSpec

\* The types of the request rows hold in the composed system as well.
COROLLARY RowTypes == AccessSpec => []LifecycleTypeOK
  BY AccessRefinesLifecycle, TypeCorrect, PTL DEF ImplementsLifecycle

\* Every reachable state of the composed system is well typed: in particular
\* a handler of the worker is idle or works on a request, and no invite has an
\* id that was not created.
THEOREM AccessTypeCorrect == AccessSpec => []AccessTypeOK
<1> USE OwnerAssumption, AccessBoundAssumption, BoundAssumption, NoneAssumption
<1>1. AccessInit => AccessTypeOK
  BY DEF AccessInit, AccessTypeOK, AccessGrantStatus
<1>2. LifecycleTypeOK /\ AccessTypeOK /\ [AccessNext]_vars => AccessTypeOK'
  <2> SUFFICES ASSUME LifecycleTypeOK, AccessTypeOK, [AccessNext]_vars
               PROVE  AccessTypeOK'
    OBVIOUS
  <2>0. now \in 0 .. MaxTime
    BY DEF LifecycleTypeOK, Times
  <2> USE DEF AccessTypeOK, grantRow, discordVars, workerVars
  <2>1. CASE RowStep /\ UNCHANGED accessVars
    BY <2>1 DEF accessVars
  <2>2. ASSUME NEW r \in Requests, NEW adm \in Admins,
               NEW target \in DecisionTargets, perform_decision(r, adm, target)
        PROVE  AccessTypeOK'
    BY <2>2 DEF perform_decision
  <2>3. ASSUME NEW r \in Requests, issue_access_grant(r),
               auto' = auto \/ auto' = auto \ {r}
        PROVE  AccessTypeOK'
    <3>1. /\ minted' \in 0 .. MaxInvites
          /\ minted + 1 \in 1 .. MaxInvites
          /\ now + InviteTTL \in 0 .. MaxTime + InviteTTL
      BY <2>0, <2>3 DEF issue_access_grant, create_targeted_discord_invite
    <3>2. invites' \subseteq [id : 1 .. MaxInvites, req : Requests,
                              exp : 0 .. MaxTime + InviteTTL]
      BY <2>3, <3>1 DEF issue_access_grant, create_targeted_discord_invite
    <3>3. /\ grant' \in [Requests -> AccessGrantStatus]
          /\ grantExpires' \in [Requests -> 0 .. MaxTime + InviteTTL]
          /\ grantInvite' \in [Requests -> 0 .. MaxInvites]
          /\ issuedCount' \in [Requests -> Nat]
          /\ usedCount' \in [Requests -> Nat]
          /\ faults' \in 0 .. MaxFaults
      BY <2>3, <3>1 DEF issue_access_grant, Fault, AccessGrantStatus
    <3>4. QED
      BY <2>3, <3>1, <3>2, <3>3
         DEF issue_access_grant, create_targeted_discord_invite
  <2>4. ASSUME NEW r \in Requests, auto_give_up(r)
        PROVE  AccessTypeOK'
    BY <2>4 DEF auto_give_up
  <2>5. ASSUME NEW r \in Requests, revoke_request_and_grant(r)
        PROVE  AccessTypeOK'
    BY <2>5 DEF revoke_request_and_grant, AccessGrantStatus
  <2>6. ASSUME NEW r \in Requests, revoke_access_grant(r)
        PROVE  AccessTypeOK'
    BY <2>6 DEF revoke_access_grant, delete_discord_invite, Fault,
                AccessGrantStatus
  <2>7. ASSUME NEW e \in GrantExpirers, GrantExpiryStep(e)
        PROVE  AccessTypeOK'
    BY <2>7 DEF GrantExpiryStep, expire_due_access_grants_read,
                expire_grant_if_needed_read, expire_grants_commit,
                expire_grants_abort, expirableGrants, AccessGrantStatus
  <2>8. ASSUME NEW k \in Tasks, NEW r \in Requests,
               on_member_join(k, r) \/ reconcile(k, r)
        PROVE  AccessTypeOK'
    BY <2>8 DEF on_member_join, reconcile, start, TaskPCs
  <2>9. ASSUME NEW k \in Tasks, task[k].pc \in TaskPCs
        PROVE  /\ task[k].req \in Requests
               /\ Owner[task[k].req] \in Users
    BY <2>9 DEF NoTask, TaskPCs
  <2>10. ASSUME NEW k \in Tasks, task[k].pc \in TaskPCs,
                finish(k) \/ goto(k, "consume") \/ goto(k, "remove")
         PROVE  task' \in [Tasks -> [pc : TaskPCs, req : Requests]
                                      \union {NoTask}]
    BY <2>9, <2>10 DEF finish, goto, NoTask, TaskPCs
  <2>11. ASSUME NEW k \in Tasks, add_roles(k)
         PROVE  AccessTypeOK'
    BY <2>9, <2>10, <2>11 DEF add_roles, TaskPCs
  <2>12. ASSUME NEW k \in Tasks, add_roles_fails(k)
         PROVE  AccessTypeOK'
    BY <2>9, <2>10, <2>12 DEF add_roles_fails, Fault, TaskPCs
  <2>13. ASSUME NEW k \in Tasks, consume_access_grant(k)
         PROVE  AccessTypeOK'
    BY <2>9, <2>10, <2>13 DEF consume_access_grant, consumeGrant, TaskPCs,
                              AccessGrantStatus
  <2>14. ASSUME NEW k \in Tasks, consume_access_grant_raises(k)
         PROVE  AccessTypeOK'
    BY <2>9, <2>10, <2>14 DEF consume_access_grant_raises, consumeGrant,
                              Fault, TaskPCs, AccessGrantStatus
  <2>15. ASSUME NEW k \in Tasks, remove_role_after_failed_consumption(k)
         PROVE  AccessTypeOK'
    BY <2>9, <2>10, <2>15 DEF remove_role_after_failed_consumption, TaskPCs
  <2>16. ASSUME NEW k \in Tasks, remove_roles_fails(k)
         PROVE  AccessTypeOK'
    BY <2>9, <2>10, <2>16 DEF remove_roles_fails, Fault, TaskPCs
  <2>17. CASE worker_restart
    BY <2>17 DEF worker_restart, Fault
  <2>18. ASSUME NEW u \in Users, MemberStep(u)
         PROVE  AccessTypeOK'
    <3>1. CASE on_member_join_ends(u)
      BY <3>1 DEF on_member_join_ends, Fault
    <3>2. CASE member_update(u)
      BY <3>2 DEF member_update
    <3>3. CASE guild_join(u)
      BY <3>3 DEF guild_join
    <3>4. QED
      BY <2>18, <3>1, <3>2, <3>3 DEF MemberStep
  <2>19. CASE UNCHANGED vars
    BY <2>19 DEF vars, accessVars
  <2>20. CASE LoopStep
    BY <2>20 DEF LoopStep, on_ready, on_ready_raises, reconnected,
                 Fault
  <2>21. QED
    BY <2>1, <2>2, <2>3, <2>4, <2>5, <2>6, <2>7, <2>8, <2>11, <2>12, <2>13,
       <2>14, <2>15, <2>16, <2>17, <2>18, <2>19, <2>20
       DEF AccessNext, GrantStep, grant_discord_access, auto_issue, TaskStep,
           TaskFault
<1>3. QED
  BY <1>1, <1>2, RowTypes, PTL DEF AccessSpec

-----------------------------------------------------------------------------
\* An appended row leaves the earlier rows in place and is the last one.
LEMMA AppendKeeps ==
  ASSUME NEW S, NEW d \in Seq(S), NEW x \in S
  PROVE  /\ Len(Append(d, x)) = Len(d) + 1
         /\ Len(d) \in Nat
         /\ \A n \in 1 .. Len(d) : Append(d, x)[n] = d[n]
         /\ Append(d, x)[Len(d) + 1] = x
  OBVIOUS

\* Decisions are only added, so an approval is never forgotten.
LEMMA ApprovalIsPermanent ==
  ASSUME LifecycleTypeOK, [LifecycleNext]_lifecycleVars, NEW r \in Requests,
         wasApproved(r)
  PROVE  wasApproved(r)'
<1>1. decisions[r] \in Seq(DecisionTargets)
  BY DEF LifecycleTypeOK
<1>2. PICK n \in 1 .. Len(decisions[r]) : decisions[r][n] = "approved"
  BY DEF wasApproved
<1>3. \/ decisions'[r] = decisions[r]
      \/ \E target \in DecisionTargets :
           decisions'[r] = Append(decisions[r], target)
  <2>1. ASSUME NEW q \in Requests, NEW adm \in Admins,
               NEW target \in DecisionTargets, record_decision(q, adm, target)
        PROVE  \/ decisions'[r] = decisions[r]
               \/ decisions'[r] = Append(decisions[r], target)
    BY <2>1 DEF record_decision, LifecycleTypeOK
  <2>2. CASE decisions' = decisions
    BY <2>2
  <2>3. QED
    BY <2>1, <2>2 DEF LifecycleNext, ApplicantStep, ExpiryStep, CaseStep, Tick,
       submit_read, submit_commit, submit_abort, expire_due_requests_read,
       expire_request_if_needed_read, expire_commit, expire_abort,
       create_verification_request, extend_request_expiration, claim_case,
       assign_reviewer, revoke_request, lifecycleVars
<1>4. CASE decisions'[r] = decisions[r]
  BY <1>2, <1>4 DEF wasApproved
<1>5. ASSUME NEW target \in DecisionTargets,
             decisions'[r] = Append(decisions[r], target)
      PROVE  wasApproved(r)'
  <2>1. /\ Len(decisions'[r]) = Len(decisions[r]) + 1
        /\ Len(decisions[r]) \in Nat
        /\ decisions'[r][n] = decisions[r][n]
    BY <1>1, <1>2, <1>5, AppendKeeps
  <2>2. n \in 1 .. Len(decisions'[r]) /\ decisions'[r][n] = "approved"
    BY <1>2, <2>1
  <2>3. QED
    BY <2>2 DEF wasApproved
<1>6. QED
  BY <1>3, <1>4, <1>5

\* The status "approved" is backed by a decision row.
LEMMA ApprovedWasApproved ==
  ASSUME LifecycleTypeOK, DecisionBacksStatus, NEW r \in Requests,
         status[r] = "approved"
  PROVE  wasApproved(r)
<1>1. decisions[r] \in Seq(DecisionTargets)
  BY DEF LifecycleTypeOK
<1>2. /\ decisions[r] # << >>
      /\ decisions[r][Len(decisions[r])] = "approved"
  BY DEF DecisionBacksStatus, DecisionTargets
<1>3. Len(decisions[r]) \in 1 .. Len(decisions[r])
  BY <1>1, <1>2
<1>4. QED
  BY <1>2, <1>3 DEF wasApproved

\* Recording an approval makes the request an approved one.
LEMMA ApprovingApproves ==
  ASSUME LifecycleTypeOK, NEW r \in Requests, NEW adm \in Admins,
         record_decision(r, adm, "approved")
  PROVE  wasApproved(r)'
<1>1. decisions[r] \in Seq(DecisionTargets) /\ "approved" \in DecisionTargets
  BY DEF LifecycleTypeOK, DecisionTargets
<1>2. decisions'[r] = Append(decisions[r], "approved")
  BY DEF record_decision, LifecycleTypeOK
<1>3. /\ Len(decisions'[r]) \in 1 .. Len(decisions'[r])
      /\ decisions'[r][Len(decisions'[r])] = "approved"
  BY <1>1, <1>2, AppendKeeps
<1>4. QED
  BY <1>3 DEF wasApproved

\* The system's core promise: no pending issue, grant, invite, handler at work
\* or verified role exists for a request or a user without an approval, under
\* every interleaving, failure and lost update of the model.  The invariant is
\* inductive because an approval is permanent and because the worker only
\* picks up requests whose status is backed by a decision.
THEOREM ApprovalFirst == AccessSpec => []AccessNeedsApproval
<1> USE OwnerAssumption
<1>1. AccessInit => AccessNeedsApproval
  BY DEF AccessInit, AccessNeedsApproval, granting
<1>2. LifecycleTypeOK /\ DecisionBacksStatus /\ AccessTypeOK
        /\ AccessNeedsApproval /\ [AccessNext]_vars
        /\ [LifecycleNext]_lifecycleVars
        => AccessNeedsApproval'
  <2> SUFFICES ASSUME LifecycleTypeOK, DecisionBacksStatus, AccessTypeOK,
                      AccessNeedsApproval, [AccessNext]_vars,
                      [LifecycleNext]_lifecycleVars
               PROVE  AccessNeedsApproval'
    OBVIOUS
  <2>0. \A r \in Requests : wasApproved(r) => wasApproved(r)'
    BY ApprovalIsPermanent
  <2> DEFINE RowsOK == \A r \in Requests : granting(r) => wasApproved(r)
             InvitesOK == \A i \in invites : wasApproved(i.req)
             TasksOK == \A k \in Tasks :
                          task[k] # NoTask => wasApproved(task[k].req)
             RolesOK == \A u \in Users :
                          role[u] => \E r \in Requests :
                                       Owner[r] = u /\ wasApproved(r)
  <2>a. RowsOK /\ InvitesOK /\ TasksOK /\ RolesOK
    BY DEF AccessNeedsApproval
  <2>b. \A i \in invites : i.req \in Requests
    BY DEF AccessTypeOK
  <2>c. \A k \in Tasks : task[k] # NoTask => task[k].req \in Requests
    BY DEF AccessTypeOK
  <2>d. ASSUME \A q \in Requests : granting(q)' => granting(q)
        PROVE  RowsOK'
    BY <2>0, <2>a, <2>d
  <2>e. ASSUME invites' \subseteq invites
        PROVE  InvitesOK'
    BY <2>0, <2>a, <2>b, <2>e
  <2>f. ASSUME task' = task
        PROVE  TasksOK'
    BY <2>0, <2>a, <2>c, <2>f
  <2>g. ASSUME \A u \in Users : role'[u] => role[u]
        PROVE  RolesOK'
    BY <2>0, <2>a, <2>g
  <2>h. ASSUME NEW k \in Tasks, task[k].pc \in {"add", "consume", "remove"},
               \/ finish(k) \/ goto(k, "consume") \/ goto(k, "remove")
        PROVE  /\ TasksOK'
               /\ \E q \in Requests : q = task[k].req /\ wasApproved(q)'
    <3>1. task[k] # NoTask
      BY <2>h DEF NoTask
    <3>2. \E q \in Requests : q = task[k].req /\ wasApproved(q)'
      BY <2>0, <2>a, <2>c, <3>1
    <3>3. \A j \in Tasks \ {k} : task'[j] = task[j]
      BY <2>h DEF finish, goto, AccessTypeOK
    <3>4. task'[k] = NoTask \/ task'[k].req = task[k].req
      BY <2>h, <3>1 DEF finish, goto, AccessTypeOK
    <3>5. QED
      BY <2>0, <2>a, <2>c, <3>2, <3>3, <3>4
  <2>i. AccessNeedsApproval' <=> RowsOK' /\ InvitesOK' /\ TasksOK' /\ RolesOK'
    BY DEF AccessNeedsApproval
  <2> HIDE DEF RowsOK, InvitesOK, TasksOK, RolesOK
  <2> USE DEF grantRow, discordVars, workerVars
  <2>1. CASE RowStep /\ UNCHANGED accessVars
    BY <2>1, <2>d, <2>e, <2>f, <2>g, <2>i DEF accessVars, granting
  <2>2. ASSUME NEW r \in Requests, NEW adm \in Admins,
               NEW target \in DecisionTargets, perform_decision(r, adm, target)
        PROVE  AccessNeedsApproval'
    <3>1. RowsOK'
      <4>1. CASE target = "approved"
        <5>1. wasApproved(r)'
          BY <2>2, <4>1, ApprovingApproves DEF perform_decision
        <5>2. QED
          BY <2>0, <2>2, <2>a, <5>1 DEF perform_decision, RowsOK, granting
      <4>2. CASE target # "approved"
        BY <2>2, <2>d, <4>2 DEF perform_decision, granting
      <4>3. QED
        BY <4>1, <4>2
    <3>2. InvitesOK' /\ TasksOK' /\ RolesOK'
      BY <2>2, <2>e, <2>f, <2>g DEF perform_decision
    <3>3. QED
      BY <2>i, <3>1, <3>2
  <2>3. ASSUME NEW r \in Requests, wasApproved(r), issue_access_grant(r),
               auto' \subseteq auto
        PROVE  AccessNeedsApproval'
    <3>1. wasApproved(r)'
      BY <2>0, <2>3
    <3>2. \A q \in Requests : granting(q)' => granting(q) \/ q = r
      BY <2>3 DEF issue_access_grant, granting, AccessTypeOK
    <3>3. RowsOK'
      BY <2>0, <2>3, <2>a, <3>1, <3>2 DEF RowsOK
    <3>4. \A i \in invites' : i \in invites \/ i.req = r
      BY <2>3 DEF issue_access_grant, create_targeted_discord_invite
    <3>5. InvitesOK'
      BY <2>0, <2>a, <2>b, <3>1, <3>4 DEF InvitesOK
    <3>6. TasksOK' /\ RolesOK'
      BY <2>3, <2>f, <2>g
         DEF issue_access_grant, create_targeted_discord_invite
    <3>7. QED
      BY <2>i, <3>3, <3>5, <3>6
  <2>4. ASSUME NEW r \in Requests,
               grant_discord_access(r) \/ auto_issue(r)
        PROVE  AccessNeedsApproval'
    <3>1. CASE grant_discord_access(r)
      BY <2>3, <3>1, ApprovedWasApproved DEF grant_discord_access
    <3>2. CASE auto_issue(r)
      BY <2>3, <2>a, <3>2 DEF auto_issue, RowsOK, granting
    <3>3. QED
      BY <2>4, <3>1, <3>2
  <2>5. ASSUME NEW r \in Requests, auto_give_up(r)
        PROVE  AccessNeedsApproval'
    BY <2>5, <2>d, <2>e, <2>f, <2>g, <2>i DEF auto_give_up, granting
  <2>6. ASSUME NEW r \in Requests, revoke_request_and_grant(r)
        PROVE  AccessNeedsApproval'
    BY <2>6, <2>d, <2>e, <2>f, <2>g, <2>i
       DEF revoke_request_and_grant, granting, AccessTypeOK
  <2>7. ASSUME NEW r \in Requests, revoke_access_grant(r)
        PROVE  AccessNeedsApproval'
    <3>1. /\ task' = task /\ role' = role
          /\ invites' \subseteq invites
          /\ \A q \in Requests : granting(q)' => granting(q)
      BY <2>7 DEF revoke_access_grant, delete_discord_invite, granting,
                  AccessTypeOK
    <3>2. QED
      BY <3>1, <2>d, <2>e, <2>f, <2>g, <2>i
  <2>8. ASSUME NEW e \in GrantExpirers, GrantExpiryStep(e)
        PROVE  AccessNeedsApproval'
    <3>1. \A q \in Requests : granting(q)' => granting(q)
      BY <2>8 DEF GrantExpiryStep, expire_due_access_grants_read,
                  expire_grant_if_needed_read, expire_grants_commit,
                  expire_grants_abort, expirableGrants, granting, AccessTypeOK
    <3>2. invites' = invites /\ task' = task /\ role' = role
      BY <2>8 DEF GrantExpiryStep, expire_due_access_grants_read,
                  expire_grant_if_needed_read, expire_grants_commit,
                  expire_grants_abort
    <3>3. QED
      BY <3>1, <3>2, <2>d, <2>e, <2>f, <2>g, <2>i
  <2>9. ASSUME NEW k \in Tasks, NEW r \in Requests,
               on_member_join(k, r) \/ reconcile(k, r)
        PROVE  AccessNeedsApproval'
    <3>1. wasApproved(r)'
      BY <2>0, <2>9, ApprovedWasApproved DEF on_member_join, reconcile, start, eligible
    <3>2. /\ \A j \in Tasks \ {k} : task'[j] = task[j]
          /\ task'[k].req = r
      BY <2>9 DEF on_member_join, reconcile, start, AccessTypeOK
    <3>3. TasksOK'
      BY <2>0, <2>a, <2>c, <3>1, <3>2 DEF TasksOK
    <3>4. RowsOK' /\ InvitesOK' /\ RolesOK'
      BY <2>9, <2>d, <2>e, <2>g DEF on_member_join, reconcile, start, granting
    <3>5. QED
      BY <2>i, <3>3, <3>4
  <2>10. ASSUME NEW k \in Tasks, add_roles(k) \/ add_roles_fails(k)
         PROVE  AccessNeedsApproval'
    <3>1. /\ task[k].pc = "add"
          /\ finish(k) \/ goto(k, "consume") \/ goto(k, "remove")
          /\ \A u \in Users : role'[u] => role[u] \/ u = Owner[task[k].req]
      BY <2>10 DEF add_roles, add_roles_fails, AccessTypeOK
    <3>2. TasksOK' /\ \E q \in Requests : q = task[k].req /\ wasApproved(q)'
      BY <2>h, <3>1
    <3>3. RolesOK'
      BY <2>0, <2>a, <3>1, <3>2 DEF RolesOK
    <3>4. RowsOK' /\ InvitesOK'
      BY <2>10, <2>d, <2>e DEF add_roles, add_roles_fails, granting
    <3>5. QED
      BY <2>i, <3>2, <3>3, <3>4
  <2>11. ASSUME NEW k \in Tasks,
                consume_access_grant(k) \/ consume_access_grant_raises(k)
         PROVE  AccessNeedsApproval'
    <3>1. /\ task[k].pc = "consume"
          /\ finish(k) \/ goto(k, "consume") \/ goto(k, "remove")
          /\ invites' = invites /\ role' = role
      BY <2>11 DEF consume_access_grant, consume_access_grant_raises
    <3>2. \A q \in Requests : granting(q)' => granting(q)
      BY <2>11 DEF consume_access_grant, consume_access_grant_raises,
                   consumeGrant, consumable, granting, AccessTypeOK
    <3>3. QED
      BY <3>1, <3>2, <2>d, <2>e, <2>g, <2>h, <2>i
  <2>12. ASSUME NEW k \in Tasks,
                remove_role_after_failed_consumption(k) \/ remove_roles_fails(k)
         PROVE  AccessNeedsApproval'
    <3>1. /\ task[k].pc = "remove"
          /\ finish(k)
          /\ invites' = invites
          /\ \A q \in Requests : granting(q)' => granting(q)
          /\ \A u \in Users : role'[u] => role[u]
      BY <2>12 DEF remove_role_after_failed_consumption, remove_roles_fails,
                   granting, AccessTypeOK
    <3>2. QED
      BY <3>1, <2>d, <2>e, <2>g, <2>h, <2>i
  <2>13. CASE worker_restart
    <3>1. TasksOK'
      BY <2>13 DEF worker_restart, TasksOK
    <3>2. QED
      BY <2>13, <3>1, <2>d, <2>e, <2>g, <2>i DEF worker_restart, granting
  <2>14. ASSUME NEW u \in Users, MemberStep(u)
         PROVE  AccessNeedsApproval'
    BY <2>14, <2>d, <2>e, <2>f, <2>g, <2>i DEF MemberStep, on_member_join_ends, member_update, guild_join, granting
  <2>15. CASE UNCHANGED vars
    BY <2>15, <2>d, <2>e, <2>f, <2>g, <2>i DEF vars, accessVars, granting
  <2>16. CASE LoopStep
    BY <2>16, <2>d, <2>e, <2>f, <2>g, <2>i
       DEF LoopStep, on_ready, on_ready_raises, reconnected, granting
  <2>17. QED
    BY <2>1, <2>2, <2>4, <2>5, <2>6, <2>7, <2>8, <2>9, <2>10, <2>11, <2>12,
       <2>13, <2>14, <2>15, <2>16 DEF AccessNext, GrantStep, TaskStep, TaskFault
<1>3. QED
  BY <1>1, <1>2, RowTypes, AccessTypeCorrect, AccessRefinesLifecycle,
     DecisionsBackStatuses, PTL
     DEF AccessSpec, ImplementsLifecycle, LifecycleSpec

-----------------------------------------------------------------------------
\* However many handlers of the worker try to consume a grant at once, it is
\* consumed at most once per time it was issued.
THEOREM UsedOnce == AccessSpec => []GrantUsedOnce
<1> DEFINE open(r) == IF grant[r] = "issued" THEN 1 ELSE 0
<1>1. AccessInit => GrantUsedOnce
  BY DEF AccessInit, GrantUsedOnce
<1>2. AccessTypeOK /\ GrantUsedOnce /\ [AccessNext]_vars => GrantUsedOnce'
  <2> SUFFICES ASSUME AccessTypeOK, GrantUsedOnce, [AccessNext]_vars,
                      NEW q \in Requests
               PROVE  usedCount'[q] + open(q)' <= issuedCount'[q]
    BY DEF GrantUsedOnce
  <2>a. usedCount[q] \in Nat /\ issuedCount[q] \in Nat
    BY DEF AccessTypeOK
  <2>b. usedCount[q] + open(q) <= issuedCount[q]
    BY DEF GrantUsedOnce
  <2>c. ASSUME grant'[q] = "issued" => grant[q] = "issued",
               usedCount'[q] = usedCount[q], issuedCount'[q] = issuedCount[q]
        PROVE  usedCount'[q] + open(q)' <= issuedCount'[q]
    BY <2>a, <2>b, <2>c
  <2>d. ASSUME NEW r \in Requests, consumable(r), consumeGrant(r)
        PROVE  usedCount'[q] + open(q)' <= issuedCount'[q]
    BY <2>a, <2>b, <2>d DEF consumable, consumeGrant, AccessTypeOK
  <2> HIDE DEF open
  <2> USE DEF grantRow
  <2>1. CASE RowStep /\ UNCHANGED accessVars
    BY <2>1, <2>c DEF accessVars
  <2>2. ASSUME NEW r \in Requests, issue_access_grant(r)
        PROVE  usedCount'[q] + open(q)' <= issuedCount'[q]
    <3>1. CASE UNCHANGED grantRow
      BY <2>c, <3>1
    <3>2. CASE /\ grant' = [grant EXCEPT ![r] = "issued"]
               /\ issuedCount' = [issuedCount EXCEPT ![r] = @ + 1]
               /\ usedCount' = usedCount
      BY <2>a, <2>b, <2>2, <3>2 DEF issue_access_grant, open, AccessTypeOK
    <3>3. QED
      BY <2>2, <3>1, <3>2 DEF issue_access_grant
  <2>3. ASSUME NEW r \in Requests, GrantStep(r)
        PROVE  usedCount'[q] + open(q)' <= issuedCount'[q]
    <3>1. CASE grant_discord_access(r) \/ auto_issue(r)
      BY <2>2, <3>1 DEF grant_discord_access, auto_issue
    <3>2. CASE ~(grant_discord_access(r) \/ auto_issue(r))
      BY <2>3, <2>c, <3>2 DEF GrantStep, perform_decision, auto_give_up,
         revoke_request_and_grant, revoke_access_grant, AccessTypeOK
    <3>3. QED
      BY <3>1, <3>2
  <2>4. ASSUME NEW e \in GrantExpirers, GrantExpiryStep(e)
        PROVE  usedCount'[q] + open(q)' <= issuedCount'[q]
    BY <2>4, <2>c DEF GrantExpiryStep, expire_due_access_grants_read,
       expire_grant_if_needed_read, expire_grants_commit, expire_grants_abort
  <2>5. ASSUME NEW k \in Tasks, consume_access_grant(k)
        PROVE  usedCount'[q] + open(q)' <= issuedCount'[q]
    <3>1. task[k].req \in Requests
      BY <2>5 DEF consume_access_grant, AccessTypeOK, NoTask
    <3>2. CASE consumable(task[k].req)
      BY <2>5, <2>d, <3>1, <3>2 DEF consume_access_grant
    <3>3. CASE ~consumable(task[k].req)
      BY <2>5, <2>c, <3>1, <3>3 DEF consume_access_grant, AccessTypeOK
    <3>4. QED
      BY <3>2, <3>3
  <2>6. ASSUME NEW k \in Tasks, consume_access_grant_raises(k)
        PROVE  usedCount'[q] + open(q)' <= issuedCount'[q]
    <3>1. task[k].req \in Requests
      BY <2>6 DEF consume_access_grant_raises, AccessTypeOK, NoTask
    <3>2. QED
      BY <2>6, <2>c, <2>d, <3>1 DEF consume_access_grant_raises
  <2>7. CASE UNCHANGED grantRow
    BY <2>7, <2>c
  <2>8. QED
    BY <2>1, <2>3, <2>4, <2>5, <2>6, <2>7
       DEF AccessNext, LoopStep, on_ready, on_ready_raises, reconnected,
           TaskStep, TaskFault, on_member_join, reconcile, start, add_roles,
           remove_role_after_failed_consumption, add_roles_fails,
           remove_roles_fails, worker_restart, MemberStep, on_member_join_ends, member_update, guild_join,
           vars, accessVars
<1>3. QED
  BY <1>1, <1>2, AccessTypeCorrect, PTL DEF AccessSpec

\* Without a failed call or a crash, the role is never left with a user who
\* has not used a grant: the handler that added it consumes the grant or takes
\* the role back, whatever is revoked or expires in between.
THEOREM RoleAccounted == AccessSpec => []RoleAccountedFor
<1> USE OwnerAssumption
<1> DEFINE used(u) == \E r \in Requests : Owner[r] = u /\ usedCount[r] > 0
           pending(u) == \E k \in Tasks : /\ task[k].pc \in {"consume", "remove"}
                                          /\ Owner[task[k].req] = u
<1>1. AccessInit => RoleAccountedFor
  BY DEF AccessInit, RoleAccountedFor
<1>2. AccessTypeOK /\ AccessTypeOK' /\ RoleAccountedFor /\ [AccessNext]_vars
        => RoleAccountedFor'
  <2>0. AccessTypeOK' => faults' \in Nat
    BY AccessBoundAssumption DEF AccessTypeOK
  <2> SUFFICES ASSUME AccessTypeOK, RoleAccountedFor, [AccessNext]_vars,
                      NEW u \in Users, role'[u], faults' = 0
               PROVE  used(u)' \/ pending(u)'
    BY <2>0 DEF RoleAccountedFor
  <2>a. faults \in Nat /\ ~Fault
    BY AccessBoundAssumption DEF AccessTypeOK, Fault
  <2>b. faults' = faults =>
          (role[u] => used(u) \/ pending(u))
    BY <2>a DEF RoleAccountedFor
  <2>c. ASSUME role' = role, usedCount' = usedCount, task' = task,
               faults' = faults
        PROVE  used(u)' \/ pending(u)'
    BY <2>b, <2>c
  <2> USE DEF grantRow, discordVars, workerVars
  <2>1. CASE RowStep /\ UNCHANGED accessVars
    BY <2>1, <2>c DEF accessVars
  <2>2. ASSUME NEW r \in Requests, GrantStep(r)
        PROVE  used(u)' \/ pending(u)'
    BY <2>2, <2>a, <2>c DEF GrantStep, perform_decision, grant_discord_access,
       auto_issue, issue_access_grant, create_targeted_discord_invite,
       auto_give_up, revoke_request_and_grant, revoke_access_grant
  <2>3. ASSUME NEW e \in GrantExpirers, GrantExpiryStep(e)
        PROVE  used(u)' \/ pending(u)'
    BY <2>3, <2>c DEF GrantExpiryStep, expire_due_access_grants_read,
       expire_grant_if_needed_read, expire_grants_commit, expire_grants_abort
  <2>4. ASSUME NEW k \in Tasks, NEW r \in Requests,
               on_member_join(k, r) \/ reconcile(k, r)
        PROVE  used(u)' \/ pending(u)'
    <3>1. \A j \in Tasks : task[j].pc \in {"consume", "remove"}
                            => task'[j] = task[j]
      BY <2>4 DEF on_member_join, reconcile, start, AccessTypeOK, NoTask
    <3>2. QED
      BY <2>4, <2>b, <3>1 DEF on_member_join, reconcile, start
  <2>5. ASSUME NEW k \in Tasks, add_roles(k)
        PROVE  used(u)' \/ pending(u)'
    <3>1. /\ \A j \in Tasks \ {k} : task'[j] = task[j]
          /\ task'[k].pc = "consume"
          /\ task'[k].req = task[k].req
          /\ task[k].pc = "add"
      BY <2>5 DEF add_roles, goto, AccessTypeOK, NoTask
    <3>2. u = Owner[task[k].req] \/ role[u]
      BY <2>5 DEF add_roles, AccessTypeOK
    <3>3. CASE u = Owner[task[k].req]
      BY <3>1, <3>3
    <3>4. CASE role[u]
      BY <2>5, <2>b, <3>1, <3>4 DEF add_roles
    <3>5. QED
      BY <3>2, <3>3, <3>4
  <2>6. ASSUME NEW k \in Tasks, consume_access_grant(k)
        PROVE  used(u)' \/ pending(u)'
    <3>1. /\ task[k].req \in Requests
          /\ \A j \in Tasks \ {k} : task'[j] = task[j]
      BY <2>6 DEF consume_access_grant, finish, goto, AccessTypeOK, NoTask
    <3>2. CASE consumable(task[k].req)
      <4>1. \A r \in Requests : usedCount[r] > 0 => usedCount'[r] > 0
        BY <2>6, <3>1, <3>2
           DEF consume_access_grant, consumeGrant, AccessTypeOK
      <4>2. usedCount'[task[k].req] > 0
        BY <2>6, <3>1, <3>2
           DEF consume_access_grant, consumeGrant, AccessTypeOK
      <4>3. QED
        BY <2>6, <2>b, <3>1, <4>1, <4>2 DEF consume_access_grant
    <3>3. CASE ~consumable(task[k].req)
      <4>1. /\ task'[k].pc = "remove"
            /\ task'[k].req = task[k].req
            /\ usedCount' = usedCount
        BY <2>6, <3>3 DEF consume_access_grant, goto, AccessTypeOK, NoTask
      <4>2. QED
        BY <2>6, <2>b, <3>1, <4>1 DEF consume_access_grant
    <3>4. QED
      BY <3>2, <3>3
  <2>7. ASSUME NEW k \in Tasks, remove_role_after_failed_consumption(k)
        PROVE  used(u)' \/ pending(u)'
    <3>1. u # Owner[task[k].req] /\ role[u]
      BY <2>7 DEF remove_role_after_failed_consumption, AccessTypeOK
    <3>2. \A j \in Tasks \ {k} : task'[j] = task[j]
      BY <2>7 DEF remove_role_after_failed_consumption, finish, AccessTypeOK
    <3>3. QED
      BY <2>7, <2>b, <3>1, <3>2 DEF remove_role_after_failed_consumption
  <2>8. ASSUME NEW k \in Tasks, TaskFault(k)
        PROVE  FALSE
    BY <2>8, <2>a DEF TaskFault, add_roles_fails, consume_access_grant_raises,
                      remove_roles_fails
  <2>9. CASE worker_restart
    BY <2>9, <2>a DEF worker_restart
  <2>10. ASSUME NEW v \in Users, MemberStep(v)
         PROVE  used(u)' \/ pending(u)'
    BY <2>10, <2>a, <2>c DEF MemberStep, on_member_join_ends, member_update, guild_join
  <2>11. CASE UNCHANGED vars
    BY <2>11, <2>c DEF vars, accessVars
  <2>12. CASE LoopStep
    BY <2>12, <2>a, <2>c DEF LoopStep, on_ready, on_ready_raises, reconnected
  <2>13. QED
    BY <2>1, <2>2, <2>3, <2>4, <2>5, <2>6, <2>7, <2>8, <2>9, <2>10, <2>11,
       <2>12 DEF AccessNext, TaskStep
<1>3. QED
  BY <1>1, <1>2, AccessTypeCorrect, PTL DEF AccessSpec
=============================================================================
