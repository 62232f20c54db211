----------------------------- MODULE ReviewDesk -----------------------------
(***************************************************************************)
(* The administrators' pages around RequestLifecycle: the queue with its    *)
(* filter, and the case page with its panels.  The administrators' handlers *)
(* of RequestLifecycle run here only when a tab calls them.                 *)
(*                                                                         *)
(* What a tab shows is a copy made when some read was served.  Reads are    *)
(* not cancelled and overtake each other, fail, or come back to a page that *)
(* was left; the answer of a change that was committed may be lost.  A tab  *)
(* decides, claims or changes a case by the copy it shows.                  *)
(***************************************************************************)
EXTENDS RequestLifecycle

CONSTANTS
  Tabs, Desks,     \* tabs, and whose they may be
  Case,            \* a request that waits in the queue from the start
  FilterStatuses,  \* statuses whose filter buttons are used
  MaxReads,        \* bound on the reads a tab's user has under way
  MaxMoves         \* bound on calls, lost answers and failed reads, and on
                   \* the use of the filter, Refresh and Back

ASSUME DeskAssumption ==
  /\ Case \in Requests /\ Desks \subseteq [Tabs -> Admins]
  /\ MaxReads \in Nat /\ MaxMoves \in Nat

VARIABLES
  desk,     \* whose tab it is, never changed
  page,     \* "queue" or "case"
  open,     \* the request of the case page
  filter,   \* statuses
  armed,    \* the debounce timer of the queue is set
  shown,    \* the copy the tab shows
  reads,    \* reads under way, in the order they were asked
  busy,     \* refreshing, of the case page
  failed,   \* the error of a read is shown
  call,     \* the change a tab has asked for
  untold,   \* the tab was not told of its last change (history)
  moves     \* calls, clicks and faults so far

pageVars == <<page, open, filter, armed>>
readVars == <<shown, reads, busy, failed>>
callVars == <<call, untold>>
deskVars == <<desk, pageVars, readVars, callVars>>
vars == <<lifecycleVars, deskVars, moves>>

CasePanels == {"decide", "revoke", "extend", "assign", "service"}

NoItems == [r \in Requests |-> "none"]
\* A copy: the statuses and, for a case, the number of its submissions; old
\* once the tab has changed what it is of; late when it was asked for before
\* one that was over earlier (history).
Blank == [items |-> NoItems, rows |-> 0, filter |-> {}, by |-> "none",
          served |-> FALSE, old |-> FALSE, late |-> FALSE]
NoCall == [op |-> "none", req |-> None, arg |-> None, seen |-> 0,
           filter |-> {}, left |-> FALSE, at |-> "none", code |-> "none"]

\* A submission handler may still be open when the first one has queued the
\* case.
DeskInit ==
  /\ now = 0
  /\ status = [r \in Requests |-> IF r = Case THEN "queued" ELSE "absent"]
  /\ reviewer = [r \in Requests |-> None]
  /\ count = [r \in Requests |-> IF r = Case THEN 1 ELSE 0]
  /\ expires = [r \in Requests |-> IF r = Case THEN 1 ELSE 0]
  /\ revokedAt = [r \in Requests |-> FALSE]
  /\ rows = [r \in Requests |-> IF r = Case THEN 1 ELSE 0]
  /\ decisions = [r \in Requests |-> << >>]
  /\ result = [r \in Requests |-> "none"]
  /\ sub \in [Applicants ->
               {Idle, [req |-> Case, status |-> "pending", count |-> 0]}]
  /\ exp = [e \in Expirers |-> {}]
  /\ desk \in Desks
  /\ page = [t \in Tabs |-> "queue"]
  /\ open = [t \in Tabs |-> None]
  /\ filter = [t \in Tabs |-> {"queued"}]
  /\ armed = [t \in Tabs |-> TRUE]
  /\ shown = [t \in Tabs |-> Blank]
  /\ reads = [t \in Tabs |-> << >>]
  /\ busy = [t \in Tabs |-> FALSE]
  /\ failed = [t \in Tabs |-> FALSE]
  /\ call = [t \in Tabs |-> NoCall]
  /\ untold = [t \in Tabs |-> FALSE]
  /\ moves = 0

-----------------------------------------------------------------------------
(* Reads                                                                   *)

asked(f, by) == [Blank EXCEPT !.filter = f, !.by = by]
ask(t, new) == reads' = [reads EXCEPT ![t] = Append(@, new)]

\* A page is opened, and what was left is unmounted: its reads have no effect
\* any more, but the call it started goes on.
mount(t, p, r, new) ==
  /\ page' = [page EXCEPT ![t] = p]
  /\ open' = [open EXCEPT ![t] = r]
  /\ filter' = [filter EXCEPT ![t] = {"queued"}]
  /\ armed' = [armed EXCEPT ![t] = (p = "queue")]
  /\ shown' = [shown EXCEPT ![t] = Blank]
  /\ reads' = [reads EXCEPT ![t] = new]
  /\ busy' = [busy EXCEPT ![t] = FALSE]
  /\ failed' = [failed EXCEPT ![t] = FALSE]
  /\ untold' = [untold EXCEPT ![t] = FALSE]

goto(t, p, r, new) ==
  /\ mount(t, p, r, new)
  /\ call' = [call EXCEPT ![t].left = (call[t].at # "none")]
  /\ UNCHANGED <<lifecycleVars, desk>>

caseLoad == <<asked({}, "none")>>

listed(f) == [r \in Requests |->
  IF exists(r) /\ (f = {} \/ status[r] \in f) THEN status[r] ELSE "none"]

\* The server answers a read with what it has committed.
list_verification_requests(f) == [items |-> listed(f), rows |-> 0]
get_review_detail(r) ==
  [items |-> [NoItems EXCEPT ![r] = status[r]], rows |-> rows[r]]

read_served(t, i) ==
  /\ i \in DOMAIN reads[t] /\ ~reads[t][i].served
  /\ LET q == reads[t][i]
         copy == IF page[t] = "queue" THEN list_verification_requests(q.filter)
                 ELSE get_review_detail(open[t])
     IN reads' = [reads EXCEPT ![t][i] =
          [q EXCEPT !.served = TRUE, !.items = copy.items,
                    !.rows = copy.rows]]
  /\ UNCHANGED <<lifecycleVars, desk, pageVars, shown, busy, failed, callVars>>

\* The read at i is over; the reads before it are late from now on.
without(t, i) ==
  [j \in 1 .. Len(reads[t]) - 1 |->
    IF j < i THEN [reads[t][j] EXCEPT !.late = TRUE] ELSE reads[t][j + 1]]

settled(t, q) == busy' = [busy EXCEPT ![t] = @ /\ q.by # "refresh"]

\* Whichever answer arrives last is shown.
read_arrives(t, i) ==
  /\ i \in DOMAIN reads[t] /\ reads[t][i].served
  /\ LET q == reads[t][i]
     IN /\ reads' = [reads EXCEPT ![t] = without(t, i)]
        /\ shown' = [shown EXCEPT ![t] =
             [q EXCEPT !.by = IF @ = "claim" THEN @ ELSE "none"]]
        /\ failed' = [failed EXCEPT ![t] = FALSE]
        /\ settled(t, q)
  /\ UNCHANGED <<lifecycleVars, desk, pageVars, callVars>>

\* What was shown stays.
read_fails(t, i) ==
  /\ i \in DOMAIN reads[t]
  /\ reads' = [reads EXCEPT ![t] = without(t, i)]
  /\ failed' = [failed EXCEPT ![t] = TRUE]
  /\ settled(t, reads[t][i])
  /\ UNCHANGED <<lifecycleVars, desk, pageVars, shown, callVars>>

-----------------------------------------------------------------------------
(* The queue                                                               *)

queueView(t) == page[t] = "queue"
mayRead(t) == Len(reads[t]) < MaxReads

\* loadQueue takes the error down and reads with the filter it was made with.
loadQueue(t, f, by) ==
  /\ ask(t, asked(f, by))
  /\ failed' = [failed EXCEPT ![t] = FALSE]

debounce(t) ==
  /\ queueView(t) /\ armed[t] /\ mayRead(t)
  /\ armed' = [armed EXCEPT ![t] = FALSE]
  /\ loadQueue(t, filter[t], "none")
  /\ UNCHANGED <<lifecycleVars, desk, page, open, filter, shown, busy,
                 callVars>>

toggle_unarmed_mutant(t) ==
  /\ queueView(t)
  /\ \E s \in FilterStatuses :
       filter' = [filter EXCEPT ![t] =
                   IF s \in @ THEN @ \ {s} ELSE @ \union {s}]
  /\ UNCHANGED <<lifecycleVars, desk, page, open, armed, readVars, callVars>>

\* The filter buttons; a change of the filter sets the timer again.
toggleStatus(t) ==
  /\ queueView(t)
  /\ \E s \in FilterStatuses :
       filter' = [filter EXCEPT ![t] =
                   IF s \in @ THEN @ \ {s} ELSE @ \union {s}]
  /\ armed' = [armed EXCEPT ![t] = TRUE]
  /\ UNCHANGED <<lifecycleVars, desk, page, open, readVars, callVars>>

refreshQueue(t) ==
  /\ queueView(t) /\ mayRead(t)
  /\ loadQueue(t, filter[t], "none")
  /\ UNCHANGED <<lifecycleVars, desk, pageVars, shown, busy, callVars>>

row(t, r) == queueView(t) /\ shown[t].items[r] # "none"
claimOffered(t, r) ==
  row(t, r) /\ shown[t].items[r] = "queued" /\ call[t].at = "none"
openOffered(t, r) == row(t, r) /\ shown[t].items[r] # "queued"

begin(t, c) ==
  /\ call[t].at = "none"
  /\ call' = [call EXCEPT ![t] = c]

\* The handler keeps the loadQueue, and so the filter, of this moment.
claim(t, r) ==
  /\ claimOffered(t, r)
  /\ begin(t, [NoCall EXCEPT !.op = "claim", !.req = r, !.at = "sent",
                             !.filter = filter[t]])
  /\ failed' = [failed EXCEPT ![t] = FALSE]
  /\ UNCHANGED <<lifecycleVars, desk, pageVars, shown, reads, busy,
                 untold>>

openCase(t, r) == openOffered(t, r) /\ goto(t, "case", r, caseLoad)
backToQueue(t) == page[t] = "case" /\ goto(t, "queue", None, << >>)

-----------------------------------------------------------------------------
(* The case page                                                           *)

caseShown(t) == shown[t].items[open[t]]
caseView(t) == page[t] = "case" /\ caseShown(t) # "none"
failedView(t) == page[t] = "case" /\ caseShown(t) = "none"
                   /\ failed[t] /\ reads[t] = << >>
decisionPanel(t) == caseView(t) /\ caseShown(t) = "in_review"
accessPanel(t) == caseView(t) /\ caseShown(t) = "approved"
actionsPanel(t) == caseView(t)
deletionPanel(t) == caseView(t)

retry(t) ==
  /\ failedView(t)
  /\ ask(t, asked({}, "none"))
  /\ failed' = [failed EXCEPT ![t] = FALSE]
  /\ UNCHANGED <<lifecycleVars, desk, pageVars, shown, busy, callVars>>

\* refreshReview; the button waits for the one before, the panels do not.
refreshReview(t) ==
  /\ ask(t, asked({}, "refresh"))
  /\ busy' = [busy EXCEPT ![t] = TRUE]

refresh(t) ==
  /\ caseView(t) /\ ~busy[t] /\ mayRead(t)
  /\ refreshReview(t)
  /\ UNCHANGED <<lifecycleVars, desk, pageVars, shown, failed, callVars>>

change(t, op, arg) ==
  /\ begin(t, [NoCall EXCEPT !.op = op, !.req = open[t], !.arg = arg,
                             !.seen = shown[t].rows, !.at = "sent"])
  /\ UNCHANGED <<lifecycleVars, desk, pageVars, readVars, untold>>

decide(t) ==
  decisionPanel(t) /\ \E d \in DecisionTargets : change(t, "decide", d)

requestActions(t) ==
  /\ actionsPanel(t)
  /\ \/ change(t, "revoke", None)
     \/ change(t, "extend", None)
     \/ \E adm \in Admins : change(t, "assign", adm)

\* Granting and revoking access, and deleting the evidence: what they do is in
\* AccessGrants and EvidenceStore.
services(t) ==
  (accessPanel(t) \/ deletionPanel(t)) /\ change(t, "service", None)

-----------------------------------------------------------------------------
(* Calls                                                                   *)

\* The copies of what the tab t has changed are old.
outdate(t) ==
  /\ shown' = [shown EXCEPT ![t].old = shown[t].served]
  /\ reads' = [reads EXCEPT ![t] = [i \in DOMAIN @ |->
       [@[i] EXCEPT !.old = reads[t][i].served]]]

ok(t) == call' = [call EXCEPT ![t].at = "answered", ![t].code = "ok"]
refused(t) ==
  /\ call' = [call EXCEPT ![t].at = "answered", ![t].code = "refused"]
  /\ UNCHANGED <<lifecycleVars, shown, reads>>

carriedOut(t) ==
  LET c == call[t]
      r == call[t].req
  IN \/ c.op = "claim" /\ claim_case(r, desk[t])
     \/ c.op = "decide" /\ record_decision(r, desk[t], c.arg)
     \/ c.op = "revoke" /\ revoke_request(r)
     \/ c.op = "revoke" /\ status[r] = "revoked" /\ UNCHANGED lifecycleVars
     \/ c.op = "extend" /\ \E time \in Times : extend_request_expiration(r, time)
     \/ c.op = "assign" /\ assign_reviewer(r, c.arg)
     \/ c.op = "service" /\ UNCHANGED lifecycleVars

refusable(t) ==
  LET c == call[t]
      r == call[t].req
  IN CASE c.op = "claim" -> status[r] # "queued" \/ reviewer[r] # None
       [] c.op = "decide" -> status[r] # "in_review" \/ reviewer[r] # desk[t]
       [] c.op = "revoke" -> status[r] \in {"rejected", "expired"}
       [] c.op = "extend" -> TRUE
       [] c.op = "assign" -> FALSE
       [] OTHER -> TRUE

call_served(t) ==
  /\ call[t].at = "sent"
  /\ \/ /\ carriedOut(t)
        /\ outdate(t)
        /\ ok(t)
     \/ refusable(t) /\ refused(t)
  /\ UNCHANGED <<desk, pageVars, busy, failed, untold>>

unseen(t, cond) == untold' = [untold EXCEPT ![t] = @ \/ cond]
done(t) == call' = [call EXCEPT ![t] = NoCall]

\* A claim that succeeds opens the case, whatever page the tab is on by now;
\* one that is refused reads the queue again.
claim_answered(t) ==
  /\ call[t].at = "answered" /\ call[t].op = "claim"
  /\ done(t)
  /\ CASE call[t].code = "ok" /\ open[t] # call[t].req ->
              mount(t, "case", call[t].req, caseLoad)
       [] call[t].code # "ok" /\ ~call[t].left ->
              /\ loadQueue(t, call[t].filter, "claim")
              /\ UNCHANGED <<pageVars, shown, busy, untold>>
       [] OTHER -> UNCHANGED <<pageVars, readVars, untold>>
  /\ UNCHANGED <<lifecycleVars, desk>>

assign_shows_nothing_mutant(t) ==
  /\ call[t].at = "answered" /\ call[t].op \in CasePanels
  /\ done(t)
  /\ IF call[t].code = "ok" /\ ~call[t].left /\ call[t].op # "assign"
       THEN refreshReview(t) ELSE UNCHANGED <<reads, busy>>
  /\ unseen(t, call[t].left)
  /\ UNCHANGED <<lifecycleVars, desk, pageVars, shown, failed>>

\* A panel that succeeds has the case read again; one that was left does so
\* for nobody.
panel_answered(t) ==
  /\ call[t].at = "answered" /\ call[t].op \in CasePanels
  /\ done(t)
  /\ IF call[t].code = "ok" /\ ~call[t].left
       THEN refreshReview(t) ELSE UNCHANGED <<reads, busy>>
  /\ unseen(t, call[t].left)
  /\ UNCHANGED <<lifecycleVars, desk, pageVars, shown, failed>>

\* The answer is lost: an error is shown, the form and the dialog stay as they
\* are, and the user may try again.
answer_lost(t) ==
  /\ call[t].at = "answered"
  /\ done(t)
  /\ unseen(t, TRUE)
  /\ IF call[t].op = "claim" /\ ~call[t].left
       THEN loadQueue(t, call[t].filter, "claim")
       ELSE UNCHANGED <<reads, failed>>
  /\ UNCHANGED <<lifecycleVars, desk, pageVars, shown, busy>>

-----------------------------------------------------------------------------
Click(t) ==
  toggleStatus(t) \/ refreshQueue(t) \/ refresh(t) \/ backToQueue(t)

Call(t) ==
  \/ \E r \in Requests : claim(t, r)
  \/ decide(t) \/ requestActions(t) \/ services(t)

Fault(t) == answer_lost(t) \/ \E i \in DOMAIN reads[t] : read_fails(t, i)

\* What the timer, the server and the network do, and the steps a user takes
\* to go on.
Proceed(t) ==
  \/ debounce(t) \/ retry(t) \/ \E r \in Requests : openCase(t, r)
  \/ \E i \in DOMAIN reads[t] : read_served(t, i) \/ read_arrives(t, i)
  \/ call_served(t) \/ claim_answered(t) \/ panel_answered(t)

\* The applicant.  All of this happens before the case expires.
Outside ==
  /\ \E a \in Applicants : ApplicantStep(a)
  /\ UNCHANGED deskVars

DeskNext ==
  \/ Outside /\ UNCHANGED moves
  \/ \E t \in Tabs :
       \/ Proceed(t) /\ UNCHANGED moves
       \/ /\ Click(t) \/ Call(t) \/ Fault(t)
          /\ moves < MaxMoves
          /\ moves' = moves + 1

DeskSpec == DeskInit /\ [][DeskNext]_vars

-----------------------------------------------------------------------------
(* Properties                                                              *)

\* A decision is recorded only by a page that showed every submission there
\* is: neither a retry after a lost answer nor a page left open decides on
\* evidence its reviewer has not been shown.
DecidedWhatWasSeen ==
  [][\A r \in Requests :
       decisions'[r] # decisions[r] =>
         \E t \in Tabs : /\ call[t].op = "decide" /\ call[t].req = r
                         /\ call[t].at = "sent" /\ call'[t].at = "answered"
                         /\ call[t].seen = rows[r]]_vars

quiet(t) == call[t].at = "none" /\ reads[t] = << >>

\* A page that is waiting for nothing shows its own last change, unless it was
\* not told of it, a refresh failed and the error shows, or an older answer
\* came after a newer one.
StaleCaseExplained ==
  \A t \in Tabs :
    page[t] = "case" /\ quiet(t) /\ shown[t].old =>
      failed[t] \/ untold[t] \/ shown[t].late

\* The queue shows what its filter says, unless a read failed, an older answer
\* came after a newer one, or a refused claim read it with the filter of the
\* moment of the claim.
QueueMatchesFilter ==
  \A t \in Tabs :
    queueView(t) /\ quiet(t) /\ ~armed[t] =>
      \/ shown[t].filter = filter[t]
      \/ failed[t]
      \/ shown[t].late
      \/ shown[t].by = "claim"
=============================================================================
