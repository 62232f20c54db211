--------------------------- MODULE ReviewDeskProofs ---------------------------
(* Proofs about ReviewDesk, for any tabs, requests, administrators and bounds. *)
EXTENDS ReviewDesk, SequenceTheorems, TLAPS

Filters == SUBSET (FilterStatuses \union {"queued"})
Shown == VerificationStatus \union {"none", "absent"}
Copy == [items : [Requests -> Shown], rows : Nat, filter : Filters,
         by : {"none", "refresh", "claim"}, served : BOOLEAN, old : BOOLEAN,
         late : BOOLEAN]
Ops == {"none", "claim"} \union CasePanels
CallRow == [op : Ops, req : Requests \union {None},
            arg : Admins \union DecisionTargets \union {None}, seen : Nat,
            filter : Filters, left : BOOLEAN,
            at : {"none", "sent", "answered"}, code : {"none", "ok", "refused"}]

\* The columns the pages read and the handlers that are open.
RowsTyped ==
  /\ status \in [Requests -> VerificationStatus \union {"absent"}]
  /\ reviewer \in [Requests -> Admins \union {None}]
  /\ rows \in [Requests -> Nat]
  /\ decisions \in [Requests -> Seq(DecisionTargets)]
  /\ \A a \in Applicants : sub[a].req \in Requests \union {None}

\* The tabs; a page that was left is not the one its call was made on.
TabsTyped ==
  /\ desk \in [Tabs -> Admins]
  /\ page \in [Tabs -> {"queue", "case"}]
  /\ open \in [Tabs -> Requests \union {None}]
  /\ \A t \in Tabs : page[t] = "case" <=> open[t] # None
  /\ filter \in [Tabs -> Filters]
  /\ armed \in [Tabs -> BOOLEAN]
  /\ failed \in [Tabs -> BOOLEAN]
  /\ untold \in [Tabs -> BOOLEAN]

CopiesTyped ==
  /\ shown \in [Tabs -> Copy]
  /\ reads \in [Tabs -> Seq(Copy)]

CallsTyped ==
  /\ call \in [Tabs -> CallRow]
  /\ \A t \in Tabs : call[t].at # "none" =>
       /\ call[t].req # None /\ call[t].op # "none"
       /\ call[t].op = "decide" => call[t].arg \in DecisionTargets
       /\ call[t].op = "assign" => call[t].arg \in Admins
       /\ call[t].op \in CasePanels /\ ~call[t].left => page[t] = "case"

\* The copies a tab has, or has asked for.
copies(t) == {shown[t]} \union {reads[t][i] : i \in DOMAIN reads[t]}

\* A request without a reviewer waits in the queue, and no tab has more of it
\* than that; so it is claimed once at most.
Untouched ==
  \A r \in Requests : reviewer[r] = None =>
    /\ status[r] \in {"absent", "queued"}
    /\ \A t \in Tabs :
         /\ open[t] # r
         /\ \A k \in copies(t) : k.items[r] \in {"none", "queued"}
         /\ call[t].at # "none" /\ call[t].req = r =>
              call[t].op = "claim" /\ call[t].code # "ok"

\* While the review that a copy shows goes on, no submission is added.
CopiesCurrent ==
  \A t \in Tabs :
    /\ page[t] = "case" => \A k \in copies(t) :
         k.items[open[t]] = "in_review" /\ status[open[t]] = "in_review" =>
           k.rows = rows[open[t]]
    /\ call[t].op = "decide" /\ call[t].at = "sent"
         /\ status[call[t].req] = "in_review" =>
           call[t].seen = rows[call[t].req]

\* The tab was not told of its last change, or is about to be told.
excused(t) ==
  \/ untold[t]
  \/ /\ call[t].at = "answered" /\ call[t].code = "ok"
     /\ call[t].op = "claim" => open[t] # call[t].req

\* Among the reads rs and the copy sh, whatever is not in G is late or will be
\* followed by one in G; the copy need not be when e holds.
settles(rs, sh, e, G) ==
  /\ sh \in G \/ e \/ sh.late \/ \E j \in DOMAIN rs : rs[j] \in G
  /\ \A i \in DOMAIN rs : \/ rs[i] \in G \/ rs[i].late
                          \/ \E j \in DOMAIN rs : i < j /\ rs[j] \in G

\* Every copy of a case page that the tab's own change made old will be
\* followed by a newer one, or is late.
NotOld == {k \in Copy : ~k.old}
OldReplaced ==
  \A t \in Tabs : page[t] = "case" /\ ~excused(t) =>
    settles(reads[t], shown[t], failed[t], NotOld)

\* Every copy of the queue that does not fit the filter will be followed by
\* one that does, or is late; a claim under way will read the queue.
Fitting(f) == {k \in Copy : k.filter = f \/ k.by = "claim"}
claiming(t) == call[t].op = "claim" /\ call[t].at # "none" /\ ~call[t].left
FilterFollowed ==
  \A t \in Tabs : page[t] = "queue" /\ ~armed[t] =>
    settles(reads[t], shown[t], failed[t] \/ claiming(t), Fitting(filter[t]))

-----------------------------------------------------------------------------
(* What a step touches                                                     *)

\* What a tab holds.
tab(t) == <<desk[t], page[t], open[t], filter[t], armed[t], shown[t], reads[t],
            failed[t], call[t], untold[t]>>
DeskTyped == RowsTyped /\ TabsTyped /\ CopiesTyped /\ CallsTyped
TabStep(t) == Proceed(t) \/ Click(t) \/ Call(t) \/ Fault(t)

\* An administrator's handler has carried out what a tab has asked for.
carried(t) ==
  /\ call[t].at = "sent" /\ carriedOut(t) /\ outdate(t) /\ ok(t)
  /\ UNCHANGED <<desk, pageVars, busy, failed, untold>>

\* A step is the applicant's or a tab's.
LEMMA DeskSteps ==
  ASSUME [DeskNext]_vars
  PROVE  \/ UNCHANGED <<lifecycleVars, deskVars>>
         \/ Outside
         \/ \E t \in Tabs : TabStep(t)
BY DEF DeskNext, vars, TabStep

\* A request changes when an applicant's handler or a change is carried out.
LEMMA RowFrame ==
  ASSUME [DeskNext]_vars
  PROVE  \/ UNCHANGED lifecycleVars
         \/ Outside
         \/ \E t \in Tabs : carried(t)
<1>1. ASSUME NEW t \in Tabs, TabStep(t)
      PROVE  UNCHANGED lifecycleVars \/ carried(t)
  <2>1. CASE call_served(t)
    BY <2>1 DEF call_served, carried, refused
  <2>2. CASE Click(t)
    BY <2>2 DEF Click, toggleStatus, refreshQueue, refresh, backToQueue, goto
  <2>3. CASE Call(t)
    BY <2>3 DEF Call, claim, decide, requestActions, services, change
  <2>4. CASE Fault(t)
    BY <2>4 DEF Fault, answer_lost, read_fails
  <2>5. CASE Proceed(t) /\ ~call_served(t)
    BY <2>5 DEF Proceed, debounce, retry, openCase, goto, read_served,
       read_arrives, claim_answered, panel_answered
  <2>6. QED
    BY <1>1, <2>1, <2>2, <2>3, <2>4, <2>5 DEF TabStep
<1>2. QED
  BY <1>1, DeskSteps

\* What an applicant's handler does to the requests.
LEMMA Submitted ==
  ASSUME RowsTyped, Outside
  PROVE  /\ RowsTyped'
         /\ UNCHANGED <<reviewer, decisions>>
         /\ \A r \in Requests :
              \/ status'[r] = status[r] /\ rows'[r] = rows[r]
              \/ status'[r] = "queued"
<1> USE NoneAssumption
<1>1. PICK a \in Applicants : ApplicantStep(a)
  BY DEF Outside
<1>2. ASSUME NEW r \in Requests, submit_read(a, r)
      PROVE  \A b \in Applicants : sub'[b].req \in Requests \union {None}
  BY <1>2 DEF submit_read, RowsTyped, Idle
<1>3. CASE \E r \in Requests : submit_read(a, r)
  BY <1>2, <1>3 DEF submit_read, RowsTyped, requestRow
<1>4. CASE submit_commit(a)
  BY <1>4 DEF submit_commit, RowsTyped, Idle, VerificationStatus
<1>5. CASE submit_abort(a)
  BY <1>5 DEF submit_abort, RowsTyped, Idle, requestRow
<1>6. QED
  BY <1>1, <1>3, <1>4, <1>5 DEF ApplicantStep

\* What an administrator's change does to the requests: only a claim, of a
\* request without a reviewer, starts a review.
LEMMA Carried ==
  ASSUME RowsTyped, TabsTyped, CallsTyped, NEW t \in Tabs, carried(t)
  PROVE  /\ RowsTyped'
         /\ UNCHANGED rows
         /\ call[t].req \in Requests
         /\ \A r \in Requests : r # call[t].req =>
              status'[r] = status[r] /\ reviewer'[r] = reviewer[r]
         /\ call[t].op = "claim" =>
              /\ reviewer[call[t].req] = None
              /\ reviewer'[call[t].req] # None
         /\ call[t].op # "claim" /\ status'[call[t].req] = "in_review" =>
              status[call[t].req] = "in_review"
         /\ \A r \in Requests : reviewer[r] # None => reviewer'[r] # None
         /\ \A r \in Requests : decisions'[r] # decisions[r] =>
              /\ call[t].op = "decide" /\ call[t].req = r
              /\ status[r] = "in_review"
<1> USE NoneAssumption
<1> DEFINE c == call[t]  r == call[t].req
<1>1. /\ call[t].at = "sent" /\ call[t].req \in Requests
      /\ call[t].op = "decide" => call[t].arg \in DecisionTargets
      /\ call[t].op = "assign" => call[t].arg \in Admins
      /\ desk[t] \in Admins
  BY DEF carried, CallsTyped, CallRow, TabsTyped
<1>2. carriedOut(t)
  BY DEF carried
<1> USE DEF RowsTyped
<1> HIDE DEF c, r
<1>3. CASE c.op = "claim" /\ claim_case(r, desk[t])
  BY <1>1, <1>3 DEF claim_case, VerificationStatus, c, r
<1>4. CASE c.op = "decide" /\ record_decision(r, desk[t], c.arg)
  <2>1. decisions' = [decisions EXCEPT ![r] = Append(@, c.arg)]
    BY <1>4 DEF record_decision
  <2>2. decisions[r] \in Seq(DecisionTargets) /\ c.arg \in DecisionTargets
    BY <1>1, <1>4 DEF c, r
  <2>3. Append(decisions[r], c.arg) \in Seq(DecisionTargets)
    BY <2>2
  <2>4. decisions' \in [Requests -> Seq(DecisionTargets)]
    BY <2>1, <2>3
  <2>5. DecisionTargets \subseteq VerificationStatus \ {"in_review"}
    BY DEF DecisionTargets, VerificationStatus
  <2> QED
    BY <1>1, <1>4, <2>1, <2>2, <2>4, <2>5 DEF record_decision, c, r
<1>5. CASE c.op = "revoke" /\ revoke_request(r)
  BY <1>1, <1>5 DEF revoke_request, VerificationStatus, c, r
<1>6. CASE \/ c.op = "revoke" /\ UNCHANGED lifecycleVars
           \/ c.op = "service" /\ UNCHANGED lifecycleVars
  BY <1>1, <1>6 DEF lifecycleVars, requestRow, c, r
<1>7. CASE c.op = "extend" /\ \E time \in Times :
                                extend_request_expiration(r, time)
  BY <1>1, <1>7 DEF extend_request_expiration, VerificationStatus, c, r
<1>8. CASE c.op = "assign" /\ assign_reviewer(r, c.arg)
  BY <1>1, <1>8 DEF assign_reviewer, c, r
<1>9. QED
  BY <1>2, <1>3, <1>4, <1>5, <1>6, <1>7, <1>8 DEF carriedOut, c, r

\* A read that is asked for shows nothing yet.
LEMMA Asked ==
  ASSUME NEW f \in Filters, NEW by \in {"none", "refresh", "claim"}
  PROVE  /\ asked(f, by) \in Copy
         /\ asked(f, by).items = NoItems
         /\ asked(f, by).filter = f /\ asked(f, by).by = by
         /\ ~asked(f, by).old
<1>1. NoItems \in [Requests -> Shown]
  BY DEF NoItems, Shown
<1>2. Blank \in Copy
  BY <1>1 DEF Blank, Copy, Filters
<1>3. QED
  BY <1>1, <1>2 DEF asked, Blank, Copy

LEMMA BlankTyped == Blank \in Copy /\ Blank.items = NoItems /\ ~Blank.old
<1>1. NoItems \in [Requests -> Shown]
  BY DEF NoItems, Shown
<1>2. QED
  BY <1>1 DEF Blank, Copy, Filters

\* What is left of the reads when one is over.
LEMMA Without ==
  ASSUME CopiesTyped, NEW t \in Tabs, NEW i \in DOMAIN reads[t]
  PROVE  /\ without(t, i) \in Seq(Copy)
         /\ Len(reads[t]) \in Nat \ {0} /\ i \in 1 .. Len(reads[t])
         /\ DOMAIN reads[t] = 1 .. Len(reads[t])
         /\ DOMAIN without(t, i) = 1 .. Len(reads[t]) - 1
         /\ \A j \in 1 .. Len(reads[t]) - 1 :
              /\ j < i => without(t, i)[j] = [reads[t][j] EXCEPT !.late = TRUE]
              /\ j >= i => without(t, i)[j] = reads[t][j + 1]
<1> DEFINE n == Len(reads[t])
<1>1. /\ reads[t] \in Seq(Copy) /\ n \in Nat /\ DOMAIN reads[t] = 1 .. n
      /\ \A j \in 1 .. n : reads[t][j] \in Copy
  BY LenProperties, ElementOfSeq DEF CopiesTyped
<1>2. i \in 1 .. n /\ n # 0
  BY <1>1
<1>3. \A j \in 1 .. n : [reads[t][j] EXCEPT !.late = TRUE] \in Copy
  BY <1>1 DEF Copy
<1>4. without(t, i) \in [1 .. n - 1 -> Copy]
  BY <1>1, <1>2, <1>3 DEF without
<1>5. n - 1 \in Nat
  BY <1>1, <1>2
<1>6. without(t, i) \in Seq(Copy)
  BY <1>4, <1>5, SeqDef
<1>7. QED
  BY <1>1, <1>2, <1>4, <1>6 DEF without

\* A read is asked for after those that are under way.
LEMMA AskedLast ==
  ASSUME CopiesTyped, NEW t \in Tabs, NEW k \in Copy
  PROVE  /\ Append(reads[t], k) \in Seq(Copy)
         /\ Len(reads[t]) \in Nat /\ DOMAIN reads[t] = 1 .. Len(reads[t])
         /\ DOMAIN Append(reads[t], k) = 1 .. Len(reads[t]) + 1
         /\ Append(reads[t], k)[Len(reads[t]) + 1] = k
         /\ \A j \in DOMAIN reads[t] : Append(reads[t], k)[j] = reads[t][j]
<1>1. /\ reads[t] \in Seq(Copy) /\ Len(reads[t]) \in Nat
      /\ DOMAIN reads[t] = 1 .. Len(reads[t])
  BY LenProperties DEF CopiesTyped
<1>2. /\ Append(reads[t], k) \in Seq(Copy)
      /\ Len(Append(reads[t], k)) = Len(reads[t]) + 1
      /\ Append(reads[t], k)[Len(reads[t]) + 1] = k
      /\ \A j \in 1 .. Len(reads[t]) : Append(reads[t], k)[j] = reads[t][j]
  BY <1>1, AppendProperties
<1>3. QED
  BY <1>1, <1>2, LenProperties

\* The copies that a change makes old.
LEMMA Outdated ==
  ASSUME CopiesTyped, NEW t \in Tabs, outdate(t)
  PROVE  /\ shown' = [shown EXCEPT ![t] = [shown[t] EXCEPT !.old = shown[t].served]]
         /\ DOMAIN reads'[t] = DOMAIN reads[t]
         /\ \A i \in DOMAIN reads[t] :
              reads'[t][i] = [reads[t][i] EXCEPT !.old = reads[t][i].served]
         /\ \A u \in Tabs : u # t => reads'[u] = reads[u]
         /\ CopiesTyped'
<1> DEFINE n == Len(reads[t])
           new == [i \in DOMAIN reads[t] |->
                     [reads[t][i] EXCEPT !.old = reads[t][i].served]]
<1>1. /\ reads[t] \in Seq(Copy) /\ n \in Nat /\ DOMAIN reads[t] = 1 .. n
      /\ \A j \in 1 .. n : reads[t][j] \in Copy
  BY LenProperties, ElementOfSeq DEF CopiesTyped
<1>2. \A k \in Copy : [k EXCEPT !.old = k.served] \in Copy
  BY DEF Copy
<1>3. new \in [1 .. n -> Copy]
  BY <1>1, <1>2
<1>4. new \in Seq(Copy)
  BY <1>1, <1>3, SeqDef
<1>5. reads' = [reads EXCEPT ![t] = new]
  BY DEF outdate
<1>6. shown' = [shown EXCEPT ![t] = [shown[t] EXCEPT !.old = shown[t].served]]
  BY DEF outdate
<1>7. CopiesTyped'
  BY <1>2, <1>4, <1>5, <1>6 DEF CopiesTyped
<1>8. reads'[t] = new
  BY <1>5 DEF CopiesTyped
<1>9. QED
  BY <1>5, <1>6, <1>7, <1>8 DEF CopiesTyped

\* Which steps touch what a tab shows and reads.
LEMMA ReadFrame ==
  ASSUME TabsTyped, CallsTyped, NEW t \in Tabs, TabStep(t)
  PROVE  \/ UNCHANGED <<page, open, shown, reads>>
         \/ \E r \in Requests : mount(t, "case", r, caseLoad)
         \/ mount(t, "queue", None, << >>)
         \/ /\ UNCHANGED <<lifecycleVars, desk, page, open, filter, shown>>
            /\ \E f \in Filters, by \in {"none", "refresh", "claim"} :
                 ask(t, asked(f, by))
         \/ \E i \in DOMAIN reads[t] :
              read_served(t, i) \/ read_arrives(t, i) \/ read_fails(t, i)
         \/ carried(t)
<1>1. {} \in Filters /\ filter[t] \in Filters /\ call[t].filter \in Filters
  BY DEF TabsTyped, CallsTyped, CallRow, Filters
<1>2. CASE call_served(t)
  BY <1>2 DEF call_served, carried, refused, pageVars
<1>3. CASE toggleStatus(t) \/ backToQueue(t)
  BY <1>3 DEF toggleStatus, backToQueue, goto, readVars
<1>4. CASE refreshQueue(t) \/ refresh(t)
  BY <1>1, <1>4 DEF refreshQueue, refresh, loadQueue, refreshReview, pageVars
<1>5. CASE Call(t)
  BY <1>5 DEF Call, claim, decide, requestActions, services, change, pageVars,
     readVars
<1>6. CASE answer_lost(t)
  BY <1>1, <1>6 DEF answer_lost, loadQueue, pageVars
<1>7. CASE debounce(t) \/ retry(t)
  BY <1>1, <1>7 DEF debounce, retry, loadQueue, pageVars
<1>8. CASE \E r \in Requests : openCase(t, r)
  BY <1>8 DEF openCase, goto
<1>9. CASE claim_answered(t)
  <2>1. call[t].req \in Requests
    BY <1>9 DEF claim_answered, CallsTyped, CallRow
  <2>2. CASE call[t].code = "ok" /\ open[t] # call[t].req
    BY <1>9, <2>1, <2>2 DEF claim_answered
  <2>3. CASE call[t].code # "ok" /\ ~call[t].left
    BY <1>1, <1>9, <2>3 DEF claim_answered, loadQueue, pageVars
  <2>4. CASE /\ ~(call[t].code = "ok" /\ open[t] # call[t].req)
             /\ ~(call[t].code # "ok" /\ ~call[t].left)
    BY <1>9, <2>4 DEF claim_answered, pageVars, readVars
  <2>5. QED
    BY <2>2, <2>3, <2>4
<1>10. CASE panel_answered(t)
  BY <1>1, <1>10 DEF panel_answered, refreshReview, pageVars
<1>11. QED
  BY <1>2, <1>3, <1>4, <1>5, <1>6, <1>7, <1>8, <1>9, <1>10
     DEF TabStep, Click, Fault, Proceed

\* The server's answers are copies.
LEMMA Answers ==
  ASSUME RowsTyped, TabsTyped, NEW t \in Tabs, NEW f
  PROVE  /\ list_verification_requests(f).items \in [Requests -> Shown]
         /\ list_verification_requests(f).rows \in Nat
         /\ page[t] = "case" =>
              /\ get_review_detail(open[t]).items \in [Requests -> Shown]
              /\ get_review_detail(open[t]).rows \in Nat
<1>1. \A r \in Requests : status[r] \in Shown /\ rows[r] \in Nat
  BY DEF RowsTyped, Shown
<1>2. listed(f) \in [Requests -> Shown]
  BY <1>1 DEF listed, Shown
<1>3. ASSUME page[t] = "case"
      PROVE  [NoItems EXCEPT ![open[t]] = status[open[t]]] \in [Requests -> Shown]
  BY <1>1, <1>3 DEF NoItems, Shown, TabsTyped
<1>4. QED
  BY <1>1, <1>2, <1>3 DEF list_verification_requests, get_review_detail, TabsTyped

\* The read at i has become k, a copy of what is committed.
servedAs(t, i, k) ==
  /\ reads' = [reads EXCEPT ![t] = [reads[t] EXCEPT ![i] = k]]
  /\ [reads[t] EXCEPT ![i] = k] \in Seq(Copy)
  /\ reads'[t][i] = k /\ DOMAIN reads'[t] = DOMAIN reads[t]
  /\ \A j \in DOMAIN reads[t] : j # i => reads'[t][j] = reads[t][j]
  /\ k.old = reads[t][i].old /\ k.late = reads[t][i].late
  /\ k.filter = reads[t][i].filter /\ k.by = reads[t][i].by
  /\ page[t] = "queue" => k.items = listed(reads[t][i].filter)
  /\ page[t] = "case" =>
       /\ k.items = [NoItems EXCEPT ![open[t]] = status[open[t]]]
       /\ k.rows = rows[open[t]]

LEMMA Served ==
  ASSUME RowsTyped, TabsTyped, CopiesTyped, NEW t \in Tabs,
         NEW i \in DOMAIN reads[t], read_served(t, i)
  PROVE  \E k \in Copy : servedAs(t, i, k)
<1> DEFINE q == reads[t][i]
           copy == IF page[t] = "queue" THEN list_verification_requests(q.filter)
                   ELSE get_review_detail(open[t])
           k == [q EXCEPT !.served = TRUE, !.items = copy.items,
                          !.rows = copy.rows]
<1>1. reads[t] \in Seq(Copy) /\ q \in Copy
  BY ElementOfSeq, LenProperties DEF CopiesTyped
<1>2. page[t] \in {"queue", "case"}
  BY DEF TabsTyped
<1>3. copy.items \in [Requests -> Shown] /\ copy.rows \in Nat
  BY <1>2, Answers
<1>4. /\ page[t] = "queue" => copy.items = listed(q.filter)
      /\ page[t] = "case" =>
           /\ copy.items = [NoItems EXCEPT ![open[t]] = status[open[t]]]
           /\ copy.rows = rows[open[t]]
  BY DEF list_verification_requests, get_review_detail
<1>5. reads' = [reads EXCEPT ![t][i] = k]
  BY DEF read_served
<1> HIDE DEF copy
<1>6. /\ k \in Copy /\ k.items = copy.items /\ k.rows = copy.rows
      /\ k.old = q.old /\ k.late = q.late /\ k.filter = q.filter /\ k.by = q.by
  BY <1>1, <1>3 DEF Copy
<1> HIDE DEF k
<1>7. reads' = [reads EXCEPT ![t] = [reads[t] EXCEPT ![i] = k]]
  BY <1>5 DEF CopiesTyped
<1>8. [reads[t] EXCEPT ![i] = k] \in Seq(Copy)
  BY <1>1, <1>6, ExceptSeq
<1>9. reads'[t] = [reads[t] EXCEPT ![i] = k]
  BY <1>7 DEF CopiesTyped
<1>10. /\ reads'[t][i] = k /\ DOMAIN reads'[t] = DOMAIN reads[t]
       /\ \A j \in DOMAIN reads[t] : j # i => reads'[t][j] = reads[t][j]
  BY <1>9
<1>11. /\ page[t] = "queue" => k.items = listed(reads[t][i].filter)
       /\ page[t] = "case" =>
            /\ k.items = [NoItems EXCEPT ![open[t]] = status[open[t]]]
            /\ k.rows = rows[open[t]]
  BY <1>4, <1>6
<1>12. QED
  BY <1>6, <1>7, <1>8, <1>10, <1>11 DEF servedAs

LEMMA CopiesStayTyped ==
  ASSUME DeskTyped, [DeskNext]_vars
  PROVE  CopiesTyped'
<1> USE DEF DeskTyped
<1>1. ASSUME UNCHANGED <<shown, reads>>
      PROVE  CopiesTyped'
  BY <1>1 DEF CopiesTyped
<1>2. ASSUME NEW t \in Tabs, TabStep(t)
      PROVE  CopiesTyped'
  <2>1. asked({}, "none") \in Copy /\ caseLoad \in Seq(Copy) /\ << >> \in Seq(Copy)
    BY Asked DEF caseLoad, Filters
  <2>2. ASSUME NEW p, NEW r, NEW new \in Seq(Copy), mount(t, p, r, new)
        PROVE  CopiesTyped'
    BY <2>2, BlankTyped DEF mount, CopiesTyped
  <2>3. ASSUME NEW f \in Filters, NEW by \in {"none", "refresh", "claim"},
               ask(t, asked(f, by)), UNCHANGED shown
        PROVE  CopiesTyped'
    BY <2>3, Asked, AskedLast DEF ask, CopiesTyped
  <2>4. ASSUME NEW i \in DOMAIN reads[t], read_served(t, i)
        PROVE  CopiesTyped'
    <3>1. PICK k \in Copy : servedAs(t, i, k)
      BY <2>4, Served
    <3>2. UNCHANGED shown
      BY <2>4 DEF read_served
    <3>3. QED
      BY <3>1, <3>2 DEF servedAs, CopiesTyped
  <2>5. ASSUME NEW i \in DOMAIN reads[t], read_arrives(t, i)
        PROVE  CopiesTyped'
    <3>1. reads[t][i] \in Copy
      BY ElementOfSeq, LenProperties DEF CopiesTyped
    <3>2. [reads[t][i] EXCEPT !.by = IF @ = "claim" THEN @ ELSE "none"] \in Copy
      BY <3>1 DEF Copy
    <3>3. QED
      BY <2>5, <3>2, Without DEF read_arrives, CopiesTyped
  <2>6. ASSUME NEW i \in DOMAIN reads[t], read_fails(t, i)
        PROVE  CopiesTyped'
    BY <2>6, Without DEF read_fails, CopiesTyped
  <2>7. CASE carried(t)
    BY <2>7, Outdated DEF carried
  <2>8. QED
    BY <1>1, <1>2, <2>1, <2>2, <2>3, <2>4, <2>5, <2>6, <2>7, ReadFrame
<1>3. QED
  BY <1>1, <1>2, DeskSteps DEF Outside, deskVars, readVars

\* A panel of the case page begins a change.
panelBegins(t) ==
  \E op \in CasePanels, arg \in Admins \union DecisionTargets \union {None} :
    /\ change(t, op, arg) /\ caseView(t)
    /\ op = "decide" => decisionPanel(t) /\ arg \in DecisionTargets
    /\ op = "assign" => arg \in Admins

\* Which steps touch the call of a tab.
LEMMA CallFrame ==
  ASSUME NEW t \in Tabs, TabStep(t)
  PROVE  \/ UNCHANGED <<call, page, open>>
         \/ backToQueue(t) \/ \E r \in Requests : openCase(t, r) \/ claim(t, r)
         \/ panelBegins(t)
         \/ carried(t)
         \/ call_served(t) /\ refused(t)
         \/ claim_answered(t) \/ panel_answered(t) \/ answer_lost(t)
<1>1. CASE call_served(t)
  BY <1>1 DEF call_served, carried, refused
<1>2. CASE toggleStatus(t) \/ refreshQueue(t) \/ refresh(t)
  BY <1>2 DEF toggleStatus, refreshQueue, refresh, pageVars, callVars
<1>3. CASE \E r \in Requests : claim(t, r)
  BY <1>3
<1>4. CASE decide(t)
  BY <1>4 DEF panelBegins, decide, decisionPanel, CasePanels
<1>5. CASE requestActions(t) \/ services(t)
  BY <1>5 DEF panelBegins, requestActions, services, actionsPanel, accessPanel,
     deletionPanel, CasePanels
<1>6. CASE \E i \in DOMAIN reads[t] :
             read_served(t, i) \/ read_arrives(t, i) \/ read_fails(t, i)
  BY <1>6 DEF read_served, read_arrives, read_fails, pageVars, callVars
<1>7. CASE debounce(t) \/ retry(t)
  BY <1>7 DEF debounce, retry, pageVars, callVars
<1>8. QED
  BY <1>1, <1>2, <1>3, <1>4, <1>5, <1>6, <1>7 DEF TabStep, Click, Call, Fault, Proceed

\* What a tab asks for when it claims a case or changes the one it shows.
LEMMA Begun ==
  ASSUME TabsTyped, CopiesTyped, CallsTyped, NEW t \in Tabs
  PROVE  /\ NoCall \in CallRow /\ NoCall.at = "none" /\ NoCall.op = "none"
         /\ \A r \in Requests : claim(t, r) =>
              \E c \in CallRow :
                /\ call' = [call EXCEPT ![t] = c]
                /\ c.op = "claim" /\ c.req = r /\ c.at = "sent" /\ ~c.left
                /\ c.code = "none"
         /\ \A op \in CasePanels, arg \in Admins \union DecisionTargets \union {None} :
              change(t, op, arg) /\ page[t] = "case" =>
                \E c \in CallRow :
                  /\ call' = [call EXCEPT ![t] = c]
                  /\ c.op = op /\ c.req = open[t] /\ c.at = "sent" /\ ~c.left
                  /\ c.code = "none" /\ c.arg = arg /\ c.seen = shown[t].rows
<1> USE NoneAssumption
<1>1. NoCall \in CallRow /\ NoCall.at = "none" /\ NoCall.op = "none"
  BY DEF NoCall, CallRow, Ops, Filters
<1>2. ASSUME NEW r \in Requests, claim(t, r)
      PROVE  \E c \in CallRow :
                /\ call' = [call EXCEPT ![t] = c]
                /\ c.op = "claim" /\ c.req = r /\ c.at = "sent" /\ ~c.left
                /\ c.code = "none"
  <2> DEFINE c == [NoCall EXCEPT !.op = "claim", !.req = r, !.at = "sent",
                                 !.filter = filter[t]]
  <2>1. call' = [call EXCEPT ![t] = c]
    BY <1>2 DEF claim, begin
  <2>2. filter[t] \in Filters
    BY DEF TabsTyped
  <2>3. /\ c.op = "claim" /\ c.req = r /\ c.at = "sent" /\ ~c.left
        /\ c.code = "none"
    BY DEF NoCall
  <2>4. c \in CallRow
    BY <2>2 DEF NoCall, CallRow, Ops
  <2>5. QED
    BY <2>1, <2>3, <2>4
<1>3. ASSUME NEW op \in CasePanels,
             NEW arg \in Admins \union DecisionTargets \union {None},
             change(t, op, arg), page[t] = "case"
      PROVE  \E c \in CallRow :
                  /\ call' = [call EXCEPT ![t] = c]
                  /\ c.op = op /\ c.req = open[t] /\ c.at = "sent" /\ ~c.left
                  /\ c.code = "none" /\ c.arg = arg /\ c.seen = shown[t].rows
  <2> DEFINE c == [NoCall EXCEPT !.op = op, !.req = open[t], !.arg = arg,
                                 !.seen = shown[t].rows, !.at = "sent"]
  <2>1. call' = [call EXCEPT ![t] = c]
    BY <1>3 DEF change, begin
  <2>2. shown[t].rows \in Nat /\ open[t] \in Requests
    BY <1>3 DEF CopiesTyped, Copy, TabsTyped
  <2>3. /\ c.op = op /\ c.req = open[t] /\ c.at = "sent" /\ ~c.left
        /\ c.code = "none" /\ c.arg = arg /\ c.seen = shown[t].rows
    BY DEF NoCall
  <2>4. c \in CallRow
    BY <2>2 DEF NoCall, CallRow, Ops, Filters
  <2>5. QED
    BY <2>1, <2>3, <2>4
<1>4. QED
  BY <1>1, <1>2, <1>3

\* What the page's leaving and the server's answer do to the call of a tab.
LEMMA CallKept ==
  ASSUME CallsTyped, NEW t \in Tabs
  PROVE  /\ \A p, r, new : goto(t, p, r, new) =>
              \E c \in CallRow :
                /\ call' = [call EXCEPT ![t] = c]
                /\ c.op = call[t].op /\ c.req = call[t].req /\ c.at = call[t].at
                /\ c.code = call[t].code /\ c.arg = call[t].arg
                /\ c.seen = call[t].seen /\ c.left = (call[t].at # "none")
         /\ ok(t) \/ refused(t) =>
              \E c \in CallRow :
                /\ call' = [call EXCEPT ![t] = c]
                /\ c.op = call[t].op /\ c.req = call[t].req /\ c.at = "answered"
                /\ c.arg = call[t].arg /\ c.left = call[t].left
                /\ c.seen = call[t].seen
                /\ ok(t) => c.code = "ok"
                /\ refused(t) => c.code = "refused"
<1>1. call[t] \in CallRow
  BY DEF CallsTyped
<1>2. ASSUME NEW p, NEW r, NEW new, goto(t, p, r, new)
      PROVE  \E c \in CallRow :
                /\ call' = [call EXCEPT ![t] = c]
                /\ c.op = call[t].op /\ c.req = call[t].req /\ c.at = call[t].at
                /\ c.code = call[t].code /\ c.arg = call[t].arg
                /\ c.seen = call[t].seen /\ c.left = (call[t].at # "none")
  <2> DEFINE c == [call[t] EXCEPT !.left = (call[t].at # "none")]
  <2>1. call' = [call EXCEPT ![t] = c]
    BY <1>2 DEF goto
  <2>2. /\ c.op = call[t].op /\ c.req = call[t].req /\ c.at = call[t].at
        /\ c.code = call[t].code /\ c.arg = call[t].arg
        /\ c.seen = call[t].seen /\ c.left = (call[t].at # "none")
    BY <1>1 DEF CallRow
  <2>3. c \in CallRow
    BY <1>1 DEF CallRow
  <2>4. QED
    BY <2>1, <2>2, <2>3
<1>3. ASSUME NEW code \in {"ok", "refused"},
             call' = [call EXCEPT ![t].at = "answered", ![t].code = code]
      PROVE  \E c \in CallRow :
                /\ call' = [call EXCEPT ![t] = c]
                /\ c.op = call[t].op /\ c.req = call[t].req /\ c.at = "answered"
                /\ c.arg = call[t].arg /\ c.left = call[t].left
                /\ c.seen = call[t].seen /\ c.code = code
  <2> DEFINE c == [call[t] EXCEPT !.at = "answered", !.code = code]
  <2>1. call' = [call EXCEPT ![t] = c]
    BY <1>3 DEF CallsTyped
  <2>2. /\ c.op = call[t].op /\ c.req = call[t].req /\ c.at = "answered"
        /\ c.arg = call[t].arg /\ c.left = call[t].left
        /\ c.seen = call[t].seen /\ c.code = code
    BY <1>1 DEF CallRow
  <2>3. c \in CallRow
    BY <1>1 DEF CallRow
  <2>4. QED
    BY <2>1, <2>2, <2>3
<1>4. ok(t) => call' = [call EXCEPT ![t].at = "answered", ![t].code = "ok"]
  BY DEF ok
<1>5. refused(t) => call' = [call EXCEPT ![t].at = "answered", ![t].code = "refused"]
  BY DEF refused
<1>6. ~(ok(t) /\ refused(t))
  <2>1. ok(t) => call'[t].code = "ok"
    BY <1>1 DEF ok, CallsTyped, CallRow
  <2>2. refused(t) => call'[t].code = "refused"
    BY <1>1 DEF refused, CallsTyped, CallRow
  <2>3. QED
    BY <2>1, <2>2
<1>7. ASSUME ok(t)
      PROVE  \E c \in CallRow :
                /\ call' = [call EXCEPT ![t] = c]
                /\ c.op = call[t].op /\ c.req = call[t].req /\ c.at = "answered"
                /\ c.arg = call[t].arg /\ c.left = call[t].left
                /\ c.seen = call[t].seen /\ c.code = "ok"
  BY <1>3, <1>4, <1>7
<1>8. ASSUME refused(t)
      PROVE  \E c \in CallRow :
                /\ call' = [call EXCEPT ![t] = c]
                /\ c.op = call[t].op /\ c.req = call[t].req /\ c.at = "answered"
                /\ c.arg = call[t].arg /\ c.left = call[t].left
                /\ c.seen = call[t].seen /\ c.code = "refused"
  BY <1>3, <1>5, <1>8
<1>9. QED
  BY <1>2, <1>6, <1>7, <1>8

LEMMA TabsStayTyped ==
  ASSUME DeskTyped, [DeskNext]_vars
  PROVE  TabsTyped'
<1> USE NoneAssumption DEF DeskTyped
<1>1. ASSUME NEW t \in Tabs,
             NEW p \in {"queue", "case"}, NEW r \in Requests \union {None}, NEW new,
             p = "case" <=> r # None, mount(t, p, r, new), UNCHANGED desk
      PROVE  TabsTyped'
  <2>1. {"queued"} \in Filters
    BY DEF Filters
  <2>2. /\ page' \in [Tabs -> {"queue", "case"}]
        /\ open' \in [Tabs -> Requests \union {None}]
        /\ \A u \in Tabs : page'[u] = "case" <=> open'[u] # None
    BY <1>1 DEF mount, TabsTyped
  <2>3. filter' \in [Tabs -> Filters]
    BY <1>1, <2>1 DEF mount, TabsTyped
  <2>4. /\ armed' \in [Tabs -> BOOLEAN] /\ failed' \in [Tabs -> BOOLEAN]
        /\ untold' \in [Tabs -> BOOLEAN]
    BY <1>1 DEF mount, TabsTyped
  <2>5. QED
    BY <1>1, <2>2, <2>3, <2>4 DEF TabsTyped
<1>2. ASSUME UNCHANGED <<desk, page, open>>, filter' \in [Tabs -> Filters],
             armed' \in [Tabs -> BOOLEAN], failed' \in [Tabs -> BOOLEAN],
             untold' \in [Tabs -> BOOLEAN]
      PROVE  TabsTyped'
  BY <1>2 DEF TabsTyped
<1>3. ASSUME UNCHANGED <<desk, pageVars, failed, untold>>
      PROVE  TabsTyped'
  BY <1>3 DEF TabsTyped, pageVars
<1>4. ASSUME NEW t \in Tabs, TabStep(t)
      PROVE  TabsTyped'
  <2>1. call[t] \in CallRow
    BY DEF CallsTyped
  <2>2. CASE backToQueue(t) \/ \E r \in Requests : openCase(t, r)
    BY <1>1, <2>2 DEF backToQueue, openCase, goto
  <2>3. CASE toggleStatus(t)
    <3>1. PICK s \in FilterStatuses :
            filter' = [filter EXCEPT ![t] =
                        IF s \in @ THEN @ \ {s} ELSE @ \union {s}]
      BY <2>3 DEF toggleStatus
    <3>2. filter' \in [Tabs -> Filters]
      BY <3>1 DEF TabsTyped, Filters
    <3>3. armed' \in [Tabs -> BOOLEAN]
      BY <2>3 DEF toggleStatus, TabsTyped
    <3>4. QED
      BY <1>2, <2>3, <3>2, <3>3 DEF toggleStatus, TabsTyped, readVars, callVars
  <2>4. CASE \/ refreshQueue(t) \/ retry(t) \/ \E r \in Requests : claim(t, r)
             \/ \E i \in DOMAIN reads[t] : read_arrives(t, i) \/ read_fails(t, i)
    <3>1. failed' \in [Tabs -> BOOLEAN]
      BY <2>4 DEF refreshQueue, loadQueue, retry, claim, read_arrives, read_fails,
         TabsTyped
    <3>2. QED
      BY <1>2, <2>4, <3>1 DEF refreshQueue, retry, claim, read_arrives, read_fails,
         pageVars, callVars, TabsTyped
  <2>5. CASE debounce(t)
    BY <1>2, <2>5 DEF debounce, loadQueue, callVars, TabsTyped
  <2>6. CASE \/ refresh(t) \/ decide(t) \/ requestActions(t) \/ services(t)
             \/ call_served(t) \/ \E i \in DOMAIN reads[t] : read_served(t, i)
    BY <1>3, <2>6 DEF refresh, decide, requestActions, services, change, call_served,
       read_served, readVars, callVars
  <2>7. CASE claim_answered(t)
    <3>1. call[t].req \in Requests /\ UNCHANGED desk
      BY <2>7 DEF claim_answered, CallsTyped, CallRow
    <3>2. CASE call[t].code = "ok" /\ open[t] # call[t].req
      BY <1>1, <2>7, <3>1, <3>2 DEF claim_answered
    <3>3. CASE call[t].code # "ok" /\ ~call[t].left
      BY <1>2, <2>7, <3>3 DEF claim_answered, loadQueue, pageVars, TabsTyped
    <3>4. CASE /\ ~(call[t].code = "ok" /\ open[t] # call[t].req)
               /\ ~(call[t].code # "ok" /\ ~call[t].left)
      BY <1>3, <2>7, <3>4 DEF claim_answered, readVars
    <3>5. QED
      BY <3>2, <3>3, <3>4
  <2>8. CASE panel_answered(t) \/ answer_lost(t)
    <3>1. untold' \in [Tabs -> BOOLEAN]
      BY <2>1, <2>8 DEF panel_answered, answer_lost, unseen, TabsTyped, CallRow
    <3>2. failed' \in [Tabs -> BOOLEAN]
      BY <2>8 DEF panel_answered, answer_lost, loadQueue, TabsTyped
    <3>3. QED
      BY <1>2, <2>8, <3>1, <3>2 DEF panel_answered, answer_lost, pageVars, TabsTyped
  <2>9. QED
    BY <1>4, <2>2, <2>3, <2>4, <2>5, <2>6, <2>7, <2>8
       DEF TabStep, Click, Call, Fault, Proceed
<1>5. QED
  BY <1>3, <1>4, DeskSteps DEF Outside, deskVars, readVars, callVars

\* What the call of a tab may be, for the page it is on.
callFits(c, p) ==
  c.at # "none" =>
    /\ c.req # None /\ c.op # "none"
    /\ c.op = "decide" => c.arg \in DecisionTargets
    /\ c.op = "assign" => c.arg \in Admins
    /\ c.op \in CasePanels /\ ~c.left => p = "case"

LEMMA CallsStayTyped ==
  ASSUME DeskTyped, [DeskNext]_vars
  PROVE  CallsTyped'
<1> USE NoneAssumption DEF DeskTyped
<1>0. CallsTyped <=> /\ call \in [Tabs -> CallRow]
                     /\ \A t \in Tabs : callFits(call[t], page[t])
  BY DEF CallsTyped, callFits
<1>1. ASSUME UNCHANGED <<call, page>>
      PROVE  CallsTyped'
  BY <1>1 DEF CallsTyped
<1>2. ASSUME NEW t \in Tabs, NEW c \in CallRow, call' = [call EXCEPT ![t] = c],
             callFits(c, page'[t]), \A u \in Tabs : u # t => page'[u] = page[u]
      PROVE  CallsTyped'
  <2>1. call' \in [Tabs -> CallRow]
    BY <1>2 DEF CallsTyped
  <2>2. \A u \in Tabs : callFits(call'[u], page'[u])
    BY <1>0, <1>2 DEF callFits
  <2>3. QED
    BY <2>1, <2>2 DEF CallsTyped, callFits
<1>3. ASSUME NEW t \in Tabs, TabStep(t)
      PROVE  CallsTyped'
  <2>1. CASE UNCHANGED <<call, page, open>>
    BY <1>1, <2>1
  <2>2. ASSUME NEW p, NEW r, NEW new, goto(t, p, r, new)
        PROVE  CallsTyped'
    <3>1. PICK c \in CallRow :
                /\ call' = [call EXCEPT ![t] = c]
                /\ c.op = call[t].op /\ c.req = call[t].req /\ c.at = call[t].at
                /\ c.code = call[t].code /\ c.arg = call[t].arg
                /\ c.seen = call[t].seen /\ c.left = (call[t].at # "none")
      BY <2>2, CallKept
    <3>2. \A u \in Tabs : u # t => page'[u] = page[u]
      BY <2>2 DEF goto, mount, TabsTyped
    <3>3. callFits(c, page'[t])
      BY <1>0, <3>1 DEF callFits
    <3>4. QED
      BY <1>2, <3>1, <3>2, <3>3
  <2>3. ASSUME NEW r \in Requests, claim(t, r)
        PROVE  CallsTyped'
    <3>1. PICK c \in CallRow :
                /\ call' = [call EXCEPT ![t] = c]
                /\ c.op = "claim" /\ c.req = r /\ c.at = "sent" /\ ~c.left
                /\ c.code = "none"
      BY <2>3, Begun
    <3>2. callFits(c, page'[t])
      BY <3>1 DEF callFits, CasePanels
    <3>3. QED
      BY <1>2, <2>3, <3>1, <3>2 DEF claim, pageVars
  <2>4. ASSUME NEW op \in CasePanels,
               NEW arg \in Admins \union DecisionTargets \union {None},
               change(t, op, arg), caseView(t),
               op = "decide" => arg \in DecisionTargets,
               op = "assign" => arg \in Admins
        PROVE  CallsTyped'
    <3>1. page[t] = "case" /\ open[t] # None /\ UNCHANGED page
      BY <2>4 DEF caseView, change, pageVars, TabsTyped
    <3>2. PICK c \in CallRow :
                  /\ call' = [call EXCEPT ![t] = c]
                  /\ c.op = op /\ c.req = open[t] /\ c.at = "sent" /\ ~c.left
                  /\ c.code = "none" /\ c.arg = arg /\ c.seen = shown[t].rows
      BY <2>4, <3>1, Begun
    <3>3. callFits(c, page'[t])
      BY <2>4, <3>1, <3>2 DEF callFits, CasePanels
    <3>4. QED
      BY <1>2, <3>1, <3>2, <3>3
  <2>5. CASE carried(t) \/ (call_served(t) /\ refused(t))
    <3>1. UNCHANGED page /\ (ok(t) \/ refused(t)) /\ call[t].at = "sent"
      BY <2>5 DEF carried, call_served, pageVars
    <3>2. PICK c \in CallRow :
                /\ call' = [call EXCEPT ![t] = c]
                /\ c.op = call[t].op /\ c.req = call[t].req /\ c.at = "answered"
                /\ c.arg = call[t].arg /\ c.left = call[t].left
      BY <3>1, CallKept
    <3>3. callFits(c, page'[t])
      BY <1>0, <3>1, <3>2 DEF callFits
    <3>4. QED
      BY <1>2, <3>1, <3>2, <3>3
  <2>6. CASE claim_answered(t) \/ panel_answered(t) \/ answer_lost(t)
    <3>1. call' = [call EXCEPT ![t] = NoCall]
      BY <2>6 DEF claim_answered, panel_answered, answer_lost, done
    <3>2. callFits(NoCall, page'[t]) /\ NoCall \in CallRow
      BY Begun DEF callFits
    <3>3. \A u \in Tabs : u # t => page'[u] = page[u]
      <4>1. CASE claim_answered(t)
        <5>1. CASE call[t].code = "ok" /\ open[t] # call[t].req
          BY <4>1, <5>1 DEF claim_answered, mount, TabsTyped
        <5>2. CASE ~(call[t].code = "ok" /\ open[t] # call[t].req)
          BY <4>1, <5>2 DEF claim_answered, pageVars
        <5>3. QED
          BY <5>1, <5>2
      <4>2. QED
        BY <2>6, <4>1 DEF panel_answered, answer_lost, pageVars
    <3>4. QED
      BY <1>2, <3>1, <3>2, <3>3
  <2>7. CASE panelBegins(t)
    BY <2>4, <2>7 DEF panelBegins
  <2>8. CASE backToQueue(t) \/ \E r \in Requests : openCase(t, r) \/ claim(t, r)
    BY <2>2, <2>3, <2>8 DEF backToQueue, openCase
  <2>9. QED
    BY <1>3, <2>1, <2>5, <2>6, <2>7, <2>8, CallFrame
<1>4. QED
  BY <1>1, <1>3, DeskSteps DEF Outside, deskVars, pageVars, callVars

LEMMA RowsStayTyped ==
  ASSUME DeskTyped, [DeskNext]_vars
  PROVE  RowsTyped'
<1>1. UNCHANGED lifecycleVars => RowsTyped'
  BY DEF DeskTyped, RowsTyped, lifecycleVars, requestRow
<1>2. QED
  BY <1>1, RowFrame, Submitted, Carried DEF DeskTyped

LEMMA DeskTypedAtFirst == DeskInit => DeskTyped
<1> SUFFICES ASSUME DeskInit
             PROVE  DeskTyped
  OBVIOUS
<1> USE NoneAssumption, DeskAssumption DEF DeskInit
<1>1. RowsTyped
  BY DEF RowsTyped, VerificationStatus, Idle
<1>2. TabsTyped
  <2>1. desk \in [Tabs -> Admins]
    OBVIOUS
  <2>2. QED
    BY <2>1 DEF TabsTyped, Filters
<1>3. CopiesTyped
  BY BlankTyped DEF CopiesTyped
<1>4. CallsTyped
  <2>1. NoCall \in CallRow /\ NoCall.at = "none"
    BY DEF NoCall, CallRow, Ops, Filters
  <2>2. QED
    BY <2>1 DEF CallsTyped
<1>5. QED
  BY <1>1, <1>2, <1>3, <1>4 DEF DeskTyped

LEMMA AlwaysTyped == DeskSpec => []DeskTyped
<1>1. DeskTyped /\ [DeskNext]_vars => DeskTyped'
  BY RowsStayTyped, TabsStayTyped, CopiesStayTyped, CallsStayTyped DEF DeskTyped
<1>2. QED
  BY <1>1, DeskTypedAtFirst, PTL DEF DeskSpec

-----------------------------------------------------------------------------
(* Decisions                                                               *)

\* Only its own steps change a tab.
LEMMA OtherTabs ==
  ASSUME DeskTyped, NEW t \in Tabs, NEW u \in Tabs, t # u, TabStep(u)
  PROVE  UNCHANGED tab(t)
<1> USE DEF DeskTyped
<1>1. UNCHANGED desk
  BY DEF TabStep, Click, Call, Fault, Proceed, toggleStatus, refreshQueue, refresh,
     backToQueue, goto, claim, decide, requestActions, services, change,
     answer_lost, read_fails, debounce, retry, openCase, read_served, read_arrives,
     call_served, claim_answered, panel_answered
<1>2. UNCHANGED call[t]
  <2>1. \A p, r, new : goto(u, p, r, new) => UNCHANGED call[t]
    BY DEF goto, CallsTyped
  <2>2. (\E r \in Requests : claim(u, r)) \/ panelBegins(u) => UNCHANGED call[t]
    BY DEF claim, panelBegins, change, begin, CallsTyped
  <2>3. \/ carried(u) \/ refused(u)
        \/ claim_answered(u) \/ panel_answered(u) \/ answer_lost(u)
        => UNCHANGED call[t]
    BY DEF carried, refused, ok, claim_answered, panel_answered, answer_lost, done,
       CallsTyped
  <2>4. QED
    BY <2>1, <2>2, <2>3, CallFrame DEF backToQueue, openCase
<1>3. UNCHANGED <<shown[t], reads[t]>>
  <2>1. \A p, r, new : mount(u, p, r, new) => UNCHANGED <<shown[t], reads[t]>>
    BY DEF mount, CopiesTyped
  <2>2. \A k : ask(u, k) => UNCHANGED reads[t]
    BY DEF ask, CopiesTyped
  <2>3. \A i \in DOMAIN reads[u] :
          read_served(u, i) \/ read_arrives(u, i) \/ read_fails(u, i) =>
            UNCHANGED <<shown[t], reads[t]>>
    BY DEF read_served, read_arrives, read_fails, CopiesTyped
  <2>4. carried(u) => UNCHANGED <<shown[t], reads[t]>>
    BY DEF carried, outdate, CopiesTyped
  <2>5. QED
    BY <2>1, <2>2, <2>3, <2>4, ReadFrame
<1>4. UNCHANGED <<page[t], open[t], filter[t], armed[t], failed[t], untold[t]>>
  <2>1. \A p, r, new : mount(u, p, r, new) =>
          UNCHANGED <<page[t], open[t], filter[t], armed[t], failed[t], untold[t]>>
    BY DEF mount, TabsTyped
  <2>2. CASE backToQueue(u) \/ \E r \in Requests : openCase(u, r)
    BY <2>1, <2>2 DEF backToQueue, openCase, goto
  <2>3. CASE Call(u)
    BY <2>3 DEF Call, claim, decide, requestActions, services, change, pageVars,
       readVars, TabsTyped
  <2>4. CASE \/ toggleStatus(u) \/ refreshQueue(u) \/ refresh(u) \/ debounce(u)
             \/ retry(u)
    BY <2>4 DEF toggleStatus, refreshQueue, refresh, debounce, retry, loadQueue,
       pageVars, readVars, callVars, TabsTyped
  <2>5. CASE \/ call_served(u)
             \/ \E i \in DOMAIN reads[u] :
                  read_served(u, i) \/ read_arrives(u, i) \/ read_fails(u, i)
    BY <2>5 DEF call_served, read_served, read_arrives, read_fails, pageVars,
       callVars, TabsTyped
  <2>6. CASE claim_answered(u)
    <3>1. CASE call[u].code = "ok" /\ open[u] # call[u].req
      BY <2>1, <2>6, <3>1 DEF claim_answered
    <3>2. CASE ~(call[u].code = "ok" /\ open[u] # call[u].req)
      BY <2>6, <3>2 DEF claim_answered, loadQueue, pageVars, readVars, TabsTyped
    <3>3. QED
      BY <3>1, <3>2
  <2>7. CASE panel_answered(u) \/ answer_lost(u)
    BY <2>7 DEF panel_answered, answer_lost, loadQueue, unseen, pageVars, TabsTyped
  <2>8. QED
    BY <2>2, <2>3, <2>4, <2>5, <2>6, <2>7 DEF TabStep, Click, Fault, Proceed
<1>5. QED
  BY <1>1, <1>2, <1>3, <1>4 DEF tab

\* A tab changes by its own steps.
LEMMA TabChanges ==
  ASSUME DeskTyped, [DeskNext]_vars, NEW t \in Tabs
  PROVE  UNCHANGED tab(t) \/ TabStep(t)
<1>1. UNCHANGED deskVars => UNCHANGED tab(t)
  BY DEF deskVars, pageVars, readVars, callVars, tab
<1>2. QED
  BY <1>1, DeskSteps, OtherTabs DEF Outside

\* A copy is empty, was there before, or is what the server has committed.
LEMMA CopySteps ==
  ASSUME DeskTyped, [DeskNext]_vars, NEW t \in Tabs, NEW k \in copies(t)'
  PROVE  \/ k.items = NoItems
         \/ /\ page'[t] = page[t] /\ open'[t] = open[t]
            /\ \E old \in copies(t) : k.items = old.items /\ k.rows = old.rows
         \/ /\ UNCHANGED <<lifecycleVars, page, open>>
            /\ page[t] = "queue" => \E f : k.items = listed(f)
            /\ page[t] = "case" =>
                 /\ k.items = [NoItems EXCEPT ![open[t]] = status[open[t]]]
                 /\ k.rows = rows[open[t]]
<1> USE DEF DeskTyped
<1>1. k = shown'[t] \/ \E i \in DOMAIN reads'[t] : k = reads'[t][i]
  BY DEF copies
<1>2. /\ shown[t] \in copies(t)
      /\ \A i \in DOMAIN reads[t] : reads[t][i] \in copies(t) /\ reads[t][i] \in Copy
      /\ shown[t] \in Copy
      /\ reads[t] \in Seq(Copy) /\ shown \in [Tabs -> Copy]
      /\ reads \in [Tabs -> Seq(Copy)]
  BY ElementOfSeq, LenProperties DEF copies, CopiesTyped
<1>3. ASSUME NEW q \in Copy, NEW x
      PROVE  /\ x = [q EXCEPT !.late = TRUE] => x.items = q.items /\ x.rows = q.rows
             /\ x = [q EXCEPT !.old = q.served] => x.items = q.items /\ x.rows = q.rows
             /\ x = [q EXCEPT !.by = IF @ = "claim" THEN @ ELSE "none"] =>
                  x.items = q.items /\ x.rows = q.rows
  BY DEF Copy
<1>4. CASE UNCHANGED tab(t)
  BY <1>1, <1>2, <1>4 DEF tab
<1>5. CASE TabStep(t)
  <2>1. CASE UNCHANGED <<page, open, shown, reads>>
    BY <1>1, <1>2, <2>1
  <2>2. ASSUME NEW p, NEW r, NEW new \in {caseLoad, << >>}, mount(t, p, r, new)
        PROVE  k.items = NoItems
    <3>1. shown'[t] = Blank /\ reads'[t] = new
      BY <1>2, <2>2 DEF mount
    <3>2. \A i \in DOMAIN new : new[i] = asked({}, "none")
      BY DEF caseLoad
    <3>3. asked({}, "none").items = NoItems /\ Blank.items = NoItems
      BY Asked, BlankTyped DEF Filters
    <3>4. QED
      BY <1>1, <3>1, <3>2, <3>3
  <2>3. ASSUME NEW f \in Filters, NEW by \in {"none", "refresh", "claim"},
               ask(t, asked(f, by)), UNCHANGED <<page, open, shown>>
        PROVE  \/ k.items = NoItems
               \/ \E old \in copies(t) : k.items = old.items /\ k.rows = old.rows
    <3>1. reads'[t] = Append(reads[t], asked(f, by))
      BY <1>2, <2>3 DEF ask
    <3>2. asked(f, by) \in Copy /\ asked(f, by).items = NoItems
      BY Asked
    <3>3. ASSUME NEW i \in DOMAIN reads'[t]
          PROVE  \/ reads'[t][i].items = NoItems
                 \/ i \in DOMAIN reads[t] /\ reads'[t][i] = reads[t][i]
      BY <3>1, <3>2, AskedLast
    <3>4. QED
      BY <1>1, <1>2, <2>3, <3>3
  <2>4. ASSUME NEW i \in DOMAIN reads[t], read_served(t, i)
        PROVE  \/ \E old \in copies(t) : k.items = old.items /\ k.rows = old.rows
               \/ /\ page[t] = "queue" => \E f : k.items = listed(f)
                  /\ page[t] = "case" =>
                       /\ k.items = [NoItems EXCEPT ![open[t]] = status[open[t]]]
                       /\ k.rows = rows[open[t]]
    <3>1. PICK new \in Copy : servedAs(t, i, new)
      BY <2>4, Served
    <3>2. UNCHANGED shown
      BY <2>4 DEF read_served
    <3>3. k \in copies(t) \/ k = new
      BY <1>1, <1>2, <3>1, <3>2 DEF servedAs
    <3>4. QED
      BY <3>1, <3>3 DEF servedAs
  <2>5. ASSUME NEW i \in DOMAIN reads[t], read_arrives(t, i) \/ read_fails(t, i)
        PROVE  \E old \in copies(t) : k.items = old.items /\ k.rows = old.rows
    <3>1. reads'[t] = without(t, i)
      BY <1>2, <2>5 DEF read_arrives, read_fails
    <3>2. ASSUME NEW j \in DOMAIN reads'[t]
          PROVE  \E old \in copies(t) : /\ reads'[t][j].items = old.items
                                        /\ reads'[t][j].rows = old.rows
      <4>1. j \in 1 .. Len(reads[t]) - 1
        BY <3>1, Without
      <4>2. j \in DOMAIN reads[t] /\ j + 1 \in DOMAIN reads[t]
        BY <4>1, Without
      <4>3. \/ reads'[t][j] = [reads[t][j] EXCEPT !.late = TRUE]
            \/ reads'[t][j] = reads[t][j + 1]
        <5>1. j \in Int /\ i \in Int
          BY <4>1, Without
        <5>2. j < i \/ j >= i
          BY <5>1
        <5>3. /\ j < i => without(t, i)[j] = [reads[t][j] EXCEPT !.late = TRUE]
              /\ j >= i => without(t, i)[j] = reads[t][j + 1]
          BY <4>1, Without
        <5>4. QED
          BY <3>1, <5>2, <5>3
      <4>4. CASE reads'[t][j] = reads[t][j + 1]
        BY <1>2, <4>2, <4>4
      <4>5. CASE reads'[t][j] = [reads[t][j] EXCEPT !.late = TRUE]
        <5>1. /\ reads'[t][j].items = reads[t][j].items
              /\ reads'[t][j].rows = reads[t][j].rows
          BY <1>2, <1>3, <4>2, <4>5
        <5>2. QED
          BY <1>2, <4>2, <5>1
      <4>6. QED
        BY <4>3, <4>4, <4>5
    <3>3. \/ shown'[t] = shown[t]
          \/ shown'[t] = [reads[t][i] EXCEPT !.by = IF @ = "claim" THEN @ ELSE "none"]
      BY <1>2, <2>5 DEF read_arrives, read_fails
    <3>4. \E old \in copies(t) : /\ shown'[t].items = old.items
                                /\ shown'[t].rows = old.rows
      <4>1. CASE shown'[t] = shown[t]
        BY <1>2, <4>1
      <4>2. CASE shown'[t] = [reads[t][i] EXCEPT !.by = IF @ = "claim" THEN @ ELSE "none"]
        <5>1. shown'[t].items = reads[t][i].items /\ shown'[t].rows = reads[t][i].rows
          BY <1>2, <1>3, <4>2
        <5>2. QED
          BY <1>2, <5>1
      <4>3. QED
        BY <3>3, <4>1, <4>2
    <3>5. QED
      BY <1>1, <3>2, <3>4
  <2>6. ASSUME carried(t)
        PROVE  \E old \in copies(t) : k.items = old.items /\ k.rows = old.rows
    <3>1. outdate(t)
      BY <2>6 DEF carried
    <3>2. shown'[t] = [shown[t] EXCEPT !.old = shown[t].served]
      BY <1>2, <3>1, Outdated
    <3>3. shown'[t].items = shown[t].items /\ shown'[t].rows = shown[t].rows
      BY <1>2, <1>3, <3>2
    <3>4. ASSUME NEW i \in DOMAIN reads'[t]
          PROVE  \E old \in copies(t) : /\ reads'[t][i].items = old.items
                                        /\ reads'[t][i].rows = old.rows
      <4>1. /\ i \in DOMAIN reads[t]
            /\ reads'[t][i] = [reads[t][i] EXCEPT !.old = reads[t][i].served]
        BY <3>1, Outdated
      <4>2. reads'[t][i].items = reads[t][i].items /\ reads'[t][i].rows = reads[t][i].rows
        BY <1>2, <1>3, <4>1
      <4>3. QED
        BY <1>2, <4>1, <4>2
    <3>5. QED
      BY <1>1, <1>2, <3>3, <3>4
  <2>7. \A i \in DOMAIN reads[t] :
          read_served(t, i) \/ read_arrives(t, i) \/ read_fails(t, i) =>
            UNCHANGED <<lifecycleVars, page, open>>
    BY DEF read_served, read_arrives, read_fails, pageVars
  <2>8. carried(t) => UNCHANGED <<page, open>>
    BY DEF carried, pageVars
  <2>9. QED
    BY <1>5, <2>1, <2>2, <2>3, <2>4, <2>5, <2>6, <2>7, <2>8, ReadFrame
<1>6. QED
  BY <1>4, <1>5, TabChanges

\* How a tab comes to a case: by a row of the queue, or by its claim.
LEMMA OpenSteps ==
  ASSUME DeskTyped, NEW t \in Tabs, TabStep(t)
  PROVE  \/ open'[t] \in {open[t], None}
         \/ openOffered(t, open'[t]) /\ open'[t] \in Requests
         \/ /\ call[t].at = "answered" /\ call[t].op = "claim"
            /\ call[t].code = "ok" /\ open'[t] = call[t].req
<1> USE DEF DeskTyped
<1>1. \A p, r, new : mount(t, p, r, new) => open'[t] = r
  BY DEF mount, TabsTyped
<1>2. CASE backToQueue(t) \/ \E r \in Requests : openCase(t, r)
  BY <1>1, <1>2 DEF backToQueue, openCase, goto
<1>3. CASE claim_answered(t)
  <2>1. CASE call[t].code = "ok" /\ open[t] # call[t].req
    BY <1>1, <1>3, <2>1 DEF claim_answered
  <2>2. CASE ~(call[t].code = "ok" /\ open[t] # call[t].req)
    BY <1>3, <2>2 DEF claim_answered, pageVars
  <2>3. QED
    BY <2>1, <2>2
<1>4. CASE \/ (\E r \in Requests : claim(t, r)) \/ panelBegins(t)
           \/ carried(t) \/ call_served(t)
           \/ panel_answered(t) \/ answer_lost(t)
  BY <1>4 DEF claim, panelBegins, change, carried, call_served, panel_answered,
     answer_lost, pageVars
<1>5. QED
  BY <1>2, <1>3, <1>4, CallFrame

\* How the call of a tab goes on.
LEMMA CallSteps ==
  ASSUME DeskTyped, NEW t \in Tabs, TabStep(t)
  PROVE  \/ call'[t].at = "none"
         \/ /\ call'[t].op = call[t].op /\ call'[t].req = call[t].req
            /\ call'[t].at = call[t].at /\ call'[t].code = call[t].code
            /\ call'[t].seen = call[t].seen
         \/ call'[t].op = "claim" /\ call'[t].code = "none"
         \/ /\ panelBegins(t) /\ call'[t].req = open[t] /\ page[t] = "case"
            /\ call'[t].seen = shown[t].rows
            /\ call'[t].op = "decide" => decisionPanel(t)
         \/ /\ carried(t) \/ refused(t)
            /\ call'[t].op = call[t].op /\ call'[t].req = call[t].req
            /\ call[t].at = "sent" /\ call'[t].at = "answered"
            /\ carried(t) => call'[t].code = "ok"
            /\ refused(t) => call'[t].code = "refused"
<1> USE DEF DeskTyped
<1>1. call \in [Tabs -> CallRow]
  BY DEF CallsTyped
<1>2. ASSUME NEW p, NEW r, NEW new, goto(t, p, r, new)
      PROVE  /\ call'[t].op = call[t].op /\ call'[t].req = call[t].req
             /\ call'[t].at = call[t].at /\ call'[t].code = call[t].code
             /\ call'[t].seen = call[t].seen
  <2>1. PICK c \in CallRow :
          /\ call' = [call EXCEPT ![t] = c]
          /\ c.op = call[t].op /\ c.req = call[t].req /\ c.at = call[t].at
          /\ c.code = call[t].code /\ c.seen = call[t].seen
    BY <1>2, CallKept
  <2>2. QED
    BY <1>1, <2>1
<1>3. ASSUME NEW r \in Requests, claim(t, r)
      PROVE  call'[t].op = "claim" /\ call'[t].code = "none"
  <2>1. PICK c \in CallRow : /\ call' = [call EXCEPT ![t] = c]
                             /\ c.op = "claim" /\ c.code = "none"
    BY <1>3, Begun
  <2>2. QED
    BY <1>1, <2>1
<1>4. ASSUME panelBegins(t)
      PROVE  /\ call'[t].req = open[t] /\ page[t] = "case"
             /\ call'[t].seen = shown[t].rows
             /\ call'[t].op = "decide" => decisionPanel(t)
  <2>1. PICK op \in CasePanels, arg \in Admins \union DecisionTargets \union {None} :
          /\ change(t, op, arg) /\ caseView(t)
          /\ op = "decide" => decisionPanel(t)
    BY <1>4 DEF panelBegins
  <2>2. page[t] = "case"
    BY <2>1 DEF caseView
  <2>3. PICK c \in CallRow : /\ call' = [call EXCEPT ![t] = c]
                             /\ c.op = op /\ c.req = open[t]
                             /\ c.seen = shown[t].rows
    BY <2>1, <2>2, Begun
  <2>4. QED
    BY <1>1, <2>1, <2>2, <2>3
<1>5. ASSUME carried(t) \/ (call_served(t) /\ refused(t))
      PROVE  /\ carried(t) \/ refused(t)
             /\ call'[t].op = call[t].op /\ call'[t].req = call[t].req
             /\ call[t].at = "sent" /\ call'[t].at = "answered"
             /\ carried(t) => call'[t].code = "ok"
             /\ refused(t) => call'[t].code = "refused"
  <2>1. /\ carried(t) \/ refused(t)
        /\ ok(t) \/ refused(t)
        /\ call[t].at = "sent"
        /\ carried(t) => ok(t)
    BY <1>5 DEF carried, call_served
  <2>2. PICK c \in CallRow :
          /\ call' = [call EXCEPT ![t] = c]
          /\ c.op = call[t].op /\ c.req = call[t].req /\ c.at = "answered"
          /\ ok(t) => c.code = "ok"
          /\ refused(t) => c.code = "refused"
    BY <2>1, CallKept
  <2>3. QED
    BY <1>1, <2>1, <2>2
<1>6. claim_answered(t) \/ panel_answered(t) \/ answer_lost(t) => call'[t].at = "none"
  <2>1. claim_answered(t) \/ panel_answered(t) \/ answer_lost(t) => done(t)
    BY DEF claim_answered, panel_answered, answer_lost
  <2>2. done(t) => call'[t].at = "none"
    BY <1>1 DEF done, NoCall
  <2>3. QED
    BY <2>1, <2>2
<1>7. QED
  BY <1>2, <1>3, <1>4, <1>5, <1>6, CallFrame DEF backToQueue, openCase

\* A reviewer is never taken off a request.
LEMMA ReviewerStays ==
  ASSUME DeskTyped, [DeskNext]_vars, NEW r \in Requests, reviewer'[r] = None
  PROVE  reviewer[r] = None
<1>1. UNCHANGED lifecycleVars => UNCHANGED reviewer
  BY DEF lifecycleVars, requestRow
<1>2. QED
  BY <1>1, RowFrame, Submitted, Carried DEF DeskTyped

LEMMA UntouchedStays ==
  ASSUME DeskTyped, Untouched, [DeskNext]_vars
  PROVE  Untouched'
<1> USE DEF DeskTyped
<1> SUFFICES ASSUME NEW r \in Requests, reviewer'[r] = None
             PROVE  /\ status'[r] \in {"absent", "queued"}
                    /\ \A t \in Tabs :
                         /\ open'[t] # r
                         /\ \A k \in copies(t)' : k.items[r] \in {"none", "queued"}
                         /\ call'[t].at # "none" /\ call'[t].req = r =>
                              call'[t].op = "claim" /\ call'[t].code # "ok"
  BY DEF Untouched
<1>1. /\ status[r] \in {"absent", "queued"}
      /\ \A t \in Tabs :
           /\ open[t] # r
           /\ \A k \in copies(t) : k.items[r] \in {"none", "queued"}
           /\ call[t].at # "none" /\ call[t].req = r =>
                call[t].op = "claim" /\ call[t].code # "ok"
  BY ReviewerStays DEF Untouched
<1>2. ASSUME NEW t \in Tabs, carried(t)
      PROVE  call[t].req # r
  <2>1. call[t].at = "sent"
    BY <1>2 DEF carried
  <2>2. call[t].op = "claim" => reviewer'[call[t].req] # None
    BY <1>2, Carried
  <2>3. QED
    BY <1>1, <2>1, <2>2
<1>3. status'[r] \in {"absent", "queued"}
  <2>1. CASE UNCHANGED lifecycleVars
    BY <1>1, <2>1 DEF lifecycleVars, requestRow
  <2>2. CASE Outside
    BY <1>1, <2>2, Submitted
  <2>3. ASSUME NEW t \in Tabs, carried(t)
        PROVE  status'[r] \in {"absent", "queued"}
    BY <1>1, <1>2, <2>3, Carried
  <2>4. QED
    BY <2>1, <2>2, <2>3, RowFrame
<1>4. ASSUME NEW t \in Tabs
      PROVE  open'[t] # r
  <2>1. UNCHANGED tab(t) => open'[t] = open[t]
    BY DEF tab
  <2>2. shown[t] \in copies(t)
    BY DEF copies
  <2>3. ~openOffered(t, r)
    BY <1>1, <2>2 DEF openOffered, row
  <2>4. QED
    BY <1>1, <2>1, <2>3, NoneAssumption, OpenSteps, TabChanges
<1>5. ASSUME NEW t \in Tabs, NEW k \in copies(t)'
      PROVE  k.items[r] \in {"none", "queued"}
  <2>1. CASE k.items = NoItems
    BY <2>1 DEF NoItems
  <2>2. CASE \E old \in copies(t) : k.items = old.items /\ k.rows = old.rows
    BY <1>1, <2>2
  <2>3. CASE page[t] = "queue" /\ \E f : k.items = listed(f)
    BY <1>1, <2>3 DEF listed, exists
  <2>4. CASE k.items = [NoItems EXCEPT ![open[t]] = status[open[t]]]
    BY <1>1, <2>4 DEF NoItems
  <2>5. page[t] \in {"queue", "case"}
    BY DEF TabsTyped
  <2>6. QED
    BY <2>1, <2>2, <2>3, <2>4, <2>5, CopySteps
<1>6. ASSUME NEW t \in Tabs, call'[t].at # "none", call'[t].req = r
      PROVE  call'[t].op = "claim" /\ call'[t].code # "ok"
  <2>1. CASE UNCHANGED tab(t)
    BY <1>1, <1>6, <2>1 DEF tab
  <2>2. CASE TabStep(t)
    BY <1>1, <1>2, <1>6, <2>2, CallSteps
  <2>3. QED
    BY <2>1, <2>2, TabChanges
<1>7. QED
  BY <1>3, <1>4, <1>5, <1>6

\* A review that goes on after a step was going on before it, with the same
\* submissions.
LEMMA ReviewGoesOn ==
  ASSUME DeskTyped, [DeskNext]_vars, NEW r \in Requests, reviewer[r] # None,
         status'[r] = "in_review"
  PROVE  status[r] = "in_review" /\ rows'[r] = rows[r]
<1>1. CASE UNCHANGED lifecycleVars
  BY <1>1 DEF lifecycleVars, requestRow
<1>2. CASE Outside
  BY <1>2, Submitted DEF DeskTyped
<1>3. ASSUME NEW t \in Tabs, carried(t)
      PROVE  status[r] = "in_review" /\ rows'[r] = rows[r]
  BY <1>3, Carried DEF DeskTyped
<1>4. QED
  BY <1>1, <1>2, <1>3, RowFrame

LEMMA CopiesStayCurrent ==
  ASSUME DeskTyped, Untouched, CopiesCurrent, [DeskNext]_vars
  PROVE  CopiesCurrent'
<1> USE DEF DeskTyped
<1>0. TabsTyped'
  BY TabsStayTyped
<1>1. ASSUME NEW t \in Tabs, page'[t] = "case", NEW k \in copies(t)',
             k.items[open'[t]] = "in_review", status'[open'[t]] = "in_review"
      PROVE  k.rows = rows'[open'[t]]
  <2>1. open'[t] \in Requests
    BY <1>0, <1>1 DEF TabsTyped
  <2>2. k.items # NoItems
    BY <1>1, <2>1 DEF NoItems
  <2>3. ASSUME page'[t] = page[t], open'[t] = open[t],
               NEW old \in copies(t), k.items = old.items, k.rows = old.rows
        PROVE  k.rows = rows'[open'[t]]
    <3>1. reviewer[open[t]] # None
      BY <2>1, <2>3 DEF Untouched
    <3>2. status[open[t]] = "in_review" /\ rows'[open[t]] = rows[open[t]]
      BY <1>1, <2>1, <2>3, <3>1, ReviewGoesOn
    <3>3. QED
      BY <1>1, <2>3, <3>2 DEF CopiesCurrent
  <2>4. ASSUME UNCHANGED <<lifecycleVars, page, open>>, k.rows = rows[open[t]]
        PROVE  k.rows = rows'[open'[t]]
    BY <2>4 DEF lifecycleVars
  <2>5. QED
    BY <1>1, <2>2, <2>3, <2>4, CopySteps
<1>2. ASSUME NEW t \in Tabs, call'[t].op = "decide", call'[t].at = "sent",
             status'[call'[t].req] = "in_review"
      PROVE  call'[t].seen = rows'[call'[t].req]
  <2>1. ASSUME call'[t].op = call[t].op, call'[t].req = call[t].req,
               call'[t].at = call[t].at, call'[t].seen = call[t].seen
        PROVE  call'[t].seen = rows'[call'[t].req]
    <3>1. call[t].req \in Requests /\ reviewer[call[t].req] # None
      BY <1>2, <2>1 DEF CallsTyped, CallRow, Untouched
    <3>2. QED
      BY <1>2, <2>1, <3>1, ReviewGoesOn DEF CopiesCurrent
  <2>2. ASSUME panelBegins(t), call'[t].req = open[t], page[t] = "case",
               call'[t].seen = shown[t].rows, decisionPanel(t)
        PROVE  call'[t].seen = rows'[call'[t].req]
    <3>1. UNCHANGED lifecycleVars
      BY <2>2 DEF panelBegins, change
    <3>2. shown[t].items[open[t]] = "in_review" /\ shown[t] \in copies(t)
      BY <2>2 DEF decisionPanel, caseShown, copies
    <3>3. QED
      BY <1>2, <2>2, <3>1, <3>2 DEF CopiesCurrent, lifecycleVars, requestRow
  <2>3. CASE UNCHANGED tab(t)
    BY <2>1, <2>3 DEF tab
  <2>4. CASE TabStep(t)
    BY <1>2, <2>1, <2>2, <2>4, CallSteps
  <2>5. QED
    BY <2>3, <2>4, TabChanges
<1>3. QED
  BY <1>1, <1>2 DEF CopiesCurrent

LEMMA AlwaysCurrent == DeskSpec => [](DeskTyped /\ Untouched /\ CopiesCurrent)
<1>1. DeskInit => Untouched /\ CopiesCurrent
  <2> SUFFICES ASSUME DeskInit
               PROVE  Untouched /\ CopiesCurrent
    OBVIOUS
  <2>1. \A t \in Tabs : /\ copies(t) = {Blank} /\ open[t] = None
                        /\ page[t] = "queue" /\ call[t] = NoCall
    BY DEF DeskInit, copies
  <2>2. NoCall.at = "none" /\ Blank.items = NoItems
    BY BlankTyped DEF NoCall
  <2>3. Untouched
    BY <2>1, <2>2, NoneAssumption DEF Untouched, NoItems, DeskInit
  <2>4. CopiesCurrent
    BY <2>1, <2>2 DEF CopiesCurrent
  <2>5. QED
    BY <2>3, <2>4
<1>2. DeskTyped /\ Untouched /\ CopiesCurrent /\ [DeskNext]_vars
        => Untouched' /\ CopiesCurrent'
  BY UntouchedStays, CopiesStayCurrent
<1>3. QED
  BY <1>1, <1>2, AlwaysTyped, PTL DEF DeskSpec

\* A reviewer decides on exactly the submissions that the page showed when the
\* decision was made: however many tabs decide, retry, or lie open while the
\* applicant submits again, a decision is recorded only if none was added.
THEOREM DecisionsWereSeen == DeskSpec => DecidedWhatWasSeen
<1>1. DeskTyped /\ Untouched /\ CopiesCurrent /\ [DeskNext]_vars =>
        [\A r \in Requests :
           decisions'[r] # decisions[r] =>
             \E t \in Tabs : /\ call[t].op = "decide" /\ call[t].req = r
                             /\ call[t].at = "sent" /\ call'[t].at = "answered"
                             /\ call[t].seen = rows[r]]_vars
  <2> SUFFICES ASSUME DeskTyped, Untouched, CopiesCurrent, [DeskNext]_vars,
                      NEW r \in Requests, decisions'[r] # decisions[r]
               PROVE  \E t \in Tabs :
                        /\ call[t].op = "decide" /\ call[t].req = r
                        /\ call[t].at = "sent" /\ call'[t].at = "answered"
                        /\ call[t].seen = rows[r]
    OBVIOUS
  <2>1. PICK t \in Tabs : carried(t)
    <3>1. ~UNCHANGED lifecycleVars
      BY DEF lifecycleVars
    <3>2. ~Outside
      BY Submitted DEF DeskTyped
    <3>3. QED
      BY <3>1, <3>2, RowFrame
  <2>2. /\ call[t].op = "decide" /\ call[t].req = r /\ status[r] = "in_review"
    BY <2>1, Carried DEF DeskTyped
  <2>3. call[t].at = "sent" /\ ok(t)
    BY <2>1 DEF carried
  <2>4. call'[t].at = "answered"
    BY <2>3, CallKept DEF DeskTyped, CallsTyped
  <2>5. call[t].seen = rows[r]
    BY <2>2, <2>3 DEF CopiesCurrent
  <2>6. QED
    BY <2>2, <2>3, <2>4, <2>5
<1>2. QED
  BY <1>1, AlwaysCurrent, PTL DEF DeskSpec, DecidedWhatWasSeen

-----------------------------------------------------------------------------
(* What a tab shows in the end                                             *)

\* A read in G that is asked for last will replace everything else.
LEMMA AskingSettles ==
  ASSUME CopiesTyped, NEW t \in Tabs, NEW G, NEW k \in Copy, k \in G, NEW sh, NEW e
  PROVE  settles(Append(reads[t], k), sh, e, G)
<1> DEFINE n == Len(reads[t])
           rs == Append(reads[t], k)
<1>1. n \in Nat /\ DOMAIN rs = 1 .. n + 1 /\ rs[n + 1] = k
  BY AskedLast
<1> HIDE DEF n, rs
<1>2. n + 1 \in DOMAIN rs /\ rs[n + 1] \in G
  BY <1>1
<1>3. \A i \in DOMAIN rs : i = n + 1 \/ i < n + 1
  BY <1>1
<1>4. settles(rs, sh, e, G)
  BY <1>2, <1>3 DEF settles
<1>5. QED
  BY <1>4 DEF rs

\* Copies that stay in G, or late, settle what they did.
LEMMA StillSettles ==
  ASSUME NEW rs, NEW rsN, NEW sh, NEW shN, NEW e, NEW eN, NEW G,
         settles(rs, sh, e, G),
         DOMAIN rsN = DOMAIN rs,
         \A i \in DOMAIN rs : /\ rs[i] \in G => rsN[i] \in G
                              /\ rs[i].late => rsN[i].late,
         sh \in G => shN \in G, sh.late => shN.late, e => eN
  PROVE  settles(rsN, shN, eN, G)
BY DEF settles

\* G does not depend on what a copy shows or on whether it is late, nor on why
\* it was read unless for a claim.
Plain(G) ==
  \A q \in Copy : q \in G =>
    /\ [q EXCEPT !.late = TRUE] \in G
    /\ [q EXCEPT !.by = IF @ = "claim" THEN @ ELSE "none"] \in G
    /\ \A k \in Copy : k.old = q.old /\ k.filter = q.filter /\ k.by = q.by => k \in G

LEMMA PlainSets == Plain(NotOld) /\ \A f : Plain(Fitting(f))
<1>1. ASSUME NEW q \in Copy
      PROVE  /\ [q EXCEPT !.late = TRUE] \in Copy
             /\ [q EXCEPT !.late = TRUE].old = q.old
             /\ [q EXCEPT !.late = TRUE].filter = q.filter
             /\ [q EXCEPT !.late = TRUE].by = q.by
  BY DEF Copy
<1>2. ASSUME NEW q \in Copy
      PROVE  /\ [q EXCEPT !.by = IF @ = "claim" THEN @ ELSE "none"] \in Copy
             /\ [q EXCEPT !.by = IF @ = "claim" THEN @ ELSE "none"].old = q.old
             /\ [q EXCEPT !.by = IF @ = "claim" THEN @ ELSE "none"].filter = q.filter
             /\ q.by = "claim" =>
                  [q EXCEPT !.by = IF @ = "claim" THEN @ ELSE "none"].by = "claim"
  BY DEF Copy
<1>3. Plain(NotOld)
  BY <1>1, <1>2 DEF Plain, NotOld
<1>4. ASSUME NEW f
      PROVE  Plain(Fitting(f))
  BY <1>1, <1>2 DEF Plain, Fitting
<1>5. QED
  BY <1>3, <1>4

\* When a read is over, what was asked for before it is late, and what was
\* asked for after it is still to come.
LEMMA OverSettles ==
  ASSUME CopiesTyped, NEW t \in Tabs, NEW i \in DOMAIN reads[t], NEW G, Plain(G),
         NEW sh, NEW e, settles(reads[t], sh, e, G)
  PROVE  /\ settles(without(t, i), sh, TRUE, G)
         /\ settles(without(t, i),
                    [reads[t][i] EXCEPT !.by = IF @ = "claim" THEN @ ELSE "none"],
                    FALSE, G)
<1> DEFINE n == Len(reads[t])
           rs == without(t, i)
           new == [reads[t][i] EXCEPT !.by = IF @ = "claim" THEN @ ELSE "none"]
<1>1. /\ n \in Nat \ {0} /\ i \in 1 .. n
      /\ DOMAIN reads[t] = 1 .. n /\ DOMAIN rs = 1 .. n - 1
      /\ \A j \in 1 .. n - 1 :
           /\ j < i => rs[j] = [reads[t][j] EXCEPT !.late = TRUE]
           /\ j >= i => rs[j] = reads[t][j + 1]
  BY Without
<1>2. \A j \in 1 .. n : reads[t][j] \in Copy
  BY <1>1, ElementOfSeq, LenProperties DEF CopiesTyped
<1>3. ASSUME NEW j \in 1 .. n - 1, j < i
      PROVE  rs[j].late
  <2>1. reads[t][j] \in Copy /\ rs[j] = [reads[t][j] EXCEPT !.late = TRUE]
    BY <1>1, <1>2, <1>3
  <2>2. QED
    BY <2>1 DEF Copy
<1>4. /\ new.late = reads[t][i].late
      /\ reads[t][i] \in G => new \in G
  <2>1. reads[t][i] \in Copy
    BY <1>1, <1>2
  <2>2. new.late = reads[t][i].late
    BY <2>1 DEF Copy
  <2>3. QED
    BY <2>1, <2>2 DEF Plain
<1> HIDE DEF n, rs, new
<1>5. ASSUME NEW k \in 1 .. n, i <= k, \E j \in 1 .. n : k < j /\ reads[t][j] \in G
      PROVE  \E j \in DOMAIN rs : k <= j /\ rs[j] \in G
  <2>1. PICK j \in 1 .. n : k < j /\ reads[t][j] \in G
    BY <1>5
  <2>2. j - 1 \in 1 .. n - 1 /\ k <= j - 1 /\ i <= j - 1 /\ (j - 1) + 1 = j
    BY <1>1, <1>5, <2>1
  <2>3. rs[j - 1] = reads[t][j]
    BY <1>1, <2>2
  <2>4. QED
    BY <1>1, <2>1, <2>2, <2>3
<1>6. ASSUME NEW j \in DOMAIN rs
      PROVE  rs[j] \in G \/ rs[j].late \/ \E k \in DOMAIN rs : j < k /\ rs[k] \in G
  <2>1. CASE j < i
    BY <1>1, <1>3, <1>6, <2>1
  <2>2. CASE j >= i
    <3>1. j + 1 \in 1 .. n /\ i <= j + 1 /\ rs[j] = reads[t][j + 1] /\ j \in Int
      BY <1>1, <2>2
    <3>2. \/ reads[t][j + 1] \in G \/ reads[t][j + 1].late
          \/ \E k \in 1 .. n : j + 1 < k /\ reads[t][k] \in G
      BY <1>1, <3>1 DEF settles
    <3>3. ASSUME \E k \in 1 .. n : j + 1 < k /\ reads[t][k] \in G
          PROVE  \E k \in DOMAIN rs : j < k /\ rs[k] \in G
      <4>1. PICK k \in DOMAIN rs : j + 1 <= k /\ rs[k] \in G
        BY <1>5, <3>1, <3>3
      <4>2. k \in Int
        BY <1>1, <4>1
      <4>3. QED
        BY <3>1, <4>1, <4>2
    <3>4. QED
      BY <3>1, <3>2, <3>3
  <2>3. j \in Int /\ i \in Int
    BY <1>1
  <2>4. QED
    BY <2>1, <2>2, <2>3
<1>7. new \in G \/ new.late \/ \E j \in DOMAIN rs : rs[j] \in G
  <2>1. \/ reads[t][i] \in G \/ reads[t][i].late
        \/ \E j \in 1 .. n : i < j /\ reads[t][j] \in G
    BY <1>1 DEF settles
  <2>2. i <= i
    BY <1>1
  <2>3. QED
    BY <1>1, <1>4, <1>5, <2>1, <2>2
<1>8. settles(rs, sh, TRUE, G) /\ settles(rs, new, FALSE, G)
  BY <1>6, <1>7 DEF settles
<1>9. QED
  BY <1>8 DEF rs, new

\* A read that is served, arrives or fails leaves everything settled.
LEMMA ReadsSettle ==
  ASSUME DeskTyped, NEW t \in Tabs, NEW i \in DOMAIN reads[t],
         read_served(t, i) \/ read_arrives(t, i) \/ read_fails(t, i),
         NEW G, Plain(G), NEW e \in BOOLEAN,
         settles(reads[t], shown[t], failed[t] \/ e, G)
  PROVE  settles(reads'[t], shown'[t], failed'[t] \/ e, G)
<1> USE DEF DeskTyped
<1>1. /\ shown \in [Tabs -> Copy] /\ reads \in [Tabs -> Seq(Copy)]
      /\ failed \in [Tabs -> BOOLEAN]
  BY DEF CopiesTyped, TabsTyped
<1>2. CASE read_served(t, i)
  <2>1. PICK k \in Copy : servedAs(t, i, k)
    BY <1>2, Served
  <2>2. reads[t][i] \in Copy
    BY <1>1, ElementOfSeq, LenProperties
  <2>3. reads[t][i] \in G => k \in G
    BY <2>1, <2>2 DEF Plain, servedAs
  <2>4. UNCHANGED <<shown, failed>>
    BY <1>2 DEF read_served
  <2>5. \A j \in DOMAIN reads[t] : /\ reads[t][j] \in G => reads'[t][j] \in G
                                   /\ reads[t][j].late => reads'[t][j].late
    BY <2>1, <2>3 DEF servedAs
  <2>6. QED
    BY <2>1, <2>4, <2>5, StillSettles DEF servedAs
<1>3. CASE read_arrives(t, i)
  <2>1. /\ reads'[t] = without(t, i) /\ failed'[t] = FALSE
        /\ shown'[t] = [reads[t][i] EXCEPT !.by = IF @ = "claim" THEN @ ELSE "none"]
    BY <1>1, <1>3 DEF read_arrives
  <2>2. settles(without(t, i),
                [reads[t][i] EXCEPT !.by = IF @ = "claim" THEN @ ELSE "none"],
                FALSE, G)
    BY OverSettles
  <2>3. settles(reads'[t], shown'[t], FALSE, G)
    BY <2>1, <2>2
  <2>4. QED
    BY <2>3 DEF settles
<1>4. CASE read_fails(t, i)
  <2>1. /\ reads'[t] = without(t, i) /\ failed'[t] = TRUE /\ shown'[t] = shown[t]
    BY <1>1, <1>4 DEF read_fails
  <2>2. settles(reads'[t], shown'[t], TRUE, G)
    BY <2>1, OverSettles
  <2>3. QED
    BY <2>1, <2>2
<1>5. QED
  BY <1>2, <1>3, <1>4

\* The tab's own change is shown in the end, unless the tab is excused.
LEMMA OldStaysReplaced ==
  ASSUME DeskTyped, Untouched, OldReplaced, [DeskNext]_vars
  PROVE  OldReplaced'
<1> USE DEF DeskTyped
<1> SUFFICES ASSUME NEW t \in Tabs, page'[t] = "case", ~excused(t)'
             PROVE  settles(reads'[t], shown'[t], failed'[t], NotOld)
  BY DEF OldReplaced
<1>1. /\ shown \in [Tabs -> Copy] /\ reads \in [Tabs -> Seq(Copy)]
      /\ failed \in [Tabs -> BOOLEAN] /\ page \in [Tabs -> {"queue", "case"}]
      /\ untold \in [Tabs -> BOOLEAN] /\ call \in [Tabs -> CallRow]
  BY DEF CopiesTyped, TabsTyped, CallsTyped
<1>2. /\ ~untold'[t]
      /\ ~(/\ call'[t].at = "answered" /\ call'[t].code = "ok"
           /\ call'[t].op = "claim" => open'[t] # call'[t].req)
  BY DEF excused
<1>3. page[t] = "case" /\ ~excused(t) => settles(reads[t], shown[t], failed[t], NotOld)
  BY DEF OldReplaced
<1>4. ASSUME NEW f \in Filters, NEW by \in {"none", "refresh", "claim"},
             ask(t, asked(f, by))
      PROVE  settles(reads'[t], shown'[t], failed'[t], NotOld)
  <2>1. reads'[t] = Append(reads[t], asked(f, by))
    BY <1>1, <1>4 DEF ask
  <2>2. asked(f, by) \in Copy /\ asked(f, by) \in NotOld
    BY Asked DEF NotOld
  <2>3. QED
    BY <2>1, <2>2, AskingSettles
<1>5. ASSUME NEW p, NEW r, mount(t, p, r, caseLoad)
      PROVE  settles(reads'[t], shown'[t], failed'[t], NotOld)
  <2>1. shown'[t] = Blank /\ reads'[t] = <<asked({}, "none")>>
    BY <1>1, <1>5 DEF mount, caseLoad
  <2>2. Blank \in NotOld /\ asked({}, "none") \in NotOld
    BY Asked, BlankTyped DEF NotOld, Filters
  <2>3. QED
    BY <2>1, <2>2 DEF settles
<1>6. {} \in Filters /\ call[t].filter \in Filters
  BY <1>1 DEF CallRow, Filters
<1>7. CASE UNCHANGED tab(t)
  BY <1>2, <1>3, <1>7 DEF tab, excused
<1>8. CASE TabStep(t)
  <2>1. CASE \/ toggleStatus(t) \/ refreshQueue(t) \/ debounce(t) \/ backToQueue(t)
             \/ \E r \in Requests : claim(t, r)
    <3>1. page'[t] = "queue"
      BY <1>1, <2>1 DEF toggleStatus, refreshQueue, debounce, backToQueue, claim,
         claimOffered, row, goto, mount, queueView, pageVars
    <3>2. QED
      BY <3>1
  <2>2. CASE refresh(t) \/ retry(t)
    BY <1>4, <1>6, <2>2 DEF refresh, retry, refreshReview
  <2>3. CASE \E r \in Requests : openCase(t, r)
    BY <1>5, <2>3 DEF openCase, goto
  <2>4. CASE decide(t) \/ requestActions(t) \/ services(t)
    <3>1. UNCHANGED <<page, open, shown, reads, failed, untold>> /\ call[t].at = "none"
      BY <2>4 DEF decide, requestActions, services, change, begin, pageVars, readVars
    <3>2. QED
      BY <1>2, <1>3, <3>1 DEF excused
  <2>5. CASE answer_lost(t)
    BY <1>1, <1>2, <2>5 DEF answer_lost, unseen
  <2>6. ASSUME NEW i \in DOMAIN reads[t],
               read_served(t, i) \/ read_arrives(t, i) \/ read_fails(t, i)
        PROVE  settles(reads'[t], shown'[t], failed'[t], NotOld)
    <3>1. UNCHANGED <<page, open, call, untold>>
      BY <2>6 DEF read_served, read_arrives, read_fails, pageVars, callVars
    <3>2. page[t] = "case" /\ ~excused(t)
      BY <1>2, <3>1 DEF excused
    <3>3. settles(reads[t], shown[t], failed[t] \/ FALSE, NotOld)
      BY <1>3, <3>2 DEF settles
    <3>4. settles(reads'[t], shown'[t], failed'[t] \/ FALSE, NotOld)
      BY <2>6, <3>3, PlainSets, ReadsSettle
    <3>5. QED
      BY <3>4 DEF settles
  <2>7. CASE carried(t)
    <3>1. ok(t) /\ UNCHANGED open /\ call[t].at = "sent"
      BY <2>7 DEF carried, pageVars
    <3>2. PICK c \in CallRow :
            /\ call' = [call EXCEPT ![t] = c]
            /\ c.op = call[t].op /\ c.req = call[t].req /\ c.at = "answered"
            /\ ok(t) => c.code = "ok"
      BY <3>1, CallKept
    <3>3. call[t].op = "claim" => open[t] # call[t].req
      BY <2>7, <3>1, Carried DEF Untouched
    <3>4. QED
      BY <1>1, <1>2, <3>1, <3>2, <3>3
  <2>8. CASE call_served(t) /\ refused(t)
    <3>1. /\ UNCHANGED <<page, open, shown, reads, failed, untold>>
          /\ call[t].at = "sent"
      BY <2>8 DEF call_served, refused, pageVars
    <3>2. QED
      BY <1>2, <1>3, <3>1 DEF excused
  <2>9. CASE claim_answered(t)
    <3>1. CASE call[t].code = "ok" /\ open[t] # call[t].req
      BY <1>5, <2>9, <3>1 DEF claim_answered
    <3>2. CASE call[t].code # "ok" /\ ~call[t].left
      BY <1>4, <1>6, <2>9, <3>2 DEF claim_answered, loadQueue
    <3>3. CASE /\ ~(call[t].code = "ok" /\ open[t] # call[t].req)
               /\ ~(call[t].code # "ok" /\ ~call[t].left)
      <4>1. /\ UNCHANGED <<page, open, shown, reads, failed, untold>>
            /\ call[t].op = "claim"
        BY <2>9, <3>3 DEF claim_answered, pageVars, readVars
      <4>2. ~excused(t)
        BY <1>2, <3>3, <4>1 DEF excused
      <4>3. QED
        BY <1>3, <4>1, <4>2
    <3>4. QED
      BY <3>1, <3>2, <3>3
  <2>10. CASE panel_answered(t)
    <3>1. untold'[t] = (untold[t] \/ call[t].left)
      BY <1>1, <2>10 DEF panel_answered, unseen
    <3>2. CASE call[t].code = "ok" /\ ~call[t].left
      BY <1>4, <1>6, <2>10, <3>2 DEF panel_answered, refreshReview
    <3>3. CASE ~(call[t].code = "ok" /\ ~call[t].left)
      <4>1. UNCHANGED <<page, open, shown, reads, failed>>
        BY <2>10, <3>3 DEF panel_answered, pageVars
      <4>2. ~excused(t)
        BY <1>2, <3>1, <3>3 DEF excused
      <4>3. QED
        BY <1>3, <4>1, <4>2
    <3>4. QED
      BY <3>2, <3>3
  <2>11. CASE call_served(t)
    BY <2>7, <2>8, <2>11 DEF call_served, carried
  <2>12. QED
    BY <1>8, <2>1, <2>2, <2>3, <2>4, <2>5, <2>6, <2>9, <2>10, <2>11
       DEF TabStep, Click, Call, Fault, Proceed
<1>9. QED
  BY <1>7, <1>8, TabChanges

\* A page that is waiting for nothing shows its own last change, in every
\* interleaving of its reads, calls and faults with those of other tabs, apart
\* from the three cases the property names.
THEOREM StaleCasesAreExplained == DeskSpec => []StaleCaseExplained
<1>1. DeskInit => OldReplaced
  BY DEF DeskInit, OldReplaced
<1>2. DeskTyped /\ Untouched /\ OldReplaced /\ [DeskNext]_vars => OldReplaced'
  BY OldStaysReplaced
<1>3. DeskTyped /\ OldReplaced => StaleCaseExplained
  <2> SUFFICES ASSUME DeskTyped, OldReplaced, NEW t \in Tabs, page[t] = "case",
                      quiet(t), shown[t].old, ~untold[t]
               PROVE  failed[t] \/ shown[t].late
    BY DEF StaleCaseExplained
  <2>1. ~excused(t) /\ reads[t] = << >>
    BY DEF excused, quiet
  <2>2. settles(<< >>, shown[t], failed[t], NotOld) /\ shown[t] \notin NotOld
    BY <2>1 DEF OldReplaced, NotOld
  <2>3. QED
    BY <2>2 DEF settles
<1>4. QED
  BY <1>1, <1>2, <1>3, AlwaysCurrent, PTL DEF DeskSpec

\* The queue comes to fit its filter.
LEMMA FilterStaysFollowed ==
  ASSUME DeskTyped, FilterFollowed, [DeskNext]_vars
  PROVE  FilterFollowed'
<1> USE DEF DeskTyped
<1> SUFFICES ASSUME NEW t \in Tabs, page'[t] = "queue", ~armed'[t]
             PROVE  settles(reads'[t], shown'[t], failed'[t] \/ claiming(t)',
                            Fitting(filter'[t]))
  BY DEF FilterFollowed
<1>1. /\ shown \in [Tabs -> Copy] /\ reads \in [Tabs -> Seq(Copy)]
      /\ failed \in [Tabs -> BOOLEAN] /\ page \in [Tabs -> {"queue", "case"}]
      /\ armed \in [Tabs -> BOOLEAN] /\ call \in [Tabs -> CallRow]
      /\ filter[t] \in Filters /\ call[t].filter \in Filters
  BY DEF CopiesTyped, TabsTyped, CallsTyped, CallRow
<1>2. page[t] = "queue" /\ ~armed[t] =>
        settles(reads[t], shown[t], failed[t] \/ claiming(t), Fitting(filter[t]))
  BY DEF FilterFollowed
<1>3. ASSUME NEW f \in Filters, NEW by \in {"none", "refresh", "claim"},
             ask(t, asked(f, by)), f = filter'[t] \/ by = "claim"
      PROVE  settles(reads'[t], shown'[t], failed'[t] \/ claiming(t)',
                     Fitting(filter'[t]))
  <2>1. reads'[t] = Append(reads[t], asked(f, by))
    BY <1>1, <1>3 DEF ask
  <2>2. asked(f, by) \in Copy /\ asked(f, by) \in Fitting(filter'[t])
    BY <1>3, Asked DEF Fitting
  <2>3. QED
    BY <2>1, <2>2, AskingSettles
<1>4. ASSUME UNCHANGED <<page[t], armed[t], filter[t], shown[t], reads[t]>>,
             failed[t] \/ claiming(t) => failed'[t] \/ claiming(t)'
      PROVE  settles(reads'[t], shown'[t], failed'[t] \/ claiming(t)',
                     Fitting(filter'[t]))
  BY <1>2, <1>4, StillSettles
<1>5. CASE UNCHANGED tab(t)
  BY <1>4, <1>5 DEF tab, claiming
<1>6. CASE TabStep(t)
  <2>1. CASE toggleStatus(t) \/ backToQueue(t) \/ \E r \in Requests : openCase(t, r)
    <3>1. armed'[t] \/ page'[t] = "case"
      BY <1>1, <2>1 DEF toggleStatus, backToQueue, openCase, goto, mount
    <3>2. QED
      BY <3>1
  <2>2. CASE refresh(t) \/ retry(t) \/ decide(t) \/ requestActions(t) \/ services(t)
    <3>1. page'[t] = "case"
      BY <2>2 DEF refresh, retry, decide, requestActions, services, change, failedView,
         decisionPanel, accessPanel, actionsPanel, deletionPanel, caseView, pageVars
    <3>2. QED
      BY <3>1
  <2>3. CASE debounce(t) \/ refreshQueue(t)
    BY <1>1, <1>3, <2>3 DEF debounce, refreshQueue, loadQueue, pageVars
  <2>4. ASSUME NEW r \in Requests, claim(t, r)
        PROVE  settles(reads'[t], shown'[t], failed'[t] \/ claiming(t)',
                       Fitting(filter'[t]))
    <3>1. PICK c \in CallRow : /\ call' = [call EXCEPT ![t] = c]
                               /\ c.op = "claim" /\ c.at = "sent" /\ ~c.left
      BY <2>4, Begun
    <3>2. claiming(t)'
      BY <1>1, <3>1 DEF claiming
    <3>3. QED
      BY <1>4, <2>4, <3>2 DEF claim, pageVars
  <2>5. CASE answer_lost(t)
    <3>1. CASE call[t].op = "claim" /\ ~call[t].left
      BY <1>1, <1>3, <2>5, <3>1 DEF answer_lost, loadQueue
    <3>2. CASE ~(call[t].op = "claim" /\ ~call[t].left)
      <4>1. ~claiming(t)
        BY <3>2 DEF claiming
      <4>2. QED
        BY <1>4, <2>5, <3>2, <4>1 DEF answer_lost, pageVars
    <3>3. QED
      BY <3>1, <3>2
  <2>6. ASSUME NEW i \in DOMAIN reads[t],
               read_served(t, i) \/ read_arrives(t, i) \/ read_fails(t, i)
        PROVE  settles(reads'[t], shown'[t], failed'[t] \/ claiming(t)',
                       Fitting(filter'[t]))
    <3>1. UNCHANGED <<page, armed, filter, call>>
      BY <2>6 DEF read_served, read_arrives, read_fails, pageVars, callVars
    <3>2. claiming(t)' = claiming(t) /\ claiming(t) \in BOOLEAN
      BY <3>1 DEF claiming
    <3>3. settles(reads[t], shown[t], failed[t] \/ claiming(t), Fitting(filter[t]))
      BY <1>2, <3>1
    <3>4. Plain(Fitting(filter[t]))
      BY PlainSets
    <3>5. settles(reads'[t], shown'[t], failed'[t] \/ claiming(t), Fitting(filter[t]))
      BY <2>6, <3>2, <3>3, <3>4, ReadsSettle
    <3>6. QED
      BY <3>1, <3>2, <3>5
  <2>7. CASE carried(t)
    <3>1. /\ UNCHANGED <<page, armed, filter, failed>>
          /\ ok(t) /\ outdate(t) /\ call[t].at = "sent"
      BY <2>7 DEF carried, pageVars
    <3>2. PICK c \in CallRow :
            /\ call' = [call EXCEPT ![t] = c]
            /\ c.op = call[t].op /\ c.at = "answered" /\ c.left = call[t].left
      BY <3>1, CallKept
    <3>3. claiming(t) => claiming(t)'
      BY <1>1, <3>2 DEF claiming
    <3>4. ASSUME NEW q \in Copy, NEW x, x = [q EXCEPT !.old = q.served]
          PROVE  /\ q \in Fitting(filter[t]) => x \in Fitting(filter[t])
                 /\ q.late => x.late
      BY <3>4 DEF Fitting, Copy
    <3>5. /\ shown'[t] = [shown[t] EXCEPT !.old = shown[t].served]
          /\ DOMAIN reads'[t] = DOMAIN reads[t]
          /\ \A i \in DOMAIN reads[t] :
               reads'[t][i] = [reads[t][i] EXCEPT !.old = reads[t][i].served]
      BY <1>1, <3>1, Outdated
    <3>6. \A i \in DOMAIN reads[t] : reads[t][i] \in Copy
      BY <1>1, ElementOfSeq, LenProperties
    <3>7. settles(reads[t], shown[t], failed[t] \/ claiming(t), Fitting(filter[t]))
      BY <1>2, <3>1
    <3>8. \A i \in DOMAIN reads[t] :
            /\ reads[t][i] \in Fitting(filter[t]) => reads'[t][i] \in Fitting(filter[t])
            /\ reads[t][i].late => reads'[t][i].late
      BY <3>4, <3>5, <3>6
    <3>9. /\ shown[t] \in Fitting(filter[t]) => shown'[t] \in Fitting(filter[t])
          /\ shown[t].late => shown'[t].late
      BY <1>1, <3>4, <3>5
    <3>10. failed[t] \/ claiming(t) => failed'[t] \/ claiming(t)'
      BY <3>1, <3>3
    <3>11. settles(reads'[t], shown'[t], failed'[t] \/ claiming(t)', Fitting(filter[t]))
      BY <3>5, <3>7, <3>8, <3>9, <3>10, StillSettles
    <3>12. QED
      BY <3>1, <3>11
  <2>8. CASE call_served(t) /\ refused(t)
    <3>1. PICK c \in CallRow :
            /\ call' = [call EXCEPT ![t] = c]
            /\ c.op = call[t].op /\ c.at = "answered" /\ c.left = call[t].left
      BY <2>8, CallKept
    <3>2. claiming(t) => claiming(t)'
      BY <1>1, <3>1 DEF claiming
    <3>3. QED
      BY <1>4, <2>8, <3>2 DEF call_served, refused, pageVars
  <2>9. CASE claim_answered(t)
    <3>1. CASE call[t].code = "ok" /\ open[t] # call[t].req
      <4>1. page'[t] = "case"
        BY <1>1, <2>9, <3>1 DEF claim_answered, mount
      <4>2. QED
        BY <4>1
    <3>2. CASE call[t].code # "ok" /\ ~call[t].left
      BY <1>1, <1>3, <2>9, <3>2 DEF claim_answered, loadQueue
    <3>3. CASE call[t].code = "ok" /\ open[t] = call[t].req
      <4>1. UNCHANGED page /\ call[t].req # None
        BY <2>9, <3>3 DEF claim_answered, pageVars, CallsTyped
      <4>2. QED
        BY <3>3, <4>1 DEF TabsTyped
    <3>4. CASE call[t].code # "ok" /\ call[t].left
      <4>1. ~claiming(t)
        BY <3>4 DEF claiming
      <4>2. QED
        BY <1>4, <2>9, <3>4, <4>1 DEF claim_answered, pageVars, readVars
    <3>5. QED
      BY <3>1, <3>2, <3>3, <3>4
  <2>10. CASE panel_answered(t)
    <3>1. ~claiming(t) /\ UNCHANGED <<page, armed, filter, shown, failed>>
      BY <2>10 DEF panel_answered, claiming, CasePanels, pageVars
    <3>2. ~(call[t].code = "ok" /\ ~call[t].left)
      BY <2>10, <3>1 DEF panel_answered, CallsTyped
    <3>3. UNCHANGED reads
      BY <2>10, <3>2 DEF panel_answered
    <3>4. QED
      BY <1>4, <3>1, <3>3
  <2>11. CASE call_served(t)
    BY <2>7, <2>8, <2>11 DEF call_served, carried
  <2>12. QED
    BY <1>6, <2>1, <2>2, <2>3, <2>4, <2>5, <2>6, <2>9, <2>10, <2>11
       DEF TabStep, Click, Call, Fault, Proceed
<1>7. QED
  BY <1>5, <1>6, TabChanges

\* The queue at rest shows what its filter says, whatever the order in which
\* the timer, its reads and claims come back, apart from the cases the
\* property names.
THEOREM QueueFollowsFilter == DeskSpec => []QueueMatchesFilter
<1>1. DeskInit => FilterFollowed
  BY DEF DeskInit, FilterFollowed
<1>2. DeskTyped /\ FilterFollowed /\ [DeskNext]_vars => FilterFollowed'
  BY FilterStaysFollowed
<1>3. FilterFollowed => QueueMatchesFilter
  <2> SUFFICES ASSUME FilterFollowed, NEW t \in Tabs, queueView(t), quiet(t),
                      ~armed[t]
               PROVE  \/ shown[t].filter = filter[t] \/ failed[t] \/ shown[t].late
                      \/ shown[t].by = "claim"
    BY DEF QueueMatchesFilter
  <2>1. ~claiming(t) /\ reads[t] = << >>
    BY DEF claiming, quiet
  <2>2. settles(reads[t], shown[t], failed[t] \/ claiming(t), Fitting(filter[t]))
    BY DEF FilterFollowed, queueView
  <2>3. shown[t] \in Fitting(filter[t]) \/ failed[t] \/ shown[t].late
    BY <2>1, <2>2 DEF settles
  <2>4. QED
    BY <2>3 DEF Fitting
<1>4. QED
  BY <1>1, <1>2, <1>3, AlwaysTyped, PTL DEF DeskSpec
=============================================================================
