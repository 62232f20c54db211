---------------------------- MODULE EvidenceStore ----------------------------
(***************************************************************************)
(* Identity evidence: an object in the private bucket and a row in          *)
(* evidence_objects, kept in step by handlers that can only do one at a      *)
(* time.  An upload puts the object, then commits the row, and takes the    *)
(* object away when the commit fails.  A deletion takes the objects of a    *)
(* batch away one by one, then commits all the rows.  A submission reads    *)
(* temporary rows and attaches them in its own commit.  No handler locks    *)
(* an evidence row.  Composed with RequestLifecycle: a submission is a step *)
(* of both.                                                                 *)
(***************************************************************************)
EXTENDS RequestLifecycle

CONSTANTS
  Evidence,    \* ids (and object keys, which are fresh) of evidence
  For,         \* the request each is uploaded for
  Deleters,    \* deletion handlers that may be open at the same time
  UploadTTL,   \* temporary_upload_ttl_minutes
  MaxFaults    \* bound on failed calls and crashes

ASSUME ForAssumption == For \in [Evidence -> Requests]
ASSUME EvidenceBoundAssumption == UploadTTL \in Nat /\ MaxFaults \in Nat

VARIABLES
  up,         \* where the upload handler of each object is
  ev,         \* status column of the evidence row, "absent" without one
  evExpires,  \* its expires_at while it is temporary
  evSub,      \* the submission row it points at, 0 for NULL
  refs,       \* evidence_object_refs of the submission rows of a request
  stored,     \* objects in the bucket
  picked,     \* the rows an open submission handler has read
  del,        \* the rows an open deletion handler has read
  unclean,    \* uploads that ended without cleaning up (history)
  faults      \* failed calls and crashes so far

evidenceRow == <<ev, evExpires, evSub>>
evidenceVars ==
  <<up, evidenceRow, refs, stored, picked, del, unclean, faults>>
vars == <<lifecycleVars, evidenceVars>>

-----------------------------------------------------------------------------
NoBatch == [todo |-> {}, done |-> {}]

Fault == faults < MaxFaults /\ faults' = faults + 1

EvidenceInit ==
  /\ LifecycleInit
  /\ up = [e \in Evidence |-> "idle"]
  /\ ev = [e \in Evidence |-> "absent"]
  /\ evExpires = [e \in Evidence |-> 0]
  /\ evSub = [e \in Evidence |-> 0]
  /\ refs = [r \in Requests |-> << >>]
  /\ stored = {}
  /\ picked = [a \in Applicants |-> {}]
  /\ del = [d \in Deleters |-> NoBatch]
  /\ unclean = {}
  /\ faults = 0

-----------------------------------------------------------------------------
(* Upload                                                                  *)

goto(e, pc) == up' = [up EXCEPT ![e] = pc]

upload_evidence(e) ==
  /\ up[e] = "idle"
  /\ status[For[e]] \in Submittable
  /\ ~due(For[e])
  /\ goto(e, "checked")
  /\ UNCHANGED <<lifecycleVars, evidenceRow, refs, stored, picked, del,
                 unclean, faults>>

\* The object is put and the row made ready with its time of expiry.
store_temporary_evidence(e) ==
  /\ up[e] = "checked"
  /\ stored' = stored \union {e}
  /\ evExpires' = [evExpires EXCEPT ![e] = now + UploadTTL]
  /\ goto(e, "stored")
  /\ UNCHANGED <<lifecycleVars, ev, evSub, refs, picked, del, unclean, faults>>

insertRow(e) == ev' = [ev EXCEPT ![e] = "temporary"]

upload_commit(e) ==
  /\ up[e] = "stored"
  /\ insertRow(e)
  /\ goto(e, "answered")
  /\ UNCHANGED <<lifecycleVars, evExpires, evSub, refs, stored, picked, del,
                 unclean, faults>>

upload_fails_uncompensated_mutant(e) ==
  /\ up[e] = "stored"
  /\ Fault
  /\ UNCHANGED ev
  /\ goto(e, "ended")
  /\ UNCHANGED <<lifecycleVars, evExpires, evSub, refs, stored, picked, del,
                 unclean>>

\* The flush or the commit raises; a commit may have been applied before the
\* connection was lost.
upload_commit_fails(e) ==
  /\ up[e] = "stored"
  /\ Fault
  /\ insertRow(e) \/ UNCHANGED ev
  /\ goto(e, "undo")
  /\ UNCHANGED <<lifecycleVars, evExpires, evSub, refs, stored, picked, del,
                 unclean>>

delete_uncommitted_evidence_object(e) ==
  /\ up[e] = "undo"
  /\ stored' = stored \ {e}
  /\ goto(e, "ended")
  /\ UNCHANGED <<lifecycleVars, evidenceRow, refs, picked, del, unclean,
                 faults>>

\* The process dies, or the compensating call fails, which is only logged.
upload_dies(e) ==
  /\ up[e] \in {"checked", "stored", "undo"}
  /\ Fault
  /\ unclean' = unclean \union {e}
  /\ goto(e, "ended")
  /\ UNCHANGED <<lifecycleVars, evidenceRow, refs, stored, picked, del>>

\* The put raises after it has reached the bucket: the handler has no key to
\* clean up with.
put_object_times_out(e) ==
  /\ up[e] = "checked"
  /\ Fault
  /\ stored' = stored \union {e}
  /\ unclean' = unclean \union {e}
  /\ goto(e, "ended")
  /\ UNCHANGED <<lifecycleVars, evidenceRow, refs, picked, del>>

-----------------------------------------------------------------------------
(* Submission                                                              *)

\* The rows of r that create_submission accepts.
available(r) ==
  {e \in Evidence : For[e] = r /\ ev[e] = "temporary" /\ evExpires[e] > now}

\* The payload names evidence whose upload was answered.
create_submission_read(a, r, S) ==
  /\ submit_read(a, r)
  /\ S \subseteq {e \in available(r) : up[e] = "answered"}
  /\ picked' = [picked EXCEPT ![a] = S]
  /\ UNCHANGED <<up, evidenceRow, refs, stored, del, unclean, faults>>

attach_all_mutant(a) ==
  {e \in Evidence : For[e] = sub[a].req /\ up[e] = "answered"}

attach(a) == picked[a]

create_submission_unlisted_mutant(a) ==
  LET r == sub[a].req IN
  /\ submit_commit(a)
  /\ ev' = [e \in Evidence |-> IF e \in attach(a) THEN "attached" ELSE ev[e]]
  /\ evSub' = [e \in Evidence |->
                 IF e \in attach(a) THEN rows[r] + 1 ELSE evSub[e]]
  /\ refs' = [refs EXCEPT ![r] =
               IF attach(a) = {} THEN @ ELSE Append(@, picked[a])]
  /\ picked' = [picked EXCEPT ![a] = {}]
  /\ UNCHANGED <<up, evExpires, stored, del, unclean, faults>>

create_submission_misnumbered_mutant(a) ==
  LET r == sub[a].req IN
  /\ submit_commit(a)
  /\ ev' = [e \in Evidence |-> IF e \in attach(a) THEN "attached" ELSE ev[e]]
  /\ evSub' = [e \in Evidence |->
                 IF e \in attach(a) THEN sub[a].count + 1 ELSE evSub[e]]
  /\ refs' = [refs EXCEPT ![r] = Append(@, picked[a])]
  /\ picked' = [picked EXCEPT ![a] = {}]
  /\ UNCHANGED <<up, evExpires, stored, del, unclean, faults>>

create_submission_commit(a) ==
  LET r == sub[a].req IN
  /\ submit_commit(a)
  /\ ev' = [e \in Evidence |-> IF e \in attach(a) THEN "attached" ELSE ev[e]]
  /\ evSub' = [e \in Evidence |->
                 IF e \in attach(a) THEN rows[r] + 1 ELSE evSub[e]]
  /\ refs' = [refs EXCEPT ![r] = Append(@, picked[a])]
  /\ picked' = [picked EXCEPT ![a] = {}]
  /\ UNCHANGED <<up, evExpires, stored, del, unclean, faults>>

create_submission_abort(a) ==
  /\ submit_abort(a)
  /\ picked' = [picked EXCEPT ![a] = {}]
  /\ UNCHANGED <<up, evidenceRow, refs, stored, del, unclean, faults>>

-----------------------------------------------------------------------------
(* Deletion                                                                *)

select(d, S) ==
  /\ del[d] = NoBatch
  /\ S # {}
  /\ del' = [del EXCEPT ![d] = [todo |-> S, done |-> {}]]
  /\ UNCHANGED <<lifecycleVars, up, evidenceRow, refs, stored, picked,
                 unclean, faults>>

cleanup_expired_temporary_uploads(d) ==
  select(d, {e \in Evidence : ev[e] = "temporary" /\ evExpires[e] <= now})

delete_requeues_mutant(d, r) ==
  /\ del[d] = NoBatch
  /\ {e \in Evidence : For[e] = r /\ ev[e] \notin {"absent", "deleted"}} # {}
  /\ del' = [del EXCEPT ![d] =
               [todo |-> {e \in Evidence :
                            For[e] = r /\ ev[e] \notin {"absent", "deleted"}},
                done |-> {}]]
  /\ status' = [status EXCEPT ![r] = "pending"]
  /\ UNCHANGED <<now, reviewer, count, expires, revokedAt, rows, decisions,
                 result, sub, exp, up, evidenceRow, refs, stored, picked,
                 unclean, faults>>

delete_request_evidence(d, r) ==
  select(d, {e \in Evidence :
               For[e] = r /\ ev[e] \notin {"absent", "deleted"}})

swallowing_delete_mutant(d, e) ==
  /\ e \in del[d].todo
  /\ \/ stored' = stored \ {e} /\ UNCHANGED faults
     \/ Fault /\ UNCHANGED stored
  /\ del' = [del EXCEPT ![d] = [todo |-> @.todo \ {e},
                                done |-> @.done \union {e}]]
  /\ UNCHANGED <<lifecycleVars, up, evidenceRow, refs, picked, unclean>>

\* DeleteObject is called for the next row of the batch.
mark_evidence_deleted(d, e) ==
  /\ e \in del[d].todo
  /\ stored' = stored \ {e}
  /\ del' = [del EXCEPT ![d] = [todo |-> @.todo \ {e},
                                done |-> @.done \union {e}]]
  /\ UNCHANGED <<lifecycleVars, up, evidenceRow, refs, picked, unclean,
                 faults>>

delete_commit(d) ==
  /\ del[d].todo = {}
  /\ del[d].done # {}
  /\ ev' = [e \in Evidence |->
              IF e \in del[d].done THEN "deleted" ELSE ev[e]]
  /\ del' = [del EXCEPT ![d] = NoBatch]
  /\ UNCHANGED <<lifecycleVars, up, evExpires, evSub, refs, stored, picked,
                 unclean, faults>>

\* A call to the bucket or the commit raises, or the process dies: no row of
\* the batch changes, whatever objects are gone.
delete_abort(d) ==
  /\ del[d] # NoBatch
  /\ Fault
  /\ del' = [del EXCEPT ![d] = NoBatch]
  /\ UNCHANGED <<lifecycleVars, up, evidenceRow, refs, stored, picked,
                 unclean>>

-----------------------------------------------------------------------------
UploadStep(e) ==
  \/ upload_evidence(e)
  \/ store_temporary_evidence(e)
  \/ upload_commit(e)
  \/ upload_commit_fails(e)
  \/ delete_uncommitted_evidence_object(e)
  \/ upload_dies(e)
  \/ put_object_times_out(e)

SubmissionStep(a) ==
  \/ \E r \in Requests, S \in SUBSET Evidence : create_submission_read(a, r, S)
  \/ create_submission_commit(a)
  \/ create_submission_abort(a)

DeleteStep(d) ==
  \/ cleanup_expired_temporary_uploads(d)
  \/ \E r \in Requests : delete_request_evidence(d, r)
  \/ \E e \in Evidence : mark_evidence_deleted(d, e)
  \/ delete_commit(d)
  \/ delete_abort(d)

\* The steps of the life cycle that leave evidence alone.
OtherStep ==
  \/ Tick
  \/ \E x \in Expirers : ExpiryStep(x)
  \/ \E r \in Requests :
       \/ CaseStep(r)
       \/ revoke_request(r)
       \/ \E adm \in Admins, target \in DecisionTargets :
            record_decision(r, adm, target)

EvidenceNext ==
  \/ OtherStep /\ UNCHANGED evidenceVars
  \/ \E e \in Evidence : UploadStep(e)
  \/ \E a \in Applicants : SubmissionStep(a)
  \/ \E d \in Deleters : DeleteStep(d)

EvidenceSpec == EvidenceInit /\ [][EvidenceNext]_vars

-----------------------------------------------------------------------------
(* Properties                                                              *)

EvidenceObjectStatus == {"temporary", "attached", "deleted"}

\* Every variable holds a value of its type; there is one list of references
\* per submission row.
EvidenceTypeOK ==
  /\ up \in [Evidence -> {"idle", "checked", "stored", "undo", "answered",
                          "ended"}]
  /\ ev \in [Evidence -> EvidenceObjectStatus \union {"absent"}]
  /\ evExpires \in [Evidence -> 0 .. MaxTime + UploadTTL]
  /\ evSub \in [Evidence -> 0 .. MaxRows]
  /\ refs \in [Requests -> Seq(SUBSET Evidence)]
  /\ \A r \in Requests : Len(refs[r]) = rows[r]
  /\ stored \subseteq Evidence
  /\ picked \in [Applicants -> SUBSET Evidence]
  /\ del \in [Deleters -> [todo : SUBSET Evidence, done : SUBSET Evidence]]
  /\ unclean \subseteq Evidence
  /\ faults \in 0 .. MaxFaults

\* What the database calls deleted is not in the bucket any more, although a
\* batch may fail half way and two batches may work on the same rows.
DeletedIsGone == \A e \in Evidence : ev[e] = "deleted" => e \notin stored

\* An object without a row is on its way to one, on its way out, or was left
\* by a crash, an unanswered put or a failed compensation: a commit that
\* fails leaves nothing behind by itself.
OrphansExplained ==
  \A e \in stored :
    ev[e] = "absent" => up[e] \in {"stored", "undo"} \/ e \in unclean

\* A submission refers to evidence of its own request that was attached to
\* it or to a later one, and an evidence row that points at a submission is
\* in the list of that submission, whoever overwrites whom.
AttachmentSound ==
  /\ \A r \in Requests : \A n \in 1 .. Len(refs[r]) : \A e \in refs[r][n] :
       For[e] = r /\ ev[e] \in {"attached", "deleted"} /\ evSub[e] >= n
  /\ \A e \in Evidence :
       /\ ev[e] = "attached" => evSub[e] > 0
       /\ evSub[e] > 0 => e \in refs[For[e]][evSub[e]]

\* The only way back from deleted is the commit of a submission that has
\* read the row before it was deleted.
DeletionUndoneOnlyByStaleRead ==
  [][\A e \in Evidence :
       ev[e] = "deleted" /\ ev'[e] # "deleted" =>
         \E a \in Applicants : e \in picked[a] /\ picked'[a] = {}]_vars

\* Restricted to the request rows, every step is a step of RequestLifecycle:
\* evidence never moves a request, and a submission is one of the life cycle.
ImplementsLifecycle == LifecycleSpec
=============================================================================
