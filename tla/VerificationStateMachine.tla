---------------------- MODULE VerificationStateMachine ----------------------
(***************************************************************************)
(* The status values and the transition table of                          *)
(* app/core/constants.py and app/services/verification/state_machine.py.   *)
(***************************************************************************)

VerificationStatus ==
  {"pending", "queued", "in_review", "more_info",
   "approved", "rejected", "expired", "revoked"}

AccessGrantStatus ==
  {"not_issued", "issued", "consumed", "expired", "revoked"}

\* The three statuses a review decision may set.
DecisionTargets == {"approved", "rejected", "more_info"}

ALLOWED_TRANSITIONS ==
  [s \in VerificationStatus |->
     CASE s = "pending"   -> {"queued", "expired", "revoked"}
       [] s = "queued"    -> {"in_review", "expired", "revoked"}
       [] s = "in_review" -> {"approved", "rejected", "more_info", "revoked"}
       [] s = "more_info" -> {"queued", "in_review", "rejected",
                              "expired", "revoked"}
       [] s = "approved"  -> {"revoked"}
       [] s = "rejected"  -> {"more_info"}
       [] s = "expired"   -> {}
       [] s = "revoked"   -> {}]

can_transition(current_status, new_status) ==
  new_status \in ALLOWED_TRANSITIONS[current_status]
=============================================================================
