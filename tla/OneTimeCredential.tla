------------------------- MODULE OneTimeCredential -------------------------
(***************************************************************************)
(* What one-time credentials promise, whatever hands them out: each is      *)
(* issued once, used at most once, and one that was withdrawn, or has done  *)
(* its work, is never of use again.                                         *)
(***************************************************************************)
CONSTANT Ids
VARIABLE credential

CredentialInit == credential = [i \in Ids |-> "absent"]

issue(i) == credential[i] = "absent" /\ credential'[i] = "live"
use(i) == credential[i] = "live" /\ credential'[i] = "used"
withdraw(i) == credential[i] \in {"live", "used"} /\ credential'[i] = "dead"
keep(i) == credential'[i] = credential[i]

\* One step of the system may touch several credentials.
CredentialNext ==
  \A i \in Ids : issue(i) \/ use(i) \/ withdraw(i) \/ keep(i)

CredentialSpec == CredentialInit /\ [][CredentialNext]_credential
=============================================================================
