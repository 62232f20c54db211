--------------------------- MODULE MCEvidenceStore ---------------------------
(* EvidenceStore for TLC: every object is evidence for one request.          *)
EXTENDS EvidenceStore, TLC

CONSTANT request

OneRequest == [e \in Evidence |-> request]

Symmetry == Permutations(Applicants) \union Permutations(Evidence)
=============================================================================
