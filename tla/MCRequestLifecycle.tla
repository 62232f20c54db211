------------------------- MODULE MCRequestLifecycle -------------------------
(* RequestLifecycle for TLC.  Administrators and handler slots are           *)
(* interchangeable.                                                          *)
EXTENDS RequestLifecycle, TLC

Symmetry == Permutations(Admins) \union Permutations(Applicants)
              \union Permutations(Requests)
=============================================================================
