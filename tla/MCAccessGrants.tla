--------------------------- MODULE MCAccessGrants ---------------------------
(* AccessGrants for TLC: every request belongs to one user.                  *)
EXTENDS AccessGrants

CONSTANT user

OneOwner == [r \in Requests |-> user]
=============================================================================
