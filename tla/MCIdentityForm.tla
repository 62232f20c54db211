--------------------------- MODULE MCIdentityForm ---------------------------
(* IdentityForm for TLC.                                                     *)
EXTENDS IdentityForm
=============================================================================
