-------------------------- MODULE MCApplicantPages --------------------------
(* ApplicantPages for TLC.                                                   *)
EXTENDS ApplicantPages
=============================================================================
