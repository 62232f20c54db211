--------------------------- MODULE MCCaptureCard ---------------------------
(* CaptureCard for TLC: all three kinds of card.                             *)
EXTENDS CaptureCard
=============================================================================
