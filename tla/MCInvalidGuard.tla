---------------------------- MODULE MCInvalidGuard ----------------------------
(* Instances of InvalidGuard for TLC.                                      *)
EXTENDS InvalidGuard
=============================================================================
