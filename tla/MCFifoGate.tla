------------------------------ MODULE MCFifoGate ------------------------------
(* Instances of FifoGate for TLC.                                          *)
EXTENDS FifoGate
=============================================================================
