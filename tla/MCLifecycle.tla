----------------------------- MODULE MCLifecycle -----------------------------
(* An instance of Lifecycle for TLC: a node with a public and a peer server *)
(* and two goroutines that call JoinCluster or Close beside run.            *)
EXTENDS Lifecycle
=============================================================================
