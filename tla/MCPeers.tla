------------------------------- MODULE MCPeers -------------------------------
(* Instances of Peers for TLC.                                             *)
EXTENDS Peers, TLC

CONSTANTS n1, n2, d, q1, q2

\* At first each request belongs to the node the other one does not; the first
\* would move on from there to the dead member.
Scores ==
  (q1 :> (n1 :> 1 @@ n2 :> 2 @@ d :> 3)) @@ (q2 :> (d :> 1 @@ n2 :> 2 @@ n1 :> 3))
=============================================================================
