----------------------------- MODULE MCRoundTrip -----------------------------
(* Instances of RoundTrip for TLC.                                         *)
EXTENDS RoundTrip, TLC

CONSTANTS q1, q2, q3, r1, r2, r3, d1, m

\* Requests on three routes.
MCRouteOf == [q \in Requests |-> CASE q = q1 -> r1 [] q = q2 -> r2 [] OTHER -> r3]

MCMajorOf == [r \in Routes |-> m]

\* One route has a bucket that Discord names, and so takes a slot more.
OneReveal == [r \in Routes |-> IF r = r1 THEN {d1} ELSE {None}]

\* The routes share a bucket.
SharedReveal == [r \in Routes |-> {d1}]

Symmetry == Permutations(Buckets)
=============================================================================
