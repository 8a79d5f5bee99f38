---------------------------- MODULE MCBucketTable ----------------------------
(* Instances of BucketTable for TLC.                                       *)
EXTENDS BucketTable, TLC

CONSTANTS q1, q2, q3, r1, r2, d1, d2, m

\* Two requests of one route and one of another.
MCRouteOf == (q1 :> r1) @@ (q2 :> r1) @@ (q3 :> r2)

MCMajorOf == [r \in Routes |-> m]

\* Discord names the bucket, names another, or names none.
AnyReveal == [r \in Routes |-> Discord \cup {None}]

\* bucketState objects are interchangeable: nothing names one.
Symmetry == Permutations(Buckets)
=============================================================================
