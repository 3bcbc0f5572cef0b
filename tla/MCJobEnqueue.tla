---------------------------- MODULE MCJobEnqueue ----------------------------
(* Four enqueue calls: three of tenant a with one key, one of tenant b with    *)
(* the same key.                                                               *)
EXTENDS JobEnqueue, TLC

CONSTANTS r1, r2, r3, r4, a, b, k

Symmetry == Permutations({r1, r2, r3})
Attempts == [j \in Jobs |-> 1]
SameKey == [j \in Jobs |-> k]
TwoTenants == [j \in Jobs |-> IF j = r4 THEN b ELSE a]

=============================================================================
