---------------------------- MODULE HybridClock ----------------------------
(* The hybrid logical clock of packages/core/src/sync/hybridClock.ts.       *)
(* A stamp is a physical reading p, a logical counter l and the device d    *)
(* that made it; devices are numbers, so that the tie-break is their order. *)
EXTENDS Integers

\* `undefined` in the code: before every stamp a device can make.
NoStamp == [p |-> -1, l |-> 0, d |-> 0]

\* hlcAfter (compareHlc > 0): the total order (physical, logical, device).
After(a, b) ==
    \/ a.p > b.p
    \/ a.p = b.p /\ a.l > b.l
    \/ a.p = b.p /\ a.l = b.l /\ a.d > b.d

\* latestHlc: the second argument only when it is strictly later.
Later(a, b) == IF After(b, a) THEN b ELSE a

\* latestStamp over a non-empty set of stamps.
Latest(S) == CHOOSE s \in S : \A r \in S : ~After(r, s)

\* Math.max
Larger(x, y) == IF x >= y THEN x ELSE y

\* hlcNow: stamp a local event; a wall clock that went back only adds to the
\* logical counter.
HlcNow(clock, wall) ==
    LET p == Larger(clock.p, wall)
    IN  [p |-> p, l |-> IF p = clock.p THEN clock.l + 1 ELSE 0, d |-> clock.d]

\* hlcReceive: absorb a stamp seen from elsewhere, under our own device id.
HlcReceive(clock, remote, wall) ==
    LET p == Larger(Larger(clock.p, remote.p), wall)
        l == CASE p = clock.p /\ p = remote.p -> Larger(clock.l, remote.l) + 1
               [] p = clock.p /\ p # remote.p -> clock.l + 1
               [] p # clock.p /\ p = remote.p -> remote.l + 1
               [] OTHER -> 0
    IN  [p |-> p, l |-> l, d |-> clock.d]
=============================================================================
