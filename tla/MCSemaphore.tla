---------------------------- MODULE MCSemaphore ----------------------------
(* Small pools for TLC.                                                       *)
EXTENDS Semaphore

CONSTANTS b1, b2, b3, n1, n2, n3   \* acquire() and acquireOrNull() callers

AcquireCallers == {b1, b2, b3}
MixedCallers == AcquireCallers \cup {n1, n2, n3}

=============================================================================
