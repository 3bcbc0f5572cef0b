---------------------------- MODULE JobLifecycle ----------------------------
(* What the job queue promises about a job, with no workers in sight: the     *)
(* abstract specification that JobRunner implements, and the table that the   *)
(* enqueue protocols (JobEnqueue, ReviewIngress) work on.                     *)
(*                                                                            *)
(* A job is leased under a growing generation, uses up one attempt whenever a *)
(* lease ends without a result, and carries the result of one generation.     *)
EXTENDS Integers, FiniteSets

CONSTANTS Jobs, MaxAttempts

ASSUME LifecycleAssumption == MaxAttempts \in [Jobs -> Nat \ {0}]

VARIABLE life

Unborn == [status |-> "absent", tries |-> 0, gen |-> 0, result |-> 0]
IsIn(j, statuses) == life[j].status \in statuses
InFlight(j) == IsIn(j, {"pending", "running"})

(* What happens to a job's record: it is leased under the next generation,    *)
(* its holder publishes, an attempt is used up, it starts over.               *)
Leased(l) == [l EXCEPT !.status = "running", !.gen = @ + 1]
Published(l) == [l EXCEPT !.status = "done", !.result = l.gen]
Used(j, l) ==
    [l EXCEPT !.tries = @ + 1,
              !.status = IF l.tries + 1 < MaxAttempts[j] THEN "pending" ELSE "failed"]
StartOver(l) == [l EXCEPT !.status = "pending", !.tries = 0]

(* A job's record is well formed.                                             *)
LifeRecord ==
    [status : {"absent", "pending", "running", "done", "failed", "cancelled"},
     tries : Nat, gen : Nat, result : Nat]
LifeTypeOK == life \in [Jobs -> LifeRecord]

LifeInit == life = [j \in Jobs |-> Unborn]

Submit(j) ==
    /\ IsIn(j, {"absent"})
    /\ life' = [life EXCEPT ![j] = [@ EXCEPT !.status = "pending"]]

Lease(j) ==
    /\ IsIn(j, {"pending"})
    /\ life' = [life EXCEPT ![j] = Leased(@)]

(* Only the generation that holds the lease publishes, and only once.         *)
Publish(j) ==
    /\ IsIn(j, {"running"})
    /\ life' = [life EXCEPT ![j] = Published(@)]

(* The holder reports a failure.                                              *)
GiveUp(j) ==
    /\ IsIn(j, {"running"})
    /\ life' = [life EXCEPT ![j] = Used(j, @)]

(* Leases are taken back from holders that went silent.                       *)
Expire(S) ==
    /\ \A j \in S : IsIn(j, {"running"})
    /\ life' = [j \in Jobs |-> IF j \in S THEN [Used(j, life[j]) EXCEPT !.gen = @ + 1] ELSE life[j]]

Drop(S) ==
    /\ \A j \in S : InFlight(j)
    /\ life' = [j \in Jobs |-> IF j \in S THEN [life[j] EXCEPT !.status = "cancelled"] ELSE life[j]]

Resubmit(j) ==
    /\ IsIn(j, {"failed", "cancelled"})
    /\ life' = [life EXCEPT ![j] = StartOver(@)]

LifeNext ==
    \/ \E j \in Jobs : Submit(j) \/ Lease(j) \/ Publish(j) \/ GiveUp(j) \/ Resubmit(j)
    \/ \E S \in SUBSET Jobs : Expire(S) \/ Drop(S)

LifeSpec == LifeInit /\ [][LifeNext]_life

=============================================================================
