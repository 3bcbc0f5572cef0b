----------------------------- MODULE MemoryJobs -----------------------------
(* One row of the memory_jobs table and what each SQL statement of            *)
(* memory/store/postgres/queries/jobQueries.ts does to it.  A statement is    *)
(* atomic; who issues it, and when, is the business of the modules that       *)
(* extend this one.                                                           *)
(*                                                                            *)
(* Times are kept relative to the database clock: "age" is now() - locked_at  *)
(* and "delay" is run_after - now().  Both columns are written from the clock *)
(* of the Node process that runs the statement, which is ahead of the         *)
(* database by that process's skew.                                           *)
EXTENDS Integers, FiniteSets

CONSTANTS
    Jobs,          \* job ids
    MaxAttempts,   \* max_attempts of each job
    Tenant,        \* tenant of each job, or NoTenant
    NoTenant,
    Priority,      \* priority of each job
    TenantLimit,   \* perTenantLimit; 0 disables the cap
    Stuck          \* stuckMs, in ticks of the model's clock

ASSUME JobsAssumption == IsFiniteSet(Jobs)
ASSUME MaxAttemptsAssumption == MaxAttempts \in [Jobs -> Nat \ {0}]
ASSUME TableAssumption ==
    /\ Priority \in [Jobs -> Int]
    /\ DOMAIN Tenant = Jobs
    /\ TenantLimit \in Nat
    /\ Stuck \in Nat

Statuses == {"absent", "pending", "running", "done", "failed", "cancelled"}
InFlightStatuses == {"pending", "running"}
SettledStatuses == {"done", "failed", "cancelled"}

(* locked_at is NULL exactly when the job is not running; age is then 0.      *)
(* output names the lease whose result output_json holds, 0 for NULL.         *)
RowType ==
    [status : Statuses, attempts : Nat, epoch : Nat, age : Int, delay : Int, output : Nat]

NoRow == [status |-> "absent", attempts |-> 0, epoch |-> 0, age |-> 0, delay |-> 0, output |-> 0]

-----------------------------------------------------------------------------
(* leaseGuard: NULL (0 here) is unfenced, an epoch must be the row's.          *)
(* Faulty variant: the guard is left out of the statement.                     *)
LeaseGuardMissing(r, epoch) == TRUE
LeaseGuard(r, epoch) == epoch = 0 \/ r.epoch = epoch

(* The write-back of a lease holder applies to this row.                       *)
Owned(r, epoch) == r.status = "running" /\ LeaseGuard(r, epoch)

(* enqueueMemoryJob's INSERT; run_after defaults to the caller's now.          *)
(* Faulty variant: a status no other statement knows.                          *)
InsertRowQueued(skew) == [NoRow EXCEPT !.status = "queued", !.delay = skew]
InsertRow(skew) == [NoRow EXCEPT !.status = "pending", !.delay = skew]

(* The UPDATE shared by claimNextMemoryJob and startMemoryJob.                 *)
(* Faulty variant: every lease starts from epoch 1 again.                      *)
LeaseRowFirstEpoch(r, skew) == [r EXCEPT !.status = "running", !.age = -skew, !.epoch = 1]
LeaseRow(r, skew) == [r EXCEPT !.status = "running", !.age = -skew, !.epoch = @ + 1]

(* heartbeatMemoryJob, and the locked_at part of appendJobProgress: renew a    *)
(* running row if the guard lets the caller through.                           *)
RenewRow(r, epoch, skew) == IF Owned(r, epoch) THEN [r EXCEPT !.age = -skew] ELSE r

(* completeMemoryJob: nothing unless running and owned.                        *)
CompleteRow(r, epoch, result) ==
    IF Owned(r, epoch) THEN [r EXCEPT !.status = "done", !.age = 0, !.output = result] ELSE r

(* One attempt is used up: re-arm while attempts remain, else fail for good.   *)
(* Faulty variant: off by one, one attempt too many.                           *)
UseAttemptOffByOne(j, r, delay) ==
    IF r.attempts + 1 <= MaxAttempts[j]
    THEN [r EXCEPT !.status = "pending", !.attempts = @ + 1, !.age = 0, !.delay = delay]
    ELSE [r EXCEPT !.status = "failed", !.attempts = @ + 1, !.age = 0]
UseAttempt(j, r, delay) ==
    IF r.attempts + 1 < MaxAttempts[j]
    THEN [r EXCEPT !.status = "pending", !.attempts = @ + 1, !.age = 0, !.delay = delay]
    ELSE [r EXCEPT !.status = "failed", !.attempts = @ + 1, !.age = 0]

(* failMemoryJob: the epoch stays.                                             *)
(* Faulty variant: the lease is checked, the status is not.                    *)
FailRowAnyStatus(j, r, epoch, delay) == IF LeaseGuard(r, epoch) THEN UseAttempt(j, r, delay) ELSE r
FailRow(j, r, epoch, delay) == IF Owned(r, epoch) THEN UseAttempt(j, r, delay) ELSE r

(* sweepStuckMemoryJobs, for one row: expiry is judged by the database clock,  *)
(* and the epoch moves so that the worker that stalled is fenced out.          *)
(* Faulty variant: it re-arms none.                                            *)
SweepRowNever(j, r, skew) == r
SweepRow(j, r, skew) ==
    IF r.status = "running" /\ r.age > Stuck
    THEN [UseAttempt(j, r, skew) EXCEPT !.epoch = @ + 1]
    ELSE r

(* retryMemoryJob and cancelMemoryJob.                                         *)
(* Faulty variant: a retry keeps the attempts already used.                    *)
RetryRowKeepsAttempts(r, skew) ==
    IF r.status \in {"failed", "cancelled"}
    THEN [r EXCEPT !.status = "pending", !.delay = skew, !.age = 0]
    ELSE r
RetryRow(r, skew) ==
    IF r.status \in {"failed", "cancelled"}
    THEN [r EXCEPT !.status = "pending", !.attempts = 0, !.delay = skew, !.age = 0]
    ELSE r
CancelRow(r) ==
    IF r.status \in InFlightStatuses THEN [r EXCEPT !.status = "cancelled", !.age = 0] ELSE r

(* The WHERE clause of claimNextMemoryJob over the whole table: due by the     *)
(* claimer's clock, and its tenant below the limit.                            *)
RunningOf(rows, tenant) == {j \in Jobs : rows[j].status = "running" /\ Tenant[j] = tenant}
UnderLimit(rows, j) ==
    TenantLimit = 0 \/ Tenant[j] = NoTenant \/ Cardinality(RunningOf(rows, Tenant[j])) < TenantLimit

Claimable(rows, skew) ==
    {j \in Jobs : rows[j].status = "pending" /\ rows[j].delay <= skew /\ UnderLimit(rows, j)}

(* ORDER BY priority DESC, run_after ASC, id ASC LIMIT 1 over the rows nobody  *)
(* has locked.  Rows of equal priority are left in any order: run_after is     *)
(* only known here up to "due".                                                *)
ClaimOrder(candidates) == {j \in candidates : \A k \in candidates : Priority[k] <= Priority[j]}

=============================================================================
