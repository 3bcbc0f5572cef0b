----------------------------- MODULE JobRunner -----------------------------
(* The processes around the job table: the background runners of              *)
(* memory/scheduler/runner.ts (MemoryJobRunner, one per server process), the  *)
(* inline capture stages that record themselves as jobs (runAsJob,            *)
(* recordInlineJob), manual enqueues and retries, process crashes, failing    *)
(* statements and the passing of time.                                        *)
EXTENDS MemoryJobs

CONSTANTS
    Runners,      \* processes that run a MemoryJobRunner
    Inline,       \* the process whose capture stages run as inline jobs
    InlineJobs,   \* the jobs written by runAsJob / recordInlineJob
    Runnable,     \* jobs whose kind has an executor (getJobExecutor)
    Renewing,     \* jobs whose executor renews its lease; none is given the epoch
    OnTimer,      \* those of them that renew by a timer beside the work (embedChunks)
    MaxPerTick,   \* claims per tick
    Backoffs,     \* delays failAgentJob may compute, in ticks
    Skew,         \* how far each process's clock is ahead of the database's
    SkewBound,    \* bound on every |Skew|
    MaxEvents     \* bound on crashes, failed statements and operator retries together

Procs == Runners \cup {Inline}
NoJob == "none"

ASSUME RunnersAssumption == IsFiniteSet(Runners) /\ Inline \notin Runners
ASSUME JobSetsAssumption ==
    /\ InlineJobs \subseteq Jobs
    /\ Runnable \subseteq Jobs
    /\ Renewing \subseteq Jobs /\ OnTimer \subseteq Renewing
    /\ NoJob \notin Jobs
ASSUME RunnerBoundsAssumption ==
    /\ MaxPerTick \in Nat \ {0}
    /\ Backoffs \subseteq Nat
    /\ SkewBound \in Nat
    /\ Skew \in [Procs -> -SkewBound..SkewBound]
    /\ MaxEvents \in Nat

VARIABLES
    row,       \* the table
    phase,     \* where each runner's tick() is
    sel,       \* the row a runner's claim transaction has locked
    tasks,     \* the leases processes believe they hold, and what they do with them
    stage,     \* where each inline stage is: "new", "starting" or "over"
    faults,    \* faults so far
    retries    \* operator retries so far

vars == <<row, phase, sel, tasks, stage, faults, retries>>

(* A task is one runOne() or runAsJob() call: the process, the job, the epoch  *)
(* it was leased under, and its position: claimed but not started, executing,  *)
(* waiting for an answer that never comes, about to complete, about to fail,   *)
(* about to cancel.  awaited says that the tick that started it still waits    *)
(* for it.                                                                     *)
TaskPositions == {"claimed", "exec", "hung", "ok", "err", "cancel"}
TaskType ==
    [proc : Procs, job : Jobs, epoch : Nat, at : TaskPositions, awaited : BOOLEAN]

TasksOf(p) == {t \in tasks : t.proc = p}
Locked(j) == \E w \in Runners : sel[w] = j

Init ==
    /\ row = [j \in Jobs |-> NoRow]
    /\ phase = [w \in Runners |-> "idle"]
    /\ sel = [w \in Runners |-> NoJob]
    /\ tasks = {}
    /\ stage = [j \in InlineJobs |-> "new"]
    /\ faults = 0
    /\ retries = 0

-----------------------------------------------------------------------------
(* Time.  run_after - now() is not followed below the point where every clock *)
(* finds the row due, nor locked_at past expiry.                              *)
Tick ==
    /\ \E j \in Jobs :
          \/ row[j].status = "running" /\ row[j].age <= Stuck
          \/ row[j].status = "pending" /\ row[j].delay > -SkewBound
    /\ row' = [j \in Jobs |->
          CASE row[j].status = "running" /\ row[j].age <= Stuck -> [row[j] EXCEPT !.age = @ + 1]
            [] row[j].status = "pending" /\ row[j].delay > -SkewBound -> [row[j] EXCEPT !.delay = @ - 1]
            [] OTHER -> row[j]]
    /\ UNCHANGED <<phase, sel, tasks, stage, faults, retries>>

-----------------------------------------------------------------------------
(* enqueueAgentJob and the other background enqueues, without a duplicate.    *)
Enqueue(j) ==
    /\ j \notin InlineJobs
    /\ row[j].status = "absent"
    /\ row' = [row EXCEPT ![j] = InsertRow(0)]
    /\ UNCHANGED <<phase, sel, tasks, stage, faults, retries>>

(* retryAgentJob, called by the memory_job_retry tool.                        *)
Retry(j) ==
    /\ faults + retries < MaxEvents
    /\ row[j].status \in {"failed", "cancelled"}
    /\ row' = [row EXCEPT ![j] = RetryRow(@, 0)]
    /\ retries' = retries + 1
    /\ UNCHANGED <<phase, sel, tasks, stage, faults>>

-----------------------------------------------------------------------------
(* tick() enters: the inProgress guard, then the sweep.                       *)
TickSweep(w) ==
    /\ phase[w] = "idle"
    /\ phase' = [phase EXCEPT ![w] = "claiming"]
    /\ row' = [j \in Jobs |-> SweepRow(j, row[j], Skew[w])]
    /\ UNCHANGED <<sel, tasks, stage, faults, retries>>

(* The SELECT ... FOR UPDATE SKIP LOCKED of claimNextMemoryJob.  The count of  *)
(* running rows is read here, the row turns running at the UPDATE: another     *)
(* runner may read the count in between.                                       *)
Claimed(w) == {t \in TasksOf(w) : t.at = "claimed"}
Candidates(w) == {j \in Claimable(row, Skew[w]) : ~Locked(j)}

ClaimSelect(w) ==
    /\ phase[w] = "claiming"
    /\ sel[w] = NoJob
    /\ Cardinality(Claimed(w)) < MaxPerTick
    /\ \E j \in ClaimOrder(Candidates(w)) : sel' = [sel EXCEPT ![w] = j]
    /\ UNCHANGED <<row, phase, tasks, stage, faults, retries>>

(* The UPDATE of the claim transaction, and its commit.                       *)
ClaimCommit(w) ==
    LET j == sel[w] IN
    /\ j # NoJob
    /\ row' = [row EXCEPT ![j] = LeaseRow(@, Skew[w])]
    /\ tasks' = tasks \cup
          {[proc |-> w, job |-> j, epoch |-> row'[j].epoch, at |-> "claimed", awaited |-> TRUE]}
    /\ sel' = [sel EXCEPT ![w] = NoJob]
    /\ UNCHANGED <<phase, stage, faults, retries>>

(* The claim loop ends: nothing claimable, or maxPerTick claims.  Every       *)
(* claimed job starts at once; a kind without an executor goes to the cancel. *)
Drain(w) ==
    /\ phase[w] = "claiming"
    /\ sel[w] = NoJob
    /\ Cardinality(Claimed(w)) = MaxPerTick \/ Candidates(w) = {}
    /\ phase' = [phase EXCEPT ![w] = "draining"]
    /\ tasks' = {IF t \in Claimed(w)
                 THEN [t EXCEPT !.at = IF t.job \in Runnable THEN "exec" ELSE "cancel"]
                 ELSE t : t \in tasks}
    /\ UNCHANGED <<row, sel, stage, faults, retries>>

(* A claim throws: tick() ends in its catch and drops the jobs it had claimed,*)
(* which stay running with nobody working on them.                            *)
ClaimThrows(w) ==
    /\ phase[w] = "claiming"
    /\ faults + retries < MaxEvents
    /\ faults' = faults + 1
    /\ sel' = [sel EXCEPT ![w] = NoJob]
    /\ phase' = [phase EXCEPT ![w] = "idle"]
    /\ tasks' = tasks \ Claimed(w)
    /\ UNCHANGED <<row, stage, retries>>

(* mapWithConcurrency resolves: every task of this tick has ended.            *)
TickEnds(w) ==
    /\ phase[w] = "draining"
    /\ \A t \in TasksOf(w) : ~t.awaited
    /\ phase' = [phase EXCEPT ![w] = "idle"]
    /\ UNCHANGED <<row, sel, tasks, stage, faults, retries>>

-----------------------------------------------------------------------------
(* runAsJob / recordInlineJob: the row is inserted ...                        *)
InlineEnqueue(j) ==
    /\ j \in InlineJobs
    /\ stage[j] = "new"
    /\ stage' = [stage EXCEPT ![j] = "starting"]
    /\ row' = [row EXCEPT ![j] = InsertRow(Skew[Inline])]
    /\ UNCHANGED <<phase, sel, tasks, faults, retries>>

(* ... and started.  A started stage has its work before it (runAsJob) or     *)
(* behind it (recordInlineJob).                                               *)
InlineStart(j) ==
    /\ j \in InlineJobs
    /\ stage[j] = "starting"
    /\ row[j].status = "pending"
    /\ ~Locked(j)
    /\ stage' = [stage EXCEPT ![j] = "over"]
    /\ row' = [row EXCEPT ![j] = LeaseRow(@, Skew[Inline])]
    /\ \E at \in {"exec", "ok"} :
          tasks' = tasks \cup
             {[proc |-> Inline, job |-> j, epoch |-> row'[j].epoch, at |-> at, awaited |-> FALSE]}
    /\ UNCHANGED <<phase, sel, faults, retries>>

(* startMemoryJob finds the row pending no longer: a runner was faster.  The  *)
(* stage refuses to run.                                                      *)
InlineRefused(j) ==
    /\ j \in InlineJobs
    /\ stage[j] = "starting"
    /\ row[j].status # "pending"
    /\ stage' = [stage EXCEPT ![j] = "over"]
    /\ UNCHANGED <<row, phase, sel, tasks, faults, retries>>

-----------------------------------------------------------------------------
(* The executor, or the inline stage, returns, throws, or waits for ever: the *)
(* model calls it makes have no deadline unless an operator sets one, and the *)
(* runner sets none.                                                          *)
Moved(t, at) == tasks' = (tasks \ {t}) \cup {[t EXCEPT !.at = at]}

Execute(t) ==
    /\ t.at = "exec"
    /\ \E at \in {"ok", "err", "hung"} : Moved(t, at)
    /\ UNCHANGED <<row, phase, sel, stage, faults, retries>>

(* When a task renews its lease: an executor that reports progress while it    *)
(* works, one with a heartbeat timer even while it hangs, and runOne with the  *)
(* error event it sends before it fails the job.                               *)
RenewsAt(j) ==
    {"err"} \cup (IF j \in Renewing THEN {"exec"} ELSE {}) \cup (IF j \in OnTimer THEN {"hung"} ELSE {})

(* The error event carries the epoch; an executor has none to pass             *)
(* (JobExecContext).                                                           *)
RenewalEpoch(t) == IF t.at = "err" THEN t.epoch ELSE 0

Renew(t) ==
    /\ t.proc \in Runners
    /\ t.at \in RenewsAt(t.job)
    /\ Owned(row[t.job], RenewalEpoch(t))
    /\ row' = [row EXCEPT ![t.job] = RenewRow(@, RenewalEpoch(t), Skew[t.proc])]
    /\ UNCHANGED <<phase, sel, tasks, stage, faults, retries>>

(* The fenced completeMemoryJob.                                              *)
Complete(t) ==
    /\ t.at = "ok"
    /\ row' = [row EXCEPT ![t.job] = CompleteRow(@, t.epoch, t.epoch)]
    /\ tasks' = tasks \ {t}
    /\ UNCHANGED <<phase, sel, stage, faults, retries>>

(* completeMemoryJob throws, before or after its commit: the catch block fails*)
(* the job.                                                                   *)
CompleteThrows(t) ==
    /\ t.at = "ok"
    /\ faults + retries < MaxEvents
    /\ faults' = faults + 1
    /\ \/ UNCHANGED row
       \/ row' = [row EXCEPT ![t.job] = CompleteRow(@, t.epoch, t.epoch)]
    /\ Moved(t, "err")
    /\ UNCHANGED <<phase, sel, stage, retries>>

(* The delays a failure may be re-armed with: failAgentJob's backoff, none    *)
(* for runAsJob.                                                              *)
Delays(t) == IF t.proc = Inline THEN {Skew[Inline]} ELSE {d + Skew[t.proc] : d \in Backoffs}

Fail(t) ==
    /\ t.at = "err"
    /\ \E d \in Delays(t) : row' = [row EXCEPT ![t.job] = FailRow(t.job, @, t.epoch, d)]
    /\ tasks' = tasks \ {t}
    /\ UNCHANGED <<phase, sel, stage, faults, retries>>

(* No executor for the kind: cancelMemoryJob, which carries no epoch.         *)
Cancel(t) ==
    /\ t.at = "cancel"
    /\ ~Locked(t.job)
    /\ row' = [row EXCEPT ![t.job] = CancelRow(@)]
    /\ tasks' = tasks \ {t}
    /\ UNCHANGED <<phase, sel, stage, faults, retries>>

(* The last statement of a task throws, before or after its commit.  A        *)
(* runner's tick ends with it (Promise.all rejects) while its other jobs run  *)
(* on unawaited.                                                              *)
EndThrows(t) ==
    /\ t.at \in {"err", "cancel"}
    /\ faults + retries < MaxEvents
    /\ faults' = faults + 1
    /\ \/ UNCHANGED row
       \/ /\ t.at = "err"
          /\ \E d \in Delays(t) : row' = [row EXCEPT ![t.job] = FailRow(t.job, @, t.epoch, d)]
       \/ /\ t.at = "cancel"
          /\ ~Locked(t.job)
          /\ row' = [row EXCEPT ![t.job] = CancelRow(@)]
    /\ IF t.awaited
       THEN /\ phase' = [phase EXCEPT ![t.proc] = "idle"]
            /\ tasks' = {IF u.proc = t.proc THEN [u EXCEPT !.awaited = FALSE] ELSE u : u \in tasks \ {t}}
       ELSE /\ tasks' = tasks \ {t}
            /\ UNCHANGED phase
    /\ UNCHANGED <<sel, stage, retries>>

(* A process dies with its timers, transactions and tasks, and comes back.    *)
Crash(p) ==
    /\ faults + retries < MaxEvents
    /\ faults' = faults + 1
    /\ tasks' = tasks \ TasksOf(p)
    /\ phase' = [w \in Runners |-> IF w = p THEN "idle" ELSE phase[w]]
    /\ sel' = [w \in Runners |-> IF w = p THEN NoJob ELSE sel[w]]
    /\ stage' = [j \in InlineJobs |->
          IF p = Inline /\ stage[j] = "starting" THEN "over" ELSE stage[j]]
    /\ UNCHANGED <<row, retries>>

-----------------------------------------------------------------------------
RunnerStep(w) ==
    \/ TickSweep(w)
    \/ ClaimSelect(w)
    \/ ClaimCommit(w)
    \/ Drain(w)
    \/ ClaimThrows(w)
    \/ TickEnds(w)

TaskStep(t) ==
    \/ Execute(t)
    \/ Renew(t)
    \/ Complete(t)
    \/ CompleteThrows(t)
    \/ Fail(t)
    \/ Cancel(t)
    \/ EndThrows(t)

JobStep(j) ==
    \/ Enqueue(j)
    \/ Retry(j)
    \/ InlineEnqueue(j)
    \/ InlineStart(j)
    \/ InlineRefused(j)

Next ==
    \/ Tick
    \/ \E w \in Runners : RunnerStep(w)
    \/ \E t \in tasks : TaskStep(t)
    \/ \E j \in Jobs : JobStep(j)
    \/ \E p \in Procs : Crash(p)

Spec == Init /\ [][Next]_vars

(* Fairness.  Timers fire and statements return, so every runner keeps        *)
(* ticking unless it waits for an executor; an executor does not work for     *)
(* ever, but it may hang, and the runner's tick (inProgress) then never ends; *)
(* an inline stage goes on from its insert to its start.  Nothing is assumed  *)
(* of enqueues, retries, renewals or faults.                                  *)
RunnerProgress(w) == TickSweep(w) \/ ClaimSelect(w) \/ ClaimCommit(w) \/ Drain(w) \/ TickEnds(w)
TaskProgress(j) ==
    \E t \in tasks :
        /\ t.job = j
        /\ Execute(t) \/ Complete(t) \/ Fail(t) \/ Cancel(t)

FairSpec ==
    /\ Spec
    /\ WF_vars(Tick)
    /\ \A w \in Runners : WF_vars(RunnerProgress(w))
    /\ \A j \in Jobs : WF_vars(TaskProgress(j)) /\ WF_vars(InlineStart(j) \/ InlineRefused(j))

-----------------------------------------------------------------------------
(* The variables stay in their types.                                         *)
TypeOK ==
    /\ row \in [Jobs -> RowType]
    /\ phase \in [Runners -> {"idle", "claiming", "draining"}]
    /\ sel \in [Runners -> Jobs \cup {NoJob}]
    /\ tasks \subseteq TaskType
    /\ stage \in [InlineJobs -> {"new", "starting", "over"}]
    /\ faults \in 0..MaxEvents
    /\ retries \in 0..MaxEvents

(* Fencing.  The result a done job carries was produced under the last lease  *)
(* issued for it: a worker whose lease was swept and reissued can stall for   *)
(* any time and never publishes over the run that replaced it.                *)
FencedResult == \A j \in Jobs : row[j].status = "done" => row[j].output = row[j].epoch

(* A lease has one holder: two tasks never carry the same epoch of a job, in  *)
(* one process or in two, and no task carries an epoch not yet issued.        *)
OneLeaseHolder ==
    /\ \A t, u \in tasks : t.job = u.job /\ t.epoch = u.epoch => t = u
    /\ \A t \in tasks : 1 <= t.epoch /\ t.epoch <= row[t.job].epoch

(* Attempts never pass max_attempts, however failures, sweeps and throwing    *)
(* write-backs race; a job that may still run has an attempt left, and a      *)
(* failed one has none.                                                       *)
AttemptsBounded ==
    \A j \in Jobs :
        /\ row[j].status \in InFlightStatuses => row[j].attempts < MaxAttempts[j]
        /\ row[j].status = "failed" => row[j].attempts = MaxAttempts[j]
        /\ row[j].attempts <= MaxAttempts[j]

(* The per-tenant cap is soft by one per further runner (claimNextMemoryJob's *)
(* comment), and inline stages start without looking at it: beyond that a     *)
(* tenant never has more running jobs.                                        *)
TenantCapSoft ==
    TenantLimit > 0 =>
        \A j \in Jobs : Tenant[j] # NoTenant =>
            Cardinality(RunningOf(row, Tenant[j]))
               <= TenantLimit + Cardinality(Runners) - 1
                  + Cardinality({i \in InlineJobs : Tenant[i] = Tenant[j]})

(* A result is final: no sweep, late write-back, cancel or retry touches a    *)
(* done job.                                                                  *)
DoneIsFinal == [][\A j \in Jobs : row[j].status = "done" => row'[j] = row[j]]_vars

(* Only a worker that holds the current lease keeps it alive.                 *)
(* (jobQueries.ts, lines 488-490: "A fenced worker must not be able to keep a *)
(* lease alive that has already been reissued to someone else.")              *)
Renewed(j) ==
    /\ row[j].status = "running"
    /\ row'[j].status = "running"
    /\ row'[j].epoch = row[j].epoch
    /\ row'[j].age < row[j].age
OnlyHolderRenews ==
    [][\A j \in Jobs : Renewed(j) =>
          \E t \in tasks : t.job = j /\ t.epoch = row[j].epoch]_vars

(* As long as some runner goes on ticking, every job that enters the queue is *)
(* settled: crashes, lost write-backs, orphaned leases and hung executors are *)
(* swept, retried and finally failed, never forgotten.  A job whose executor  *)
(* has a heartbeat timer is left out: when it hangs, the timer keeps its      *)
(* lease alive.                                                               *)
JobSettles ==
    []<>(\E w \in Runners : phase[w] = "claiming") =>
        \A j \in Jobs \ OnTimer :
            row[j].status \in InFlightStatuses ~> row[j].status \in SettledStatuses

-----------------------------------------------------------------------------
(* The queue with all its workers, faults and clocks implements the abstract  *)
(* job lifecycle: whatever the processes do to a row is one of its steps.     *)
LifeOf(r) == [status |-> r.status, tries |-> r.attempts, gen |-> r.epoch, result |-> r.output]

Lifecycle == INSTANCE JobLifecycle WITH life <- [j \in Jobs |-> LifeOf(row[j])]

(* Every behaviour of the runners and stages is a behaviour of JobLifecycle.  *)
ImplementsLifecycle == Lifecycle!LifeSpec

=============================================================================
