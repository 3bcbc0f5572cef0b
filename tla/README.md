# BrainRouter: TLA+ models, checks and proofs

BrainRouter is a memory and agent server (`brainrouter/`) with a shared agent
core (`packages/core/`), a CLI, desktop, dashboard and mobile clients. This
directory specifies the parts in which concurrency and failure decide
correctness: the semaphore in front of the model endpoints, the job queue in
PostgreSQL with the workers around it, the idempotent enqueue, the GitHub webhook
that feeds reviews into the queue, the local-first sync of the planner, the
block leases of the notes, and the claims and messages of sessions.

Paths below are relative to `src/brainrouter/src/` unless they start with
`packages/`, `brainrouter-desktop/` or `brainrouter-dashboard/`, which are
relative to `src/`. `PROJECT.json` holds the machine-readable side: components,
runs, mutants, the map from definitions to source lines, findings, hazards,
theorems.

## 1. Inventory

### Modelled

| Component | State | Operations | What makes it correct |
|---|---|---|---|
| LLM slot semaphore, `memory/llm/llm-semaphore.ts` | `cap`, `inFlight`, `waiters` | `acquire`, `acquireOrNull` with its timer, the release closure, `shedStale`, `reset` | no lost wake-up, no leaked slot, a bounded and exact queue, every waiter answered while some slot still comes back |
| Job table, `memory/store/postgres/queries/jobQueries.ts` | `memory_jobs` rows: status, attempts, run_after, locked_at, lease_epoch, output | insert, claim, start, renew, complete, fail, retry, cancel, supersede, sweep | fencing by epoch, bounded attempts, done is final |
| Job runner and inline stages, `memory/scheduler/runner.ts`, `jobs.ts`, `backoff.ts`, `memory/util/concurrency.ts` | `inProgress`, the claimed jobs, the running executors | `tick`, `runOne`, `runAsJob`, `recordInlineJob`, enqueue, retry | one holder per lease, every job settles while a runner ticks, the tenant cap, refinement of the lifecycle |
| Idempotent enqueue, `enqueueMemoryJob`, migration 049 | the statement each call is at | insert, look up the winner, insert again, look up again, throw | one job in flight per (kind, tenant, key); the answer is in scope and was in flight |
| GitHub review ingress, `integrations/githubWebhook.ts` | where each delivery's handler is | supersede, enqueue per lens | no pull request loses its review; an older review never waits beside a newer one when pushes come in order |
| Record sync of the planner, `packages/core/src/sync`, `packages/core/src/planner`, `brainrouter-desktop/electron/host/queries.ts`, `memory/planner/backend.ts`, `memory/store/postgres/queries/plannerQueries.ts` | each device's file (clock, items, outbox, cursor), the copy a running cycle works on, requests under way, the server's rows, revision and receipts | local edits and decisions, requested retries, the sync cycle (shed, pull, merge, push, acknowledge), the server's push and pull | no edit vanishes, none is applied twice or out of order, quiet devices agree with the server |
| Note block leases, `packages/core/src/notes/blockLease.ts`, `blockMerge.ts`, `noteStore.ts`, `memory/notes/backend.ts`, `notesQueries.ts`, `brainrouter-dashboard/app/notes/useDashboardNotes.ts` | the lease row, the block's text and conflict marker, the claims tabs and desktops believe they hold | acquire, renew, release, fenced write, decision | two tabs never share an epoch; a superseded lease never takes the text; a live lease shields it |
| Session delivery hub and messaging store, `services/sessionDeliveryHub.ts`, `memory/store/postgres/queries/sessionQueries.ts`, `tools/sessions/active_sessions.ts`, `transport/mcpTools/session.ts`, `transport/mcpServer.ts`, `index.ts` | per key: the claim row with its lease, each process's route and reservation, the tool calls in flight; per message: the sender's transaction, the inbox row, notifications and wakes | register, unregister, acknowledge, heartbeat, close and reap, sweep; `session_send` with its retries; LISTEN/NOTIFY wakes | nothing outlives a connection, no wake reaches a stale claimant, the inbox is bounded, a message is stored once, the client that remains gets the key |

How they interact: the webhook and the tools enqueue; the runners of several
server processes claim from the same table and run executors, which take slots
from the semaphore for every model call (`acquireLLMSlot`, `acquireEmbeddingSlot`
and `acquireRerankerSlot`, or `acquireRerankerSlotOrNull` where a wait is configured,
`memory/store/reranker.ts` 210-212; released in `finally` blocks). The processes
share nothing but the database; the semaphore is local to a process. The planner
and the notes run the same sync engine: a device edits its own file and a cycle
exchanges it with the server, which runs the same merge inside a transaction per
operation. The notes add leases: the server judges every write it merges against
the block's lease row. A session's key is claimed in the database and routed in the
memory of one process; PostgreSQL's LISTEN/NOTIFY tells every process of a stored
message, and each asks the database before it wakes the connection it routes to.

What is hard: callbacks that run between a promise's resolution and its
continuation; workers that stall past their lease and come back; statements that
throw before or after their commit; processes that die between two statements;
clocks that differ; webhooks that arrive twice, late, or together; edits made
while a cycle waits for the network; pushes whose answer is lost; transactions
judged by a clock that was read before a lock was free; a route and a claim that
change at different times. Each of these is listed
at its line under "hazards" in `PROJECT.json`.

### Not modelled

* Candidates: the review-finding projection (`jobQueries.ts` 100-369,
  `reviews/findingLifecycle.ts`), the retention pass, the agent-side
  semaphore (`packages/core/src/util/concurrency/llmSemaphore.ts`), the fleet
  runner (`packages/core/src/fleet`), the comment commands of the webhook.
* Of session messaging: broadcasts to several recipients, receipts that travel back
  to the sender, delegations, the read-only listings, and the deletion of message ids
  after seven days.
* Later candidates in `packages/core`: orchestration slots, the MCP pool and its
  reconnection, the transcription queue, worktree ownership.
* Out of reach or without a state machine worth one: recall ranking and embedding
  (numeric), provider routing (policy and network I/O), HTTP and MCP endpoints,
  SQL schema other than the queue's, user interfaces, SDK and type packages,
  benchmarks, prompts and docs.

## 2. Modules

```
Semaphore   <- MCSemaphore
            <- SemaphoreProofs
MemoryJobs  <- JobRunner <- MCJobRunner
                         <- JobRunnerProofs          (and JobLifecycleProofs)
JobLifecycle  (abstract; instantiated by JobRunner)
            <- JobLifecycleProofs
            <- JobEnqueue    <- MCJobEnqueue
                             <- JobEnqueueProofs     (and JobLifecycleProofs)
            <- ReviewIngress <- MCReviewIngress
                             <- ReviewIngressProofs  (and JobLifecycleProofs)
HybridClock <- ItemMerge <- RecordSync <- MCRecordSync
                                       <- RecordSyncProofs
NoteLeases  <- MCNoteLeases
            <- NoteLeasesProofs
SessionMessages <- MCSessionMessages
                <- SessionMessagesProofs
```

(`<-` reads "is extended by".) An operator whose comment says "Faulty variant" is
a plausible bug of the definition after it; no specification uses it. Checking a
property again with the definition replaced by its faulty variant shows that the
property can fail.

### Semaphore

One pool. JavaScript runs one callback at a time, so an action is the code between
two awaits. `Passthrough`, `AcquireFast` and `AcquireSlow` are the branches shared
by the two entry points; `Continue` is the microtask after `acquire()`'s await, in
which a woken waiter counts itself; `TimeoutOrNull` is `acquireOrNull`'s timer;
`Release` is the whole release closure: decrement, shed, hand off. Time is
abstracted to a prefix `stale` of the queue: entries are pushed in the order of
their `enqueuedAt`, so the ones past the age limit are the oldest. `cap = 0`
stands for `Infinity`. The release closure's `released` flag is why a caller
releases once and is then `done`.

### MemoryJobs and JobRunner

`MemoryJobs` says what each SQL statement does to a row; a statement, or a
transaction under `FOR UPDATE`, is atomic. The claim is the exception: it reads
the tenant's running count in its SELECT and changes the row in its UPDATE, with
nothing serialising the claimers, so it is two actions (`ClaimSelect`,
`ClaimCommit`) and the row is locked (`sel`) in between. Times are relative to
the database clock: `age` is now() - locked_at, `delay` is run_after - now(), and
a process writes both from its own clock, which is `Skew` ahead.

`JobRunner` adds the processes. A *task* is a `runOne` or `runAsJob` call: it
remembers the epoch it was leased under. `Drain` starts every claimed job, since
the pool is as wide as the claim loop. A statement may throw before or after its
commit (`ClaimThrows`, `CompleteThrows`, `EndThrows`); a write-back that throws
rejects `Promise.all`, so the tick ends while its other jobs run on, which the
`awaited` flag records. `Crash` takes a process with its tasks, transaction and
timers. An executor returns, throws or hangs (`Execute`). `Renewing` are the jobs whose
executor renews its lease, which it does without an epoch: a review while it works
(`reviews/scheduledPrReview.ts` 173), and those in `OnTimer`, like the knowledge
parser's, by a timer that goes on while the executor hangs
(`knowledge/services/parse-processor.ts` 143). Only the error event of `runOne` carries
the epoch.

`retryMemoryJob` and `enqueueMemoryJob` are modelled here without a key; keys are
JobEnqueue's subject.

### JobLifecycle

What the queue promises about a job with no workers in sight: submit, lease under
the next generation, publish once, use up an attempt, expire, drop, resubmit.
`JobRunner` implements it under the mapping `LifeOf`. It is also the table that
`JobEnqueue` and `ReviewIngress` work on, which is sound because JobRunner has
been shown to do nothing else to a row.

### JobEnqueue

Concurrent calls of `enqueueMemoryJob`; each mints its own id, so calls and jobs
share names. `Insert` is `INSERT ... ON CONFLICT DO NOTHING` against the partial
unique index on (kind, tenant, key) over in-flight rows; `Read` is
`inFlightWinner()`. Jobs are leased, settle and are retried between the
statements. `seen` is a history variable: what was in flight during a call.

### ReviewIngress

One pull request. `Arrive` stands for the checks before the first statement
(signature, linked repository, policy, lenses); `Supersede` and `EnqueueReview`
are the two statements of `fireReviews`. `inOrder`, chosen at the start, restricts
the environment to deliveries that come one at a time and in push order.
`StatementFails` is either of them
failing, which the handler swallows. `JobMoves` is what workers do to a review; an
operator's cancel of a pending review, and the runner's of a kind without an executor,
are left out: they drop a review because somebody, or the build, said so. A comment command fires reviews without
superseding, as an "opened" delivery does, and is not modelled on its own; nor is
the audit row of kind `trigger.github`, which no review statement looks at.

### HybridClock and ItemMerge

`HybridClock` is the hybrid logical clock: a physical reading, a counter and the
device, compared in that order; `HlcNow` stamps a local event and `HlcReceive`
absorbs a remote stamp. `ItemMerge` is `mergeOwnedItem` with the helpers of
`stamped.ts`. Of an item it keeps one text (`title`, with the causal frontier that
tells a successor from a concurrent edit), the completion flag, the tombstone, the
conflict markers and the two kinds of decision; the item's other fields repeat one
of these merges.

### RecordSync

`disk[d]` is the file of a device, `mem[d]` the copy a running cycle has read and
will write back; `StoreLock` says whether edits wait for the cycle, as the planner's
`withPlannerStoreLock` makes them, or not, as in 'notes-sync'. The outbox is a set of
operations keyed `<<d, n, i>>`, the n-th edit of device d, on item i. A push is a
request that outlives its cycle: the device may give up on it (`PushFails`), crash
(`Crash`), pull again and push the same operation again while the first is still on
its way. `ServeOperation` is one transaction of `applyPushOperations`: the receipt,
the merge and the new revision. `Absorb` is what a pull does to a copy: each pulled
row is merged into its item, and the clock receives the newest stamp of each in the
order of their revisions (`AbsorbRows`). `applied`, `shedKeys` and `count` are history and
bounds. `TypeOK` says of every variable what it may hold, down to the stamps: each is
one that a device can make.

`ClockDominates` speaks of the stamps that `newestPlannerItemStamp` collects
(`ItemStamps`), which leaves out the frontier of a text (`seen`). A late second decision
on one conflict can write a title whose frontier holds a later stamp than its own.

Left out: shedding by age, time blocks, mirrored items, the fields that repeat a merge
above.

### NoteLeases

One block. `lease` is its row in `notes_block_leases`; `held` is what each browser tab
believes it holds, `local` the epoch a desktop gave itself in its own file. A
request first begins (`Begin`), which fixes the `now()` PostgreSQL will use for it,
and runs once it has the user's advisory lock, possibly after the clock moved on. The
four comparisons of stamps that `mergeNoteBlock` can meet are the `order` of
`MergeIncoming`. `nth` (the grant a write came from) and `grants` are history.

Left out: the sweep of lease rows that ended 30 days ago, the expiry of a desktop's
own record (it is sent whether it is live or not), retried desktop pushes (RecordSync
has them), comments, properties and the placement of blocks.

### SessionMessages

One session key, the *recipient*. `row` is its claim in `active_sessions`; `hub` and
`reserved` are the two maps of each process's hub, at this address. A tool call
(`calls`) is cut at its awaits: `Register` reserves the route, `Insert` is the upsert,
`Finish` commits the reservation, and where that comes too late `LostReservation`,
`Undo` and `Release` take the claim back; `Ask`, `Authorize`, `Delete`, `Unbind` are
`session_unregister`, `Apply` the end of `session_inbox_ack`. `Close` and
`ReleaseClaims` are the two halves of `releaseMcpConnection`, which run for a closed
transport and for a shutdown; `Vanish` is a client that is killed without its transport
closing. `Lapse` is the lease running out; a heartbeat only postpones that.

A `session_send` is a probe without a lock, then one transaction that locks the
recipient's row (`Lock`), counts (`Count`) and inserts (`Commit`); sends with the same
`Message` are one sender's retries. While a transaction holds the row, statements
that write it wait (`RowLocked`). `Commit` notifies every process; each captures its own
binding (`TakeHint`), asks whether it still holds the claim (`CheckWake`) and pushes or
drops the route. `excused` and `held` are history: who lost a statement or its
process, and who held the claim since a message was stored. The senders' own claims are
taken as live.

## 3. Runs

| Run | Checks | Result |
|---|---|---|
| `sem_mixed` | `TypeOK`, `QueueExact`, `NoLostWakeup`, `NoLeakedSlot`; `WaiterSettles` under `FairSpec` | hold |
| `sem_cap` | `WithinCap` for `acquire()` | violated: finding 1 |
| `jobs` | `TypeOK`, `FencedResult`, `OneLeaseHolder`, `AttemptsBounded`, `DoneIsFinal`, `ImplementsLifecycle`; `JobSettles` under `FairSpec` | hold |
| `jobs_renewal` | `OnlyHolderRenews` for an executor that renews as the knowledge parser's does | violated: finding 5 |
| `enqueue` | `TypeOK`, `UniqueInFlight`, `AnswerWasInFlight`, `ThrowsOnlyAfterTwoWinners` | hold |
| `ingress` | `TypeOK`, `ReviewNotLost`, `SupersededUnlessRearmed` | hold |
| `record_sync` | `TypeOK`, `ClockDominates`, `NoEditLost`, `AppliedOnceInOrder`, `FieldsConverge` | hold |
| `sync_buried_edit` | `NoBuriedEdit` | violated: finding 3 |
| `notes_sync_race` | `NoEditLost` without the store lock | violated: finding 2 |
| `note_leases` | `TypeOK`, `EpochsNotShared`, `FencedByEpoch`, `LiveLeaseShields` | hold |
| `session_messages` | `TypeOK`, `NothingLeftBehind`, `WakesOnlyClaimants`, `InboxBounded`, `SentOnce`; `Recovers` under `FairSpec` | hold |
| `session_reclaim` | `LeaseReclaimable` under `FairSpec`, two clients of one process | violated: finding 4 |

To repeat one: `tlc -workers 2 -config Jobs.cfg MCJobRunner`.

### Bounds, and why they are enough

* Semaphore: three callers of each kind, caps 1 and 2 and the disabled cap, two
  queue places, one reset; in the mixed run one caller of each kind may hang, so the
  whole cap can be lost, half of it, or none. A lost wake-up needs a holder, a stale head and a fresh
  waiter behind it; the queue bound is reached with two waiters and one arrival.
  The safety properties are proved for every size.
* Jobs: two runners and one queued and one inline job; a stale worker, its successor
  and a sweeper need no more. `Stuck = 1` lets a lease be renewed before it expires.
  One event per behaviour (`MaxEvents`): a crash, a failing statement or a retry; hung
  executors are not counted. All clocks are equal: a runner that is ahead or behind
  multiplies the states beyond what a run with liveness affords, and the theorems cover
  every skew for the safety properties. Two attempts are the smallest number at which a
  job is re-armed; inline rows have one, as in `runAsJob`.
* Enqueue: four calls of two tenants under one key, three of them of one tenant: the
  least at which a call loses to two winners. One retry.
* Ingress: an opening and two pushes, two lenses. Ageing is left out: expiry looks
  like a failure to the webhook.
* Record sync: up to three devices, the first with a fast clock, a batch of one
  operation and an outbox of two, so that it sheds after a third edit. A workload says
  how many edits, cycles and requested retries each device makes: three edits and three
  cycles against one edit and two cycles on one item reach a conflict, a decision and
  its push; two edits, three cycles and a retry against one edit and one cycle on two
  items let a retry overtake another item; and one device that adds an item, with two
  others that make two edits and two cycles each, lets completions of one clock and a
  deletion meet in every order. The two violation runs allow an outbox of nine, so that
  nothing is shed, and the least workload that shows the effect.
* Leases: a term of one tick and a clock that stops at two, so a lease is live, has
  just lapsed or is long over. Two tabs of one browser and one of another, and a
  desktop that may lease once; a workload gives three requests to one tab and two to a
  second tab or the desktop, or one to each of the four.
* Session messages: a workload (`MCWorkloads`) says which clients, calls and sends a
  behaviour has and how many faults. Two clients of one process or of two, three of
  both, two calls in flight: enough for a claim that lands after its connection closed,
  for a successor's claim beside a predecessor's undo, and for stale routes in two
  processes. `MaxPending = 1`, so two senders, or two retries of one message, reach the
  limit and the lock. A fault is a failed statement or push, a crash, or the missed
  heartbeats of an open connection.
* Symmetry is used for the interchangeable calls of the enqueue, never with liveness.
* Deadlock is not checked for the semaphore, the enqueue, the ingress, record sync,
  leases and session messages: their calls, edits, requests and connections are finite
  in number, so these models really stop. Nor is it for the runners, which stop when
  each of them waits for a hung executor: the code has no way out of that either.

### Fairness, and why the code justifies it

* `Semaphore!FairSpec`: `Continue` is a microtask, which the event loop always runs.
  `Release` sits in a `finally` at every call site, so it comes once the call it wraps
  ends; by default no client-side timeout ends a call (`memory/util/request-timeout.ts`
  5-23), and a call in `Hanging`, whose server never answers, is given no fairness: it
  may keep its slot for ever. No timer, reset or new caller is assumed to come.
  `WaiterSettles` is what the code then owes a caller of `acquire()`, which has no timer:
  it is answered unless hung calls hold the whole cap. At that point it waits for ever,
  as the same file warns ("N such hangs wedge the pool").
* `JobRunner!FairSpec`: the interval timer fires and statements return, so a runner that
  waits for no executor keeps ticking; an inline stage goes on from its insert to its
  start; time passes. An executor does not work for ever, but it may hang: the runner
  sets no deadline, and a hung executor keeps `inProgress` set, so that runner never
  ticks again. Renewals, enqueues, retries and faults are not assumed. `JobSettles` asks
  for one runner that goes on ticking; its sweep finds the leases of the hung. It
  leaves out the jobs in `OnTimer`: when such an executor hangs, its timer renews the
  lease for ever and no sweep takes the job. That is what the code does, so there is no
  liveness to claim for them.
* `SessionMessages!FairSpec`: a tool call and a transaction go on to their end; a lease
  nobody renews lapses; a client whose heartbeat fails for want of the claim registers
  again (`brainrouter-desktop/electron/host/brainSession.ts` 128-150, on the timer set at
  88). The last is strong fairness: a registration may be refused again and again while
  another call's reservation stands, and the timer keeps trying. No wake, sweep, close
  or send is assumed.

## 4. Findings

1. **`acquire()` can exceed its cap** (`llm-semaphore.ts:164`, run `sem_cap`). A
   release decrements `inFlight` and resolves the waiter's promise; the waiter
   increments it one microtask later. A call of `acquire()` from another callback in
   between takes the slot too. The header says the cap "still bounds simultaneous
   in-flight sockets". `acquireOrNull` increments inside `grant()` and does not have
   the gap.
2. **'notes-sync' can overwrite an edit** (`brainrouter-desktop/electron/host/queries.ts:3405`,
   run `notes_sync_race`). It reads the notes file, waits for the network and writes the
   whole state back; the planner's queries hold a store lock, these do not, and an edit
   made in between is lost with its queued operation.
3. **A decision to delete is applied again over a later edit**
   (`packages/core/src/planner/itemMerge.ts:137`, run `sync_buried_edit`). The edit
   brings the item back with a marker; the next merge meets no tombstone, finds the old
   decision not outranked by one, and deletes the item again, marker included.
4. **A killed client's route outlives its lease** (`sessionDeliveryHub.ts:81`, run
   `session_reclaim`). `reserve()` refuses an address that another connection is bound to
   and never asks the database whether that connection still holds the claim. If the
   client died without its transport closing, only a wake for a new message reaps the
   route; until one comes, its successor in the same process is refused for ever. From
   another process it succeeds, which is what `Recovers` keeps. `federation.md:49` says
   that the lease of a hard-killed process "becomes reclaimable".
5. **A fenced worker keeps its successor's lease alive** (`scheduler/executors.ts:221`, run
   `jobs_renewal`). The heartbeat of the knowledge-parse executor passes no epoch, because
   an executor is given none (`JobExecContext`), and a renewal without an epoch passes the
   lease guard. In the run the worker that was swept renews the lease issued after its own,
   when the holder of that lease is gone and only the sweep could free the job.
   `jobQueries.ts:489` says that "a fenced worker must not be able to keep a lease alive
   that has already been reissued to someone else". It still cannot publish:
   `FencedResult` holds in `jobs` with the same executor.

Disagreements that show in the models without a run of their own:

* A comment (`githubWebhook.ts:279`) says that "only the newest head is reviewed": the
  supersede compares no heads and deliveries are not ordered, so an older push that
  arrives late cancels the newest head's review. `ReviewNotLost` is what remains true.
* The expiry cutoff is the database's, but `locked_at` is stamped from Node
  (`jobQueries.ts:904`, `1033`): a worker whose clock is behind can lose a fresh lease,
  the "stolen leases" that the comment says are over. No property claims otherwise;
  a stolen lease costs a second execution, and the first one's result is fenced out
  (`FencedResult`, proved for every skew).
* Webhook reviews pass no idempotency key (`githubWebhook.ts:296`), so the unique index
  (`jobQueries.ts:423-427`) does not apply to a redelivery.
* A comment (`runner.ts:206-209`) says runners never see the rows of inline stages, but
  such a row is pending between its insert and its start and `ClaimSelect` takes it; the
  stage then refuses (`InlineRefused`) and the lease protocol stays sound.
* Planner: the server's `applyConflictResolution` compares a title decision with the
  marker and the previous decision only, so it can replace a newer title; a
  delete-versus-edit marker disappears at the next merge and a decision on it is then
  refused; a refused operation at the head of a record's queue holds back the later
  ones; a device that shed operations is not refreshed. `FieldsConverge` therefore leaves
  out decided items and devices that shed.
* Planner, three devices: `mergeCompletion` compares the clocks of two completions and
  breaks a tie by their value, whatever their devices (`stamped.ts`), while
  `resolveTombstone` compares the newest edit and the tombstone by their devices too
  (`stamped.ts:223`, called in `itemMerge.ts:127`). Devices 1, 2 and 3 stamp at one
  clock: 3 unticks the item, 1 ticks it, 2 deletes it, and the pushes reach the server in
  that order. The tick wins the tie, the deletion outranks it, and the row is deleted.
  Device 3 still holds its own untick, finds it after the deletion when it pulls, and
  shows the item alive under a marker nobody else sees. It has nothing left to send or
  fetch, so it stays so until somebody edits the item. A comment wants "an unambiguous
  winner or two devices resolve the same pair differently and converge on nothing"
  (`hybridClock.ts:43`). The steps were followed through the model (27 states); a
  breadth-first run of three devices does not get that far, hence no run. It is why
  `FieldsConverge` speaks of the title and the completion only, and nothing here claims
  that replicas agree on a deletion.
* Notes: a desktop's lease is purely local, yet its epoch is sent with the operation, so
  the server fences even a lone desktop's edits as `stale_epoch`, against what
  `notes-server-merge.test.ts:329` expects; the text conflict is a single slot, and a
  second fenced edit replaces the first marker; a decision pushed by a desktop settles
  whatever marker the server has by then, where the browser's path checks the marker it
  was shown.

## 5. Proofs

All theorems are checked by TLAPS for every value of the constants that the ASSUMEs
allow: finite sets of callers, jobs and runners, positive bounds, skews within
`SkewBound`, any workload. A theorem that needs more says so in its statement.

### SemaphoreProofs

`TypeCorrect`, `QueueAlwaysExact`, `WakeupNeverLost`, `SlotNeverLeaked`,
`QueueStaysBounded`, `OrNullKeepsCap`.

`NoLostWakeup` is not inductive: when a release hands its slot over, the count goes
down and the sum inFlight + granted stays only because the head of the queue was
`waiting`, not already granted, which is `QueueExact`; and the count went down by
one only because it was positive. A reset leaves granted callers behind with a
count of zero, but it also empties the queue. The inductive invariant is `SlotInv` =
`NoLostWakeup /\ NoLeakedSlot /\ GrantsBlocking` over `TypeOK /\ QueueExact`, where
`GrantsBlocking` says that only `acquire()` callers are ever granted. With no such
callers nobody is granted, holders equal the count, and `OrNullKeepsCap` follows; it
speaks of pools without `acquire()` callers, so no run repeats it.

### JobRunnerProofs

The types and the leases: `JobsTypeCorrect` and `LeaseHolderUnique`. The inductive
invariant is `LeaseInv` = `TypeOK /\ SelPending /\ AbsentBlank /\ StageFresh /\
OneLeaseHolder`. A new lease takes epoch + 1, which no task can carry, since every
task's epoch is at most the row's. `SelPending` says that a row locked by a claim is
still pending when the claim commits and is locked by one runner only; `AbsentBlank` and
`StageFresh` say that an inline stage inserts its row over nothing, so that the insert
cannot rewind an epoch.

`TenantCapKept` (`TenantCapSoft`; proved, no run repeats it) rests on `CapInv`: the
running queued rows of a tenant plus the runners that have selected a row of it, and so
have passed the count, are at most limit + runners - 1. A runner joins them only when it
counted fewer rows than the limit, and at most runners - 1 others can be between their
count and their update.

The refinement: `RunnersImplementLifecycle` proves `Spec => ImplementsLifecycle`.
`StepOnTable` reduces each of the runner's steps, under `LeaseInv`, to what it does to
the table: nothing, one move of one row, or a sweep. `TableIsLifecycle` maps these to
steps of `JobLifecycle`. `OneLeaseHolder` is what makes it work: a task whose epoch
equals the row's publishes under the row's own generation, so an abstract `Publish` has
the same result. The same reduction gives `ResultsFenced` (`FencedResult`),
`AttemptsAlwaysBounded` (`AttemptsBounded`) and the action property `DoneStaysDone`
(`DoneIsFinal`).

None of these assumes anything of clocks, renewals or faults: executors renew without
their epoch and hang, and every process's clock may be off by `SkewBound`.

### JobEnqueueProofs and ReviewIngressProofs

Both use `JobLifecycleProofs`, which says what each move of the lifecycle does to a
row. `EnqueueTypeCorrect`, `OneInFlight`, `AnswersStayInScope`, `AnswersWereInFlight`
and `ThrowsAreRare`: the invariant `Progress` says what a call has met by the statement
it is at; a call that reached its second lookup has lost two inserts, to two different
jobs. `AnswersStayInScope` speaks of several scopes and no run repeats it.

`IngressTypeCorrect`, `ReviewsSurvive`, `RunningReviewsFinish` and
`OrderedPushesSupersede`: `ReviewNotLost` is strengthened to `Covered(i)`, for each lens
either a handler is still to reach it or a review of it stands, since a supersede only
drops reviews of lenses its own handler is about to enqueue. `RunningReviewsFinish` is
proved and not run. The last theorem uses that ordered deliveries are handled one at a
time (`OneAtATime`), so that an older pending review can only come from a re-arm
(`OlderRearmed`).

### RecordSyncProofs

`TypeCorrect` (`TypeOK`), `ClocksDominate` (`ClockDominates`), `EditsAreKept`
(`NoEditLost`), `OperationsInOrder` (`AppliedOnceInOrder`) and `FieldsAgree`
(`FieldsConverge`). The first two have no hypothesis; the others ask for the store lock,
without which `NoEditLost` is false (`notes_sync_race`).

The types and the clocks share `ClockInv`: types, different rows at different revisions,
and no stamp in a file or in a cycle's copy after its clock. A pull folds the clock over
the rows it fetched. What that fold gives for any number of rows is an induction over
data; it is done here by the least-number principle (`AllNaturals`), as a statement about
one function on the revisions of the scan (`ScanExists`, `AbsorbedClock`): after
revision r the clock is after every stamp of the rows up to r.

`NoEditLost` rests on `Durable`: the file and the counters have
their fields (`Shape`), an operation a device is told was accepted has a receipt
(`AnswersHonest`), and what the file holds is in the cycle's copy or was reported as
shed (`CopyComplete`). `AppliedOnceInOrder` adds `QueueInv`: an operation under way or answered is
of the record and device its key names, and every earlier operation of the same record
is applied or shed before a later one is pushed (`EarlierSettled`), because a batch takes
only heads and a head leaves the outbox only with a receipt.

`FieldsAgree` is about the title and the completion and holds for any number of devices.
Its invariant is `SyncInv`, all of the above with `OpInv`
and `FieldInv`. `OpInv` says that one key is one operation and that every stamp there is
was made by the device it names, no later than that device's clock, so an edit's stamp
is new everywhere. `FieldInv` says, of an item nobody decided on, that versions with one
stamp have one value (`Cohere`), that a value a replica holds is on the server or still in
its outbox (`SentTitle`, `SentDone`), that a replica whose cursor is past a row holds what
the row holds or something later (`Fresh`), and that an operation with a receipt is in
the row (`Served`). An empty outbox gives one direction and the cursor the other. Most
steps neither edit nor store anything; they are shown to be `Passive` once
(`StepKinds`), and each invariant is shown to survive a passive step once.

About the clock and the merge for all stamps: `StampOrder` (a total order), `NowIsLater`,
`ReceivedIsEarlier`, and `TitleMergeAgrees` and `CompletionMergeAgrees` (two sides that
merge the same pair show the same value).

### NoteLeasesProofs

`TypeCorrect`, `EpochsAreNotShared`, `WritesAreFencedByEpoch`, `LiveLeasesShield`. The
invariant says that the row's epoch equals the number of grants: a release keeps the
row, a re-acquisition bumps it. Every claim a tab holds, or a request carries, is
therefore at most the row's epoch and names the grant it came from, and a claim equal
to it is of the row's device; two tabs never hold the same, because a grant goes to the
one tab that awaits it.

### SessionMessagesProofs

`TypeCorrect`, `InboxStaysBounded`, `RetriesStoreOnce`, `WakesReachClaimants`,
`NothingStaysBehind`.

The first two properties of messages share an invariant: at most one send is in the
transaction (`OneInTransaction`), a send that is not done has stored nothing
(`UnsentStoresNothing`), one that is counting has a message nobody stored
(`FreshWhileSending`), and one that found room still has it (`RoomLeft`), because only
transactions add rows and the row lock admits one. For wakes, `HolderRecorded` says that
the present holder of a live claim is in `held` of every stored message, so a check that
succeeds after the commit has its connection there, and `held` only grows.

`NothingLeftBehind` is strengthened in three directions: routes belong to connections
whose hub half has not been closed (`RoutesLive`); a reservation names a call of its
connection that is still registering (`ReservationsLive`); and a claim of a closed
connection is one whose registration is still in flight, about to find its reservation
gone or to undo the claim (`ClaimAccounted`), or that connection is excused.

### Only model-checked

Liveness (`WaiterSettles`, `JobSettles`, `Recovers`), which needs fairness and ENABLED.
Every other property of a passing run is stated by a theorem.

## 6. Plan

Done: every module above with its proofs. What is left, in this order:

1. `ReviewFindings`: the projection that completes with a review, its ordering by
   run, and the backfill that replays history, shown to agree with each other.
   Composed with the job table it completes `completeMemoryJob`.
2. `FleetRunner`: lock files, stale owners, resumption.
3. Retention beside the queue, comment commands.

