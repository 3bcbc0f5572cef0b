----------------------------- MODULE RecordSync -----------------------------
(* The planner's local-first sync: devices that edit their own cache and    *)
(* append to a durable outbox (plannerStore.ts, outbox.ts), the cycle that   *)
(* pulls, merges and pushes (recordSync.ts, called by the desktop host's     *)
(* 'planner-sync'), and the server that merges what is pushed                *)
(* (memory/planner/backend.ts over plannerQueries.ts).                       *)
(*                                                                           *)
(* disk[d] is the file a device keeps, mem[d] the copy a running cycle read  *)
(* and will write back when it ends; a crash loses mem[d] and nothing else.  *)
(* A push may be lost on either leg, and one its device gave up on may still  *)
(* reach the server later.                                                   *)
EXTENDS ItemMerge, SequencesExt, FiniteSetsExt

CONSTANTS
    Devices,      \* device ids, numbers (their order breaks ties)
    Items,        \* item ids
    Titles,       \* [Devices -> sets of titles a person may write there]
    Flags,        \* [Devices -> SUBSET BOOLEAN]: completions a person may set there
    Wall,         \* [Devices -> Nat]: what each device's wall clock reads
    ServerWall,   \* what the server's clock reads
    StoreLock,    \* TRUE: edits wait for a running cycle (withPlannerStoreLock);
                  \* FALSE: they do not ('notes-sync' over the same engine)
    BatchLimit,   \* nextBatch's limit
    MaxOps,       \* MAX_OUTBOX_OPERATIONS
    Workloads     \* bounds: for each device, how many edits, cycles and retry
                  \* requests it makes and which items it may create

\* What one device does in a workload.
Loads == [edits : Nat, cycles : Nat, retries : Nat, items : SUBSET Items]

ASSUME ConstantsAssumption ==
    /\ Devices \subseteq Nat
    /\ Flags \in [Devices -> SUBSET BOOLEAN]
    /\ Wall \in [Devices -> Nat]
    /\ ServerWall \in Nat
    /\ StoreLock \in BOOLEAN
    /\ BatchLimit \in Nat /\ MaxOps \in Nat
    /\ Workloads \subseteq [Devices -> Loads]

VARIABLES disk, mem, phase, batch, answer,    \* per device
          requests,                           \* pushes the server has not finished
          rows, revision, receipts,           \* the server's tables
          applied, shedKeys, count            \* history and bounds

vars == <<disk, mem, phase, batch, answer, requests, rows, revision, receipts, applied, shedKeys, count>>
serverVars == <<requests, rows, revision, receipts, applied>>
syncVars == <<mem, phase, batch, answer>>

Stamps == {NoStamp} \cup [p : Nat, l : Nat, d : Devices]
Clocks(d) == [p : Nat, l : Nat, d : {d}]
Words == {NoText} \cup UNION {Titles[d] : d \in Devices}
Texts == [v : Words, at : Stamps, seen : SUBSET Stamps]
Conflicts == [ours : Words, theirs : Words, oursAt : Stamps, theirsAt : Stamps]

\* An owned planner item.
ItemType ==
    [title : Texts, done : [v : BOOLEAN, at : Stamps], del : Stamps, titleRes : Stamps,
     delRes : [deleted : BOOLEAN, at : Stamps], cTitle : Conflicts, cDel : Conflicts]

\* The key <<d, n, i>> of device d's n-th edit, on item i.
KeyType == Devices \X Nat \X Items

\* A queued edit (OutboxOperation).
Operations ==
    [key : KeyType, item : Items, at : Stamps, text : Texts, flag : BOOLEAN,
     kind : {"create", "title", "done", "delete", "resolveTitle", "resolveDeleted"}]

NoAnswer == [accepted |-> {}, rejected |-> {}]

\* readPlanner on a device that has no file yet.
EmptyState(d) ==
    [clock |-> [p |-> 0, l |-> 0, d |-> d], items |-> [i \in Items |-> NoItem],
     outbox |-> {}, retry |-> {}, cursor |-> 0]

Init ==
    /\ disk = [d \in Devices |-> EmptyState(d)]
    /\ mem = [d \in Devices |-> EmptyState(d)]
    /\ phase = [d \in Devices |-> "idle"]
    /\ batch = [d \in Devices |-> {}]
    /\ answer = [d \in Devices |-> NoAnswer]
    /\ requests = {}
    /\ rows = [i \in Items |-> [item |-> NoItem, rev |-> 0]]
    /\ revision = 0
    /\ receipts = {}
    /\ applied = [d \in Devices |-> <<>>]
    /\ shedKeys = {}
    /\ \E w \in Workloads :
         count = [d \in Devices |-> [edits |-> 0, cycles |-> 0, retries |-> 0, max |-> w[d]]]

---------------------------------------------------------------------------
(* The outbox (outbox.ts): the operations not yet acknowledged. A key <<d, n,   *)
(* i>> names the n-th edit of device d, on record i; n is the queue's order.   *)
(* A device's `retry` holds the keys with a requested retry.                   *)

Keys(ops) == {op.key : op \in ops}

\* The oldest queued operation of every record.
Heads(outbox) ==
    {op \in outbox : \A o \in outbox : o.item = op.item => op.key[2] <= o.key[2]}

\* Faulty variant of NextBatch: a requested retry overtakes its own record.
NextBatchRetryFirst(outbox, retry) ==
    LET retried == {op \in outbox : op.key \in retry}
    IN  IF retried = {} THEN Heads(outbox) ELSE retried

\* nextBatch: at most one operation per record, the records with a requested
\* retry first, each in queue order. With distinct records the order inside a
\* batch is immaterial, and the batch is a set.
NextBatch(outbox, retry) ==
    LET urgent == {op.item : op \in {o \in outbox : o.key \in retry}}
        before(a, b) == IF a.item \in urgent <=> b.item \in urgent
                        THEN a.key[2] < b.key[2] ELSE a.item \in urgent
    IN  {op \in Heads(outbox) : Cardinality({o \in Heads(outbox) : before(o, op)}) < BatchLimit}

\* Faulty variant of Acknowledge: drops every operation of an accepted record.
AcknowledgeRecord(outbox, keys) == {op \in outbox : op.item \notin {k[3] : k \in keys}}

\* acknowledge
Acknowledge(outbox, keys) == {op \in outbox : op.key \notin keys}

\* shed, by number: the newest MaxOps stay.
Shed(outbox) ==
    {op \in outbox : Cardinality({o \in outbox : o.key[2] > op.key[2]}) < MaxOps}

---------------------------------------------------------------------------
(* Local edits (plannerStore.ts): each reads the file, stamps, changes the   *)
(* item, appends to the outbox and writes the file.                          *)

Unlocked(d) == StoreLock => phase[d] = "idle"

\* Write item i under clock `at` and queue the operation.
Commit(d, i, item, kind, at, text, flag) ==
    LET key == <<d, count[d].edits + 1, i>>
    IN  /\ disk' = [disk EXCEPT ![d].clock = at, ![d].items[i] = item,
                      ![d].outbox = @ \cup {[key |-> key, item |-> i, kind |-> kind, at |-> at,
                                               text |-> text, flag |-> flag]}]
        /\ count' = [count EXCEPT ![d].edits = @ + 1]
        /\ UNCHANGED <<syncVars, serverVars, shedKeys>>

MayEdit(d) == Unlocked(d) /\ count[d].edits < count[d].max.edits

Local(d, i) == disk[d].items[i]
Stamp(d) == HlcNow(disk[d].clock, Wall[d])

\* addItem: ids are random, so an id is created once, on one device.
AddItem(d, i, v) ==
    /\ MayEdit(d)
    /\ i \in count[d].max.items
    /\ \A e \in Devices : \A op \in disk[e].outbox : op.item # i
    /\ \A e \in Devices : ~Known(Local(e, i)) /\ ~Known(mem[e].items[i])
    /\ ~Known(rows[i].item)
    /\ LET text == CausalValue(v, Stamp(d), {})
       IN  Commit(d, i, [NoItem EXCEPT !.title = text], "create", Stamp(d), text, FALSE)

\* updateItem with a title.
SetTitle(d, i, v) ==
    /\ MayEdit(d)
    /\ Known(Local(d, i))
    /\ LET text == CausalValue(v, Stamp(d), {Local(d, i).title})
       IN  Commit(d, i, MergeItem(Local(d, i), [Local(d, i) EXCEPT !.title = text]),
                  "title", Stamp(d), text, FALSE)

\* updateItem with a completion.
SetCompleted(d, i, b) ==
    /\ MayEdit(d)
    /\ Known(Local(d, i))
    /\ LET edit == [Local(d, i) EXCEPT !.done = [v |-> b, at |-> Stamp(d)]]
       IN  Commit(d, i, MergeItem(Local(d, i), edit), "done", Stamp(d), NoItem.title, b)

\* deleteItem
DeleteItem(d, i) ==
    /\ MayEdit(d)
    /\ Known(Local(d, i))
    /\ Commit(d, i, [Local(d, i) EXCEPT !.del = Stamp(d)], "delete", Stamp(d), NoItem.title, FALSE)

\* The stamp of a decision: both sides of the conflict are absorbed first.
DecisionStamp(d, conflict) ==
    HlcNow(HlcReceive(disk[d].clock, Later(conflict.oursAt, conflict.theirsAt), Wall[d]), Wall[d])

\* The text a decision writes, derived from both versions.
DecidedText(v, at, conflict) ==
    CausalValue(v, at, {[at |-> conflict.oursAt, seen |-> {}], [at |-> conflict.theirsAt, seen |-> {}]})

\* resolveConflict on the title.
ResolveTitle(d, i, keepOurs) ==
    LET conflict == Local(d, i).cTitle
        at == DecisionStamp(d, conflict)
        text == DecidedText(IF keepOurs THEN conflict.ours ELSE conflict.theirs, at, conflict)
    IN  /\ MayEdit(d)
        /\ conflict # NoConflict
        /\ Commit(d, i, [Local(d, i) EXCEPT !.title = text, !.titleRes = at, !.cTitle = NoConflict],
                  "resolveTitle", at, text, FALSE)

\* The item after a decision on delete-versus-edit.
DecideDeleted(item, deleted, at) ==
    [item EXCEPT !.del = IF deleted THEN at ELSE NoStamp,
                 !.delRes = [deleted |-> deleted, at |-> at], !.cDel = NoConflict]

\* resolveConflict on the deletion.
ResolveDeleted(d, i, deleted) ==
    LET at == DecisionStamp(d, Local(d, i).cDel)
    IN  /\ MayEdit(d)
        /\ Local(d, i).cDel # NoConflict
        /\ Commit(d, i, DecideDeleted(Local(d, i), deleted, at),
                  "resolveDeleted", at, NoItem.title, deleted)

\* requestOperationRetry (retryPlannerOperation).
RequestRetry(d, key) ==
    /\ Unlocked(d)
    /\ count[d].retries < count[d].max.retries
    /\ disk' = [disk EXCEPT ![d].retry = @ \cup {key}]
    /\ count' = [count EXCEPT ![d].retries = @ + 1]
    /\ UNCHANGED <<syncVars, serverVars, shedKeys>>

---------------------------------------------------------------------------
(* The sync cycle (syncRecords). *)

\* 'planner-sync' reads the file; the cycle sheds and asks for changes.
BeginSync(d) ==
    /\ phase[d] = "idle"
    /\ count[d].cycles < count[d].max.cycles
    /\ count' = [count EXCEPT ![d].cycles = @ + 1]
    /\ mem' = [mem EXCEPT ![d] = [disk[d] EXCEPT !.outbox = Shed(@)]]
    /\ shedKeys' = shedKeys \cup (Keys(disk[d].outbox) \ Keys(Shed(disk[d].outbox)))
    /\ phase' = [phase EXCEPT ![d] = "pull"]
    /\ UNCHANGED <<disk, batch, answer, serverVars>>

\* The cycle returns and its caller writes the file back.
Finish(d, state) ==
    /\ disk' = [disk EXCEPT ![d] = state]
    /\ mem' = [mem EXCEPT ![d] = EmptyState(d)]
    /\ phase' = [phase EXCEPT ![d] = "idle"]
    /\ batch' = [batch EXCEPT ![d] = {}]
    /\ answer' = [answer EXCEPT ![d] = NoAnswer]
    /\ UNCHANGED <<serverVars, shedKeys, count>>

PullFails(d) ==
    /\ phase[d] = "pull"
    /\ Finish(d, mem[d])

\* Faulty variant of Absorb: the cursor names the next revision to fetch.
AbsorbPastEnd(d, state) ==
    [state EXCEPT !.cursor = revision + 1,
                  !.items = [i \in Items |-> IF rows[i].rev > state.cursor
                                              THEN MergeItem(state.items[i], rows[i].item)
                                              ELSE state.items[i]]]

\* The clock after the changed rows, absorbed one by one in revision order.
AbsorbRows(d, clock, cursor) ==
    LET after[r \in cursor..revision] ==
            IF r = cursor THEN clock
            ELSE IF \E i \in Items : rows[i].rev = r
            THEN LET i == CHOOSE i \in Items : rows[i].rev = r
                 IN  HlcReceive(after[r - 1], NewestItemStamp(rows[i].item), Wall[d])
            ELSE after[r - 1]
    IN  after[revision]

\* pullChanges (rows past the cursor, in revision order) and the pull half of
\* syncRecords: absorb the clocks, merge each row, advance the cursor.
Absorb(d, state) ==
    LET changed == {i \in Items : rows[i].rev > state.cursor}
        merged(i) == IF Known(state.items[i]) THEN MergeItem(state.items[i], rows[i].item)
                     ELSE rows[i].item
        serverClock == [p |-> ServerWall, l |-> 0, d |-> 0]
    IN  [state EXCEPT
            !.clock = AbsorbRows(d, HlcReceive(@, serverClock, Wall[d]), state.cursor),
            !.items = [i \in Items |-> IF i \in changed THEN merged(i) ELSE state.items[i]],
            !.cursor = IF changed = {} THEN @ ELSE Max({rows[i].rev : i \in changed})]

\* The pull answers; the batch is chosen, and with none the cycle ends.
PullAnswers(d) ==
    LET state == Absorb(d, mem[d])
        ops == NextBatch(state.outbox, state.retry)
    IN  /\ phase[d] = "pull"
        /\ IF ops = {}
           THEN Finish(d, state)
           ELSE /\ mem' = [mem EXCEPT ![d] = state]
                /\ batch' = [batch EXCEPT ![d] = ops]
                /\ phase' = [phase EXCEPT ![d] = "push"]
                /\ requests' = requests \cup {[d |-> d, cycle |-> count[d].cycles, ops |-> ops]}
                /\ UNCHANGED <<disk, answer, rows, revision, receipts, applied, shedKeys, count>>

---------------------------------------------------------------------------
(* The server (applyPushOperations): one transaction per operation, under a  *)
(* lock on the user's planner.                                               *)

\* applyConflictResolution: a decision no newer than the stored one is accepted
\* and writes nothing; one that meets neither a marker nor an earlier decision,
\* or is not newer than both edits of the marker, is refused.
Outdated(op, watermark) == ~After(op.at, watermark)

Refused(op, watermark, marker) ==
    /\ ~Outdated(op, watermark)
    /\ IF marker = NoConflict THEN watermark = NoStamp ELSE ~Settled(op.at, marker)

\* The item after the decision op on its title.
ServerResolveTitle(item, op) ==
    [item EXCEPT
        !.title = IF item.cTitle # NoConflict THEN DecidedText(op.text.v, op.at, item.cTitle)
                  ELSE CausalValue(op.text.v, op.at, {item.title}),
        !.titleRes = op.at, !.cTitle = NoConflict]

\* stampItemPatch: the stored item with the operation's field replaced.
StampItemPatch(item, op) ==
    CASE op.kind \in {"create", "title"} -> [item EXCEPT !.title = op.text]
      [] op.kind = "done" -> [item EXCEPT !.done = [v |-> op.flag, at |-> op.at]]
      [] op.kind = "delete" -> [item EXCEPT !.del = op.at]

\* applyItemOperation: a refusal, or whether and what the row is to become.
ApplyItemOperation(item, op) ==
    LET decide(watermark, marker, next) ==
            [ok |-> ~Refused(op, watermark, marker), writes |-> ~Outdated(op, watermark), item |-> next]
    IN  CASE ~Known(item) ->
               [ok |-> op.kind = "create", writes |-> TRUE, item |-> StampItemPatch(item, [op EXCEPT !.kind = "create"])]
          [] Known(item) /\ op.kind = "resolveTitle" ->
               decide(item.titleRes, item.cTitle, ServerResolveTitle(item, op))
          [] Known(item) /\ op.kind = "resolveDeleted" ->
               decide(item.delRes.at, item.cDel, DecideDeleted(item, op.flag, op.at))
          [] OTHER ->
               [ok |-> TRUE, writes |-> TRUE, item |-> MergeItem(item, StampItemPatch(item, op))]

\* One operation of request r: a receipt makes a redelivery a no-op; an applied
\* operation leaves a receipt and, when it writes the row, a new revision. The
\* answer counts only while its device still waits for it.
ServeOperation(r, op) ==
    LET outcome == ApplyItemOperation(rows[op.item].item, op)
        known == op.key \in receipts
        writes == ~known /\ outcome.ok /\ outcome.writes
        awaited == phase[r.d] = "push" /\ r.cycle = count[r.d].cycles
    IN  /\ requests' = (requests \ {r}) \cup
                           (IF r.ops = {op} THEN {} ELSE {[r EXCEPT !.ops = @ \ {op}]})
        /\ rows' = IF writes THEN [rows EXCEPT ![op.item] = [item |-> outcome.item, rev |-> revision + 1]]
                   ELSE rows
        /\ revision' = IF writes THEN revision + 1 ELSE revision
        /\ receipts' = IF outcome.ok THEN receipts \cup {op.key} ELSE receipts
        /\ applied' = IF ~known /\ outcome.ok THEN [applied EXCEPT ![r.d] = Append(@, op.key)] ELSE applied
        /\ answer' = IF ~awaited THEN answer
                     ELSE IF known \/ outcome.ok THEN [answer EXCEPT ![r.d].accepted = @ \cup {op.key}]
                     ELSE [answer EXCEPT ![r.d].rejected = @ \cup {op.key}]
        /\ UNCHANGED <<disk, mem, phase, batch, shedKeys, count>>

\* The push answers: accepted operations leave the outbox, refused ones stay and
\* their retry request is spent (recordFailure).
PushAnswers(d) ==
    /\ phase[d] = "push"
    /\ answer[d].accepted \cup answer[d].rejected = Keys(batch[d])
    /\ Finish(d, [mem[d] EXCEPT !.outbox = Acknowledge(@, answer[d].accepted),
                                !.retry = @ \ Keys(batch[d])])

\* The request or its answer is lost or late (or the answer does not account for
\* the batch, invalidPushPartition): every operation stays.
PushFails(d) ==
    /\ phase[d] = "push"
    /\ Finish(d, [mem[d] EXCEPT !.retry = @ \ Keys(batch[d])])

\* The process ends while a cycle runs: the file is as the cycle found it.
Crash(d) ==
    /\ phase[d] # "idle"
    /\ mem' = [mem EXCEPT ![d] = EmptyState(d)]
    /\ phase' = [phase EXCEPT ![d] = "idle"]
    /\ batch' = [batch EXCEPT ![d] = {}]
    /\ answer' = [answer EXCEPT ![d] = NoAnswer]
    /\ UNCHANGED <<disk, serverVars, shedKeys, count>>

Next ==
    \E d \in Devices :
        \/ \E i \in Items :
             \/ \E v \in Titles[d] : AddItem(d, i, v) \/ SetTitle(d, i, v)
             \/ \E b \in Flags[d] : SetCompleted(d, i, b)
             \/ DeleteItem(d, i)
             \/ \E b \in BOOLEAN : ResolveTitle(d, i, b) \/ ResolveDeleted(d, i, b)
        \/ \E key \in Keys(disk[d].outbox) : RequestRetry(d, key)
        \/ BeginSync(d)
        \/ PullFails(d)
        \/ PullAnswers(d)
        \/ PushAnswers(d)
        \/ PushFails(d)
        \/ Crash(d)
        \/ \E r \in requests : \E op \in r.ops : r.d = d /\ ServeOperation(r, op)

Spec == Init /\ [][Next]_vars

---------------------------------------------------------------------------
(* Properties *)

States(d) ==
    [clock : Clocks(d), items : [Items -> ItemType],
     outbox : SUBSET Operations, retry : SUBSET KeyType, cursor : Nat]

TypeOK ==
    /\ DOMAIN disk = Devices /\ DOMAIN mem = Devices
    /\ \A d \in Devices :
         /\ disk[d] \in States(d) /\ disk[d].cursor <= revision
         /\ mem[d] \in States(d) /\ mem[d].cursor <= revision
    /\ phase \in [Devices -> {"idle", "pull", "push"}]
    /\ batch \in [Devices -> SUBSET Operations]
    /\ answer \in [Devices -> [accepted : SUBSET KeyType, rejected : SUBSET KeyType]]
    /\ requests \subseteq [d : Devices, cycle : Nat, ops : SUBSET Operations]
    /\ rows \in [Items -> [item : ItemType, rev : Nat]]
    /\ revision \in Nat /\ \A i \in Items : rows[i].rev <= revision
    /\ applied \in [Devices -> Seq(KeyType)]
    /\ receipts = UNION {Range(applied[d]) : d \in Devices}
    /\ shedKeys \subseteq KeyType
    /\ count \in [Devices -> [edits : Nat, cycles : Nat, retries : Nat, max : Loads]]

\* The clock of a device is not behind any stamp its cache holds, so that its next
\* edit is ordered after all it was made on: the pull loop owes this to
\* observedClock naming every stamped field (recordSync.ts, plannerSync.ts), and
\* every merge to writing no stamp but those it was given.
ClockDominates ==
    \A d \in Devices, i \in Items : \A s \in ItemStamps(disk[d].items[i]) :
        ~After(s, disk[d].clock)

\* An edit that was not reported as shed is in the device's file or has been
\* applied by the server, whatever was lost and wherever the cycle crashed
\* (outbox.ts: "a durable outbox that drains when there is a network").
NoEditLost ==
    \A d \in Devices : \A n \in 1..count[d].edits :
        \E k \in Keys(disk[d].outbox) \cup receipts \cup shedKeys : k[1] = d /\ k[2] = n

\* The server applies an operation once, and the operations of one device on
\* one record in the order they were made: lost, late and repeated pushes,
\* refusals and requested retries do not reorder them (outbox.ts, nextBatch). An
\* operation that was shed while its push was under way is the exception.
AppliedOnceInOrder ==
    \A d \in Devices : \A m, n \in DOMAIN applied[d] :
        m < n /\ applied[d][m][3] = applied[d][n][3] =>
            \/ applied[d][m][2] < applied[d][n][2]
            \/ applied[d][n] \in shedKeys /\ applied[d][m] # applied[d][n]

\* Device d has nothing left to send, to fetch or to finish.
Quiet(d) ==
    /\ phase[d] = "idle"
    /\ disk[d].outbox = {}
    /\ disk[d].cursor = revision

\* No person recorded a decision on the item.
Undecided(item) == item.titleRes = NoStamp /\ item.delRes.at = NoStamp

\* A device with nothing left to send or fetch shows the title and the completion
\* that the server holds: both halves run the same merge, in whatever order the
\* operations of any number of devices met. Left out are devices that shed work
\* and items with a decision, for which the code does not guarantee it (see
\* NoBuriedEdit), and the deletion: between three devices it can fall between two
\* completions of one clock, which mergeCompletion orders by value and
\* resolveTombstone by device, and the replicas then differ in it.
FieldsConverge ==
    \A d \in Devices : Quiet(d) /\ shedKeys = {} =>
        \A i \in Items : Undecided(rows[i].item) =>
            /\ disk[d].items[i].title.v = rows[i].item.title.v
            /\ disk[d].items[i].done.v = rows[i].item.done.v

\* No replica shows an item as deleted while it holds an edit stamped after the
\* deletion: such an item "comes back marked conflicted, and a person decides"
\* (stamped.ts, resolveTombstone).
NoBuriedEdit ==
    \A i \in Items : \A item \in {rows[i].item} \cup {disk[d].items[i] : d \in Devices} :
        item.del # NoStamp => ~After(Later(item.title.at, item.done.at), item.del)
=============================================================================
