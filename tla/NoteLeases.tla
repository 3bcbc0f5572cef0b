----------------------------- MODULE NoteLeases -----------------------------
(* Block leases of the notes: the lock with a fencing epoch                   *)
(* (packages/core/src/notes/blockLease.ts), the merge that charges a fenced    *)
(* write (blockMerge.ts), the server that grants, checks and merges            *)
(* (memory/notes/backend.ts over notesQueries.ts) and its two kinds of client: *)
(* browser tabs, which hold epochs the server granted (useDashboardNotes.ts),  *)
(* and desktops, which lease from their own file (noteStore.ts) and push the   *)
(* local epoch with the operation. One block.                                  *)
(*                                                                             *)
(* A server transaction begins, and with that fixes the now() it will judge by, *)
(* before it waits for the lock on the user's notes; it runs once it has it.   *)
EXTENDS Integers

CONSTANTS
    Tabs, Desktops,   \* the clients
    Device,           \* [Tabs \cup Desktops -> device ids]; tabs of a browser share theirs
    Term,             \* BLOCK_LEASE_MS
    MaxTime,          \* bound: the database clock stops here
    Workloads,        \* bound: a set of [Clients -> Nat], the requests each may send
    MaxLocal          \* bound: leases a desktop takes from its own file

Clients == Tabs \cup Desktops

ASSUME ClientsAssumption ==
    /\ Tabs \cap Desktops = {}
    /\ \A t \in Tabs, d \in Desktops : Device[t] # Device[d]
    /\ \A c, d \in Desktops : Device[c] = Device[d] => c = d
ASSUME BoundsAssumption == Term \in Nat \ {0} /\ MaxTime \in Nat /\ Workloads \subseteq [Clients -> Nat] /\ MaxLocal \in Nat

VARIABLES
    now,        \* the database clock
    lease,      \* the block's row in notes_block_leases
    block,      \* the stored block: its text and the marker of a text conflict
    held,       \* per tab: heldLeases
    local,      \* per desktop: the epoch of its own lease record, 0 for none
    waiting,    \* per client: the request it waits for, 0 for none
    requests,   \* requests the server has not finished
    quota,      \* bound: requests each client may still send; numbers them, downwards
    grants      \* history: leases granted

vars == <<now, lease, block, held, local, waiting, requests, quota, grants>>
clientVars == <<held, local, quota>>

NoLease == [dev |-> 0, epoch |-> 0, expires |-> 0]
\* What a writer believes it holds; nth is history, the grant it came from.
NoClaim == [epoch |-> 0, nth |-> 0]
NoMarker == [ours |-> <<0, 0>>, theirs |-> <<0, 0>>]
NotBegun == -1

Init ==
    /\ now = 0
    /\ lease = NoLease
    /\ block = [text |-> [id |-> <<0, 0>>, dev |-> 0, nth |-> 0], marker |-> NoMarker]
    /\ held = [t \in Tabs |-> NoClaim]
    /\ local = [d \in Desktops |-> 0]
    /\ waiting = [c \in Clients |-> 0]
    /\ requests = {}
    /\ quota \in Workloads
    /\ grants = 0

Tick == now < MaxTime /\ now' = now + 1 /\ UNCHANGED <<lease, block, clientVars, waiting, requests, grants>>

---------------------------------------------------------------------------
(* The lease itself (blockLease.ts). *)

\* isLeaseLive
Live(l, at) == l.expires > at

\* Faulty variant of Granted: taking one's own lease again keeps its epoch.
GrantedSameEpoch(l, dev, at) ==
    [dev |-> dev, epoch |-> IF l.dev = dev THEN l.epoch ELSE l.epoch + 1, expires |-> at + Term]

\* acquireBlockLease, granted: a new epoch.
Granted(l, dev, at) == [dev |-> dev, epoch |-> l.epoch + 1, expires |-> at + Term]

\* acquireBlockLease, refused: another device's lease is live.
HeldByAnother(l, dev, at) == Live(l, at) /\ l.dev # dev

\* Both halves of a claim.
Holds(l, dev, epoch) == l.dev = dev /\ l.epoch = epoch

\* renewBlockLease: the term restarts, unless it ran out.
Renewed(l, dev, epoch, at) ==
    IF Holds(l, dev, epoch) /\ Live(l, at) THEN [l EXCEPT !.expires = at + Term] ELSE l

\* Faulty variant of Released: the row is deleted.
ReleasedAndForgotten(l, dev, epoch, at) == IF Holds(l, dev, epoch) THEN NoLease ELSE l

\* Faulty variant of Released: the term is taken back.
ReleasedBackwards(l, dev, epoch, at) ==
    IF Holds(l, dev, epoch) THEN [l EXCEPT !.expires = at - Term] ELSE l

\* releaseBlockLease: the term ends, the row and its epoch stay.
Released(l, dev, epoch, at) ==
    IF Holds(l, dev, epoch) THEN [l EXCEPT !.expires = at] ELSE l

\* Faulty variant of Penalised: an unclaimed write is never refused.
PenalisedClaimsOnly(l, dev, epoch, at) == epoch # 0 /\ ~(Holds(l, dev, epoch) /\ Live(l, at))

\* fenceBlockWrite and penaltyOf: does the write lose the text it would have won?
\* Unclaimed, under another's live lease ('blocked'); claimed, unless the claim
\* is the row's ('stale_epoch') and live ('lease_expired').
Penalised(l, dev, epoch, at) ==
    IF epoch = 0 THEN HeldByAnother(l, dev, at)
    ELSE ~(Holds(l, dev, epoch) /\ Live(l, at))

\* mergeNoteBlock on the text, with fenceText: `order` is how the incoming stamp
\* compares with the stored one, and a tie is broken by device id.
Merged(b, text, fenced, order) ==
    LET wins == order \in {"after", "tie won"}
        marked == order \in {"tie lost", "tie won"} \/ (wins /\ fenced)
    IN  [text |-> IF wins /\ ~fenced THEN text ELSE b.text,
         marker |-> IF marked THEN [ours |-> b.text.id, theirs |-> text.id] ELSE b.marker]

\* resolveBlockConflict: the kept version becomes the text under a new stamp.
Decided(b, keep, dev) ==
    [text |-> [id |-> b.marker[keep], dev |-> dev, nth |-> 0], marker |-> NoMarker]

---------------------------------------------------------------------------
(* The clients. A client's requests are serialised (enqueue, the sync cycle). *)

\* Put a request on its way; shown and keep are a decision's.
Post(c, kind, claim, shown, keep) ==
    /\ quota[c] > 0
    /\ quota' = [quota EXCEPT ![c] = @ - 1]
    /\ requests' = requests \cup
           {[n |-> quota[c], from |-> c, kind |-> kind, claim |-> claim, shown |-> shown,
             keep |-> keep, began |-> NotBegun]}
    /\ UNCHANGED <<now, lease, block, grants>>

\* Send a request and wait for its answer.
Send(c, kind, claim) ==
    /\ waiting[c] = 0
    /\ Post(c, kind, claim, NoMarker, "ours")
    /\ waiting' = [waiting EXCEPT ![c] = quota[c]]

\* beginEdit; the lease withBlockLease takes for one operation is this, Type
\* and EndEdit in a row.
BeginEdit(t) ==
    /\ held[t] = NoClaim
    /\ Send(t, "acquire", NoClaim)
    /\ UNCHANGED <<held, local>>

\* queueBlockUpdate under the held lease.
Type(t) ==
    /\ held[t] # NoClaim
    /\ Send(t, "write", held[t])
    /\ UNCHANGED <<held, local>>

\* The renewal timer.
KeepEditing(t) ==
    /\ held[t] # NoClaim
    /\ Send(t, "renew", held[t])
    /\ UNCHANGED <<held, local>>

\* endEdit: the tab forgets the lease first.
EndEdit(t) ==
    /\ held[t] # NoClaim
    /\ Send(t, "release", held[t])
    /\ held' = [held EXCEPT ![t] = NoClaim]
    /\ UNCHANGED local

\* The notes page is left: a release nobody waits for, whatever else is under way.
Leave(t) ==
    /\ held[t] # NoClaim
    /\ Post(t, "release", held[t], NoMarker, "ours")
    /\ waiting' = [waiting EXCEPT ![t] = 0]
    /\ held' = [held EXCEPT ![t] = NoClaim]
    /\ UNCHANGED local

\* executeMutation fails at the tab: the server may still serve the request. A
\* renewal without an answer ends the tab's lease.
GiveUp(t) ==
    /\ waiting[t] # 0
    /\ waiting' = [waiting EXCEPT ![t] = 0]
    /\ held' = IF \E r \in requests : r.from = t /\ r.n = waiting[t] /\ r.kind = "renew"
               THEN [held EXCEPT ![t] = NoClaim] ELSE held
    /\ UNCHANGED <<now, lease, block, local, requests, quota, grants>>

\* beginEditing on a desktop: its own record, and no other device's.
BeginEditing(d) ==
    /\ local[d] < MaxLocal
    /\ local' = [local EXCEPT ![d] = @ + 1]
    /\ UNCHANGED <<now, lease, block, held, waiting, requests, quota, grants>>

\* updateBlock on a desktop and the push of its operation: authoredUnder is the
\* epoch of any record the desktop ever had, live or lapsed.
UpdateBlock(d) ==
    /\ Send(d, "write", [NoClaim EXCEPT !.epoch = local[d]])
    /\ UNCHANGED <<held, local>>

\* A person decides on the marker shown.
Decide(c, keep) ==
    /\ block.marker # NoMarker
    /\ waiting[c] = 0
    /\ Post(c, "decide", NoClaim, block.marker, keep)
    /\ waiting' = [waiting EXCEPT ![c] = quota[c]]
    /\ UNCHANGED <<held, local>>

---------------------------------------------------------------------------
(* The server: a transaction begins, then runs under the user's lock. *)

Begin(r) ==
    /\ r.began = NotBegun
    /\ requests' = (requests \ {r}) \cup {[r EXCEPT !.began = now]}
    /\ UNCHANGED <<now, lease, block, clientVars, waiting, grants>>

Awaited(r) == waiting[r.from] = r.n

\* The transaction ends and its client, if it still waits, has the answer.
Finish(r) ==
    /\ r.began # NotBegun
    /\ requests' = requests \ {r}
    /\ waiting' = IF Awaited(r) THEN [waiting EXCEPT ![r.from] = 0] ELSE waiting
    /\ UNCHANGED <<now, local, quota>>

\* acquireLease. The rows it sweeps ended LEASE_RETENTION_MS (30 days) ago,
\* beyond the horizon of the model.
AcquireLease(r) ==
    LET dev == Device[r.from]
        ok == ~HeldByAnother(lease, dev, r.began)
    IN  /\ r.kind = "acquire"
        /\ Finish(r)
        /\ lease' = IF ok THEN Granted(lease, dev, r.began) ELSE lease
        /\ grants' = IF ok THEN grants + 1 ELSE grants
        /\ held' = IF ok /\ Awaited(r)
                   THEN [held EXCEPT ![r.from] = [epoch |-> lease'.epoch, nth |-> grants + 1]]
                   ELSE held
        /\ UNCHANGED block

\* renewLease; a refused renewal ends the tab's lease.
RenewLease(r) ==
    LET dev == Device[r.from]
        ok == Holds(lease, dev, r.claim.epoch) /\ Live(lease, r.began)
    IN  /\ r.kind = "renew"
        /\ Finish(r)
        /\ lease' = Renewed(lease, dev, r.claim.epoch, r.began)
        /\ held' = IF ~ok /\ Awaited(r) THEN [held EXCEPT ![r.from] = NoClaim] ELSE held
        /\ UNCHANGED <<block, grants>>

\* releaseLease
ReleaseLease(r) ==
    /\ r.kind = "release"
    /\ Finish(r)
    /\ lease' = Released(lease, Device[r.from], r.claim.epoch, r.began)
    /\ UNCHANGED <<block, held, grants>>

\* mergeIncoming. A tab's stamp comes from the host clock, which is ahead of
\* every stored stamp; a desktop's compares with it in any way, but is after the
\* desktop's own text.
MergeIncoming(r, order) ==
    LET dev == Device[r.from]
        text == [id |-> <<r.from, r.n>>, dev |-> dev, nth |-> r.claim.nth]
        fenced == Penalised(lease, dev, r.claim.epoch, r.began)
    IN  /\ r.kind = "write"
        /\ r.from \in Tabs \/ block.text.dev = dev => order = "after"
        /\ Finish(r)
        /\ block' = Merged(block, text, fenced, order)
        /\ UNCHANGED <<lease, held, grants>>

\* A decision: from a tab it must be on the marker it was shown (stale_conflict,
\* resolveConflictMutation), from a desktop it meets whatever marker there is.
ResolveConflict(r) ==
    /\ r.kind = "decide"
    /\ Finish(r)
    /\ block' = IF block.marker = NoMarker \/ (r.from \in Tabs /\ block.marker # r.shown) THEN block
                ELSE Decided(block, r.keep, Device[r.from])
    /\ UNCHANGED <<lease, held, grants>>

Next ==
    \/ Tick
    \/ \E t \in Tabs : BeginEdit(t) \/ Type(t) \/ KeepEditing(t) \/ EndEdit(t) \/ Leave(t) \/ GiveUp(t)
    \/ \E d \in Desktops : BeginEditing(d) \/ UpdateBlock(d)
    \/ \E c \in Clients : Decide(c, "ours") \/ Decide(c, "theirs")
    \/ \E r \in requests :
         \/ Begin(r) \/ AcquireLease(r) \/ RenewLease(r) \/ ReleaseLease(r) \/ ResolveConflict(r)
         \/ \E order \in {"before", "tie lost", "tie won", "after"} : MergeIncoming(r, order)

Spec == Init /\ [][Next]_vars

---------------------------------------------------------------------------
(* Properties *)

Claims == [epoch : Nat, nth : Nat]
Devices == {Device[c] : c \in Clients} \cup {0}

TypeOK ==
    /\ now \in Nat
    /\ lease \in [dev : Devices, epoch : Nat, expires : Nat]
    /\ block.text.dev \in Devices /\ block.text.nth \in 0..grants
    /\ held \in [Tabs -> Claims]
    /\ local \in [Desktops -> 0..MaxLocal]
    /\ waiting \in [Clients -> Nat]
    /\ \A r \in requests : r.began \in Nat \cup {NotBegun} /\ r.began <= now

\* Two tabs never hold the same epoch, not even two tabs of one browser, which
\* share a device id and may take the lease from each other while it is live: the
\* epoch is "bumped by every ACQUISITION" and survives a release (blockLease.ts).
EpochsNotShared ==
    \A t, u \in Tabs : t # u /\ held[t] # NoClaim => held[t].epoch # held[u].epoch

\* A step that is not a person's decision changes the text.
TextWritten ==
    /\ block'.text # block.text
    /\ block.marker = NoMarker \/ block'.marker # NoMarker

\* Once a lease was granted, no write made under an earlier one takes the text,
\* however late it is served (blockLease.ts: the delayed write of a device that
\* slept must not land on top of an edit made while it was gone).
FencedByEpoch == [][TextWritten /\ block'.text.nth # 0 => block'.text.nth = grants]_vars

\* While a lease is live on the database clock, only its device changes the text,
\* whatever the clients believe and whenever their transactions began.
LiveLeaseShields == [][TextWritten /\ Live(lease, now) => block'.text.dev = lease.dev]_vars
=============================================================================
