--------------------------- MODULE SessionMessages ---------------------------
(* Session messaging around the key of one recipient session: its claim in     *)
(* active_sessions (sessionQueries.ts), the hub of every brain process that    *)
(* routes wakes to the claiming connection (sessionDeliveryHub.ts), the tool    *)
(* calls that tie the two together across awaits (active_sessions.ts,           *)
(* mcpTools/session.ts), and the durable inbox that other sessions send to.     *)
(*                                                                              *)
(* A claim's lease is live or lapsed; a heartbeat postpones the lapse and       *)
(* changes nothing else here.  The senders' own claims are taken as live.       *)
EXTENDS FiniteSets, Integers

CONSTANTS
    Conns,        \* MCP connections of clients that want the session key
    Server,       \* [Conns -> brain processes]
    Calls,        \* bound: tool calls in flight; also the registration attempt ids
    Sends,        \* session_send calls
    Message,      \* [Sends -> message ids]; sends of one message are one sender's retries
    MaxPending,   \* SESSION_MESSAGE_MAX_PENDING_PER_RECIPIENT
    Workloads,    \* bound: what a behaviour may use, and the faults it may have
    None, Committed

Servers == {Server[c] : c \in Conns}

ASSUME ConstantsAssumption ==
    /\ None \notin Conns \cup Calls /\ Committed \notin Calls \cup {None}
    /\ IsFiniteSet(Sends) /\ MaxPending \in Nat \ {0}
    /\ Workloads \subseteq [conns : SUBSET Conns, calls : SUBSET Calls, tools : SUBSET {"unregister", "ack"},
                            sends : SUBSET Sends, faults : Nat]

VARIABLES
    workload,  \* bound: the workload of this behaviour
    conn,      \* "open", "gone" (client vanished), "closing" (route dropped), "closed"
    row,       \* the key's row in active_sessions
    hub,       \* per process: byAddress
    reserved,  \* per process: reservationsByAddress
    calls,     \* tool calls in flight, and where each waits
    send,      \* how far each session_send is
    inbox,     \* session_inbox: status of the row a send stored
    hints,     \* committed notifications a process has not handled
    wakes,     \* wakes in flight: the binding each captured, and where it waits
    faults,    \* bound: failed statements and pushes, missed heartbeats and crashes left
    excused,   \* history: connections that lost a statement or their process
    held       \* history, per send: who held the claim since its row was stored

vars == <<workload, conn, row, hub, reserved, calls, send, inbox, hints, wakes, faults, excused, held>>
routes == <<hub, reserved>>
messages == <<send, inbox, hints, wakes>>

NoRow == [conn |-> None, live |-> FALSE]
NoBinding == [conn |-> None, attempt |-> None]
Idle == [conn |-> None, kind |-> "none", at |-> "idle"]

Init ==
    /\ workload \in Workloads
    /\ conn = [c \in Conns |-> IF c \in workload.conns THEN "open" ELSE "closed"]
    /\ row = NoRow
    /\ hub = [s \in Servers |-> NoBinding]
    /\ reserved = [s \in Servers |-> NoBinding]
    /\ calls = [x \in Calls |-> Idle]
    /\ send = [m \in Sends |-> "new"]
    /\ inbox = [m \in Sends |-> "none"]
    /\ hints = {}
    /\ wakes = {}
    /\ faults = workload.faults
    /\ excused = {}
    /\ held = [m \in Sends |-> {}]

\* The brain processes of this behaviour.
Serving == {Server[c] : c \in workload.conns}

Fault == faults > 0 /\ faults' = faults - 1

---------------------------------------------------------------------------
(* The row and the inbox, as the statements see them. *)

\* ownsActiveSessionClaim, and the claim test of every other statement.
Holds(c) == row.conn = c /\ row.live

\* Faulty variant of Claimable: a lapsed claim is not taken over.
ClaimableFree(c) == row = NoRow \/ row.conn = c

\* registerActiveSession's ON CONFLICT: no row, one's own, or one that lapsed.
Claimable(c) == row = NoRow \/ row.conn = c \/ ~row.live

\* routeSessionMessage is in the transaction that locked the recipient's row.
InTransaction(m) == send[m] \in {"locked", "room", "full"}
RowLocked == \E m \in Sends : InTransaction(m)

OpenRows == {m \in Sends : inbox[m] \in {"pending", "held"}}

\* Faulty variant of SentMessages: the id is looked up among the inbox rows.
InboxMessages == {Message[m] : m \in {n \in Sends : inbox[n] \notin {"none", "swept"}}}

\* session_message_sends; a swept row leaves its message id here.
SentMessages == {Message[m] : m \in {n \in Sends : inbox[n] # "none"}}

Store(c) ==
    /\ row' = [conn |-> c, live |-> TRUE]
    /\ held' = [m \in Sends |-> IF inbox[m] = "none" THEN {} ELSE held[m] \cup {c}]

\* Faulty variant of Erase: the claim is cleared, its lease stays.
EraseToken(c) == row' = IF row.conn = c THEN [row EXCEPT !.conn = None] ELSE row

\* DELETE ... AND claim_token = c
Erase(c) == row' = IF row.conn = c THEN NoRow ELSE row

---------------------------------------------------------------------------
(* The hub of a process.  No step of it awaits. *)

\* owns
Owns(c) == hub[Server[c]] = [conn |-> c, attempt |-> Committed]

\* reserve succeeds: no binding of another connection, and no reservation.
MayReserve(c) ==
    /\ hub[Server[c]].conn \in {None, c}
    /\ reserved[Server[c]] = NoBinding

\* disconnect, and unbind with the connection's id.
DropRoute(c) ==
    IF hub[Server[c]].conn = c
    THEN /\ hub' = [hub EXCEPT ![Server[c]] = NoBinding]
         /\ reserved' = IF reserved[Server[c]].conn = c THEN [reserved EXCEPT ![Server[c]] = NoBinding] ELSE reserved
    ELSE UNCHANGED routes

---------------------------------------------------------------------------
(* The tool calls: session_register, session_unregister, session_inbox_ack. *)

At(x, kind, at) == calls[x].kind = kind /\ calls[x].at = at
Goto(x, at) == calls' = [calls EXCEPT ![x].at = at]
Return(x) == calls' = [calls EXCEPT ![x] = Idle]
Start(x, c, kind, at) ==
    /\ x \in workload.calls /\ calls[x] = Idle /\ conn[c] = "open"
    /\ calls' = [calls EXCEPT ![x] = [conn |-> c, kind |-> kind, at |-> at]]

\* session_register reserves the route; a refused one leaves no trace.
Register(x, c) ==
    /\ Start(x, c, "register", "insert")
    /\ MayReserve(c)
    /\ reserved' = [reserved EXCEPT ![Server[c]] = [conn |-> c, attempt |-> x]]
    /\ hub' = IF hub[Server[c]] = NoBinding THEN [hub EXCEPT ![Server[c]] = [conn |-> c, attempt |-> x]] ELSE hub
    /\ UNCHANGED <<workload, conn, row, messages, faults, excused, held>>

\* The claim is stored, or refused (ACTIVE_SESSION_CLAIM_CONFLICT).
Insert(x) ==
    /\ At(x, "register", "insert") /\ ~RowLocked
    /\ IF Claimable(calls[x].conn) THEN Store(calls[x].conn) /\ Goto(x, "finish")
       ELSE UNCHANGED <<row, held>> /\ Goto(x, "release")
    /\ UNCHANGED <<workload, conn, routes, messages, faults, excused>>

\* The statement throws, having committed or not; claimPersisted stays false.
InsertThrows(x) ==
    /\ At(x, "register", "insert") /\ Fault
    /\ \/ UNCHANGED <<row, held>>
       \/ ~RowLocked /\ Claimable(calls[x].conn) /\ Store(calls[x].conn)
    /\ excused' = excused \cup {calls[x].conn}
    /\ Goto(x, "release")
    /\ UNCHANGED <<workload, conn, routes, messages>>

\* What commitReservation asks: the route is still reserved for this attempt.
StillReserved(x) ==
    LET c == calls[x].conn
    IN  hub[Server[c]].conn = c /\ reserved[Server[c]] = [conn |-> c, attempt |-> x]

Finish(x) ==
    LET c == calls[x].conn
    IN  /\ At(x, "register", "finish") /\ StillReserved(x)
        /\ hub' = [hub EXCEPT ![Server[c]] = [conn |-> c, attempt |-> Committed]]
        /\ reserved' = [reserved EXCEPT ![Server[c]] = NoBinding]
        /\ Return(x)
        /\ UNCHANGED <<workload, conn, row, messages, faults, excused, held>>

\* Faulty variant of LostReservation: the stored claim is left to its lease.
LostReservationKept(x) ==
    /\ At(x, "register", "finish") /\ ~StillReserved(x)
    /\ Goto(x, "release")
    /\ UNCHANGED <<workload, conn, row, routes, messages, faults, excused, held>>

\* commitReservation fails: the stored claim must be undone.
LostReservation(x) ==
    /\ At(x, "register", "finish") /\ ~StillReserved(x)
    /\ Goto(x, "undo")
    /\ UNCHANGED <<workload, conn, row, routes, messages, faults, excused, held>>

Undo(x) ==
    /\ At(x, "register", "undo") /\ ~RowLocked
    /\ Erase(calls[x].conn)
    /\ Goto(x, "release")
    /\ UNCHANGED <<workload, conn, routes, messages, faults, excused, held>>

\* releaseReservation rolls back only what this attempt left.
Release(x) ==
    LET c == calls[x].conn
        mine == [conn |-> c, attempt |-> x]
    IN  /\ At(x, "register", "release")
        /\ IF reserved[Server[c]] = mine
           THEN /\ reserved' = [reserved EXCEPT ![Server[c]] = NoBinding]
                /\ hub' = IF hub[Server[c]] = mine THEN [hub EXCEPT ![Server[c]] = NoBinding] ELSE hub
           ELSE UNCHANGED routes
        /\ Return(x)
        /\ UNCHANGED <<workload, conn, row, messages, faults, excused, held>>

\* authorizeOwnedSession asks the hub at once and then the database.
Ask(x, c, kind) ==
    /\ kind \in workload.tools
    /\ Start(x, c, kind, "authorize")
    /\ Owns(c)
    /\ UNCHANGED <<workload, conn, row, routes, messages, faults, excused, held>>

Authorize(x) ==
    /\ calls[x].at = "authorize"
    /\ IF Holds(calls[x].conn) THEN Goto(x, IF calls[x].kind = "ack" THEN "apply" ELSE "delete") ELSE Return(x)
    /\ UNCHANGED <<workload, conn, row, routes, messages, faults, excused, held>>

Delete(x) ==
    /\ At(x, "unregister", "delete") /\ ~RowLocked
    /\ Erase(calls[x].conn)
    /\ Goto(x, "unbind")
    /\ UNCHANGED <<workload, conn, routes, messages, faults, excused, held>>

Unbind(x) ==
    /\ At(x, "unregister", "unbind")
    /\ DropRoute(calls[x].conn)
    /\ Return(x)
    /\ UNCHANGED <<workload, conn, row, messages, faults, excused, held>>

\* transitionSessionMessages, fenced by the claim: held only from pending.
Apply(x) ==
    /\ At(x, "ack", "apply")
    /\ \E m \in Sends, to \in {"held", "closed"} :
          inbox' = IF Holds(calls[x].conn) /\ (inbox[m] = "pending" \/ (inbox[m] = "held" /\ to = "closed"))
                   THEN [inbox EXCEPT ![m] = to] ELSE inbox
    /\ Return(x)
    /\ UNCHANGED <<workload, conn, row, routes, send, hints, wakes, faults, excused, held>>

\* Any other statement throws: the undo's error is swallowed, the others end the
\* call, the delete possibly after it committed.
StatementThrows(x) ==
    /\ Fault
    /\ \/ /\ At(x, "register", "undo") /\ Goto(x, "release")
          /\ excused' = excused \cup {calls[x].conn}
          /\ UNCHANGED row
       \/ /\ calls[x].at \in {"authorize", "delete", "apply"} /\ Return(x)
          /\ \/ UNCHANGED row
             \/ At(x, "unregister", "delete") /\ ~RowLocked /\ Erase(calls[x].conn)
          /\ UNCHANGED excused
    /\ UNCHANGED <<workload, conn, routes, messages, held>>

Continue(x) ==
    \/ Insert(x) \/ Finish(x) \/ LostReservation(x) \/ Undo(x) \/ Release(x)
    \/ Authorize(x) \/ Delete(x) \/ Unbind(x) \/ Apply(x)

---------------------------------------------------------------------------
(* Connections, processes and leases. *)

\* releaseMcpConnection (DELETE /mcp, transport close, shutdown): first the hub.
Close(c) ==
    /\ conn[c] \in {"open", "gone"}
    /\ conn' = [conn EXCEPT ![c] = "closing"]
    /\ DropRoute(c)
    /\ UNCHANGED <<workload, row, calls, messages, faults, excused, held>>

\* ... then releaseActiveSessionClaims, which may fail.
ReleaseClaims(c) ==
    /\ conn[c] = "closing"
    /\ conn' = [conn EXCEPT ![c] = "closed"]
    /\ \/ ~RowLocked /\ Erase(c) /\ UNCHANGED <<faults, excused>>
       \/ Fault /\ excused' = excused \cup {c} /\ UNCHANGED row
    /\ UNCHANGED <<workload, routes, calls, messages, held>>

\* The client is killed or cut off; the server's transport is not told.
Vanish(c) ==
    /\ conn[c] = "open"
    /\ conn' = [conn EXCEPT ![c] = "gone"]
    /\ UNCHANGED <<workload, row, routes, calls, messages, faults, excused, held>>

\* A brain process dies, with its calls, its routes, its wakes and its hints.
CrashServer(s) ==
    LET mine == {c \in Conns : Server[c] = s}
    IN  /\ Fault
        /\ \E c \in mine : conn[c] # "closed"
        /\ conn' = [c \in Conns |-> IF c \in mine THEN "closed" ELSE conn[c]]
        /\ hub' = [hub EXCEPT ![s] = NoBinding]
        /\ reserved' = [reserved EXCEPT ![s] = NoBinding]
        /\ calls' = [x \in Calls |-> IF calls[x].conn \in mine THEN Idle ELSE calls[x]]
        /\ wakes' = {w \in wakes : w.conn \notin mine}
        /\ hints' = {h \in hints : h.server # s}
        /\ excused' = excused \cup mine
        /\ UNCHANGED <<workload, row, send, inbox, held>>

\* ACTIVE_SESSION_CLAIM_LEASE_MS after the last heartbeat.
Lapse(c) ==
    /\ Holds(c)
    /\ row' = [row EXCEPT !.live = FALSE]
    /\ UNCHANGED <<workload, conn, routes, calls, messages, excused, held>>

\* The client of an open connection misses its heartbeats.
LapseOpen(c) == conn[c] = "open" /\ Fault /\ Lapse(c)
LapseUnrenewed(c) == conn[c] # "open" /\ Lapse(c) /\ UNCHANGED faults

\* sweepActiveSessions
SweepRow ==
    /\ row # NoRow /\ ~row.live /\ ~RowLocked
    /\ row' = NoRow
    /\ UNCHANGED <<workload, conn, routes, calls, messages, faults, excused, held>>

---------------------------------------------------------------------------
(* session_send: routeSessionMessage, one transaction. *)

\* Look for the recipient, without a lock.
Probe(m) ==
    /\ m \in workload.sends /\ send[m] = "new"
    /\ send' = [send EXCEPT ![m] = IF row.live THEN "probed" ELSE "absent"]
    /\ UNCHANGED <<workload, conn, row, routes, calls, inbox, hints, wakes, faults, excused, held>>

\* Faulty variant of MayLock: the recipient's row is not locked.
MayLockSender(m) == \A n \in Sends : InTransaction(n) => Message[n] # Message[m]

\* SELECT ... FOR UPDATE over the sender's row and, if it was seen, the recipient's.
MayLock(m) ==
    \A n \in Sends : InTransaction(n) => send[m] = "absent" /\ Message[n] # Message[m]

\* The message id is known: answer with its receipts; a row still pending is
\* announced again by the process that serves the send.
Replay(m) ==
    /\ send[m] \in {"probed", "absent"} /\ MayLock(m)
    /\ Message[m] \in SentMessages
    /\ send' = [send EXCEPT ![m] = "done"]
    /\ \E s \in Serving :
          hints' = hints \cup {[server |-> s, send |-> n] : n \in {k \in Sends : Message[k] = Message[m] /\ inbox[k] = "pending"}}
    /\ UNCHANGED <<workload, conn, row, routes, calls, inbox, wakes, faults, excused, held>>

\* No recipient any more, or none from the start: a rejected receipt.  Leases
\* are judged by the time the transaction began, so a row still there counts.
Reject(m) ==
    /\ send[m] \in {"probed", "absent"} /\ MayLock(m)
    /\ Message[m] \notin SentMessages
    /\ send[m] = "absent" \/ row = NoRow
    /\ send' = [send EXCEPT ![m] = "done"]
    /\ inbox' = [inbox EXCEPT ![m] = "closed"]
    /\ UNCHANGED <<workload, conn, row, routes, calls, hints, wakes, faults, excused, held>>

Lock(m) ==
    /\ send[m] = "probed" /\ MayLock(m)
    /\ Message[m] \notin SentMessages
    /\ row # NoRow
    /\ send' = [send EXCEPT ![m] = "locked"]
    /\ UNCHANGED <<workload, conn, row, routes, calls, inbox, hints, wakes, faults, excused, held>>

\* Expire the recipient's rows that are due, and count the rest.
Count(m) ==
    /\ send[m] = "locked"
    /\ \E due \in SUBSET OpenRows :
          /\ inbox' = [n \in Sends |-> IF n \in due THEN "closed" ELSE inbox[n]]
          /\ send' = [send EXCEPT ![m] = IF Cardinality(OpenRows \ due) >= MaxPending THEN "full" ELSE "room"]
    /\ UNCHANGED <<workload, conn, row, routes, calls, hints, wakes, faults, excused, held>>

\* insertReceipt and COMMIT, with which the notification leaves.
Commit(m) ==
    /\ send[m] \in {"room", "full"}
    /\ send' = [send EXCEPT ![m] = "done"]
    /\ IF send[m] = "room"
       THEN /\ inbox' = [inbox EXCEPT ![m] = "pending"]
            /\ hints' = hints \cup [server : Serving, send : {m}]
            /\ held' = [held EXCEPT ![m] = IF row.live THEN {row.conn} ELSE {}]
       ELSE /\ inbox' = [inbox EXCEPT ![m] = "closed"]
            /\ UNCHANGED <<hints, held>>
    /\ UNCHANGED <<workload, conn, row, routes, calls, wakes, faults, excused>>

Abort(m) ==
    /\ Fault
    /\ InTransaction(m)
    /\ send' = [send EXCEPT ![m] = "new"]
    /\ UNCHANGED <<workload, conn, row, routes, calls, inbox, hints, wakes, excused, held>>

\* expireDueRows, from a read or the sweep.
Expire(m) ==
    /\ m \in OpenRows
    /\ inbox' = [inbox EXCEPT ![m] = "closed"]
    /\ UNCHANGED <<workload, conn, row, routes, calls, send, hints, wakes, faults, excused, held>>

\* sweepSessionInbox takes terminal rows the sender acknowledged or that are old;
\* message ids go only after seven days, a term no behaviour here reaches.
SweepInbox(m) ==
    /\ inbox[m] = "closed"
    /\ inbox' = [inbox EXCEPT ![m] = "swept"]
    /\ UNCHANGED <<workload, conn, row, routes, calls, send, hints, wakes, faults, excused, held>>

---------------------------------------------------------------------------
(* Wakes: notifyPersisted and notifyStoreNotification. *)

\* Capture the process's binding, if it can be notified; or the hint is lost
\* (no LISTEN connection at that moment).
TakeHint(h) ==
    /\ hints' = hints \ {h}
    /\ \/ /\ hub[h.server].attempt = Committed
          /\ wakes' = wakes \cup {[conn |-> hub[h.server].conn, send |-> h.send, at |-> "check"]}
       \/ UNCHANGED wakes
    /\ UNCHANGED <<workload, conn, row, routes, calls, send, inbox, faults, excused, held>>

Move(w, at) == wakes' = (wakes \ {w}) \cup {[w EXCEPT !.at = at]}

\* Faulty variant of CheckWake: the binding is trusted.
CheckWakeTrusting(w) ==
    /\ w.at = "check" /\ Move(w, "push")
    /\ UNCHANGED <<workload, conn, row, routes, calls, send, inbox, hints, faults, excused, held>>

\* isCurrentClaim; a check that fails authorises nothing.
CheckWake(w) ==
    /\ w.at = "check"
    /\ \/ Holds(w.conn) /\ Move(w, "push") /\ UNCHANGED faults
       \/ ~Holds(w.conn) /\ Move(w, "reap") /\ UNCHANGED faults
       \/ Fault /\ Move(w, "reap")
    /\ UNCHANGED <<workload, conn, row, routes, calls, send, inbox, hints, excused, held>>

\* notify; it throws when the transport is closed, and may when the client is gone.
PushWake(w) ==
    /\ w.at = "push"
    /\ wakes' = wakes \ {w}
    /\ \/ conn[w.conn] \in {"open", "gone"} /\ UNCHANGED <<routes, faults>>
       \/ conn[w.conn] # "open" /\ DropRoute(w.conn) /\ UNCHANGED faults
       \/ Fault /\ DropRoute(w.conn)
    /\ UNCHANGED <<workload, conn, row, calls, send, inbox, hints, excused, held>>

ReapRoute(w) ==
    /\ w.at = "reap"
    /\ wakes' = wakes \ {w}
    /\ DropRoute(w.conn)
    /\ UNCHANGED <<workload, conn, row, calls, send, inbox, hints, faults, excused, held>>

---------------------------------------------------------------------------

Next ==
    \/ \E x \in Calls :
         \/ \E c \in Conns : Register(x, c) \/ Ask(x, c, "unregister") \/ Ask(x, c, "ack")
         \/ Continue(x) \/ InsertThrows(x) \/ StatementThrows(x)
    \/ \E c \in Conns : Close(c) \/ ReleaseClaims(c) \/ Vanish(c) \/ LapseOpen(c) \/ LapseUnrenewed(c)
    \/ \E s \in Servers : CrashServer(s)
    \/ SweepRow
    \/ \E m \in Sends :
         Probe(m) \/ Replay(m) \/ Reject(m) \/ Lock(m) \/ Count(m) \/ Commit(m) \/ Abort(m) \/ Expire(m) \/ SweepInbox(m)
    \/ \E h \in hints : TakeHint(h)
    \/ \E w \in wakes : CheckWake(w) \/ PushWake(w) \/ ReapRoute(w)

Spec == Init /\ [][Next]_vars

\* c owns the key: by the hub of its process and by the database.
Claimed(c) == Owns(c) /\ Holds(c)

\* Calls and transactions end, leases nobody renews run out, and a client whose
\* heartbeat fails for want of the claim registers again (heartbeatOnce).
FairSpec ==
    /\ Spec
    /\ \A x \in Calls : WF_vars(Continue(x))
    /\ \A m \in Sends : WF_vars(Count(m) \/ Commit(m))
    /\ \A c \in Conns : WF_vars(LapseUnrenewed(c))
    /\ \A c \in Conns : SF_vars(~Claimed(c) /\ \E x \in Calls : Register(x, c))

---------------------------------------------------------------------------
(* Properties *)

\* Where a call may wait, by its kind.
CallStates ==
    {Idle} \cup [conn : Conns, kind : {"register"}, at : {"insert", "finish", "undo", "release"}]
           \cup [conn : Conns, kind : {"unregister", "ack"}, at : {"authorize", "delete", "unbind", "apply"}]

TypeOK ==
    /\ workload \in Workloads
    /\ conn \in [Conns -> {"open", "gone", "closing", "closed"}]
    /\ row \in {NoRow} \cup [conn : Conns, live : BOOLEAN]
    /\ hub \in [Servers -> {NoBinding} \cup [conn : Conns, attempt : Calls \cup {Committed}]]
    /\ reserved \in [Servers -> {NoBinding} \cup [conn : Conns, attempt : Calls]]
    /\ calls \in [Calls -> CallStates]
    /\ send \in [Sends -> {"new", "probed", "absent", "locked", "room", "full", "done"}]
    /\ inbox \in [Sends -> {"none", "pending", "held", "closed", "swept"}]
    /\ hints \subseteq [server : Servers, send : Sends]
    /\ wakes \subseteq [conn : Conns, send : Sends, at : {"check", "push", "reap"}]
    /\ faults \in 0..workload.faults
    /\ excused \subseteq Conns
    /\ held \in [Sends -> SUBSET Conns]

InFlight(c) == \E x \in Calls : calls[x].conn = c

\* Nothing is left behind by a connection or an attempt that is over: a closed
\* connection has no route, and no claim once its calls returned, unless a
\* statement failed it; a reservation or a placeholder belongs to a call that is
\* still registering (releaseMcpConnection, commitReservation, releaseReservation).
NothingLeftBehind ==
    /\ \A s \in Servers :
          /\ hub[s].conn # None => conn[hub[s].conn] \in {"open", "gone"}
          /\ \A b \in {hub[s], reserved[s]} :
                b.attempt \in Calls =>
                   /\ calls[b.attempt].conn = b.conn /\ calls[b.attempt].kind = "register"
                   /\ hub[s].conn = b.conn /\ reserved[s] = b
    /\ \A c \in Conns : conn[c] = "closed" /\ ~InFlight(c) /\ c \notin excused => row.conn # c

\* A wake about to be pushed goes to a connection that held the claim at some
\* time since the message was committed, whatever routes stale connections keep
\* in other processes (isCurrentClaim; ADR-034: "fence every stale operation/wake").
WakesOnlyClaimants == \A w \in wakes : w.at = "push" => w.conn \in held[w.send]

\* A recipient never has more unsettled messages than the limit, however many
\* senders count the queue at once (routeSessionMessage's FOR UPDATE).
InboxBounded == Cardinality(OpenRows) <= MaxPending

\* The retries of a message store one row between them, also after that row was
\* settled and swept (session_message_sends).
SentOnce ==
    \A m, n \in Sends : m # n /\ Message[m] = Message[n] => "none" \in {inbox[m], inbox[n]}

Unregistering(c) == \E x \in Calls : calls[x].conn = c /\ calls[x].kind = "unregister"

\* c is open and does not unregister, and the others are over: closed, or their
\* clients vanished from another process.
LastClient(c) ==
    /\ conn[c] = "open" /\ ~Unregistering(c)
    /\ \A d \in Conns \ {c} : conn[d] \in {"closing", "closed"} \/ (conn[d] = "gone" /\ Server[d] # Server[c])

\* The client that remains gets the key and keeps it, whatever races, failed
\* statements, crashes and stale wakes the others left in flight.
Recovers == \A c \in Conns : <>[]LastClient(c) => <>[]Claimed(c)

\* "A hard-killed remote process becomes inactive after missed heartbeats and its
\* lease becomes reclaimable" (federation.md), in whichever process it was.
LeaseReclaimable ==
    \A c \in Conns :
        <>[](conn[c] = "open" /\ ~Unregistering(c) /\ \A d \in Conns \ {c} : conn[d] # "open") => <>[]Claimed(c)

=============================================================================
