------------------------ MODULE SessionMessagesProofs ------------------------
(* Proofs about SessionMessages for every number of connections, processes,    *)
(* calls, sends and faults.                                                     *)
EXTENDS SessionMessages, FiniteSetTheorems, TLAPS

-----------------------------------------------------------------------------
(* Types.                                                                      *)

(* What the type of a call says of it.                                         *)
LEMMA CallFacts ==
    ASSUME TypeOK, NEW x \in Calls
    PROVE  /\ calls[x].kind = "register" =>
                calls[x].conn \in Conns /\ calls[x].at \in {"insert", "finish", "undo", "release"}
           /\ calls[x].at = "idle" <=> calls[x] = Idle
           /\ calls[x].kind \in {"unregister", "ack"} => calls[x].conn \in Conns
           /\ calls[x].at \in {"authorize", "delete", "unbind", "apply"} => calls[x].kind \in {"unregister", "ack"}
           /\ calls[x].kind = "none" => calls[x] = Idle
           /\ calls[x].kind \in {"none", "register", "unregister", "ack"}
  BY DEF TypeOK, CallStates, Idle

LEMMA GotoType ==
    ASSUME TypeOK, NEW x \in Calls, NEW at, Goto(x, at),
           \/ calls[x].kind = "register" /\ at \in {"insert", "finish", "undo", "release"}
           \/ calls[x].kind \in {"unregister", "ack"} /\ at \in {"authorize", "delete", "unbind", "apply"}
    PROVE  calls' \in [Calls -> CallStates]
  BY DEF TypeOK, Goto, CallStates, Idle

LEMMA ReturnType ==
    ASSUME TypeOK, NEW x \in Calls, Return(x)
    PROVE  calls' \in [Calls -> CallStates]
  BY DEF TypeOK, Return, CallStates

LEMMA StartType ==
    ASSUME TypeOK, NEW x, NEW c \in Conns, NEW kind, NEW at, Start(x, c, kind, at),
           \/ kind = "register" /\ at = "insert"
           \/ kind \in {"unregister", "ack"} /\ at = "authorize"
    PROVE  calls' \in [Calls -> CallStates]
  BY DEF TypeOK, Start, CallStates

LEMMA RowTypes ==
    ASSUME TypeOK
    PROVE  /\ \A c : Erase(c) => row' \in {NoRow} \cup [conn : Conns, live : BOOLEAN]
           /\ \A c \in Conns : Store(c) => /\ row' \in {NoRow} \cup [conn : Conns, live : BOOLEAN]
                                           /\ held' \in [Sends -> SUBSET Conns]
           /\ Fault => faults' \in 0..workload.faults
           /\ row.live => row \in [conn : Conns, live : BOOLEAN]
  <1>1. workload.faults \in Nat
    BY ConstantsAssumption DEF TypeOK
  <1>2. Fault => faults' \in 0..workload.faults
    BY <1>1 DEF TypeOK, Fault
  <1>3. \A c : Erase(c) => row' \in {NoRow} \cup [conn : Conns, live : BOOLEAN]
    BY DEF TypeOK, Erase
  <1>4. row.live => row \in [conn : Conns, live : BOOLEAN]
    BY DEF TypeOK, NoRow
  <1>5. \A c \in Conns : Store(c) => /\ row' \in {NoRow} \cup [conn : Conns, live : BOOLEAN]
                                    /\ held' \in [Sends -> SUBSET Conns]
    BY DEF TypeOK, Store
  <1> QED
    BY <1>2, <1>3, <1>4, <1>5

LEMMA RouteTypes ==
    ASSUME TypeOK
    PROVE  /\ \A c \in Conns : DropRoute(c) =>
                /\ hub' \in [Servers -> {NoBinding} \cup [conn : Conns, attempt : Calls \cup {Committed}]]
                /\ reserved' \in [Servers -> {NoBinding} \cup [conn : Conns, attempt : Calls]]
           /\ \A c \in Conns : Server[c] \in Servers
  BY DEF TypeOK, DropRoute, routes, Servers

LEMMA TypeInit == Init => TypeOK
  BY ConstantsAssumption DEF Init, TypeOK, NoRow, NoBinding, Idle, Servers, CallStates

LEMMA TypeCalls ==
    ASSUME TypeOK, NEW x \in Calls,
           \/ \E c \in Conns : Register(x, c) \/ Ask(x, c, "unregister") \/ Ask(x, c, "ack")
           \/ Continue(x) \/ InsertThrows(x) \/ StatementThrows(x)
    PROVE  TypeOK'
  <1> USE DEF messages, routes, At
  <1>1. ASSUME NEW c \in Conns, Register(x, c) PROVE TypeOK'
    BY <1>1, StartType, RouteTypes DEF Register, TypeOK, MayReserve
  <1>2. ASSUME NEW c \in Conns, NEW kind \in {"unregister", "ack"}, Ask(x, c, kind) PROVE TypeOK'
    BY <1>2, StartType DEF Ask, TypeOK
  <1>3. CASE Insert(x)
    <2>1. calls' \in [Calls -> CallStates]
      BY <1>3, GotoType, CallFacts DEF Insert
    <2> QED
      BY <1>3, <2>1, CallFacts, RowTypes DEF Insert, TypeOK
  <1>4. CASE InsertThrows(x)
    <2>1. calls' \in [Calls -> CallStates]
      BY <1>4, GotoType, CallFacts DEF InsertThrows
    <2> QED
      BY <1>4, <2>1, CallFacts, RowTypes DEF InsertThrows, TypeOK
  <1>5. CASE Finish(x)
    <2>1. calls' \in [Calls -> CallStates]
      BY <1>5, ReturnType DEF Finish
    <2> QED
      BY <1>5, <2>1, CallFacts, RouteTypes DEF Finish, TypeOK
  <1>6. CASE LostReservation(x)
    BY <1>6, GotoType, CallFacts DEF LostReservation, TypeOK
  <1>7. CASE Undo(x)
    <2>1. calls' \in [Calls -> CallStates]
      BY <1>7, GotoType, CallFacts DEF Undo
    <2> QED
      BY <1>7, <2>1, RowTypes DEF Undo, TypeOK
  <1>8. CASE Release(x)
    <2>1. calls' \in [Calls -> CallStates]
      BY <1>8, ReturnType DEF Release
    <2> QED
      BY <1>8, <2>1, CallFacts, RouteTypes DEF Release, TypeOK
  <1>9. CASE Authorize(x)
    <2>1. calls' \in [Calls -> CallStates]
      BY <1>9, GotoType, ReturnType, CallFacts DEF Authorize
    <2> QED
      BY <1>9, <2>1 DEF Authorize, TypeOK
  <1>10. CASE Delete(x)
    <2>1. calls' \in [Calls -> CallStates]
      BY <1>10, GotoType, CallFacts DEF Delete
    <2> QED
      BY <1>10, <2>1, RowTypes DEF Delete, TypeOK
  <1>11. CASE Unbind(x)
    <2>1. calls' \in [Calls -> CallStates]
      BY <1>11, ReturnType DEF Unbind
    <2> QED
      BY <1>11, <2>1, CallFacts, RouteTypes DEF Unbind, TypeOK
  <1>12. CASE Apply(x)
    <2>1. calls' \in [Calls -> CallStates]
      BY <1>12, ReturnType DEF Apply
    <2> QED
      BY <1>12, <2>1 DEF Apply, TypeOK
  <1>13. CASE StatementThrows(x)
    <2>1. calls' \in [Calls -> CallStates]
      BY <1>13, GotoType, ReturnType, CallFacts DEF StatementThrows
    <2> QED
      BY <1>13, <2>1, CallFacts, RowTypes DEF StatementThrows, TypeOK
  <1> QED
    BY <1>1, <1>2, <1>3, <1>4, <1>5, <1>6, <1>7, <1>8, <1>9, <1>10, <1>11, <1>12, <1>13 DEF Continue

LEMMA TypeRest ==
    ASSUME TypeOK,
           \/ \E c \in Conns : Close(c) \/ ReleaseClaims(c) \/ Vanish(c) \/ LapseOpen(c) \/ LapseUnrenewed(c)
           \/ \E s \in Servers : CrashServer(s)
           \/ SweepRow
           \/ \E m \in Sends :
                Probe(m) \/ Replay(m) \/ Reject(m) \/ Lock(m) \/ Count(m) \/ Commit(m) \/ Abort(m) \/ Expire(m) \/ SweepInbox(m)
           \/ \E h \in hints : TakeHint(h)
           \/ \E w \in wakes : CheckWake(w) \/ PushWake(w) \/ ReapRoute(w)
    PROVE  TypeOK'
  <1> USE DEF messages, routes
  <1>1. ASSUME NEW c \in Conns, Close(c) \/ Vanish(c) PROVE TypeOK'
    BY <1>1, RouteTypes DEF Close, Vanish, TypeOK
  <1>2. ASSUME NEW c \in Conns, ReleaseClaims(c) PROVE TypeOK'
    BY <1>2, RowTypes DEF ReleaseClaims, TypeOK
  <1>3. ASSUME NEW c \in Conns, LapseOpen(c) \/ LapseUnrenewed(c) PROVE TypeOK'
    BY <1>3, RowTypes DEF LapseOpen, LapseUnrenewed, Lapse, Holds, TypeOK
  <1>4. ASSUME NEW s \in Servers, CrashServer(s) PROVE TypeOK'
    BY <1>4, RowTypes DEF CrashServer, TypeOK, CallStates
  <1>5. CASE SweepRow
    BY <1>5 DEF SweepRow, TypeOK
  <1>6. ASSUME NEW m \in Sends, Probe(m) \/ Reject(m) \/ Lock(m) \/ Count(m) PROVE TypeOK'
    <2>1. CASE Probe(m) \/ Lock(m)
      BY <2>1 DEF Probe, Lock, TypeOK
    <2>2. CASE Reject(m)
      BY <2>2 DEF Reject, TypeOK
    <2>3. CASE Count(m)
      <3>1. inbox' \in [Sends -> {"none", "pending", "held", "closed", "swept"}]
        BY <2>3 DEF Count, TypeOK
      <3>2. send' \in [Sends -> {"new", "probed", "absent", "locked", "room", "full", "done"}]
        BY <2>3 DEF Count, TypeOK
      <3> QED
        BY <2>3, <3>1, <3>2 DEF Count, TypeOK
    <2> QED
      BY <1>6, <2>1, <2>2, <2>3
  <1>7. ASSUME NEW m \in Sends, Replay(m) PROVE TypeOK'
    <2>1. Serving \subseteq Servers
      BY ConstantsAssumption DEF TypeOK, Serving, Servers
    <2>2. hints' \subseteq [server : Servers, send : Sends]
      BY <1>7, <2>1 DEF Replay, TypeOK
    <2> QED
      BY <1>7, <2>2 DEF Replay, TypeOK
  <1>8. ASSUME NEW m \in Sends, Commit(m) PROVE TypeOK'
    <2>1. row.live => row.conn \in Conns
      BY RowTypes
    <2>2. Serving \subseteq Servers
      BY ConstantsAssumption DEF TypeOK, Serving, Servers
    <2>3. hints' \subseteq [server : Servers, send : Sends]
      BY <1>8, <2>2 DEF Commit, TypeOK
    <2>4. held' \in [Sends -> SUBSET Conns]
      BY <1>8, <2>1 DEF Commit, TypeOK
    <2> QED
      BY <1>8, <2>3, <2>4 DEF Commit, TypeOK
  <1>9. ASSUME NEW m \in Sends, Abort(m) PROVE TypeOK'
    BY <1>9, RowTypes DEF Abort, TypeOK
  <1>10. ASSUME NEW m \in Sends, Expire(m) \/ SweepInbox(m) PROVE TypeOK'
    BY <1>10 DEF Expire, SweepInbox, TypeOK
  <1>11. ASSUME NEW h \in hints, TakeHint(h) PROVE TypeOK'
    <2>1. hub[h.server].attempt = Committed => hub[h.server].conn \in Conns
      BY ConstantsAssumption DEF TypeOK, NoBinding
    <2> QED
      BY <1>11, <2>1 DEF TakeHint, TypeOK
  <1>12. ASSUME NEW w \in wakes, CheckWake(w) PROVE TypeOK'
    BY <1>12, RowTypes DEF CheckWake, Move, TypeOK
  <1>13. ASSUME NEW w \in wakes, PushWake(w) \/ ReapRoute(w) PROVE TypeOK'
    BY <1>13, RowTypes, RouteTypes DEF PushWake, ReapRoute, TypeOK
  <1> QED
    BY <1>1, <1>2, <1>3, <1>4, <1>5, <1>6, <1>7, <1>8, <1>9, <1>10, <1>11, <1>12, <1>13

LEMMA TypeStep == TypeOK /\ [Next]_vars => TypeOK'
  <1>1. ASSUME TypeOK, Next PROVE TypeOK'
    BY <1>1, TypeCalls, TypeRest DEF Next
  <1>2. ASSUME TypeOK, UNCHANGED vars PROVE TypeOK'
    BY <1>2 DEF TypeOK, vars
  <1> QED
    BY <1>1, <1>2

(* The hub, the claim, the calls, the inbox and the wakes stay well typed, for *)
(* any clients, processes, senders and faults.                                 *)
THEOREM TypeCorrect == Spec => []TypeOK
  BY TypeInit, TypeStep, PTL DEF Spec

-----------------------------------------------------------------------------
(* The inbox.                                                                  *)

OneInTransaction == \A m, n \in Sends : InTransaction(m) /\ InTransaction(n) => m = n

UnsentStoresNothing == \A m \in Sends : send[m] # "done" => inbox[m] = "none"

(* The lock on the sender's row keeps a message's other attempts out.          *)
FreshWhileSending ==
    \A m, n \in Sends : InTransaction(m) /\ Message[n] = Message[m] => inbox[n] = "none"

RoomLeft == \A m \in Sends : send[m] = "room" => Cardinality(OpenRows) < MaxPending

SendInv ==
    TypeOK /\ OneInTransaction /\ UnsentStoresNothing /\ FreshWhileSending /\ SentOnce /\ RoomLeft /\ InboxBounded

LEMMA OpenRowsFinite == IsFiniteSet(OpenRows) /\ Cardinality(OpenRows) \in Nat
  <1>1. OpenRows \subseteq Sends
    BY DEF OpenRows
  <1> QED
    BY <1>1, ConstantsAssumption, FS_Subset, FS_CardinalityType

LEMMA FewerRows ==
    ASSUME NEW S \in SUBSET OpenRows
    PROVE  IsFiniteSet(S) /\ Cardinality(S) \in Nat /\ Cardinality(S) <= Cardinality(OpenRows)
  BY OpenRowsFinite, FS_Subset, FS_CardinalityType

LEMMA SentMessagesFacts == \A m \in Sends : Message[m] \notin SentMessages =>
                               \A n \in Sends : Message[n] = Message[m] => inbox[n] = "none"
  BY DEF SentMessages

LEMMA SendInit == Init => SendInv
  <1> SUFFICES ASSUME Init PROVE SendInv
    OBVIOUS
  <1>1. OpenRows = {}
    BY DEF Init, OpenRows
  <1>2. Cardinality(OpenRows) = 0
    BY <1>1, FS_EmptySet
  <1> QED
    BY <1>2, TypeInit, ConstantsAssumption
    DEF Init, SendInv, OneInTransaction, UnsentStoresNothing, FreshWhileSending, SentOnce, RoomLeft, InboxBounded, InTransaction

(* Steps that at most settle rows.                                             *)
LEMMA InboxSettles ==
    ASSUME SendInv, TypeOK', UNCHANGED send, \A m \in Sends : inbox'[m] = "none" <=> inbox[m] = "none",
           OpenRows' \subseteq OpenRows
    PROVE  SendInv'
  <1>1. Cardinality(OpenRows') <= Cardinality(OpenRows) /\ Cardinality(OpenRows') \in Nat
    BY FewerRows
  <1>2. (OneInTransaction /\ UnsentStoresNothing /\ FreshWhileSending /\ SentOnce)'
    BY DEF SendInv, OneInTransaction, UnsentStoresNothing, FreshWhileSending, SentOnce, InTransaction
  <1>3. (RoomLeft /\ InboxBounded)'
    BY <1>1, OpenRowsFinite, ConstantsAssumption DEF SendInv, RoomLeft, InboxBounded
  <1> QED
    BY <1>2, <1>3 DEF SendInv

(* A row is inserted, with the receipt of a send that ends.                    *)
LEMMA RowStored ==
    ASSUME SendInv, TypeOK', NEW m \in Sends, NEW to \in {"pending", "closed"},
           inbox' = [inbox EXCEPT ![m] = to], send' = [send EXCEPT ![m] = "done"],
           \A n \in Sends : InTransaction(n) => n = m \/ Message[n] # Message[m],
           \A n \in Sends : Message[n] = Message[m] => inbox[n] = "none",
           to = "pending" => send[m] = "room"
    PROVE  SendInv'
  <1>1. \A n \in Sends : /\ send'[n] = IF n = m THEN "done" ELSE send[n]
                         /\ inbox'[n] = IF n = m THEN to ELSE inbox[n]
    BY DEF SendInv, TypeOK
  <1>2. OneInTransaction'
    BY <1>1 DEF SendInv, OneInTransaction, InTransaction
  <1>3. UnsentStoresNothing'
    BY <1>1 DEF SendInv, UnsentStoresNothing
  <1>4. FreshWhileSending'
    BY <1>1 DEF SendInv, FreshWhileSending, InTransaction
  <1>5. SentOnce'
    BY <1>1 DEF SendInv, SentOnce
  <1>6. CASE to = "pending"
    <2>1. OpenRows' = OpenRows \cup {m}
      BY <1>1, <1>6 DEF OpenRows
    <2>2. /\ Cardinality(OpenRows') <= Cardinality(OpenRows) + 1
          /\ Cardinality(OpenRows') \in Nat
      <3>1. Cardinality(OpenRows \cup {m}) = IF m \in OpenRows THEN Cardinality(OpenRows) ELSE Cardinality(OpenRows) + 1
        BY OpenRowsFinite, FS_AddElement
      <3> QED
        BY <2>1, <3>1, OpenRowsFinite
    <2>3. Cardinality(OpenRows) < MaxPending
      BY <1>6 DEF SendInv, RoomLeft
    <2>4. \A n \in Sends : send'[n] # "room"
      BY <1>1, <1>6 DEF SendInv, OneInTransaction, InTransaction
    <2>5. Cardinality(OpenRows') <= MaxPending
      BY <2>2, <2>3, OpenRowsFinite, ConstantsAssumption
    <2> QED
      BY <1>2, <1>3, <1>4, <1>5, <2>4, <2>5 DEF SendInv, RoomLeft, InboxBounded
  <1>7. CASE to = "closed"
    <2>1. inbox[m] = "none"
      OBVIOUS
    <2>2. OpenRows' = OpenRows
      BY <1>1, <1>7, <2>1 DEF OpenRows
    <2>3. (RoomLeft /\ InboxBounded)'
      BY <1>1, <2>2 DEF SendInv, RoomLeft, InboxBounded
    <2> QED
      BY <1>2, <1>3, <1>4, <1>5, <2>3 DEF SendInv
  <1> QED
    BY <1>6, <1>7

LEMMA SendQuiet ==
    ASSUME Next
    PROVE  \/ UNCHANGED <<send, inbox>>
           \/ \E x \in Calls : Apply(x)
           \/ \E m \in Sends :
                Probe(m) \/ Replay(m) \/ Reject(m) \/ Lock(m) \/ Count(m) \/ Commit(m) \/ Abort(m) \/ Expire(m) \/ SweepInbox(m)
  BY DEF Next, Continue, messages, Register, Ask, Insert, InsertThrows, Finish, LostReservation, Undo, Release,
         Authorize, Delete, Unbind, StatementThrows, Close, ReleaseClaims, Vanish, LapseOpen, LapseUnrenewed, Lapse,
         CrashServer, SweepRow, TakeHint, CheckWake, PushWake, ReapRoute

LEMMA SendStep == SendInv /\ [Next]_vars => SendInv'
  <1> SUFFICES ASSUME SendInv, [Next]_vars PROVE SendInv'
    OBVIOUS
  <1>0. TypeOK /\ TypeOK'
    BY TypeStep DEF SendInv
  <1>1. ASSUME UNCHANGED <<send, inbox>> PROVE SendInv'
    BY <1>0, <1>1, InboxSettles DEF OpenRows
  <1>2. ASSUME NEW x \in Calls, Apply(x) PROVE SendInv'
    <2>1. \A m \in Sends : inbox'[m] = inbox[m] \/ (inbox[m] \in {"pending", "held"} /\ inbox'[m] # "none")
      BY <1>0, <1>2 DEF Apply, TypeOK
    <2> QED
      BY <1>0, <1>2, <2>1, InboxSettles DEF Apply, OpenRows
  <1>3. ASSUME NEW m \in Sends, Probe(m) \/ Replay(m) \/ Abort(m)
        PROVE  SendInv'
    <2>1. /\ UNCHANGED inbox
          /\ \A n \in Sends : n # m => send'[n] = send[n]
          /\ send'[m] \in {"new", "probed", "absent", "done"}
      BY <1>0, <1>3 DEF Probe, Replay, Abort, TypeOK
    <2>2. send[m] = "done" => send'[m] = "done"
      BY <1>3 DEF Probe, Replay, Abort, InTransaction
    <2>3. OpenRows' = OpenRows
      BY <2>1 DEF OpenRows
    <2> QED
      BY <1>0, <2>1, <2>2, <2>3
      DEF SendInv, OneInTransaction, UnsentStoresNothing, FreshWhileSending, SentOnce, RoomLeft, InboxBounded, InTransaction
  <1>4. ASSUME NEW m \in Sends, Lock(m) PROVE SendInv'
    <2>1. /\ UNCHANGED inbox
          /\ \A n \in Sends : send'[n] = IF n = m THEN "locked" ELSE send[n]
      BY <1>0, <1>4 DEF Lock, TypeOK
    <2>2. \A n \in Sends : ~InTransaction(n)
      BY <1>4 DEF Lock, MayLock
    <2>3. \A n \in Sends : Message[n] = Message[m] => inbox[n] = "none"
      BY <1>4, SentMessagesFacts DEF Lock
    <2>4. OpenRows' = OpenRows
      BY <2>1 DEF OpenRows
    <2> QED
      BY <1>0, <2>1, <2>2, <2>3, <2>4
      DEF SendInv, OneInTransaction, UnsentStoresNothing, FreshWhileSending, SentOnce, RoomLeft, InboxBounded, InTransaction
  <1>5. ASSUME NEW m \in Sends, Reject(m) PROVE SendInv'
    <2>1. \A n \in Sends : InTransaction(n) => Message[n] # Message[m]
      BY <1>5 DEF Reject, MayLock
    <2> QED
      BY <1>0, <1>5, <2>1, SentMessagesFacts, RowStored DEF Reject
  <1>6. ASSUME NEW m \in Sends, Count(m) PROVE SendInv'
    <2>1. PICK due \in SUBSET OpenRows :
             /\ inbox' = [n \in Sends |-> IF n \in due THEN "closed" ELSE inbox[n]]
             /\ send' = [send EXCEPT ![m] = IF Cardinality(OpenRows \ due) >= MaxPending THEN "full" ELSE "room"]
      BY <1>6 DEF Count
    <2>2. OpenRows' = OpenRows \ due
      BY <2>1 DEF OpenRows
    <2>3. Cardinality(OpenRows') \in Nat /\ Cardinality(OpenRows') <= Cardinality(OpenRows)
      BY <2>2, FewerRows
    <2>4. \A n \in Sends : inbox'[n] = "none" <=> inbox[n] = "none"
      BY <2>1 DEF OpenRows
    <2>5. \A n \in Sends : n # m => send'[n] = send[n]
      BY <1>0, <2>1 DEF TypeOK
    <2>6. send'[m] \in {"room", "full"} /\ (send'[m] = "room" => ~(Cardinality(OpenRows \ due) >= MaxPending))
      BY <1>0, <2>1 DEF TypeOK
    <2>7. send'[m] = "room" => Cardinality(OpenRows') < MaxPending
      BY <2>2, <2>3, <2>6, ConstantsAssumption
    <2>8. send[m] = "locked"
      BY <1>6 DEF Count
    <2>9. \A n \in Sends : n # m => ~InTransaction(n)
      BY <2>8 DEF SendInv, OneInTransaction, InTransaction
    <2>10. (OneInTransaction /\ UnsentStoresNothing /\ FreshWhileSending /\ SentOnce)'
      BY <2>4, <2>5, <2>6, <2>8
      DEF SendInv, OneInTransaction, UnsentStoresNothing, FreshWhileSending, SentOnce, InTransaction
    <2>11. RoomLeft'
      BY <2>5, <2>7, <2>9 DEF RoomLeft, InTransaction
    <2>12. InboxBounded'
      BY <2>3, OpenRowsFinite, ConstantsAssumption DEF SendInv, InboxBounded
    <2> QED
      BY <1>0, <2>10, <2>11, <2>12 DEF SendInv
  <1>7. ASSUME NEW m \in Sends, Commit(m) PROVE SendInv'
    <2>1. InTransaction(m)
      BY <1>7 DEF Commit, InTransaction
    <2>2. /\ \A n \in Sends : InTransaction(n) => n = m
          /\ \A n \in Sends : Message[n] = Message[m] => inbox[n] = "none"
      BY <2>1 DEF SendInv, OneInTransaction, FreshWhileSending
    <2> QED
      BY <1>0, <1>7, <2>2, RowStored DEF Commit
  <1>8. ASSUME NEW m \in Sends, Expire(m) \/ SweepInbox(m) PROVE SendInv'
    <2>1. \A n \in Sends : inbox'[n] = inbox[n] \/ (inbox[n] # "none" /\ inbox'[n] \in {"closed", "swept"})
      BY <1>0, <1>8 DEF Expire, SweepInbox, OpenRows, TypeOK
    <2>2. UNCHANGED send
      BY <1>8 DEF Expire, SweepInbox
    <2> QED
      BY <1>0, <2>1, <2>2, InboxSettles DEF OpenRows
  <1>9. CASE UNCHANGED vars
    BY <1>1, <1>9 DEF vars
  <1> QED
    BY <1>1, <1>2, <1>3, <1>4, <1>5, <1>6, <1>7, <1>8, <1>9, SendQuiet

(* However many senders count a recipient's queue at once, it never holds more *)
(* unsettled messages than the limit: the lock on the recipient's row lets one *)
(* transaction count and insert at a time.                                     *)
THEOREM InboxStaysBounded == Spec => []InboxBounded
  <1>1. SendInv => InboxBounded
    BY DEF SendInv
  <1> QED
    BY <1>1, SendInit, SendStep, PTL DEF Spec

(* The attempts to send one message store one row between them.                *)
THEOREM RetriesStoreOnce == Spec => []SentOnce
  <1>1. SendInv => SentOnce
    BY DEF SendInv
  <1> QED
    BY <1>1, SendInit, SendStep, PTL DEF Spec

-----------------------------------------------------------------------------
(* Wakes.                                                                      *)

(* A message that is still pending, or that a hint or a wake is about.         *)
Announced(m) ==
    inbox[m] = "pending" \/ (\E h \in hints : h.send = m) \/ (\E w \in wakes : w.send = m)

(* Whoever holds the claim now has held it since an announced message was      *)
(* stored, so the check that the database makes for a wake suffices.           *)
HolderRecorded ==
    \A m \in Sends : Announced(m) => inbox[m] # "none" /\ (row.live => row.conn \in held[m])

WakeInv == SendInv /\ HolderRecorded /\ WakesOnlyClaimants

LEMMA WakeInit == Init => WakeInv
  BY SendInit DEF Init, WakeInv, HolderRecorded, WakesOnlyClaimants, Announced, NoRow

(* Steps that announce nothing new and store no claim.                         *)
LEMMA NothingAnnounced ==
    ASSUME WakeInv, SendInv', UNCHANGED held,
           row' = row \/ ~row'.live,
           \A m \in Sends : Announced(m)' => Announced(m) /\ inbox'[m] # "none",
           \A w \in wakes' : w.at = "push" => w \in wakes
    PROVE  WakeInv'
  <1>1. HolderRecorded'
    BY DEF WakeInv, HolderRecorded
  <1>2. WakesOnlyClaimants'
    BY DEF WakeInv, WakesOnlyClaimants
  <1> QED
    BY <1>1, <1>2 DEF WakeInv

(* A claim is stored and the messages so far note its holder.                  *)
LEMMA ClaimStored ==
    ASSUME WakeInv, SendInv', NEW c \in Conns, Store(c), UNCHANGED <<inbox, hints, wakes>>
    PROVE  WakeInv'
  <1>1. \A m \in Sends : Announced(m)' <=> Announced(m)
    BY DEF Announced
  <1>2. \A m \in Sends : inbox[m] # "none" => held'[m] = held[m] \cup {c}
    BY DEF Store
  <1>3. HolderRecorded'
    BY <1>1, <1>2 DEF WakeInv, HolderRecorded, Store
  <1>4. \A w \in wakes : w.send \in Sends /\ Announced(w.send)
    BY DEF WakeInv, SendInv, TypeOK, Announced
  <1>5. WakesOnlyClaimants'
    BY <1>2, <1>4 DEF WakeInv, HolderRecorded, WakesOnlyClaimants
  <1> QED
    BY <1>3, <1>5 DEF WakeInv

LEMMA WakeCalls ==
    ASSUME WakeInv, TypeOK, SendInv', NEW x \in Calls,
           \/ \E c \in Conns : Register(x, c) \/ Ask(x, c, "unregister") \/ Ask(x, c, "ack")
           \/ Continue(x) \/ InsertThrows(x) \/ StatementThrows(x)
    PROVE  WakeInv'
  <1> USE DEF messages
  <1>1. \A c : Erase(c) => row' = row \/ ~row'.live
    BY DEF Erase, NoRow
  <1>2. ASSUME UNCHANGED <<messages, held>>, row' = row \/ ~row'.live PROVE WakeInv'
    BY <1>2, NothingAnnounced DEF Announced, WakeInv, HolderRecorded
  <1>3. CASE Insert(x) \/ InsertThrows(x)
    <2>1. calls[x].conn \in Conns
      BY <1>3, CallFacts DEF Insert, InsertThrows, At
    <2> QED
      BY <1>2, <1>3, <2>1, ClaimStored DEF Insert, InsertThrows
  <1>4. CASE Apply(x)
    <2>1. \A m \in Sends : inbox'[m] = inbox[m] \/ (inbox[m] \in {"pending", "held"} /\ inbox'[m] \in {"held", "closed"})
      BY <1>4 DEF Apply, TypeOK
    <2>2. UNCHANGED <<row, held, hints, wakes>>
      BY <1>4 DEF Apply
    <2>3. \A m \in Sends : Announced(m)' => Announced(m) /\ inbox'[m] # "none"
      BY <2>1, <2>2 DEF Announced, WakeInv, HolderRecorded
    <2> QED
      BY <2>2, <2>3, NothingAnnounced
  <1>5. CASE \/ \E c \in Conns : Register(x, c) \/ Ask(x, c, "unregister") \/ Ask(x, c, "ack")
             \/ Finish(x) \/ LostReservation(x) \/ Release(x) \/ Authorize(x) \/ Unbind(x)
    BY <1>2, <1>5 DEF Register, Ask, Finish, LostReservation, Release, Authorize, Unbind
  <1>6. CASE Undo(x) \/ Delete(x) \/ StatementThrows(x)
    BY <1>1, <1>2, <1>6 DEF Undo, Delete, StatementThrows
  <1> QED
    BY <1>3, <1>4, <1>5, <1>6 DEF Continue

LEMMA WakeSends ==
    ASSUME WakeInv, TypeOK, SendInv', NEW m \in Sends,
           Probe(m) \/ Replay(m) \/ Reject(m) \/ Lock(m) \/ Count(m) \/ Commit(m) \/ Abort(m) \/ Expire(m) \/ SweepInbox(m)
    PROVE  WakeInv'
  <1>1. CASE Probe(m) \/ Lock(m) \/ Abort(m)
    BY <1>1, NothingAnnounced DEF Probe, Lock, Abort, Announced, WakeInv, HolderRecorded
  <1>2. CASE Replay(m)
    <2>1. UNCHANGED <<row, inbox, wakes, held>>
      BY <1>2 DEF Replay
    <2>2. \A h \in hints' : h \in hints \/ inbox[h.send] = "pending"
      BY <1>2 DEF Replay
    <2>3. \A n \in Sends : Announced(n)' => Announced(n)
      BY <2>1, <2>2 DEF Announced
    <2> QED
      BY <2>1, <2>3, NothingAnnounced DEF WakeInv, HolderRecorded
  <1>3. CASE Reject(m) \/ Expire(m) \/ SweepInbox(m) \/ Count(m)
    <2>1. \A n \in Sends : inbox'[n] = inbox[n] \/ inbox'[n] \in {"closed", "swept"}
      BY <1>3 DEF Reject, Expire, SweepInbox, Count, TypeOK
    <2>2. UNCHANGED <<row, hints, wakes, held>>
      BY <1>3 DEF Reject, Expire, SweepInbox, Count
    <2>3. \A n \in Sends : Announced(n)' => Announced(n) /\ inbox'[n] # "none"
      BY <2>1, <2>2 DEF Announced, WakeInv, HolderRecorded
    <2> QED
      BY <2>2, <2>3, NothingAnnounced
  <1>4. CASE Commit(m) /\ send[m] = "full"
    <2>1. \A n \in Sends : inbox'[n] = inbox[n] \/ inbox'[n] = "closed"
      BY <1>4 DEF Commit, TypeOK
    <2>2. UNCHANGED <<row, hints, wakes, held>>
      BY <1>4 DEF Commit
    <2>3. \A n \in Sends : Announced(n)' => Announced(n) /\ inbox'[n] # "none"
      BY <2>1, <2>2 DEF Announced, WakeInv, HolderRecorded
    <2> QED
      BY <2>2, <2>3, NothingAnnounced
  <1>5. CASE Commit(m) /\ send[m] = "room"
    <2>1. /\ \A n \in Sends : n # m => inbox'[n] = inbox[n] /\ held'[n] = held[n]
          /\ inbox'[m] = "pending" /\ held'[m] = IF row.live THEN {row.conn} ELSE {}
          /\ UNCHANGED <<row, wakes>>
          /\ \A h \in hints' : h \in hints \/ h.send = m
      BY <1>5 DEF Commit, TypeOK
    <2>2. inbox[m] = "none"
      BY <1>5 DEF WakeInv, SendInv, UnsentStoresNothing
    <2>3. \A n \in Sends : n # m /\ Announced(n)' => Announced(n)
      BY <2>1 DEF Announced
    <2>4. HolderRecorded'
      BY <2>1, <2>3 DEF WakeInv, HolderRecorded
    <2>5. \A w \in wakes : w.send \in Sends /\ w.send # m
      BY <2>2 DEF WakeInv, HolderRecorded, Announced, TypeOK
    <2>6. WakesOnlyClaimants'
      BY <2>1, <2>5 DEF WakeInv, WakesOnlyClaimants
    <2> QED
      BY <2>4, <2>6 DEF WakeInv
  <1> QED
    BY <1>1, <1>2, <1>3, <1>4, <1>5 DEF Commit

LEMMA WakeRest ==
    ASSUME WakeInv, TypeOK, SendInv',
           \/ \E c \in Conns : Close(c) \/ ReleaseClaims(c) \/ Vanish(c) \/ LapseOpen(c) \/ LapseUnrenewed(c)
           \/ \E s \in Servers : CrashServer(s)
           \/ SweepRow
           \/ \E h \in hints : TakeHint(h)
           \/ \E w \in wakes : CheckWake(w) \/ PushWake(w) \/ ReapRoute(w)
    PROVE  WakeInv'
  <1> USE DEF messages
  <1>1. \A c : Erase(c) => row' = row \/ ~row'.live
    BY DEF Erase, NoRow
  <1>2. ASSUME UNCHANGED <<messages, held>>, row' = row \/ ~row'.live PROVE WakeInv'
    BY <1>2, NothingAnnounced DEF Announced, WakeInv, HolderRecorded
  <1>3. ASSUME NEW c \in Conns, Close(c) \/ ReleaseClaims(c) \/ Vanish(c) PROVE WakeInv'
    BY <1>1, <1>2, <1>3 DEF Close, ReleaseClaims, Vanish
  <1>4. ASSUME NEW c \in Conns, LapseOpen(c) \/ LapseUnrenewed(c) PROVE WakeInv'
    <2>1. row.live /\ row' = [row EXCEPT !.live = FALSE]
      BY <1>4 DEF LapseOpen, LapseUnrenewed, Lapse, Holds
    <2>2. ~row'.live
      BY <2>1, RowTypes
    <2> QED
      BY <1>2, <1>4, <2>2 DEF LapseOpen, LapseUnrenewed, Lapse
  <1>5. ASSUME UNCHANGED <<row, inbox, held>>, hints' \subseteq hints,
               \A w \in wakes' : \/ w \in wakes
                                 \/ w.at # "push" /\ \E v \in hints \cup wakes : v.send = w.send
        PROVE  WakeInv'
    <2>1. \A m \in Sends : Announced(m)' => Announced(m)
      BY <1>5 DEF Announced
    <2> QED
      BY <1>5, <2>1, NothingAnnounced DEF WakeInv, HolderRecorded
  <1>6. ASSUME NEW s \in Servers, CrashServer(s) PROVE WakeInv'
    BY <1>5, <1>6 DEF CrashServer
  <1>7. CASE SweepRow
    BY <1>2, <1>7 DEF SweepRow, NoRow
  <1>8. ASSUME NEW h \in hints, TakeHint(h) PROVE WakeInv'
    BY <1>5, <1>8 DEF TakeHint
  <1>9. ASSUME NEW w \in wakes, PushWake(w) \/ ReapRoute(w) PROVE WakeInv'
    BY <1>5, <1>9 DEF PushWake, ReapRoute
  <1>10. ASSUME NEW w \in wakes, CheckWake(w), Move(w, "reap") PROVE WakeInv'
    <2>1. UNCHANGED <<row, inbox, held, hints>>
      BY <1>10 DEF CheckWake
    <2>2. [w EXCEPT !.at = "reap"].send = w.send /\ [w EXCEPT !.at = "reap"].at = "reap"
      BY DEF TypeOK
    <2> QED
      BY <1>5, <1>10, <2>1, <2>2 DEF Move
  <1>11. ASSUME NEW w \in wakes, CheckWake(w), Holds(w.conn), Move(w, "push") PROVE WakeInv'
    <2> DEFINE v == [w EXCEPT !.at = "push"]
    <2>1. v.send = w.send /\ v.conn = w.conn /\ w.send \in Sends
      BY DEF TypeOK
    <2>2. UNCHANGED <<row, inbox, held, hints>> /\ wakes' = (wakes \ {w}) \cup {v}
      BY <1>11 DEF CheckWake, Move
    <2>3. w.conn \in held[w.send]
      BY <1>11, <2>1 DEF WakeInv, HolderRecorded, Announced, Holds
    <2>4. \A m \in Sends : Announced(m)' => Announced(m)
      <3> HIDE DEF v
      <3> QED
        BY <2>1, <2>2 DEF Announced
    <2>5. HolderRecorded'
      BY <2>2, <2>4 DEF WakeInv, HolderRecorded
    <2>6. WakesOnlyClaimants'
      <3> HIDE DEF v
      <3> QED
        BY <2>1, <2>2, <2>3 DEF WakeInv, WakesOnlyClaimants
    <2> QED
      BY <2>5, <2>6 DEF WakeInv
  <1> QED
    BY <1>3, <1>4, <1>6, <1>7, <1>8, <1>9, <1>10, <1>11 DEF CheckWake

LEMMA WakeStep == WakeInv /\ [Next]_vars => WakeInv'
  <1> SUFFICES ASSUME WakeInv, [Next]_vars PROVE WakeInv'
    OBVIOUS
  <1>1. TypeOK /\ SendInv'
    BY SendStep DEF WakeInv, SendInv
  <1>2. CASE UNCHANGED vars
    BY <1>1, <1>2, NothingAnnounced DEF vars, Announced, WakeInv, HolderRecorded
  <1> QED
    BY <1>1, <1>2, WakeCalls, WakeSends, WakeRest DEF Next

(* A wake is pushed only to a connection that held the claim at some time since *)
(* its message was stored: the process captures the route before the check, but *)
(* what it checks is the claim of the connection it captured.                   *)
THEOREM WakesReachClaimants == Spec => []WakesOnlyClaimants
  <1>1. WakeInv => WakesOnlyClaimants
    BY DEF WakeInv
  <1> QED
    BY <1>1, WakeInit, WakeStep, PTL DEF Spec

-----------------------------------------------------------------------------
(* What connections and attempts leave behind.                                 *)

(* A route belongs to a connection of its process that is not over.            *)
RoutesLive ==
    \A s \in Servers : hub[s] # NoBinding =>
        Server[hub[s].conn] = s /\ conn[hub[s].conn] \in {"open", "gone"}

(* A reservation belongs to a call that registers, and to the route's owner; a *)
(* placeholder is the reservation it was made with.                            *)
ReservationsLive ==
    \A s \in Servers :
        /\ reserved[s] # NoBinding =>
              /\ hub[s].conn = reserved[s].conn
              /\ calls[reserved[s].attempt].conn = reserved[s].conn
              /\ calls[reserved[s].attempt].kind = "register"
        /\ hub[s].attempt \in Calls => reserved[s] = hub[s]

(* x has stored the claim of c and will find out whether it may stay.          *)
WillSettle(x, c) == calls[x].conn = c /\ calls[x].kind = "register" /\ calls[x].at \in {"finish", "undo"}

ClaimAccounted ==
    \A c \in Conns : row.conn = c =>
        conn[c] # "closed" \/ c \in excused \/ \E x \in Calls : WillSettle(x, c)

LeftInv == TypeOK /\ RoutesLive /\ ReservationsLive /\ ClaimAccounted

LEMMA BindingFacts ==
    ASSUME TypeOK, NEW s \in Servers
    PROVE  /\ hub[s] # NoBinding => hub[s].conn \in Conns /\ hub[s].attempt \in Calls \cup {Committed}
           /\ reserved[s] # NoBinding => reserved[s].conn \in Conns /\ reserved[s].attempt \in Calls
           /\ hub[s].conn = None <=> hub[s] = NoBinding
           /\ NoBinding.conn = None /\ NoBinding.attempt = None
  BY ConstantsAssumption DEF TypeOK, NoBinding

LEMMA LeftInit == Init => LeftInv
  <1> SUFFICES ASSUME Init PROVE LeftInv
    OBVIOUS
  <1>1. row.conn \notin Conns /\ NoBinding.attempt \notin Calls
    BY ConstantsAssumption DEF Init, NoRow, NoBinding
  <1> QED
    BY <1>1, TypeInit DEF Init, LeftInv, RoutesLive, ReservationsLive, ClaimAccounted

(* Steps that leave the routes alone and end no registration.                  *)
LEMMA RoutesSame ==
    ASSUME LeftInv, UNCHANGED routes,
           \A c \in Conns : conn[c] \in {"open", "gone"} => conn'[c] \in {"open", "gone"},
           \A x \in Calls : calls[x].kind = "register" =>
                                calls'[x].kind = "register" /\ calls'[x].conn = calls[x].conn
    PROVE  RoutesLive' /\ ReservationsLive'
  BY BindingFacts DEF LeftInv, RoutesLive, ReservationsLive, routes

(* Steps that drop the route of a connection, which may be closing.            *)
LEMMA RouteDropped ==
    ASSUME LeftInv, NEW c \in Conns, DropRoute(c),
           \A d \in Conns : d # c /\ conn[d] \in {"open", "gone"} => conn'[d] \in {"open", "gone"},
           \A x \in Calls : calls[x].kind = "register" =>
                                calls'[x].kind = "register" /\ calls'[x].conn = calls[x].conn
    PROVE  RoutesLive' /\ ReservationsLive'
  <1>0. /\ \A s \in Servers : hub[s].conn = c => s = Server[c]
        /\ Server[c] \in Servers /\ c # None
    BY BindingFacts, ConstantsAssumption DEF LeftInv, RoutesLive, Servers
  <1>1. \A s \in Servers : hub'[s] = IF hub[s].conn = c THEN NoBinding ELSE hub[s]
    BY <1>0 DEF LeftInv, DropRoute, routes, TypeOK
  <1>2. \A s \in Servers : reserved'[s] = IF hub[s].conn = c THEN NoBinding ELSE reserved[s]
    <2>1. hub[Server[c]].conn = c /\ reserved[Server[c]].conn # c => reserved[Server[c]] = NoBinding
      BY <1>0 DEF LeftInv, ReservationsLive
    <2> QED
      BY <1>0, <2>1 DEF LeftInv, DropRoute, routes, TypeOK
  <1>3. NoBinding.attempt \notin Calls
    BY ConstantsAssumption DEF NoBinding
  <1> QED
    BY <1>1, <1>2, <1>3, BindingFacts DEF LeftInv, RoutesLive, ReservationsLive

(* Steps that store no claim, and end no call that has stored one.             *)
LEMMA ClaimKept ==
    ASSUME LeftInv, row'.conn = row.conn \/ row'.conn \notin Conns, excused \subseteq excused',
           \A c \in Conns \ excused' : /\ conn[c] # "closed" => conn'[c] # "closed"
                                       /\ \A x \in Calls : WillSettle(x, c) => WillSettle(x, c)'
    PROVE  ClaimAccounted'
  BY DEF LeftInv, ClaimAccounted

LEMMA ErasedRow ==
    ASSUME NEW c \in Conns, Erase(c)
    PROVE  row'.conn # c /\ (row'.conn = row.conn \/ row'.conn \notin Conns)
  BY ConstantsAssumption DEF Erase, NoRow

LEMMA GotoFacts ==
    ASSUME TypeOK, NEW x \in Calls, NEW at, Goto(x, at)
    PROVE  /\ \A y \in Calls : y # x => calls'[y] = calls[y]
           /\ calls'[x].conn = calls[x].conn /\ calls'[x].kind = calls[x].kind /\ calls'[x].at = at
  BY DEF TypeOK, Goto, CallStates, Idle

LEMMA ReturnFacts ==
    ASSUME TypeOK, NEW x \in Calls, Return(x)
    PROVE  /\ \A y \in Calls : y # x => calls'[y] = calls[y]
           /\ calls'[x].kind = "none"
  BY DEF TypeOK, Return, Idle

LEMMA LeftCalls ==
    ASSUME LeftInv, NEW x \in Calls,
           \/ \E c \in Conns : Register(x, c) \/ Ask(x, c, "unregister") \/ Ask(x, c, "ack")
           \/ Continue(x) \/ InsertThrows(x) \/ StatementThrows(x)
    PROVE  (RoutesLive /\ ReservationsLive /\ ClaimAccounted)'
  <1>0. TypeOK
    BY DEF LeftInv
  <1> USE DEF messages
  <1>1. ASSUME NEW c \in Conns, Register(x, c) PROVE (RoutesLive /\ ReservationsLive /\ ClaimAccounted)'
    <2>1. /\ calls[x] = Idle /\ conn[c] = "open" /\ UNCHANGED <<conn, row, excused>>
          /\ \A y \in Calls : y # x => calls'[y] = calls[y]
          /\ calls'[x].conn = c /\ calls'[x].kind = "register"
      BY <1>0, <1>1 DEF Register, Start, TypeOK
    <2> DEFINE s == Server[c]
               mine == [conn |-> c, attempt |-> x]
    <2>2. /\ s \in Servers /\ hub[s].conn \in {None, c} /\ reserved[s] = NoBinding
          /\ \A t \in Servers : reserved'[t] = IF t = s THEN mine ELSE reserved[t]
          /\ \A t \in Servers : hub'[t] = IF t = s /\ hub[s] = NoBinding THEN mine ELSE hub[t]
      BY <1>0, <1>1 DEF Register, MayReserve, TypeOK, Servers
    <2>3. calls[x].kind # "register"
      BY <2>1 DEF Idle
    <2>4. RoutesLive'
      BY <1>0, <2>1, <2>2, BindingFacts DEF LeftInv, RoutesLive
    <2>5. hub[s] # NoBinding => hub[s].conn = c /\ hub[s].attempt \notin Calls
      BY <1>0, <2>2, BindingFacts, ConstantsAssumption DEF LeftInv, ReservationsLive
    <2>6. ReservationsLive'
      BY <1>0, <2>1, <2>2, <2>3, <2>5, BindingFacts, ConstantsAssumption DEF LeftInv, ReservationsLive
    <2>7. ClaimAccounted'
      BY <2>1, <2>3, ClaimKept DEF WillSettle
    <2> QED
      BY <2>4, <2>6, <2>7
  <1>2. ASSUME NEW c \in Conns, NEW kind, Ask(x, c, kind) PROVE (RoutesLive /\ ReservationsLive /\ ClaimAccounted)'
    <2>1. /\ calls[x] = Idle /\ UNCHANGED <<conn, row, excused, routes>>
          /\ \A y \in Calls : y # x => calls'[y] = calls[y]
      BY <1>0, <1>2 DEF Ask, Start, TypeOK
    <2>2. calls[x].kind # "register"
      BY <2>1 DEF Idle
    <2>3. (RoutesLive /\ ReservationsLive)'
      BY <2>1, <2>2, RoutesSame
    <2> QED
      BY <2>1, <2>2, <2>3, ClaimKept DEF WillSettle
  <1>3. ASSUME NEW at, Goto(x, at), UNCHANGED <<conn, routes>> PROVE (RoutesLive /\ ReservationsLive)'
    BY <1>0, <1>3, GotoFacts, RoutesSame
  <1>4. ASSUME Return(x), UNCHANGED <<conn, routes>>, calls[x].kind # "register"
        PROVE  (RoutesLive /\ ReservationsLive)'
    BY <1>0, <1>4, ReturnFacts, RoutesSame
  <1>5. CASE Insert(x) \/ InsertThrows(x)
    <2>1. calls[x].kind = "register" /\ calls[x].at = "insert" /\ calls[x].conn \in Conns
      BY <1>0, <1>5, CallFacts DEF Insert, InsertThrows, At
    <2>2. CASE Goto(x, "release") /\ (UNCHANGED row \/ calls[x].conn \in excused') /\ excused \subseteq excused'
      <3>1. UNCHANGED <<conn, routes>>
        BY <1>5 DEF Insert, InsertThrows
      <3>2. row'.conn = row.conn \/ row'.conn = calls[x].conn
        BY <1>5 DEF Insert, InsertThrows, Store
      <3>3. \A c \in Conns : \A y \in Calls : WillSettle(y, c) => WillSettle(y, c)'
        BY <1>0, <2>1, <2>2, GotoFacts DEF WillSettle
      <3> QED
        BY <1>3, <2>2, <3>1, <3>2, <3>3, ClaimKept DEF LeftInv, ClaimAccounted
    <2>3. CASE Insert(x) /\ Store(calls[x].conn) /\ Goto(x, "finish")
      <3>1. UNCHANGED <<conn, routes, excused>>
        BY <2>3 DEF Insert
      <3>2. row'.conn = calls[x].conn
        BY <2>3 DEF Store
      <3>3. WillSettle(x, calls[x].conn)' /\ calls'[x].conn = calls[x].conn
        BY <1>0, <2>1, <2>3, GotoFacts DEF WillSettle
      <3> QED
        BY <1>3, <2>3, <3>1, <3>2, <3>3 DEF ClaimAccounted
    <2> QED
      BY <1>5, <2>2, <2>3 DEF Insert, InsertThrows
  <1>6. CASE Finish(x)
    <2> DEFINE c == calls[x].conn
               s == Server[c]
    <2>1. calls[x].kind = "register" /\ c \in Conns /\ s \in Servers
      BY <1>0, <1>6, CallFacts DEF Finish, At, Servers
    <2>2. /\ hub[s].conn = c /\ UNCHANGED <<conn, row, excused>>
          /\ \A t \in Servers : hub'[t] = IF t = s THEN [conn |-> c, attempt |-> Committed] ELSE hub[t]
          /\ \A t \in Servers : reserved'[t] = IF t = s THEN NoBinding ELSE reserved[t]
      BY <1>0, <1>6, <2>1 DEF Finish, StillReserved, TypeOK
    <2>3. hub[s] # NoBinding /\ conn[c] \in {"open", "gone"}
      BY <1>0, <2>1, <2>2, BindingFacts, ConstantsAssumption DEF LeftInv, RoutesLive
    <2>4. RoutesLive'
      BY <2>2, <2>3 DEF LeftInv, RoutesLive
    <2>5. \A t \in Servers \ {s} : reserved[t] # NoBinding => reserved[t].attempt # x
      BY <1>0, <2>1, BindingFacts, ConstantsAssumption DEF LeftInv, RoutesLive, ReservationsLive
    <2>6. \A y \in Calls : y # x => calls'[y] = calls[y]
      BY <1>0, <1>6, ReturnFacts DEF Finish
    <2>7. ReservationsLive'
      BY <1>0, <2>2, <2>5, <2>6, BindingFacts, ConstantsAssumption DEF LeftInv, ReservationsLive
    <2>8. ClaimAccounted'
      <3> SUFFICES ASSUME NEW d \in Conns, row'.conn = d, conn'[d] = "closed", d \notin excused'
                   PROVE  \E y \in Calls : WillSettle(y, d)'
        BY DEF ClaimAccounted
      <3>1. PICK y \in Calls : WillSettle(y, d)
        BY <2>2 DEF LeftInv, ClaimAccounted
      <3>2. d # c
        BY <2>2, <2>3
      <3> QED
        BY <2>6, <3>1, <3>2 DEF WillSettle
    <2> QED
      BY <2>4, <2>7, <2>8
  <1>7. CASE LostReservation(x)
    <2>1. \A c \in Conns : \A y \in Calls : WillSettle(y, c) => WillSettle(y, c)'
      BY <1>0, <1>7, GotoFacts DEF LostReservation, WillSettle
    <2> QED
      BY <1>3, <1>7, <2>1, ClaimKept DEF LostReservation
  <1>8. CASE Undo(x)
    <2>1. calls[x].conn \in Conns
      BY <1>0, <1>8, CallFacts DEF Undo, At
    <2>2. row'.conn # calls[x].conn /\ (row'.conn = row.conn \/ row'.conn \notin Conns)
      BY <1>8, <2>1, ErasedRow DEF Undo
    <2>3. \A y \in Calls : y # x => calls'[y] = calls[y]
      BY <1>0, <1>8, GotoFacts DEF Undo
    <2>4. ClaimAccounted'
      BY <1>8, <2>2, <2>3 DEF Undo, LeftInv, ClaimAccounted, WillSettle
    <2> QED
      BY <1>3, <1>8, <2>4 DEF Undo
  <1>9. CASE Release(x)
    <2> DEFINE c == calls[x].conn
               s == Server[c]
               mine == [conn |-> c, attempt |-> x]
    <2>1. calls[x].kind = "register" /\ calls[x].at = "release" /\ c \in Conns /\ s \in Servers
      BY <1>0, <1>9, CallFacts DEF Release, At, Servers
    <2>2. /\ \A y \in Calls : y # x => calls'[y] = calls[y]
          /\ UNCHANGED <<conn, row, excused>>
      BY <1>0, <1>9, ReturnFacts DEF Release
    <2>3. ClaimAccounted'
      BY <2>1, <2>2, ClaimKept DEF WillSettle
    <2>4. /\ \A t \in Servers : hub'[t] = IF t = s /\ reserved[s] = mine /\ hub[s] = mine THEN NoBinding ELSE hub[t]
          /\ \A t \in Servers : reserved'[t] = IF t = s /\ reserved[s] = mine THEN NoBinding ELSE reserved[t]
      BY <1>0, <1>9, <2>1 DEF Release, TypeOK, routes
    <2>5. \A t \in Servers : reserved[t] # NoBinding /\ reserved[t].attempt = x => t = s /\ reserved[s] = mine
      <3> SUFFICES ASSUME NEW t \in Servers, reserved[t] # NoBinding, reserved[t].attempt = x
                   PROVE  t = s /\ reserved[s] = mine
        OBVIOUS
      <3>1. reserved[t].conn = c /\ hub[t].conn = c /\ hub[t] # NoBinding
        BY <1>0, <2>1, BindingFacts, ConstantsAssumption DEF LeftInv, ReservationsLive
      <3>2. t = s
        BY <3>1 DEF LeftInv, RoutesLive
      <3>3. reserved[t] \in [conn : Conns, attempt : Calls]
        BY <1>0 DEF TypeOK
      <3> QED
        BY <3>1, <3>2, <3>3
    <2>6. RoutesLive'
      BY <2>2, <2>4 DEF LeftInv, RoutesLive
    <2>7. ReservationsLive'
      <3> SUFFICES ASSUME NEW t \in Servers
                   PROVE  /\ reserved'[t] # NoBinding =>
                                /\ hub'[t].conn = reserved'[t].conn
                                /\ calls'[reserved'[t].attempt].conn = reserved'[t].conn
                                /\ calls'[reserved'[t].attempt].kind = "register"
                          /\ hub'[t].attempt \in Calls => reserved'[t] = hub'[t]
        BY DEF ReservationsLive
      <3> HIDE DEF mine
      <3>1. CASE t = s /\ reserved[s] = mine
        <4>1. reserved'[t] = NoBinding /\ (hub[s].attempt \in Calls => hub[s] = mine)
          BY <2>1, <2>4, <3>1 DEF LeftInv, ReservationsLive
        <4> QED
          BY <1>0, <2>4, <3>1, <4>1, BindingFacts, ConstantsAssumption
      <3>2. CASE ~(t = s /\ reserved[s] = mine)
        <4>1. hub'[t] = hub[t] /\ reserved'[t] = reserved[t] /\ (reserved[t] # NoBinding => reserved[t].attempt # x)
          BY <2>4, <2>5, <3>2
        <4> QED
          BY <1>0, <2>2, <4>1, BindingFacts DEF LeftInv, ReservationsLive
      <3> QED
        BY <3>1, <3>2
    <2> QED
      BY <2>3, <2>6, <2>7
  <1>10. CASE Authorize(x) \/ Apply(x)
    <2>1. calls[x].kind # "register"
      BY <1>0, <1>10, CallFacts DEF Authorize, Apply, At
    <2>2. UNCHANGED <<conn, row, excused, routes>> /\ (Return(x) \/ \E at : Goto(x, at))
      BY <1>10 DEF Authorize, Apply
    <2>3. \A c \in Conns : \A y \in Calls : WillSettle(y, c) => WillSettle(y, c)'
      BY <1>0, <2>1, <2>2, GotoFacts, ReturnFacts DEF WillSettle
    <2>4. ClaimAccounted'
      BY <2>2, <2>3, ClaimKept
    <2> QED
      BY <1>3, <1>4, <2>1, <2>2, <2>4
  <1>11. CASE Delete(x)
    <2>1. calls[x].kind # "register" /\ calls[x].conn \in Conns
      BY <1>0, <1>11, CallFacts DEF Delete, At
    <2>2. \A c \in Conns : \A y \in Calls : WillSettle(y, c) => WillSettle(y, c)'
      BY <1>0, <1>11, <2>1, GotoFacts DEF Delete, WillSettle
    <2>3. ClaimAccounted'
      BY <1>11, <2>1, <2>2, ErasedRow, ClaimKept DEF Delete
    <2> QED
      BY <1>3, <1>11, <2>3 DEF Delete
  <1>12. CASE Unbind(x)
    <2>1. calls[x].kind # "register" /\ calls[x].conn \in Conns
      BY <1>0, <1>12, CallFacts DEF Unbind, At
    <2>2. \A y \in Calls : y # x => calls'[y] = calls[y]
      BY <1>0, <1>12, ReturnFacts DEF Unbind
    <2>3. \A c \in Conns : \A y \in Calls : WillSettle(y, c) => WillSettle(y, c)'
      BY <2>1, <2>2 DEF WillSettle
    <2>4. ClaimAccounted'
      BY <1>12, <2>3, ClaimKept DEF Unbind
    <2>5. (RoutesLive /\ ReservationsLive)'
      BY <1>12, <2>1, <2>2, RouteDropped DEF Unbind
    <2> QED
      BY <2>4, <2>5
  <1>13. CASE StatementThrows(x)
    <2>1. CASE At(x, "register", "undo") /\ Goto(x, "release")
      <3>1. calls[x].conn \in Conns
        BY <1>0, <2>1, CallFacts DEF At
      <3>2. calls[x].at \notin {"authorize", "delete", "apply"}
        BY <2>1 DEF At
      <3>3. excused' = excused \cup {calls[x].conn} /\ UNCHANGED <<conn, row, routes>>
        BY <1>13, <3>2 DEF StatementThrows
      <3>4. \A c \in Conns \ excused' : \A y \in Calls : WillSettle(y, c) => WillSettle(y, c)'
        BY <1>0, <2>1, <3>3, GotoFacts DEF WillSettle
      <3> QED
        BY <1>3, <2>1, <3>3, <3>4, ClaimKept
    <2>2. CASE calls[x].at \in {"authorize", "delete", "apply"} /\ Return(x)
      <3>1. calls[x].kind # "register" /\ calls[x].conn \in Conns
        BY <1>0, <2>2, CallFacts
      <3>2. UNCHANGED <<conn, routes, excused>> /\ (UNCHANGED row \/ Erase(calls[x].conn))
        BY <1>13, <3>1 DEF StatementThrows, At
      <3>3. \A c \in Conns : \A y \in Calls : WillSettle(y, c) => WillSettle(y, c)'
        BY <1>0, <2>2, <3>1, ReturnFacts DEF WillSettle
      <3>4. ClaimAccounted'
        BY <3>1, <3>2, <3>3, ErasedRow, ClaimKept
      <3> QED
        BY <1>4, <2>2, <3>1, <3>2, <3>4
    <2> QED
      BY <1>13, <2>1, <2>2 DEF StatementThrows
  <1> QED
    BY <1>1, <1>2, <1>5, <1>6, <1>7, <1>8, <1>9, <1>10, <1>11, <1>12, <1>13 DEF Continue

LEMMA LeftRest ==
    ASSUME LeftInv,
           \/ \E c \in Conns : Close(c) \/ ReleaseClaims(c) \/ Vanish(c) \/ LapseOpen(c) \/ LapseUnrenewed(c)
           \/ \E s \in Servers : CrashServer(s)
           \/ SweepRow
           \/ \E w \in wakes : CheckWake(w) \/ PushWake(w) \/ ReapRoute(w)
    PROVE  (RoutesLive /\ ReservationsLive /\ ClaimAccounted)'
  <1>0. TypeOK
    BY DEF LeftInv
  <1> USE DEF messages
  <1>1. ASSUME NEW c \in Conns, Close(c) \/ Vanish(c) PROVE (RoutesLive /\ ReservationsLive /\ ClaimAccounted)'
    <2>1. /\ \A d \in Conns : d # c => conn'[d] = conn[d]
          /\ conn[c] \in {"open", "gone"} /\ conn'[c] # "closed"
          /\ UNCHANGED <<row, calls, excused>>
      BY <1>0, <1>1 DEF Close, Vanish, TypeOK
    <2>2. ClaimAccounted'
      BY <2>1, ClaimKept DEF WillSettle
    <2>3. CASE Close(c)
      BY <2>1, <2>2, <2>3, RouteDropped DEF Close
    <2>4. CASE Vanish(c)
      <3>1. conn'[c] = "gone"
        BY <1>0, <2>4 DEF Vanish, TypeOK
      <3> QED
        BY <2>1, <2>2, <2>4, <3>1, RoutesSame DEF Vanish
    <2> QED
      BY <1>1, <2>3, <2>4
  <1>2. ASSUME NEW c \in Conns, ReleaseClaims(c) PROVE (RoutesLive /\ ReservationsLive /\ ClaimAccounted)'
    <2>1. /\ \A d \in Conns : d # c => conn'[d] = conn[d]
          /\ conn[c] = "closing" /\ conn'[c] = "closed"
          /\ UNCHANGED calls /\ UNCHANGED routes /\ excused \subseteq excused'
      BY <1>0, <1>2 DEF ReleaseClaims, TypeOK
    <2>2. (RoutesLive /\ ReservationsLive)'
      BY <2>1, RoutesSame
    <2>3. ASSUME Erase(c) PROVE ClaimAccounted'
      <3> SUFFICES ASSUME NEW d \in Conns, row'.conn = d, conn'[d] = "closed", d \notin excused'
                   PROVE  \E x \in Calls : WillSettle(x, d)'
        BY DEF ClaimAccounted
      <3>1. d # c /\ row.conn = d
        BY <2>3, ErasedRow
      <3>2. PICK x \in Calls : WillSettle(x, d)
        BY <2>1, <3>1 DEF LeftInv, ClaimAccounted
      <3> QED
        BY <2>1, <3>2 DEF WillSettle
    <2>4. ASSUME c \in excused', UNCHANGED row PROVE ClaimAccounted'
      <3>1. \A d \in Conns : \A x \in Calls : WillSettle(x, d) => WillSettle(x, d)'
        BY <2>1 DEF WillSettle
      <3> QED
        BY <2>1, <2>4, <3>1, ClaimKept
    <2> QED
      BY <1>2, <2>2, <2>3, <2>4 DEF ReleaseClaims
  <1>3. ASSUME NEW s \in Servers, CrashServer(s) PROVE (RoutesLive /\ ReservationsLive /\ ClaimAccounted)'
    <2> DEFINE mine == {c \in Conns : Server[c] = s}
    <2>1. /\ \A c \in Conns \ mine : conn'[c] = conn[c]
          /\ \A t \in Servers : hub'[t] = IF t = s THEN NoBinding ELSE hub[t]
          /\ \A t \in Servers : reserved'[t] = IF t = s THEN NoBinding ELSE reserved[t]
          /\ \A x \in Calls : calls[x].conn \notin mine => calls'[x] = calls[x]
          /\ excused' = excused \cup mine /\ UNCHANGED row
      BY <1>0, <1>3 DEF CrashServer, TypeOK
    <2>2. \A t \in Servers \ {s} : hub[t] # NoBinding => hub[t].conn \in Conns \ mine
      BY <1>0, BindingFacts DEF LeftInv, RoutesLive
    <2>3. RoutesLive'
      <3> HIDE DEF mine
      <3> QED
        BY <2>1, <2>2 DEF LeftInv, RoutesLive
    <2>4. \A t \in Servers \ {s} : reserved[t] # NoBinding => hub[t] # NoBinding /\ reserved[t].attempt \in Calls
      BY <1>0, BindingFacts, ConstantsAssumption DEF LeftInv, ReservationsLive
    <2>5. ReservationsLive'
      <3> HIDE DEF mine
      <3>1. NoBinding.attempt \notin Calls
        BY ConstantsAssumption DEF NoBinding
      <3> QED
        BY <2>1, <2>2, <2>4, <3>1 DEF LeftInv, ReservationsLive
    <2>6. ClaimAccounted'
      <3> HIDE DEF mine
      <3>1. \A c \in Conns \ excused' : \A y \in Calls : WillSettle(y, c) => WillSettle(y, c)'
        BY <2>1 DEF WillSettle
      <3> QED
        BY <2>1, <3>1, ClaimKept
    <2> QED
      BY <2>3, <2>5, <2>6
  <1>4. ASSUME UNCHANGED <<conn, calls, routes, excused>>, row'.conn = row.conn \/ row'.conn \notin Conns
        PROVE  (RoutesLive /\ ReservationsLive /\ ClaimAccounted)'
    <2>1. (RoutesLive /\ ReservationsLive)'
      BY <1>4, RoutesSame
    <2> QED
      BY <1>4, <2>1, ClaimKept DEF WillSettle
  <1>5. ASSUME NEW c \in Conns, LapseOpen(c) \/ LapseUnrenewed(c) PROVE (RoutesLive /\ ReservationsLive /\ ClaimAccounted)'
    <2>1. row.live /\ row' = [row EXCEPT !.live = FALSE]
      BY <1>5 DEF LapseOpen, LapseUnrenewed, Lapse, Holds
    <2>2. row'.conn = row.conn
      BY <1>0, <2>1, RowTypes
    <2> QED
      BY <1>4, <1>5, <2>2 DEF LapseOpen, LapseUnrenewed, Lapse
  <1>6. CASE SweepRow
    <2>1. row'.conn \notin Conns
      BY <1>6, ConstantsAssumption DEF SweepRow, NoRow
    <2> QED
      BY <1>4, <1>6, <2>1 DEF SweepRow
  <1>7. ASSUME NEW w \in wakes, CheckWake(w) PROVE (RoutesLive /\ ReservationsLive /\ ClaimAccounted)'
    BY <1>4, <1>7 DEF CheckWake
  <1>8. ASSUME NEW w \in wakes, PushWake(w) \/ ReapRoute(w) PROVE (RoutesLive /\ ReservationsLive /\ ClaimAccounted)'
    <2>1. /\ w.conn \in Conns /\ UNCHANGED <<conn, row, calls, excused>>
          /\ UNCHANGED routes \/ DropRoute(w.conn)
      BY <1>0, <1>8 DEF PushWake, ReapRoute, TypeOK
    <2>2. CASE UNCHANGED routes
      BY <1>4, <2>1, <2>2
    <2>3. CASE DropRoute(w.conn)
      <3>1. (RoutesLive /\ ReservationsLive)'
        BY <2>1, <2>3, RouteDropped
      <3> QED
        BY <2>1, <3>1, ClaimKept DEF WillSettle
    <2> QED
      BY <2>1, <2>2, <2>3
  <1> QED
    BY <1>1, <1>2, <1>3, <1>5, <1>6, <1>7, <1>8

LEMMA LeftStep == LeftInv /\ [Next]_vars => LeftInv'
  <1> SUFFICES ASSUME LeftInv, [Next]_vars PROVE LeftInv'
    OBVIOUS
  <1>1. TypeOK'
    BY TypeStep DEF LeftInv
  <1>2. ASSUME UNCHANGED <<conn, row, routes, calls, excused>> PROVE (RoutesLive /\ ReservationsLive /\ ClaimAccounted)'
    <2>1. (RoutesLive /\ ReservationsLive)'
      BY <1>2, RoutesSame
    <2> QED
      BY <1>2, <2>1, ClaimKept DEF WillSettle
  <1>3. ASSUME NEW m \in Sends,
               Probe(m) \/ Replay(m) \/ Reject(m) \/ Lock(m) \/ Count(m) \/ Commit(m) \/ Abort(m) \/ Expire(m) \/ SweepInbox(m)
        PROVE  (RoutesLive /\ ReservationsLive /\ ClaimAccounted)'
    BY <1>2, <1>3 DEF Probe, Replay, Reject, Lock, Count, Commit, Abort, Expire, SweepInbox
  <1>4. ASSUME NEW h \in hints, TakeHint(h) PROVE (RoutesLive /\ ReservationsLive /\ ClaimAccounted)'
    BY <1>2, <1>4 DEF TakeHint
  <1>5. ASSUME UNCHANGED vars PROVE (RoutesLive /\ ReservationsLive /\ ClaimAccounted)'
    <2>1. UNCHANGED routes /\ UNCHANGED <<conn, row, calls, excused>>
      BY <1>5 DEF vars, routes
    <2> QED
      BY <1>2, <2>1
  <1>6. ASSUME \E x \in Calls :
                 \/ \E c \in Conns : Register(x, c) \/ Ask(x, c, "unregister") \/ Ask(x, c, "ack")
                 \/ Continue(x) \/ InsertThrows(x) \/ StatementThrows(x)
        PROVE  (RoutesLive /\ ReservationsLive /\ ClaimAccounted)'
    BY <1>6, LeftCalls
  <1>7. ASSUME \/ \E c \in Conns : Close(c) \/ ReleaseClaims(c) \/ Vanish(c) \/ LapseOpen(c) \/ LapseUnrenewed(c)
               \/ \E s \in Servers : CrashServer(s)
               \/ SweepRow
               \/ \E w \in wakes : CheckWake(w) \/ PushWake(w) \/ ReapRoute(w)
        PROVE  (RoutesLive /\ ReservationsLive /\ ClaimAccounted)'
    BY <1>7, LeftRest
  <1>8. (RoutesLive /\ ReservationsLive /\ ClaimAccounted)'
    BY <1>3, <1>4, <1>5, <1>6, <1>7 DEF Next
  <1> QED
    BY <1>1, <1>8 DEF LeftInv

(* A closed connection has no route, and no claim once its calls returned,     *)
(* unless a statement failed it; reservations and placeholders belong to calls *)
(* that are still registering.                                                 *)
THEOREM NothingStaysBehind == Spec => []NothingLeftBehind
  <1>1. LeftInv => NothingLeftBehind
    <2> SUFFICES ASSUME LeftInv PROVE NothingLeftBehind
      OBVIOUS
    <2>0. TypeOK
      BY DEF LeftInv
    <2>1. ASSUME NEW s \in Servers
          PROVE  /\ hub[s].conn # None => conn[hub[s].conn] \in {"open", "gone"}
                 /\ reserved[s].attempt \in Calls =>
                      /\ calls[reserved[s].attempt].conn = reserved[s].conn
                      /\ calls[reserved[s].attempt].kind = "register"
                      /\ hub[s].conn = reserved[s].conn
                 /\ hub[s].attempt \in Calls => reserved[s] = hub[s]
      BY <2>0, BindingFacts, ConstantsAssumption DEF LeftInv, RoutesLive, ReservationsLive
    <2>2. ASSUME NEW c \in Conns, conn[c] = "closed", ~InFlight(c), c \notin excused PROVE row.conn # c
      BY <2>2 DEF LeftInv, ClaimAccounted, InFlight, WillSettle
    <2> QED
      BY <2>1, <2>2 DEF NothingLeftBehind
  <1> QED
    BY <1>1, LeftInit, LeftStep, PTL DEF Spec

=============================================================================
