-------------------------- MODULE RecordSyncProofs --------------------------
(* Theorems about RecordSync and the clock and merge operators it is built    *)
(* from. TypeOK and ClockDominates are proved for any devices, items, clocks  *)
(* and bounds; NoEditLost, AppliedOnceInOrder and FieldsConverge provided     *)
(* that edits wait for a running cycle (StoreLock). What a pull leaves behind *)
(* is argued by the least number of pulled rows for which it could fail.      *)
EXTENDS RecordSync, WellFoundedInduction, TLAPS

---------------------------------------------------------------------------
(* The order of stamps *)

\* Any stamp, whether a device made it or not.
Stamp3 == [p : Int, l : Int, d : Int]

\* The order of stamps is a strict total order (compareHlc).
THEOREM StampOrder ==
    ASSUME NEW a \in Stamp3, NEW b \in Stamp3, NEW c \in Stamp3
    PROVE  /\ ~After(a, a)
           /\ After(a, b) /\ After(b, c) => After(a, c)
           /\ After(a, b) \/ After(b, a) \/ a = b
           /\ ~(After(a, b) /\ After(b, a))
BY DEF After, Stamp3

\* A local event is stamped after everything its device has stamped or absorbed,
\* whatever the wall clock reads, backwards included (hlcNow).
THEOREM NowIsLater ==
    ASSUME NEW c \in Stamp3, NEW w \in Int
    PROVE  HlcNow(c, w) \in Stamp3 /\ After(HlcNow(c, w), c)
BY DEF HlcNow, After, Larger, Stamp3

\* An event after a receive is stamped after the stamp that was received and
\* after the device's own last one (hlcReceive, then hlcNow).
THEOREM ReceivedIsEarlier ==
    ASSUME NEW c \in Stamp3, NEW r \in Stamp3, NEW w \in Int, NEW v \in Int
    PROVE  LET next == HlcNow(HlcReceive(c, r, w), v)
           IN  After(next, r) /\ After(next, c)
<1> DEFINE h == HlcReceive(c, r, w)
<1>1. h \in Stamp3
  BY DEF HlcReceive, Larger, Stamp3
<1>2. \/ h.p > r.p
      \/ h.p = r.p /\ h.l > r.l
  BY DEF HlcReceive, Larger, Stamp3
<1>3. \/ h.p > c.p
      \/ h.p = c.p /\ h.l > c.l
  BY DEF HlcReceive, Larger, Stamp3
<1>4. LET next == HlcNow(h, v) IN next.p > h.p \/ (next.p = h.p /\ next.l = h.l + 1)
  BY <1>1 DEF HlcNow, Larger, Stamp3
<1>5. HlcNow(h, v) \in Stamp3
  BY <1>1, NowIsLater
<1>6. After(HlcNow(h, v), r) /\ After(HlcNow(h, v), c)
  <2> HIDE DEF h
  <2> QED
    BY <1>1, <1>2, <1>3, <1>4, <1>5 DEF After, Stamp3
<1> QED
  BY <1>6

---------------------------------------------------------------------------
(* The merges *)

\* Any title with its history.
Text == [v : STRING, at : Stamp3, seen : SUBSET Stamp3]

\* Two replicas that merge the same two versions show the same title, whichever
\* of them each calls its own; equal stamps on different texts do not occur
\* (mergeText).
THEOREM TitleMergeAgrees ==
    ASSUME NEW a \in Text, NEW b \in Text, a.at = b.at => a.v = b.v
    PROVE  MergeText(a, b).value.v = MergeText(b, a).value.v
<1>1. CASE a.v = b.v
  <2>1. \A x \in Text : \A S : [x EXCEPT !.seen = S].v = x.v
    BY DEF Text
  <2>2. MergeText(a, b).value.v = a.v
    BY <1>1, <2>1 DEF MergeText
  <2>3. MergeText(b, a).value.v = a.v
    BY <1>1, <2>1 DEF MergeText
  <2> QED
    BY <2>2, <2>3
<1>2. CASE a.v # b.v
  <2>1. a.at # b.at /\ (After(a.at, b.at) <=> ~After(b.at, a.at))
    BY <1>2, StampOrder DEF Text
  <2>2. Observes(a, b.at) \in BOOLEAN /\ Observes(b, a.at) \in BOOLEAN
    BY DEF Observes
  <2>3. CASE Observes(b, a.at) # Observes(a, b.at)
    <3>1. MergeText(a, b).value = IF Observes(b, a.at) THEN b ELSE a
      BY <1>2, <2>1, <2>3 DEF MergeText
    <3>2. MergeText(b, a).value = IF Observes(a, b.at) THEN a ELSE b
      BY <1>2, <2>1, <2>3 DEF MergeText
    <3> QED
      BY <2>2, <2>3, <3>1, <3>2
  <2>4. CASE Observes(b, a.at) = Observes(a, b.at)
    <3>1. MergeText(a, b).value = IF After(b.at, a.at) THEN b ELSE a
      BY <1>2, <2>1, <2>4 DEF MergeText
    <3>2. MergeText(b, a).value = IF After(a.at, b.at) THEN a ELSE b
      BY <1>2, <2>1, <2>4 DEF MergeText
    <3> QED
      BY <2>1, <3>1, <3>2
  <2> QED
    BY <2>3, <2>4
<1> QED
  BY <1>1, <1>2

\* Two replicas that merge the same two versions agree on the completion, also
\* when the clocks are equal and only the devices differ (mergeCompletion).
THEOREM CompletionMergeAgrees ==
    ASSUME NEW a, NEW b, a.at \in Stamp3, b.at \in Stamp3, a.v \in BOOLEAN, b.v \in BOOLEAN
    PROVE  MergeCompletion(a, b).v = MergeCompletion(b, a).v
<1>1. CASE a.at.p = b.at.p /\ a.at.l = b.at.l
  BY <1>1 DEF MergeCompletion
<1>2. CASE ~(a.at.p = b.at.p /\ a.at.l = b.at.l)
  <2>1. After(a.at, b.at) <=> ~After(b.at, a.at)
    BY <1>2, StampOrder
  <2> QED
    BY <1>2, <2>1 DEF MergeCompletion
<1> QED
  BY <1>1, <1>2

---------------------------------------------------------------------------
(* No edit is lost *)

\* The fields of a device's file and of its counters, and the functions over
\* the devices: all the argument needs to know of the variables' types.
IsState(s) == DOMAIN s = {"clock", "items", "outbox", "retry", "cursor"}

Shape ==
    /\ DOMAIN disk = Devices /\ DOMAIN mem = Devices /\ DOMAIN phase = Devices
    /\ DOMAIN answer = Devices /\ DOMAIN count = Devices
    /\ \A d \in Devices :
         /\ IsState(disk[d]) /\ IsState(mem[d])
         /\ DOMAIN answer[d] = {"accepted", "rejected"}
         /\ DOMAIN count[d] = {"edits", "cycles", "retries", "max"}
         /\ count[d].edits \in Nat

\* Where an edit may be that has left the outbox of its device.
Settlements == receipts \cup shedKeys

\* What the server reports as accepted it has applied.
AnswersHonest == \A d \in Devices : answer[d].accepted \subseteq receipts

\* The copy a running cycle will write back misses nothing the file has, save
\* what has been settled.
CopyComplete ==
    \A d \in Devices : phase[d] # "idle" =>
        Keys(disk[d].outbox) \subseteq Keys(mem[d].outbox) \cup Settlements

\* The inductive invariant of NoEditLost.
Durable == Shape /\ AnswersHonest /\ CopyComplete /\ NoEditLost

\* Initially no edit was made.
LEMMA DurableInit == Init => Durable
<1> SUFFICES ASSUME Init PROVE Durable
  OBVIOUS
<1>1. Shape
  BY DEF Init, Shape, IsState, EmptyState, NoAnswer
<1>2. AnswersHonest
  BY DEF Init, AnswersHonest, NoAnswer
<1>3. CopyComplete
  BY DEF Init, CopyComplete
<1>4. NoEditLost
  BY DEF Init, NoEditLost
<1> QED
  BY <1>1, <1>2, <1>3, <1>4 DEF Durable

\* NoEditLost survives a step that settles every key it takes from an outbox.
LEMMA StillSomewhere ==
    ASSUME NoEditLost,
           \A d \in Devices : count'[d].edits = count[d].edits,
           \A d \in Devices : Keys(disk[d].outbox) \subseteq Keys(disk'[d].outbox) \cup Settlements',
           Settlements \subseteq Settlements'
    PROVE  NoEditLost'
BY DEF NoEditLost, Settlements

\* A local edit: the file gains an operation under the next number.
LEMMA CommitKeepsDurable ==
    ASSUME Durable, NEW d \in Devices, NEW i \in Items, NEW item, NEW kind, NEW at, NEW text, NEW flag,
           phase[d] = "idle", Commit(d, i, item, kind, at, text, flag)
    PROVE  Durable'
<1> USE DEF Durable
<1> DEFINE key == <<d, count[d].edits + 1, i>>
<1>1. /\ Keys(disk'[d].outbox) = Keys(disk[d].outbox) \cup {key}
      /\ IsState(disk'[d])
      /\ \A e \in Devices : e # d => disk'[e] = disk[e]
      /\ DOMAIN disk' = Devices
  <2> DEFINE op == [key |-> key, item |-> i, kind |-> kind, at |-> at, text |-> text, flag |-> flag]
  <2>1. DOMAIN disk = Devices /\ DOMAIN disk[d] = {"clock", "items", "outbox", "retry", "cursor"}
    BY DEF Shape, IsState
  <2>2. disk' = [disk EXCEPT ![d].clock = at, ![d].items[i] = item, ![d].outbox = @ \cup {op}]
    BY DEF Commit
  <2> HIDE DEF op
  <2>3. /\ disk'[d].outbox = disk[d].outbox \cup {op}
        /\ DOMAIN disk'[d] = DOMAIN disk[d]
    BY <2>1, <2>2
  <2>4. DOMAIN disk' = Devices /\ \A e \in Devices : e # d => disk'[e] = disk[e]
    BY <2>1, <2>2
  <2>5. op.key = key
    BY DEF op
  <2>6. Keys(disk[d].outbox \cup {op}) = Keys(disk[d].outbox) \cup {key}
    BY <2>5 DEF Keys
  <2> QED
    BY <2>1, <2>3, <2>4, <2>6 DEF IsState
<1>2. /\ count'[d].edits = count[d].edits + 1
      /\ DOMAIN count'[d] = {"edits", "cycles", "retries", "max"}
      /\ \A e \in Devices : e # d => count'[e] = count[e]
      /\ DOMAIN count' = Devices
  BY DEF Commit, Shape
<1>3. UNCHANGED <<mem, phase, answer, receipts, shedKeys>>
  BY DEF Commit, syncVars, serverVars
<1>4. Shape'
  BY <1>1, <1>2, <1>3 DEF Shape
<1>5. AnswersHonest'
  BY <1>3 DEF AnswersHonest
<1>6. CopyComplete'
  BY <1>1, <1>3 DEF CopyComplete, Settlements
<1>7. NoEditLost'
  <2> SUFFICES ASSUME NEW e \in Devices, NEW n \in 1..count'[e].edits
               PROVE  \E k \in Keys(disk'[e].outbox) \cup receipts' \cup shedKeys' : k[1] = e /\ k[2] = n
    BY DEF NoEditLost
  <2>1. CASE e = d /\ n = count[d].edits + 1
    <3>1. key \in Keys(disk'[e].outbox) /\ key[1] = e /\ key[2] = n
      BY <1>1, <2>1
    <3> QED
      BY <3>1
  <2>2. CASE ~(e = d /\ n = count[d].edits + 1)
    <3>1. n \in 1..count[e].edits
      BY <1>2, <2>2 DEF Shape
    <3> QED
      BY <1>1, <1>3, <3>1 DEF NoEditLost
  <2> QED
    BY <2>1, <2>2
<1> QED
  BY <1>4, <1>5, <1>6, <1>7

\* A cycle that ends with a copy that misses nothing but what is settled.
LEMMA FinishKeepsDurable ==
    ASSUME Durable, NEW d \in Devices, NEW state, IsState(state),
           Keys(disk[d].outbox) \subseteq Keys(state.outbox) \cup Settlements,
           Finish(d, state)
    PROVE  Durable'
<1> USE DEF Durable
<1>1. /\ disk'[d] = state /\ DOMAIN disk' = Devices
      /\ \A e \in Devices : e # d => disk'[e] = disk[e] /\ mem'[e] = mem[e]
      /\ phase'[d] = "idle"
      /\ \A e \in Devices : e # d => phase'[e] = phase[e] /\ answer'[e] = answer[e]
      /\ answer'[d].accepted = {}
  BY DEF Finish, Shape, NoAnswer
<1>2. UNCHANGED <<count, receipts, shedKeys>> /\ Settlements' = Settlements
  BY DEF Finish, serverVars, Settlements
<1>3. Shape'
  BY <1>1, <1>2 DEF Shape, Finish, IsState, EmptyState, NoAnswer
<1>4. AnswersHonest'
  BY <1>1, <1>2 DEF AnswersHonest
<1>5. CopyComplete'
  BY <1>1, <1>2 DEF CopyComplete
<1>6. NoEditLost'
  BY <1>1, <1>2, StillSomewhere
<1> QED
  BY <1>3, <1>4, <1>5, <1>6

\* Every step keeps it, when edits wait for a running cycle.
LEMMA DurableStep == StoreLock /\ Durable /\ [Next]_vars => Durable'
<1> SUFFICES ASSUME StoreLock, Durable, [Next]_vars PROVE Durable'
  OBVIOUS
<1> USE DEF Durable
<1>1. CASE UNCHANGED vars
  BY <1>1 DEF vars, Shape, AnswersHonest, CopyComplete, NoEditLost, Settlements
<1> SUFFICES ASSUME Next PROVE Durable'
  BY <1>1
<1> PICK d \in Devices :
        \/ \E i \in Items :
             \/ \E v \in Titles[d] : AddItem(d, i, v) \/ SetTitle(d, i, v)
             \/ \E b \in Flags[d] : SetCompleted(d, i, b)
             \/ DeleteItem(d, i)
             \/ \E b \in BOOLEAN : ResolveTitle(d, i, b) \/ ResolveDeleted(d, i, b)
        \/ \E key \in Keys(disk[d].outbox) : RequestRetry(d, key)
        \/ BeginSync(d)
        \/ PullFails(d)
        \/ PullAnswers(d)
        \/ PushAnswers(d)
        \/ PushFails(d)
        \/ Crash(d)
        \/ \E r \in requests : \E op \in r.ops : r.d = d /\ ServeOperation(r, op)
  BY Zenon DEF Next
<1>2. ASSUME NEW i \in Items, NEW v, AddItem(d, i, v) \/ SetTitle(d, i, v) PROVE Durable'
  BY <1>2, CommitKeepsDurable DEF AddItem, SetTitle, MayEdit, Unlocked
<1>3. ASSUME NEW i \in Items, NEW b, SetCompleted(d, i, b) PROVE Durable'
  BY <1>3, CommitKeepsDurable DEF SetCompleted, MayEdit, Unlocked
<1>4. ASSUME NEW i \in Items, DeleteItem(d, i) PROVE Durable'
  BY <1>4, CommitKeepsDurable DEF DeleteItem, MayEdit, Unlocked
<1>5. ASSUME NEW i \in Items, NEW b, ResolveTitle(d, i, b) \/ ResolveDeleted(d, i, b) PROVE Durable'
  BY <1>5, CommitKeepsDurable DEF ResolveTitle, ResolveDeleted, MayEdit, Unlocked
<1>6. ASSUME NEW key, RequestRetry(d, key) PROVE Durable'
  <2>1. /\ IsState(disk'[d]) /\ disk'[d].outbox = disk[d].outbox
        /\ \A e \in Devices : e # d => disk'[e] = disk[e]
        /\ DOMAIN disk' = Devices
    BY <1>6 DEF RequestRetry, Shape, IsState
  <2>2. /\ \A e \in Devices : count'[e].edits = count[e].edits
        /\ Shape'
    BY <1>6, <2>1 DEF RequestRetry, Shape, syncVars
  <2>3. UNCHANGED <<mem, phase, answer, receipts, shedKeys>>
    BY <1>6 DEF RequestRetry, syncVars, serverVars
  <2>4. AnswersHonest' /\ CopyComplete'
    BY <2>1, <2>3 DEF AnswersHonest, CopyComplete, Settlements
  <2>5. NoEditLost'
    BY <2>1, <2>2, <2>3, StillSomewhere DEF Settlements
  <2> QED
    BY <2>2, <2>4, <2>5
<1>7. CASE BeginSync(d)
  <2>1. /\ IsState(mem'[d]) /\ Keys(mem'[d].outbox) = Keys(Shed(disk[d].outbox))
        /\ \A e \in Devices : e # d => mem'[e] = mem[e] /\ phase'[e] = phase[e]
    BY <1>7 DEF BeginSync, Shape, IsState
  <2>2. \A e \in Devices : count'[e].edits = count[e].edits
    BY <1>7 DEF BeginSync, Shape
  <2>3. Shape'
    BY <1>7, <2>1 DEF BeginSync, Shape, serverVars
  <2>4. Settlements' = Settlements \cup (Keys(disk[d].outbox) \ Keys(Shed(disk[d].outbox)))
    BY <1>7 DEF BeginSync, Settlements, serverVars
  <2>5. UNCHANGED <<disk, answer, receipts>>
    BY <1>7 DEF BeginSync, serverVars
  <2>6. AnswersHonest'
    BY <2>5 DEF AnswersHonest
  <2>7. CopyComplete'
    BY <2>1, <2>4, <2>5 DEF CopyComplete
  <2>8. NoEditLost'
    BY <2>2, <2>4, <2>5, StillSomewhere
  <2> QED
    BY <2>3, <2>6, <2>7, <2>8
<1>8. CASE PullFails(d)
  BY <1>8, FinishKeepsDurable DEF PullFails, Shape, CopyComplete
<1>9. CASE PullAnswers(d)
  <2> DEFINE state == Absorb(d, mem[d])
  <2>1. IsState(state) /\ state.outbox = mem[d].outbox
    BY DEF Absorb, Shape, IsState
  <2>2. Keys(disk[d].outbox) \subseteq Keys(state.outbox) \cup Settlements
    BY <1>9, <2>1 DEF PullAnswers, CopyComplete
  <2>3. CASE Finish(d, state)
    BY <2>1, <2>2, <2>3, FinishKeepsDurable
  <2>4. CASE ~Finish(d, state)
    <3>1. /\ mem' = [mem EXCEPT ![d] = state]
          /\ phase' = [phase EXCEPT ![d] = "push"]
          /\ UNCHANGED <<disk, answer, receipts, shedKeys, count>>
      BY <1>9, <2>4 DEF PullAnswers
    <3> HIDE DEF state
    <3>2. Shape'
      BY <2>1, <3>1 DEF Shape
    <3>3. AnswersHonest' /\ CopyComplete'
      BY <2>2, <3>1 DEF AnswersHonest, CopyComplete, Shape, Settlements
    <3>4. NoEditLost'
      BY <3>1 DEF NoEditLost
    <3> QED
      BY <3>2, <3>3, <3>4
  <2> QED
    BY <2>3, <2>4
<1>10. CASE PushAnswers(d)
  <2> DEFINE state == [mem[d] EXCEPT !.outbox = Acknowledge(@, answer[d].accepted),
                                     !.retry = @ \ Keys(batch[d])]
  <2>1. IsState(state) /\ state.outbox = Acknowledge(mem[d].outbox, answer[d].accepted)
    BY DEF Shape, IsState
  <2>2. Keys(mem[d].outbox) \subseteq Keys(state.outbox) \cup Settlements
    BY <2>1 DEF Keys, Acknowledge, Settlements, AnswersHonest
  <2>3. Keys(disk[d].outbox) \subseteq Keys(state.outbox) \cup Settlements
    BY <1>10, <2>2 DEF PushAnswers, CopyComplete
  <2>4. Finish(d, state)
    BY <1>10 DEF PushAnswers
  <2> QED
    BY <2>1, <2>3, <2>4, FinishKeepsDurable
<1>11. CASE PushFails(d)
  <2> DEFINE state == [mem[d] EXCEPT !.retry = @ \ Keys(batch[d])]
  <2>1. IsState(state) /\ state.outbox = mem[d].outbox
    BY DEF Shape, IsState
  <2>2. Keys(disk[d].outbox) \subseteq Keys(state.outbox) \cup Settlements
    BY <1>11, <2>1 DEF PushFails, CopyComplete
  <2>3. Finish(d, state)
    BY <1>11 DEF PushFails
  <2> QED
    BY <2>1, <2>2, <2>3, FinishKeepsDurable
<1>12. CASE Crash(d)
  <2>1. Shape' /\ UNCHANGED <<disk, receipts, shedKeys, count>>
    BY <1>12 DEF Crash, Shape, IsState, EmptyState, NoAnswer, serverVars
  <2>2. AnswersHonest' /\ CopyComplete'
    BY <1>12, <2>1 DEF Crash, AnswersHonest, CopyComplete, NoAnswer, Shape, Settlements
  <2>3. NoEditLost'
    BY <2>1 DEF NoEditLost
  <2> QED
    BY <2>1, <2>2, <2>3
<1>13. ASSUME NEW r \in requests, NEW op \in r.ops, r.d = d, ServeOperation(r, op) PROVE Durable'
  <2>1. receipts \subseteq receipts' /\ UNCHANGED <<disk, mem, phase, shedKeys, count>>
    BY <1>13 DEF ServeOperation
  <2>2. /\ \A e \in Devices : e # d => answer'[e] = answer[e]
        /\ answer'[d].accepted \subseteq answer[d].accepted \cup receipts'
        /\ DOMAIN answer' = Devices /\ DOMAIN answer'[d] = {"accepted", "rejected"}
    BY <1>13 DEF ServeOperation, Shape
  <2>3. Shape'
    BY <2>1, <2>2 DEF Shape
  <2>4. AnswersHonest' /\ CopyComplete'
    BY <2>1, <2>2 DEF AnswersHonest, CopyComplete, Settlements
  <2>5. NoEditLost'
    BY <2>1, StillSomewhere DEF Settlements
  <2> QED
    BY <2>3, <2>4, <2>5
<1> QED
  BY <1>2, <1>3, <1>4, <1>5, <1>6, <1>7, <1>8, <1>9, <1>10, <1>11, <1>12, <1>13

\* When edits wait for a running cycle, no edit is lost: it is in its device's
\* file, or the server has applied it, or shedding has announced that it is gone,
\* for any number of devices, cycles, crashes and lost or late pushes.
THEOREM EditsAreKept == StoreLock => (Spec => []NoEditLost)
<1> SUFFICES ASSUME StoreLock PROVE Spec => []NoEditLost
  OBVIOUS
<1>1. Durable /\ [Next]_vars => Durable'
  BY DurableStep
<1>2. Durable => NoEditLost
  BY DEF Durable
<1> QED
  BY DurableInit, <1>1, <1>2, PTL DEF Spec

---------------------------------------------------------------------------
(* Operations are applied once and in order *)

\* Where the keys of device d's edits are: still in its file, or settled.
Home(d) == Keys(disk[d].outbox) \cup {k \in Settlements : k[1] = d}

\* The keys the server has applied or may yet apply.
Handed == receipts \cup UNION {Keys(r.ops) : r \in requests}

\* What a queued operation of device d looks like.
Queued(d, op) == op.key \in KeyType /\ op.key[1] = d /\ op.key[3] = op.item

\* Every queue holds its own device's operations, every key that is anywhere is
\* at home, and no key is above its device's count of edits.
Numbered ==
    /\ Settlements \subseteq KeyType
    /\ \A d \in Devices :
         /\ \A op \in disk[d].outbox \cup mem[d].outbox : Queued(d, op)
         /\ Keys(mem[d].outbox) \subseteq Home(d)
         /\ \A k \in Home(d) : k[2] <= count[d].edits
    /\ \A r \in requests :
         DOMAIN r = {"d", "cycle", "ops"} /\ r.d \in Devices /\ Keys(r.ops) \subseteq Home(r.d)

\* Whatever was handed to the server found its record's older edits settled.
EarlierSettled ==
    \A d \in Devices, a \in Handed : \A k \in Home(d) :
        a[1] = d /\ k[3] = a[3] /\ k[2] < a[2] => k \in Settlements

\* The history of the server is the history of its receipts.
AppliedHere ==
    /\ applied \in [Devices -> Seq(KeyType)]
    /\ \A d \in Devices : \A n \in DOMAIN applied[d] : applied[d][n] \in receipts /\ applied[d][n][1] = d

\* The inductive invariant of AppliedOnceInOrder, over Durable.
QueueInv == Numbered /\ EarlierSettled /\ AppliedHere /\ AppliedOnceInOrder

\* Initially nothing is queued.
LEMMA QueueInit == Init => QueueInv
<1> SUFFICES ASSUME Init PROVE QueueInv
  OBVIOUS
<1>1. /\ Settlements = {} /\ Handed = {} /\ requests = {}
      /\ \A d \in Devices : disk[d].outbox = {} /\ mem[d].outbox = {} /\ Home(d) = {}
  BY DEF Init, EmptyState, Settlements, Handed, Home, Keys
<1>2. Numbered
  BY <1>1 DEF Numbered, Keys
<1>3. EarlierSettled
  BY <1>1 DEF EarlierSettled
<1>4. applied = [d \in Devices |-> <<>>] /\ <<>> \in Seq(KeyType)
  BY DEF Init
<1>5. AppliedHere /\ AppliedOnceInOrder
  BY <1>4 DEF AppliedHere, AppliedOnceInOrder
<1> QED
  BY <1>2, <1>3, <1>5 DEF QueueInv

\* A step that hands nothing to the server and makes no edit.
LEMMA QueueKept ==
    ASSUME QueueInv,
           \A d \in Devices :
             /\ disk'[d].outbox \cup mem'[d].outbox \subseteq disk[d].outbox \cup mem[d].outbox
             /\ Keys(mem'[d].outbox) \subseteq Home(d)
             /\ Home(d)' = Home(d)
             /\ count'[d].edits = count[d].edits,
           Settlements \subseteq Settlements', Settlements' \subseteq KeyType, shedKeys \subseteq shedKeys',
           UNCHANGED <<applied, requests, receipts>>
    PROVE  QueueInv'
<1> USE DEF QueueInv
<1>1. Numbered'
  BY DEF Numbered, Queued
<1>2. Handed' = Handed
  BY DEF Handed
<1>3. EarlierSettled'
  BY <1>2 DEF EarlierSettled
<1>4. AppliedHere'
  BY DEF AppliedHere
<1>5. AppliedOnceInOrder'
  BY DEF AppliedOnceInOrder
<1> QED
  BY <1>1, <1>3, <1>4, <1>5

\* A cycle that ends: its queue holds part of the copy's, and misses only what
\* is settled.
LEMMA FinishKeepsQueue ==
    ASSUME Shape, QueueInv, NEW d \in Devices, NEW state, IsState(state),
           state.outbox \subseteq mem[d].outbox,
           Keys(disk[d].outbox) \subseteq Keys(state.outbox) \cup Settlements,
           Finish(d, state)
    PROVE  QueueInv'
<1>1. /\ disk'[d] = state /\ mem'[d] = EmptyState(d)
      /\ \A e \in Devices : e # d => disk'[e] = disk[e] /\ mem'[e] = mem[e]
  BY DEF Finish, Shape
<1>2. UNCHANGED <<count, receipts, shedKeys, applied, requests>> /\ Settlements' = Settlements
  BY DEF Finish, serverVars, Settlements
<1>3. Keys(state.outbox) \subseteq Keys(mem[d].outbox) /\ Keys(mem[d].outbox) \subseteq Home(d)
  BY DEF Keys, QueueInv, Numbered
<1>4. \A k \in Keys(disk[d].outbox) : k[1] = d
  BY DEF Keys, QueueInv, Numbered, Queued
<1>5. Home(d)' = Home(d)
  BY <1>1, <1>2, <1>3, <1>4 DEF Home
<1>6. \A e \in Devices : e # d => Home(e)' = Home(e)
  BY <1>1, <1>2 DEF Home
<1>7. mem'[d].outbox = {} /\ Keys({}) = {}
  BY <1>1 DEF EmptyState, Keys
<1>8. Settlements' \subseteq KeyType /\ \A e \in Devices : Keys(mem[e].outbox) \subseteq Home(e)
  BY <1>2 DEF QueueInv, Numbered
<1> QED
  BY <1>1, <1>2, <1>5, <1>6, <1>7, <1>8, QueueKept

\* A key that was handed to the server is at home with its device.
LEMMA HandedIsHome ==
    ASSUME QueueInv
    PROVE  \A a \in Handed : a \in KeyType /\ a[1] \in Devices /\ a \in Home(a[1])
<1>1. \A d \in Devices : \A k \in Home(d) : k \in KeyType /\ k[1] = d
  BY DEF QueueInv, Numbered, Queued, Home, Keys
<1>2. ASSUME NEW a \in receipts PROVE a \in KeyType /\ a[1] \in Devices /\ a \in Home(a[1])
  <2>1. a \in Settlements /\ a \in KeyType
    BY <1>2 DEF QueueInv, Numbered, Settlements
  <2> QED
    BY <2>1 DEF KeyType, Home
<1>3. ASSUME NEW r \in requests, NEW a \in Keys(r.ops) PROVE a \in KeyType /\ a[1] \in Devices /\ a \in Home(a[1])
  <2>1. r.d \in Devices /\ a \in Home(r.d)
    BY <1>3 DEF QueueInv, Numbered
  <2> QED
    BY <1>1, <2>1
<1> QED
  BY <1>2, <1>3 DEF Handed

\* A local edit takes a number above every key there is.
LEMMA CommitKeepsQueue ==
    ASSUME Shape, QueueInv, NEW d \in Devices, NEW i \in Items, NEW item, NEW kind, NEW at, NEW text, NEW flag,
           Commit(d, i, item, kind, at, text, flag)
    PROVE  QueueInv'
<1> USE DEF QueueInv
<1> DEFINE n == count[d].edits + 1
           key == <<d, n, i>>
           op == [key |-> key, item |-> i, kind |-> kind, at |-> at, text |-> text, flag |-> flag]
<1>0. count[d].edits \in Nat
  BY DEF Shape
<1>1. key \in KeyType /\ key[1] = d /\ key[2] = n /\ key[3] = i /\ Queued(d, op) /\ op.key = key
  BY <1>0 DEF KeyType, Queued
<1>2. /\ disk' = [disk EXCEPT ![d].clock = at, ![d].items[i] = item, ![d].outbox = @ \cup {op}]
      /\ count' = [count EXCEPT ![d].edits = n]
      /\ UNCHANGED <<mem, requests, receipts, shedKeys, applied>>
  BY DEF Commit, syncVars, serverVars
<1> HIDE DEF op
<1>3. /\ disk'[d].outbox = disk[d].outbox \cup {op}
      /\ \A e \in Devices : e # d => disk'[e] = disk[e]
      /\ count'[d].edits = n
      /\ \A e \in Devices : e # d => count'[e] = count[e]
  BY <1>2 DEF Shape, IsState
<1>4. Settlements' = Settlements /\ Handed' = Handed
  BY <1>2 DEF Settlements, Handed
<1>5. Home(d)' = Home(d) \cup {key} /\ \A e \in Devices : e # d => Home(e)' = Home(e)
  BY <1>1, <1>3, <1>4 DEF Home, Keys
<1> HIDE DEF key, n
<1>6. Numbered'
  <2>1. \A e \in Devices : \A o \in disk'[e].outbox \cup mem'[e].outbox : Queued(e, o)
    BY <1>1, <1>2, <1>3 DEF Numbered
  <2>2. \A e \in Devices : Keys(mem'[e].outbox) \subseteq Home(e)'
    BY <1>2, <1>5 DEF Numbered
  <2>3. \A e \in Devices : \A k \in Home(e)' : k[2] <= count'[e].edits
    <3>1. \A k \in Home(d) : k[2] <= n
      <4>1. \A k \in Home(d) : k[2] \in Nat /\ k[2] <= count[d].edits
        BY DEF Numbered, Queued, Home, Keys, KeyType
      <4> QED
        BY <1>0, <4>1 DEF n
    <3>2. key[2] <= n
      BY <1>0, <1>1 DEF n
    <3> QED
      BY <1>3, <1>5, <3>1, <3>2 DEF Numbered
  <2>4. \A r \in requests' :
          DOMAIN r = {"d", "cycle", "ops"} /\ r.d \in Devices /\ Keys(r.ops) \subseteq Home(r.d)'
    BY <1>2, <1>5 DEF Numbered
  <2>5. Settlements' \subseteq KeyType
    BY <1>4 DEF Numbered
  <2> QED
    BY <2>1, <2>2, <2>3, <2>4, <2>5 DEF Numbered
<1>7. EarlierSettled'
  <2> SUFFICES ASSUME NEW e \in Devices, NEW a \in Handed, NEW k \in Home(e)', a[1] = e, k[3] = a[3], k[2] < a[2]
               PROVE  k \in Settlements
    BY <1>4 DEF EarlierSettled
  <2>1. CASE k \in Home(e)
    BY <2>1 DEF EarlierSettled
  <2>2. CASE e = d /\ k = key
    <3>1. a \in Home(d) /\ a \in KeyType
      BY <2>2, HandedIsHome
    <3>2. a[2] \in Nat /\ a[2] <= count[d].edits
      BY <3>1 DEF Numbered, KeyType
    <3> QED
      BY <1>0, <1>1, <2>2, <3>2 DEF n
  <2> QED
    BY <1>5, <2>1, <2>2
<1>8. AppliedHere'
  BY <1>2 DEF AppliedHere
<1>9. AppliedOnceInOrder'
  BY <1>2 DEF AppliedOnceInOrder
<1> QED
  BY <1>6, <1>7, <1>8, <1>9

\* A cycle that pushes: of every record it sends the oldest edit in its copy, and
\* what is older than that has been settled.
LEMMA SendKeepsQueue ==
    ASSUME Durable, QueueInv, NEW d \in Devices, phase[d] = "pull", NEW state, NEW ops, NEW c,
           state.outbox = mem[d].outbox, ops \subseteq Heads(state.outbox),
           mem' = [mem EXCEPT ![d] = state],
           requests' = requests \cup {[d |-> d, cycle |-> c, ops |-> ops]},
           UNCHANGED <<disk, receipts, applied, shedKeys, count>>
    PROVE  QueueInv'
<1> USE DEF QueueInv
<1>1. \A e \in Devices : mem'[e].outbox = mem[e].outbox
  BY DEF Durable, Shape
<1>2. Settlements' = Settlements /\ \A e \in Devices : Home(e)' = Home(e)
  BY DEF Settlements, Home
<1>3. Keys(ops) \subseteq Keys(mem[d].outbox)
  BY DEF Heads, Keys
<1>4. Keys(mem[d].outbox) \subseteq Home(d)
  BY DEF Numbered
<1>5. Numbered'
  <2> DEFINE r == [d |-> d, cycle |-> c, ops |-> ops]
  <2>1. DOMAIN r = {"d", "cycle", "ops"} /\ r.d = d /\ r.ops = ops
    OBVIOUS
  <2> HIDE DEF r
  <2>2. requests' = requests \cup {r}
    BY DEF r
  <2> QED
    BY <1>1, <1>2, <1>3, <1>4, <2>1, <2>2 DEF Numbered
<1>6. Handed' = Handed \cup Keys(ops)
  <2> DEFINE r == [d |-> d, cycle |-> c, ops |-> ops]
  <2>1. r.ops = ops
    OBVIOUS
  <2> HIDE DEF r
  <2>2. requests' = requests \cup {r}
    BY DEF r
  <2>3. UNION {Keys(q.ops) : q \in requests'} = (UNION {Keys(q.ops) : q \in requests}) \cup Keys(ops)
    BY <2>1, <2>2
  <2> QED
    BY <2>3 DEF Handed
<1>7. ASSUME NEW a \in Keys(ops), NEW k \in Home(d), k[3] = a[3], k[2] < a[2] PROVE k \in Settlements
  <2>1. PICK op \in Heads(mem[d].outbox) : op.key = a
    BY DEF Keys
  <2>2. Queued(d, op) /\ op \in mem[d].outbox
    BY <2>1 DEF Heads, Numbered
  <2>3. k \notin Keys(mem[d].outbox)
    <3> SUFFICES ASSUME NEW o \in mem[d].outbox, o.key = k PROVE FALSE
      BY DEF Keys
    <3>1. o.item = op.item
      BY <1>7, <2>1, <2>2 DEF Numbered, Queued
    <3>2. op.key[2] <= o.key[2]
      BY <2>1, <3>1 DEF Heads
    <3>3. op.key[2] \in Nat /\ o.key[2] \in Nat
      BY <2>2 DEF Numbered, Queued, KeyType
    <3> QED
      BY <1>7, <2>1, <3>2, <3>3
  <2>4. k \in Keys(disk[d].outbox) \cup Settlements
    BY DEF Home
  <2> QED
    BY <2>3, <2>4 DEF Durable, CopyComplete
<1>8. \A a \in Keys(ops) : a[1] = d
  BY <1>3 DEF Keys, Numbered, Queued
<1>9. EarlierSettled'
  <2> SUFFICES ASSUME NEW e \in Devices, NEW a \in Handed', NEW k \in Home(e), a[1] = e, k[3] = a[3], k[2] < a[2]
               PROVE  k \in Settlements
    BY <1>2 DEF EarlierSettled
  <2>1. CASE a \in Handed
    BY <2>1 DEF EarlierSettled
  <2>2. CASE a \in Keys(ops)
    <3>1. e = d
      BY <1>8, <2>2
    <3> QED
      BY <1>7, <2>2, <3>1
  <2> QED
    BY <1>6, <2>1, <2>2
<1>10. AppliedHere' /\ AppliedOnceInOrder'
  BY DEF AppliedHere, AppliedOnceInOrder
<1> QED
  BY <1>5, <1>9, <1>10

\* The server takes one operation of a request: a key with a receipt changes
\* nothing, and a key without one comes after its record's older edits, or was shed.
LEMMA ServeKeepsQueue ==
    ASSUME Durable, QueueInv, NEW r \in requests, NEW op \in r.ops, ServeOperation(r, op)
    PROVE  QueueInv'
<1> USE DEF QueueInv
<1> DEFINE k == op.key
           d == r.d
<1>1. d \in Devices /\ k \in Home(d) /\ k \in KeyType /\ k[1] = d /\ k \in Handed
  BY HandedIsHome DEF Numbered, Handed, Keys, Home, Queued
<1>2. /\ UNCHANGED <<disk, mem, count, shedKeys, phase>>
      /\ receipts \subseteq receipts' /\ receipts' \subseteq receipts \cup {k}
      /\ \/ applied' = applied
         \/ k \notin receipts /\ k \in receipts' /\ applied' = [applied EXCEPT ![d] = Append(@, k)]
  BY DEF ServeOperation
<1>3. \A q \in requests' : q \in requests \/ q = [r EXCEPT !.ops = @ \ {op}]
  BY DEF ServeOperation
<1> HIDE DEF k, d
<1>4. /\ Settlements \subseteq Settlements' /\ Settlements' \subseteq Settlements \cup {k}
      /\ \A e \in Devices : Home(e)' = Home(e)
  <2>1. Settlements \subseteq Settlements' /\ Settlements' \subseteq Settlements \cup {k}
    BY <1>2 DEF Settlements
  <2>2. \A e \in Devices : Home(e)' = Home(e)
    BY <1>1, <1>2, <2>1 DEF Home
  <2> QED
    BY <2>1, <2>2
<1>5. \A q \in requests' : /\ DOMAIN q = {"d", "cycle", "ops"}
                           /\ \E p \in requests : q.d = p.d /\ q.ops \subseteq p.ops
  <2> SUFFICES ASSUME NEW q \in requests'
               PROVE  DOMAIN q = {"d", "cycle", "ops"} /\ \E p \in requests : q.d = p.d /\ q.ops \subseteq p.ops
    OBVIOUS
  <2>1. CASE q \in requests
    BY <2>1 DEF Numbered
  <2>2. CASE q = [r EXCEPT !.ops = @ \ {op}]
    <3>1. DOMAIN r = {"d", "cycle", "ops"}
      BY DEF Numbered
    <3>2. DOMAIN q = {"d", "cycle", "ops"} /\ q.d = r.d /\ q.ops = r.ops \ {op}
      BY <2>2, <3>1
    <3> QED
      BY <3>2
  <2> QED
    BY <1>3, <2>1, <2>2
<1>6. Numbered'
  <2>1. \A q \in requests' :
          DOMAIN q = {"d", "cycle", "ops"} /\ q.d \in Devices /\ Keys(q.ops) \subseteq Home(q.d)'
    <3> SUFFICES ASSUME NEW q \in requests' PROVE q.d \in Devices /\ Keys(q.ops) \subseteq Home(q.d)
      BY <1>4, <1>5
    <3>1. PICK p \in requests : q.d = p.d /\ q.ops \subseteq p.ops
      BY <1>5
    <3>2. p.d \in Devices /\ Keys(p.ops) \subseteq Home(p.d)
      BY DEF Numbered
    <3> QED
      BY <3>1, <3>2 DEF Keys
  <2>2. Settlements' \subseteq KeyType
    BY <1>1, <1>4 DEF Numbered
  <2> QED
    BY <1>2, <1>4, <2>1, <2>2 DEF Numbered
<1>7. Handed' \subseteq Handed
  <2>1. UNION {Keys(q.ops) : q \in requests'} \subseteq UNION {Keys(q.ops) : q \in requests}
    BY <1>5 DEF Keys
  <2> QED
    BY <1>1, <1>2, <2>1 DEF Handed
<1>8. EarlierSettled'
  BY <1>4, <1>7 DEF EarlierSettled
<1>9. CASE applied' = applied
  BY <1>2, <1>6, <1>8, <1>9 DEF AppliedHere, AppliedOnceInOrder
<1>10. CASE k \notin receipts /\ k \in receipts' /\ applied' = [applied EXCEPT ![d] = Append(@, k)]
  <2> DEFINE old == applied[d]
             new == applied'[d]
  <2>1. old \in Seq(KeyType) /\ applied \in [Devices -> Seq(KeyType)]
    BY <1>1 DEF AppliedHere
  <2>2. new = Append(old, k) /\ \A e \in Devices : e # d => applied'[e] = applied[e]
    BY <1>1, <1>10, <2>1
  <2>3. /\ new \in Seq(KeyType) /\ DOMAIN new = 1..Len(old) + 1 /\ DOMAIN old = 1..Len(old)
        /\ Len(old) \in Nat
        /\ new[Len(old) + 1] = k
        /\ \A m \in 1..Len(old) : new[m] = old[m]
    BY <1>1, <2>1, <2>2
  <2> HIDE DEF old, new
  <2>4. AppliedHere'
    <3>1. applied' \in [Devices -> Seq(KeyType)]
      BY <1>1, <1>10, <2>1, <2>2, <2>3 DEF old, new
    <3>2. ASSUME NEW e \in Devices, NEW m \in DOMAIN applied'[e]
          PROVE  applied'[e][m] \in receipts' /\ applied'[e][m][1] = e
      <4>1. CASE e # d
        BY <1>2, <2>2, <4>1 DEF AppliedHere
      <4>2. CASE e = d /\ m \in 1..Len(old)
        BY <1>2, <2>3, <4>2 DEF AppliedHere, old, new
      <4>3. CASE e = d /\ m = Len(old) + 1
        BY <1>1, <1>10, <2>3, <4>3 DEF new
      <4> QED
        BY <2>3, <3>2, <4>1, <4>2, <4>3 DEF new
    <3> QED
      BY <3>1, <3>2 DEF AppliedHere
  <2>5. ASSUME NEW m \in 1..Len(old), old[m][3] = k[3]
        PROVE  old[m][2] < k[2] \/ (k \in shedKeys /\ old[m] # k)
    <3>1. old[m] \in receipts /\ old[m][1] = d /\ old[m] \in KeyType
      BY <1>1, <2>1, <2>3 DEF AppliedHere, old
    <3>2. old[m] # k /\ old[m] \in Handed
      BY <1>10, <3>1 DEF Handed
    <3>3. old[m][2] \in Nat /\ k[2] \in Nat
      BY <1>1, <3>1 DEF KeyType
    <3>4. old[m][2] # k[2]
      <4>1. \A x, y \in KeyType : x[1] = y[1] /\ x[2] = y[2] /\ x[3] = y[3] => x = y
        BY DEF KeyType
      <4> QED
        BY <1>1, <2>5, <3>1, <3>2, <4>1
    <3>5. CASE k[2] < old[m][2]
      <4>1. k \in Settlements
        BY <1>1, <2>5, <3>1, <3>2, <3>5 DEF EarlierSettled
      <4> QED
        BY <1>10, <3>2, <4>1 DEF Settlements
    <3> QED
      BY <3>3, <3>4, <3>5
  <2>6. AppliedOnceInOrder'
    <3> SUFFICES ASSUME NEW e \in Devices, NEW m \in DOMAIN applied'[e], NEW n \in DOMAIN applied'[e],
                        m < n, applied'[e][m][3] = applied'[e][n][3]
                 PROVE  \/ applied'[e][m][2] < applied'[e][n][2]
                        \/ applied'[e][n] \in shedKeys /\ applied'[e][m] # applied'[e][n]
      BY <1>2 DEF AppliedOnceInOrder
    <3>1. CASE e # d
      BY <2>2, <3>1 DEF AppliedOnceInOrder
    <3>2. CASE e = d
      <4>1. m \in 1..Len(old) + 1 /\ n \in 1..Len(old) + 1
        BY <2>3, <3>2 DEF new
      <4>2. CASE n = Len(old) + 1
        <5>1. m \in 1..Len(old)
          BY <2>3, <4>1, <4>2
        <5> QED
          BY <2>3, <2>5, <3>2, <4>2, <5>1 DEF new
      <4>3. CASE n # Len(old) + 1
        <5>1. m \in 1..Len(old) /\ n \in 1..Len(old)
          BY <2>3, <4>1, <4>3
        <5>2. applied'[e][m] = applied[e][m] /\ applied'[e][n] = applied[e][n]
          BY <2>3, <3>2, <5>1 DEF old, new
        <5>3. m \in DOMAIN applied[e] /\ n \in DOMAIN applied[e]
          BY <2>3, <3>2, <5>1 DEF old
        <5> QED
          BY <5>2, <5>3 DEF AppliedOnceInOrder
      <4> QED
        BY <4>2, <4>3
    <3> QED
      BY <3>1, <3>2
  <2> QED
    BY <1>6, <1>8, <2>4, <2>6
<1> QED
  BY <1>2, <1>9, <1>10

\* A decision is a local edit like any other.
LEMMA DecisionsCommit ==
    ASSUME NEW d, NEW i, NEW b, ResolveTitle(d, i, b) \/ ResolveDeleted(d, i, b)
    PROVE  \E item, kind, at, text, flag : Commit(d, i, item, kind, at, text, flag)
<1>1. ASSUME NEW item, NEW kind, NEW at, NEW text, NEW flag, Commit(d, i, item, kind, at, text, flag)
      PROVE  \E it, k, a, t, f : Commit(d, i, it, k, a, t, f)
  BY <1>1
<1> QED
  BY Zenon, <1>1 DEF ResolveTitle, ResolveDeleted

\* Every step keeps it, when edits wait for a running cycle.
LEMMA QueueStep == StoreLock /\ Durable /\ QueueInv /\ [Next]_vars => QueueInv'
<1> SUFFICES ASSUME StoreLock, Durable, QueueInv, [Next]_vars PROVE QueueInv'
  OBVIOUS
<1>0. Shape /\ \A e \in Devices : IsState(mem[e]) /\ Keys(mem[e].outbox) \subseteq Home(e)
  BY DEF Durable, Shape, QueueInv, Numbered
<1>1. CASE UNCHANGED vars
  <2>1. \A e \in Devices : Home(e)' = Home(e)
    BY <1>1 DEF vars, Home, Settlements
  <2>2. Settlements' = Settlements /\ Settlements \subseteq KeyType
    BY <1>1 DEF vars, Settlements, QueueInv, Numbered
  <2> QED
    BY <1>0, <1>1, <2>1, <2>2, QueueKept DEF vars
<1> SUFFICES ASSUME Next PROVE QueueInv'
  BY <1>1
<1> PICK d \in Devices :
        \/ \E i \in Items :
             \/ \E v \in Titles[d] : AddItem(d, i, v) \/ SetTitle(d, i, v)
             \/ \E b \in Flags[d] : SetCompleted(d, i, b)
             \/ DeleteItem(d, i)
             \/ \E b \in BOOLEAN : ResolveTitle(d, i, b) \/ ResolveDeleted(d, i, b)
        \/ \E key \in Keys(disk[d].outbox) : RequestRetry(d, key)
        \/ BeginSync(d)
        \/ PullFails(d)
        \/ PullAnswers(d)
        \/ PushAnswers(d)
        \/ PushFails(d)
        \/ Crash(d)
        \/ \E r \in requests : \E op \in r.ops : r.d = d /\ ServeOperation(r, op)
  BY Zenon DEF Next
<1>2. ASSUME NEW i \in Items, NEW v, AddItem(d, i, v) \/ SetTitle(d, i, v) PROVE QueueInv'
  BY <1>0, <1>2, CommitKeepsQueue DEF AddItem, SetTitle
<1>3. ASSUME NEW i \in Items, NEW b, SetCompleted(d, i, b) PROVE QueueInv'
  BY <1>0, <1>3, CommitKeepsQueue DEF SetCompleted
<1>4. ASSUME NEW i \in Items, DeleteItem(d, i) PROVE QueueInv'
  BY <1>0, <1>4, CommitKeepsQueue DEF DeleteItem
<1>5. ASSUME NEW i \in Items, NEW b, ResolveTitle(d, i, b) \/ ResolveDeleted(d, i, b) PROVE QueueInv'
  <2>1. PICK item, kind, at, text, flag : Commit(d, i, item, kind, at, text, flag)
    BY <1>5, DecisionsCommit
  <2> QED
    BY <1>0, <2>1, CommitKeepsQueue
<1>6. ASSUME NEW key, RequestRetry(d, key) PROVE QueueInv'
  <2>1. \A e \in Devices : disk'[e].outbox = disk[e].outbox /\ count'[e].edits = count[e].edits
    BY <1>0, <1>6 DEF RequestRetry, Shape, IsState
  <2>2. UNCHANGED <<mem, applied, requests, receipts, shedKeys>>
    BY <1>6 DEF RequestRetry, syncVars, serverVars
  <2>3. Settlements' = Settlements /\ Settlements \subseteq KeyType
    BY <2>2 DEF Settlements, QueueInv, Numbered
  <2>4. \A e \in Devices : Home(e)' = Home(e)
    BY <2>1, <2>3 DEF Home
  <2> QED
    BY <1>0, <2>1, <2>2, <2>3, <2>4, QueueKept
<1>7. CASE BeginSync(d)
  <2>1. /\ mem'[d].outbox = Shed(disk[d].outbox) /\ \A e \in Devices : e # d => mem'[e] = mem[e]
        /\ \A e \in Devices : count'[e].edits = count[e].edits
    BY <1>0, <1>7 DEF BeginSync, Shape, IsState
  <2>2. UNCHANGED <<disk, applied, requests, receipts>>
    BY <1>7 DEF BeginSync, serverVars
  <2>3. Shed(disk[d].outbox) \subseteq disk[d].outbox
    BY DEF Shed
  <2>4. shedKeys' = shedKeys \cup (Keys(disk[d].outbox) \ Keys(Shed(disk[d].outbox)))
    BY <1>7 DEF BeginSync
  <2>5. /\ Settlements \subseteq Settlements'
        /\ Settlements' \subseteq Settlements \cup Keys(disk[d].outbox)
    BY <2>2, <2>4 DEF Settlements
  <2>6. \A k \in Keys(disk[d].outbox) : k \in KeyType /\ k[1] = d
    BY DEF Keys, QueueInv, Numbered, Queued
  <2>7. \A e \in Devices : Home(e)' = Home(e)
    BY <2>2, <2>5, <2>6 DEF Home
  <2>8. Settlements' \subseteq KeyType
    BY <2>5, <2>6 DEF QueueInv, Numbered
  <2>9. Keys(mem'[d].outbox) \subseteq Home(d)
    BY <2>1, <2>3 DEF Keys, Home
  <2> QED
    BY <1>0, <2>1, <2>2, <2>3, <2>4, <2>5, <2>7, <2>8, <2>9, QueueKept
<1>8. CASE PullFails(d)
  BY <1>0, <1>8, FinishKeepsQueue DEF PullFails, Durable, CopyComplete
<1>9. CASE PullAnswers(d)
  <2> DEFINE state == Absorb(d, mem[d])
             ops == NextBatch(state.outbox, state.retry)
  <2>1. IsState(state) /\ state.outbox = mem[d].outbox
    BY <1>0 DEF Absorb, IsState
  <2>2. phase[d] = "pull" /\ Keys(disk[d].outbox) \subseteq Keys(state.outbox) \cup Settlements
    BY <1>9, <2>1 DEF PullAnswers, Durable, CopyComplete
  <2>3. CASE Finish(d, state)
    BY <1>0, <2>1, <2>2, <2>3, FinishKeepsQueue
  <2>4. CASE ~Finish(d, state)
    <3>1. /\ mem' = [mem EXCEPT ![d] = state]
          /\ requests' = requests \cup {[d |-> d, cycle |-> count[d].cycles, ops |-> ops]}
          /\ UNCHANGED <<disk, receipts, applied, shedKeys, count>>
      BY <1>9, <2>4 DEF PullAnswers
    <3>2. ops \subseteq Heads(state.outbox)
      BY DEF NextBatch
    <3> HIDE DEF state, ops
    <3> QED
      BY <2>1, <2>2, <3>1, <3>2, SendKeepsQueue
  <2> QED
    BY <2>3, <2>4
<1>10. CASE PushAnswers(d)
  <2> DEFINE state == [mem[d] EXCEPT !.outbox = Acknowledge(@, answer[d].accepted),
                                     !.retry = @ \ Keys(batch[d])]
  <2>1. IsState(state) /\ state.outbox = Acknowledge(mem[d].outbox, answer[d].accepted)
    BY <1>0 DEF IsState
  <2>2. state.outbox \subseteq mem[d].outbox /\ Keys(mem[d].outbox) \subseteq Keys(state.outbox) \cup Settlements
    BY <2>1 DEF Keys, Acknowledge, Settlements, Durable, AnswersHonest
  <2>3. Keys(disk[d].outbox) \subseteq Keys(state.outbox) \cup Settlements
    BY <1>10, <2>2 DEF PushAnswers, Durable, CopyComplete
  <2>4. Finish(d, state)
    BY <1>10 DEF PushAnswers
  <2> HIDE DEF state
  <2> QED
    BY <1>0, <2>1, <2>2, <2>3, <2>4, FinishKeepsQueue
<1>11. CASE PushFails(d)
  <2> DEFINE state == [mem[d] EXCEPT !.retry = @ \ Keys(batch[d])]
  <2>1. IsState(state) /\ state.outbox = mem[d].outbox
    BY <1>0 DEF IsState
  <2>2. Keys(disk[d].outbox) \subseteq Keys(state.outbox) \cup Settlements
    BY <1>11, <2>1 DEF PushFails, Durable, CopyComplete
  <2>3. Finish(d, state)
    BY <1>11 DEF PushFails
  <2> HIDE DEF state
  <2> QED
    BY <1>0, <2>1, <2>2, <2>3, FinishKeepsQueue
<1>12. CASE Crash(d)
  <2>1. /\ UNCHANGED <<disk, applied, requests, receipts, shedKeys, count>>
        /\ mem'[d] = EmptyState(d) /\ \A e \in Devices : e # d => mem'[e] = mem[e]
    BY <1>0, <1>12 DEF Crash, Shape, serverVars
  <2>2. mem'[d].outbox = {} /\ Keys({}) = {}
    BY <2>1 DEF EmptyState, Keys
  <2>3. Settlements' = Settlements /\ Settlements \subseteq KeyType
    BY <2>1 DEF Settlements, QueueInv, Numbered
  <2>4. \A e \in Devices : Home(e)' = Home(e)
    BY <2>1, <2>3 DEF Home
  <2> QED
    BY <1>0, <2>1, <2>2, <2>3, <2>4, QueueKept
<1>13. ASSUME NEW r \in requests, NEW op \in r.ops, ServeOperation(r, op) PROVE QueueInv'
  BY <1>13, ServeKeepsQueue
<1> QED
  BY <1>2, <1>3, <1>4, <1>5, <1>6, <1>7, <1>8, <1>9, <1>10, <1>11, <1>12, <1>13

\* When edits wait for a running cycle, the server applies every operation once,
\* and those of one device on one record in the order they were made (nextBatch,
\* applyPushOperations), for any number of devices, records, lost or late pushes,
\* crashes and requested retries; an operation shed while on its way may be late.
THEOREM OperationsInOrder == StoreLock => (Spec => []AppliedOnceInOrder)
<1> SUFFICES ASSUME StoreLock PROVE Spec => []AppliedOnceInOrder
  OBVIOUS
<1>1. Durable /\ [Next]_vars => Durable'
  BY DurableStep
<1>2. Durable /\ QueueInv /\ [Next]_vars => QueueInv'
  BY QueueStep
<1>3. QueueInv => AppliedOnceInOrder
  BY DEF QueueInv
<1> QED
  BY DurableInit, QueueInit, <1>1, <1>2, <1>3, PTL DEF Spec

(* Types *)

\* The stamps of the model are among those the laws of the clock speak of.
LEMMA StampTypes ==
    /\ Stamps \subseteq Stamp3 /\ NoStamp \in Stamps
    /\ \A d \in Devices : Clocks(d) \subseteq Stamps
<1>1. Devices \subseteq Nat
  BY ConstantsAssumption
<1>2. NoStamp \in Stamp3
  BY DEF NoStamp, Stamp3
<1>3. ASSUME NEW s \in [p : Nat, l : Nat, d : Devices] PROVE s \in Stamp3
  <2>1. s.p \in Nat /\ s.l \in Nat /\ s.d \in Devices /\ s = [p |-> s.p, l |-> s.l, d |-> s.d]
    OBVIOUS
  <2>2. s.d \in Nat
    BY <1>1, <2>1
  <2> QED
    BY <2>1, <2>2 DEF Stamp3
<1>4. \A d \in Devices : Clocks(d) \subseteq [p : Nat, l : Nat, d : Devices]
  BY DEF Clocks
<1> QED
  BY <1>2, <1>3, <1>4 DEF Stamps

\* A clock stays a clock of its device, whatever it is given to absorb.
LEMMA ClockTypes ==
    ASSUME NEW d \in Devices, NEW c \in Clocks(d), NEW r, r.p \in Int, r.l \in Nat, NEW w \in Nat
    PROVE  HlcNow(c, w) \in Clocks(d) /\ HlcReceive(c, r, w) \in Clocks(d)
<1>1. c.p \in Nat /\ c.l \in Nat /\ c.d = d
  BY DEF Clocks
<1>2. HlcNow(c, w) \in Clocks(d)
  BY <1>1 DEF HlcNow, Larger, Clocks
<1>3. HlcReceive(c, r, w) \in Clocks(d)
  BY <1>1 DEF HlcReceive, Larger, Clocks
<1> QED
  BY <1>2, <1>3

\* Absorbing a stamp puts the clock after it and after where it was.
LEMMA ReceiveIsLater ==
    ASSUME NEW d \in Devices, NEW c \in Clocks(d), NEW r, r.p \in Int, r.l \in Nat, r.d \in Int, NEW w \in Nat
    PROVE  After(HlcReceive(c, r, w), r) /\ After(HlcReceive(c, r, w), c)
<1>1. c.p \in Nat /\ c.l \in Nat /\ c.d = d /\ d \in Nat
  BY ConstantsAssumption DEF Clocks
<1> QED
  BY <1>1 DEF HlcReceive, Larger, After

\* The newest of a set of stamps, one stamp at a time.
HasLatest(S) == S \subseteq Stamps /\ \E s \in S : \A r \in S : ~After(r, s)

\* One stamp is its own latest.
LEMMA LatestOfOne == ASSUME NEW s \in Stamps PROVE HasLatest({s})
BY StampTypes, StampOrder DEF HasLatest

\* A set that has a latest stamp has one with another stamp added.
LEMMA LatestOfMore ==
    ASSUME NEW S, HasLatest(S), NEW x \in Stamps
    PROVE  HasLatest(S \cup {x})
<1>1. PICK s \in S : \A r \in S : ~After(r, s)
  BY DEF HasLatest
<1>2. S \subseteq Stamp3 /\ x \in Stamp3 /\ s \in Stamp3 /\ S \cup {x} \subseteq Stamps
  BY StampTypes DEF HasLatest
<1>3. CASE After(x, s)
  <2>1. \A r \in S \cup {x} : ~After(r, x)
    BY <1>1, <1>2, <1>3, StampOrder
  <2> QED
    BY <1>2, <2>1 DEF HasLatest
<1>4. CASE ~After(x, s)
  BY <1>1, <1>2, <1>4 DEF HasLatest
<1> QED
  BY <1>3, <1>4

\* Latest chooses a stamp of the set that none of the set is after.
LEMMA LatestIs ==
    ASSUME NEW S, HasLatest(S)
    PROVE  Latest(S) \in S /\ Latest(S) \in Stamps /\ \A r \in S : ~After(r, Latest(S))
BY DEF HasLatest, Latest

\* Any four stamps have a latest.
LEMMA LatestOfFour ==
    ASSUME NEW a \in Stamps, NEW b \in Stamps, NEW c \in Stamps, NEW e \in Stamps
    PROVE  HasLatest({a, b, c, e})
<1>1. HasLatest({a} \cup {b})
  BY LatestOfOne, LatestOfMore
<1>2. HasLatest({a} \cup {b} \cup {c})
  BY <1>1, LatestOfMore
<1>3. HasLatest({a} \cup {b} \cup {c} \cup {e})
  BY <1>2, LatestOfMore
<1>4. {a} \cup {b} \cup {c} \cup {e} = {a, b, c, e}
  OBVIOUS
<1> QED
  BY <1>3, <1>4

\* An item nobody has heard of is well formed.
LEMMA NoItemType == NoItem \in ItemType /\ NoConflict \in Conflicts
<1>0. NoText \in Words
  BY DEF Words
<1>1. NoConflict \in Conflicts
  BY <1>0, StampTypes DEF NoConflict, Conflicts
<1>2. [v |-> NoText, at |-> NoStamp, seen |-> {}] \in Texts
  BY <1>0, StampTypes DEF Texts
<1> QED
  BY <1>1, <1>2, StampTypes DEF NoItem, ItemType

\* What ItemStamps collects are stamps.
LEMMA StampsOfItem == ASSUME NEW x \in ItemType PROVE ItemStamps(x) \subseteq Stamps
BY DEF ItemType, ItemStamps, Texts, Conflicts

\* newestPlannerItemStamp names a stamp of the item that no other is after.
LEMMA NewestIs ==
    ASSUME NEW x \in ItemType
    PROVE  NewestItemStamp(x) \in Stamps /\ \A s \in ItemStamps(x) : ~After(s, NewestItemStamp(x))
<1> DEFINE S4 == {x.title.at, x.done.at, x.del, x.titleRes}
           S5 == S4 \cup {x.delRes.at}
           S6 == S5 \cup {x.cTitle.oursAt}
           S7 == S6 \cup {x.cTitle.theirsAt}
           S8 == S7 \cup {x.cDel.oursAt}
           S9 == S8 \cup {x.cDel.theirsAt}
<1>1. ItemStamps(x) \subseteq Stamps
  BY StampsOfItem
<1>2. ItemStamps(x) = S9
  BY DEF ItemStamps
<1>3. HasLatest(S4)
  BY <1>1, LatestOfFour DEF ItemStamps
<1>4. /\ x.delRes.at \in Stamps /\ x.cTitle.oursAt \in Stamps /\ x.cTitle.theirsAt \in Stamps
      /\ x.cDel.oursAt \in Stamps /\ x.cDel.theirsAt \in Stamps
  BY <1>1 DEF ItemStamps
<1> HIDE DEF S4
<1>5. HasLatest(S5)
  BY <1>3, <1>4, LatestOfMore
<1> HIDE DEF S5
<1>6. HasLatest(S6)
  BY <1>5, <1>4, LatestOfMore
<1> HIDE DEF S6
<1>7. HasLatest(S7)
  BY <1>6, <1>4, LatestOfMore
<1> HIDE DEF S7
<1>8. HasLatest(S8)
  BY <1>7, <1>4, LatestOfMore
<1> HIDE DEF S8
<1>9. HasLatest(S9)
  BY <1>8, <1>4, LatestOfMore
<1> HIDE DEF S9
<1>10. NewestItemStamp(x) = Latest(S9)
  BY <1>2 DEF NewestItemStamp
<1> QED
  BY <1>2, <1>9, <1>10, LatestIs

\* A merged text is one of the two, with its stamp; the marker names their stamps.
LEMMA MergedText ==
    ASSUME NEW a \in Texts, NEW b \in Texts
    PROVE  LET m == MergeText(a, b) IN
           /\ m.value \in Texts
           /\ \/ m.value.at = a.at /\ m.value.v = a.v
              \/ m.value.at = b.at /\ m.value.v = b.v
           /\ m.conflict \in Conflicts
           /\ m.conflict.oursAt \in {NoStamp, a.at} /\ m.conflict.theirsAt \in {NoStamp, b.at}
<1> DEFINE winner == IF After(b.at, a.at) THEN b ELSE a
           frontier == CausalFrontier({a.at, b.at} \cup a.seen \cup b.seen)
           both == [winner EXCEPT !.seen = frontier]
           marker == [ours |-> a.v, theirs |-> b.v, oursAt |-> a.at, theirsAt |-> b.at]
<1>1. NoConflict \in Conflicts /\ NoConflict.oursAt = NoStamp /\ NoConflict.theirsAt = NoStamp
  BY NoItemType DEF NoConflict
<1>2. /\ marker \in Conflicts /\ marker.oursAt = a.at /\ marker.theirsAt = b.at
      /\ frontier \in SUBSET Stamps
  BY DEF Texts, Conflicts, CausalFrontier
<1>3. both \in Texts /\ both.at = winner.at /\ both.v = winner.v
  <2> HIDE DEF frontier
  <2> QED
    BY <1>2 DEF Texts
<1>4. \/ MergeText(a, b) \in {[value |-> x, conflict |-> NoConflict] : x \in {both, a, b}}
      \/ MergeText(a, b) = [value |-> winner, conflict |-> marker]
  BY DEF MergeText
<1> HIDE DEF both, marker, frontier
<1> QED
  BY <1>1, <1>2, <1>3, <1>4

\* The title of a merge is the title of one of the two sides.
LEMMA MergedTitle ==
    ASSUME NEW o \in ItemType, NEW t \in ItemType
    PROVE  LET m == MergeTitle(o, t) IN
           /\ m.value \in Texts
           /\ \/ m.value.at = o.title.at /\ m.value.v = o.title.v
              \/ m.value.at = t.title.at /\ m.value.v = t.title.v
           /\ m.conflict \in Conflicts
           /\ m.conflict.oursAt \in {NoStamp, o.title.at} /\ m.conflict.theirsAt \in {NoStamp, t.title.at}
<1>1. o.title \in Texts /\ t.title \in Texts
  BY DEF ItemType
<1>2. NoConflict \in Conflicts /\ NoConflict.oursAt = NoStamp /\ NoConflict.theirsAt = NoStamp
  BY NoItemType DEF NoConflict
<1>3. \/ MergeTitle(o, t) = MergeText(o.title, t.title)
      \/ MergeTitle(o, t) \in {[value |-> x, conflict |-> NoConflict] : x \in {o.title, t.title}}
  BY DEF MergeTitle
<1> QED
  BY <1>1, <1>2, <1>3, MergedText

\* A merge writes what one side has: an item, and no stamp but theirs.
LEMMA MergedItem ==
    ASSUME NEW o \in ItemType, NEW t \in ItemType
    PROVE  LET m == MergeItem(o, t) IN
           /\ m \in ItemType
           /\ m.title = MergeTitle(o, t).value
           /\ m.done = MergeCompletion(o.done, t.done) /\ m.done \in {o.done, t.done}
           /\ m.del \in {NoStamp, o.del, t.del, o.delRes.at, t.delRes.at}
           /\ m.titleRes = Later(o.titleRes, t.titleRes) /\ m.delRes \in {o.delRes, t.delRes}
           /\ ItemStamps(m) \subseteq ItemStamps(o) \cup ItemStamps(t) \cup {NoStamp}
<1> DEFINE title   == MergeTitle(o, t)
           res     == Later(o.titleRes, t.titleRes)
           marker  == IF title.conflict # NoConflict THEN title.conflict
                      ELSE IF t.cTitle # NoConflict THEN t.cTitle ELSE o.cTitle
           four    == {title.value.at, o.done.at, t.title.at, t.done.at}
           newest  == Latest(four)
           tomb    == Later(o.del, t.del)
           edited  == tomb # NoStamp /\ After(newest, tomb)
           buried  == IF edited THEN NoStamp ELSE tomb
           delRes  == IF After(t.delRes.at, o.delRes.at) THEN t.delRes ELSE o.delRes
           decided == /\ delRes.at # NoStamp
                      /\ ~After(buried, delRes.at)
                      /\ edited => After(delRes.at, tomb) /\ After(delRes.at, newest)
           del     == IF decided THEN IF delRes.deleted THEN delRes.at ELSE NoStamp ELSE buried
           cTitle  == IF Settled(res, marker) THEN NoConflict ELSE marker
           cDel    == IF edited /\ ~decided
                      THEN [NoConflict EXCEPT !.oursAt = tomb, !.theirsAt = newest]
                      ELSE NoConflict
           done    == MergeCompletion(o.done, t.done)
           m       == MergeItem(o, t)
<1>1. m = [title |-> title.value, done |-> done, del |-> del, titleRes |-> res, delRes |-> delRes,
           cTitle |-> cTitle, cDel |-> cDel]
  BY DEF MergeItem
<1>2. /\ title.value \in Texts /\ title.value.at \in {o.title.at, t.title.at}
      /\ title.conflict \in Conflicts
      /\ title.conflict.oursAt \in {NoStamp, o.title.at} /\ title.conflict.theirsAt \in {NoStamp, t.title.at}
  BY MergedTitle
<1>3. done \in {o.done, t.done}
  BY DEF MergeCompletion
<1>4. /\ o.title.at \in Stamps /\ t.title.at \in Stamps /\ o.done.at \in Stamps /\ t.done.at \in Stamps
      /\ o.del \in Stamps /\ t.del \in Stamps /\ o.delRes.at \in Stamps /\ t.delRes.at \in Stamps
      /\ NoStamp \in Stamps
  BY StampTypes DEF ItemType, Texts
<1>5. newest \in four /\ newest \in Stamps
  <2>1. HasLatest(four)
    BY <1>2, <1>4, LatestOfFour
  <2> HIDE DEF four
  <2> QED
    BY <2>1, LatestIs
<1>6. tomb \in {o.del, t.del} /\ res \in {o.titleRes, t.titleRes} /\ delRes \in {o.delRes, t.delRes}
  BY DEF Later
<1>7. NoConflict \in Conflicts /\ NoConflict.oursAt = NoStamp /\ NoConflict.theirsAt = NoStamp
  BY NoItemType DEF NoConflict
<1>8. marker \in Conflicts /\ marker \in {title.conflict, t.cTitle, o.cTitle}
  BY <1>2 DEF ItemType
<1> HIDE DEF title, marker, newest, tomb, res, delRes
<1>9. del \in {NoStamp, o.del, t.del, o.delRes.at, t.delRes.at}
  BY <1>6
<1>10. cTitle \in Conflicts /\ cTitle \in {NoConflict, title.conflict, t.cTitle, o.cTitle}
  BY <1>7, <1>8
<1>11. /\ cDel \in Conflicts
       /\ cDel.oursAt \in {NoStamp, o.del, t.del}
       /\ cDel.theirsAt \in {NoStamp, title.value.at, o.done.at, t.title.at, t.done.at}
  <2>1. CASE cDel = NoConflict
    BY <1>7, <2>1
  <2>2. CASE cDel = [NoConflict EXCEPT !.oursAt = tomb, !.theirsAt = newest]
    <3>1. DOMAIN NoConflict = {"ours", "theirs", "oursAt", "theirsAt"}
      BY DEF NoConflict
    <3>2. cDel.oursAt = tomb /\ cDel.theirsAt = newest
      BY <2>2, <3>1
    <3>3. cDel \in Conflicts
      BY <1>4, <1>5, <1>6, <1>7, <2>2 DEF Conflicts
    <3> QED
      BY <1>5, <1>6, <3>2, <3>3
  <2> QED
    BY <2>1, <2>2
<1> HIDE DEF del, cTitle, cDel, done
<1>12. m \in ItemType
  <2>1. done \in [v : BOOLEAN, at : Stamps] /\ del \in Stamps /\ res \in Stamps
        /\ delRes \in [deleted : BOOLEAN, at : Stamps]
    BY <1>3, <1>4, <1>6, <1>9 DEF ItemType
  <2> QED
    BY <1>1, <1>2, <1>10, <1>11, <2>1 DEF ItemType
<1>13. ItemStamps(m) \subseteq ItemStamps(o) \cup ItemStamps(t) \cup {NoStamp}
  <2>1. ItemStamps(m) = {title.value.at, done.at, del, res, delRes.at, cTitle.oursAt, cTitle.theirsAt,
                         cDel.oursAt, cDel.theirsAt}
    BY <1>1 DEF ItemStamps
  <2> DEFINE All == ItemStamps(o) \cup ItemStamps(t) \cup {NoStamp}
  <2>2. {o.title.at, t.title.at, o.done.at, t.done.at, o.del, t.del, o.delRes.at, t.delRes.at, o.titleRes,
         t.titleRes, o.cTitle.oursAt, o.cTitle.theirsAt, t.cTitle.oursAt, t.cTitle.theirsAt, NoStamp} \subseteq All
    BY DEF ItemStamps
  <2> HIDE DEF All
  <2>3. title.value.at \in All /\ done.at \in All /\ del \in All /\ res \in All /\ delRes.at \in All
    BY <1>2, <1>3, <1>6, <1>9, <2>2
  <2>4. cTitle.oursAt \in All /\ cTitle.theirsAt \in All
    BY <1>2, <1>7, <1>10, <2>2
  <2>5. cDel.oursAt \in All /\ cDel.theirsAt \in All
    BY <1>2, <1>11, <2>2
  <2> QED
    BY <2>1, <2>3, <2>4, <2>5 DEF All
<1> HIDE DEF m
<1>14. /\ m.title = title.value /\ m.done = done /\ m.del = del /\ m.titleRes = res /\ m.delRes = delRes
  BY <1>1
<1> QED
  BY <1>3, <1>6, <1>9, <1>12, <1>13, <1>14 DEF m, title, done, res

\* A set with 0 and the successors of its members holds every natural number: the
\* least number outside it would be neither.
LEMMA AllNaturals ==
    ASSUME NEW S, 0 \in S, \A n \in Nat : n \in S => n + 1 \in S
    PROVE  Nat \subseteq S
<1> DEFINE T == Nat \ S
           R == OpToRel(<, Nat)
<1>0. \A x, y \in Nat : <<x, y>> \in R <=> x < y
  BY DEF OpToRel
<1> SUFFICES ASSUME T # {} PROVE FALSE
  OBVIOUS
<1>1. IsWellFoundedOn(R, Nat)
  BY NatLessThanWellFounded
<1>2. T \subseteq Nat
  OBVIOUS
<1>3. \E x \in T : \A y \in T : ~(<<y, x>> \in R)
  <2> HIDE DEF T, R
  <2> QED
    BY <1>1, <1>2, WFMin
<1>4. PICK x \in T : \A y \in T : ~(y < x)
  BY <1>0, <1>2, <1>3
<1>5. x # 0 /\ x \in Nat
  OBVIOUS
<1>6. x - 1 \in Nat /\ x - 1 \notin T
  BY <1>4, <1>5
<1> QED
  BY <1>5, <1>6

\* A non-empty set of numbers below a bound has a largest one.
LEMMA MaxOfBounded ==
    ASSUME NEW S \in SUBSET Nat, S # {}, NEW n \in Nat, \A r \in S : r <= n
    PROVE  Max(S) \in S /\ \A r \in S : r <= Max(S)
<1> DEFINE Free == {m \in Nat : \E x \in S : n - m <= x}
           Inner == {m \in Nat : (\E x \in S : n - m <= x) => \E x \in S : \A r \in S : r <= x}
<1>1. 0 \in Inner
  <2>1. ASSUME NEW x \in S, n - 0 <= x PROVE \A r \in S : r <= x
    BY <2>1
  <2> QED
    BY <2>1
<1>2. ASSUME NEW m \in Nat, m \in Inner PROVE m + 1 \in Inner
  <2>1. ASSUME NEW x \in S, n - (m + 1) <= x PROVE \E y \in S : \A r \in S : r <= y
    <3>1. CASE \E y \in S : n - m <= y
      BY <1>2, <3>1
    <3>2. CASE ~\E y \in S : n - m <= y
      <4>1. \A r \in S : r < n - m
        BY <3>2
      <4>2. \A r \in S : r <= x
        BY <2>1, <4>1
      <4> QED
        BY <4>2
    <3> QED
      BY <3>1, <3>2
  <2> QED
    BY <2>1
<1>3. Nat \subseteq Inner
  <2> HIDE DEF Inner
  <2> QED
    BY <1>1, <1>2, AllNaturals
<1>4. n \in Inner
  BY <1>3
<1>5. \E x \in S : n - n <= x
  <2>1. \A x \in S : 0 <= x
    OBVIOUS
  <2>2. n - n = 0
    OBVIOUS
  <2> QED
    BY <2>1, <2>2
<1>6. \E x \in S : \A r \in S : x >= r
  BY <1>4, <1>5
<1> QED
  BY <1>6 DEF Max

\* One step of the pull loop: the row with revision r, if there is one.
RowStep(d, clock, r) ==
    IF \E i \in Items : rows[i].rev = r
    THEN LET i == CHOOSE i \in Items : rows[i].rev = r
         IN  HlcReceive(clock, NewestItemStamp(rows[i].item), Wall[d])
    ELSE clock

\* g lists the clock after each revision of the rows pulled so far.
IsScan(g, d, clock, from, to) ==
    g = [r \in from..to |-> IF r = from THEN clock ELSE RowStep(d, g[r - 1], r)]

\* The function AbsorbRows defines exists: it does for no step, and with one more.
LEMMA ScanExists ==
    ASSUME NEW d, NEW clock, NEW from \in Nat, NEW to \in Nat, from <= to
    PROVE  \E g : IsScan(g, d, clock, from, to)
<1> DEFINE S == {m \in Nat : \E g : IsScan(g, d, clock, from, from + m)}
<1>1. 0 \in S
  <2> DEFINE g == [r \in from..from |-> clock]
  <2>1. from..(from + 0) = from..from /\ \A r \in from..from : r = from
    OBVIOUS
  <2>2. g = [r \in from..(from + 0) |-> IF r = from THEN clock ELSE RowStep(d, g[r - 1], r)]
    BY <2>1
  <2>3. IsScan(g, d, clock, from, from + 0)
    BY <2>2 DEF IsScan
  <2> QED
    BY <2>3
<1>2. ASSUME NEW m \in Nat, m \in S PROVE m + 1 \in S
  <2>1. PICK g : IsScan(g, d, clock, from, from + m)
    BY <1>2
  <2> DEFINE last == from + m + 1
             h == [r \in from..last |-> IF r = last THEN RowStep(d, g[from + m], last) ELSE g[r]]
  <2>2. last \in Nat /\ last = from + (m + 1) /\ last - 1 = from + m /\ last # from
    OBVIOUS
  <2>3. DOMAIN g = from..(from + m)
        /\ \A r \in from..(from + m) : g[r] = IF r = from THEN clock ELSE RowStep(d, g[r - 1], r)
    BY <2>1 DEF IsScan
  <2>4. \A r \in from..last : h[r] = IF r = from THEN clock ELSE RowStep(d, h[r - 1], r)
    <3> TAKE r \in from..last
    <3>1. CASE r = last
      <4>1. last - 1 \in from..last /\ last - 1 # last
        BY <2>2
      <4>2. h[last - 1] = g[from + m]
        BY <2>2, <4>1
      <4> QED
        BY <2>2, <3>1, <4>2
    <3>2. CASE r # last
      <4>1. r \in from..(from + m)
        BY <3>2
      <4>2. h[r] = g[r]
        BY <3>2
      <4>3. CASE r = from
        BY <2>3, <4>1, <4>2, <4>3
      <4>4. CASE r # from
        <5>1. r - 1 \in from..last /\ r - 1 # last
          BY <4>1, <4>4
        <5>2. h[r - 1] = g[r - 1]
          BY <5>1
        <5> QED
          BY <2>3, <4>1, <4>2, <4>4, <5>2
      <4> QED
        BY <4>3, <4>4
    <3> QED
      BY <3>1, <3>2
  <2>5. h = [r \in from..last |-> IF r = from THEN clock ELSE RowStep(d, h[r - 1], r)]
    BY <2>4
  <2>6. IsScan(h, d, clock, from, from + (m + 1))
    <3> HIDE DEF h
    <3> QED
      BY <2>2, <2>5 DEF IsScan
  <2>7. \E x : IsScan(x, d, clock, from, from + (m + 1))
    <3> HIDE DEF h
    <3> QED
      BY <2>6
  <2> QED
    BY <2>7
<1>3. Nat \subseteq S
  <2> HIDE DEF S
  <2> QED
    BY <1>1, <1>2, AllNaturals
<1>4. to - from \in Nat /\ from + (to - from) = to
  OBVIOUS
<1> QED
  BY <1>3, <1>4

\* What the pull loop leaves on the clock: no earlier than it was, and not behind
\* any stamp of a row past the cursor.
LEMMA AbsorbedClock ==
    ASSUME rows \in [Items -> [item : ItemType, rev : Nat]], revision \in Nat,
           \A i \in Items : rows[i].rev <= revision,
           NEW d \in Devices, NEW clock \in Clocks(d), NEW from \in Nat, from <= revision
    PROVE  LET c == AbsorbRows(d, clock, from) IN
           /\ c \in Clocks(d)
           /\ ~After(clock, c)
           /\ (\A i, j \in Items : rows[i].rev = rows[j].rev /\ rows[i].rev > 0 => i = j) =>
                \A i \in Items : rows[i].rev > from => \A s \in ItemStamps(rows[i].item) : ~After(s, c)
<1> DEFINE f == CHOOSE g : IsScan(g, d, clock, from, revision)
           Distinct == \A i, j \in Items : rows[i].rev = rows[j].rev /\ rows[i].rev > 0 => i = j
           Good(c, r) == /\ c \in Clocks(d)
                         /\ ~After(clock, c)
                         /\ Distinct => \A i \in Items : rows[i].rev > from /\ rows[i].rev <= r =>
                                          \A s \in ItemStamps(rows[i].item) : ~After(s, c)
<1>1. AbsorbRows(d, clock, from) = f[revision]
  BY DEF AbsorbRows, IsScan, RowStep
<1>2. IsScan(f, d, clock, from, revision)
  BY ScanExists
<1>3. \A r \in from..revision : f[r] = IF r = from THEN clock ELSE RowStep(d, f[r - 1], r)
  <2> HIDE DEF f
  <2> QED
    BY <1>2 DEF IsScan
<1> HIDE DEF f
<1>4. Clocks(d) \subseteq Stamp3
  BY StampTypes
<1>5. ASSUME NEW r \in Nat, NEW c, from < r, r <= revision, Good(c, r - 1)
      PROVE  Good(RowStep(d, c, r), r)
  <2>1. CASE ~\E i \in Items : rows[i].rev = r
    <3>1. RowStep(d, c, r) = c
      BY <2>1 DEF RowStep
    <3>2. \A i \in Items : rows[i].rev <= r => rows[i].rev <= r - 1
      BY <2>1
    <3> QED
      BY <1>5, <3>1, <3>2
  <2>2. CASE \E i \in Items : rows[i].rev = r
    <3> DEFINE i == CHOOSE i \in Items : rows[i].rev = r
               new == HlcReceive(c, NewestItemStamp(rows[i].item), Wall[d])
    <3>1. i \in Items /\ rows[i].rev = r /\ RowStep(d, c, r) = new
      BY <2>2 DEF RowStep
    <3> HIDE DEF i
    <3>2. rows[i].item \in ItemType
      BY <3>1
    <3>3. /\ NewestItemStamp(rows[i].item) \in Stamps
          /\ \A s \in ItemStamps(rows[i].item) : ~After(s, NewestItemStamp(rows[i].item))
          /\ ItemStamps(rows[i].item) \subseteq Stamp3
      BY <3>2, NewestIs, StampsOfItem, StampTypes
    <3>4. Wall[d] \in Nat /\ c \in Clocks(d) /\ NewestItemStamp(rows[i].item) \in Stamp3
      BY <1>5, <3>3, ConstantsAssumption, StampTypes
    <3>5. NewestItemStamp(rows[i].item).p \in Int /\ NewestItemStamp(rows[i].item).l \in Nat
          /\ NewestItemStamp(rows[i].item).d \in Int
      BY <3>3, <3>4 DEF Stamps, NoStamp, Stamp3
    <3>6. new \in Clocks(d) /\ After(new, NewestItemStamp(rows[i].item)) /\ After(new, c)
      BY <3>4, <3>5, ClockTypes, ReceiveIsLater
    <3>7. new \in Stamp3 /\ c \in Stamp3 /\ clock \in Stamp3
      BY <1>4, <3>4, <3>6
    <3>8. ~After(clock, new)
      BY <1>5, <3>6, <3>7, StampOrder
    <3>9. ASSUME Distinct, NEW j \in Items, rows[j].rev > from, rows[j].rev <= r,
                 NEW s \in ItemStamps(rows[j].item)
          PROVE  ~After(s, new)
      <4>1. CASE j = i
        BY <3>3, <3>4, <3>6, <3>7, <3>9, <4>1, StampOrder
      <4>2. CASE j # i
        <5>1. rows[j].rev # r /\ rows[j].rev \in Nat
          BY <1>5, <3>1, <3>9, <4>2
        <5>2. rows[j].rev <= r - 1
          BY <3>9, <5>1
        <5>3. ~After(s, c)
          BY <1>5, <3>9, <5>2
        <5>4. s \in Stamp3
          BY <3>9, StampsOfItem, StampTypes
        <5> QED
          BY <3>6, <3>7, <5>3, <5>4, StampOrder
      <4> QED
        BY <4>1, <4>2
    <3> HIDE DEF new
    <3> QED
      BY <3>1, <3>6, <3>8, <3>9
  <2> QED
    BY <2>1, <2>2
<1> DEFINE S == {m \in Nat : from + m <= revision => Good(f[from + m], from + m)}
<1>6. 0 \in S
  <2>1. f[from] = clock
    BY <1>3
  <2>2. clock \in Stamp3
    BY <1>4
  <2>3. ~After(clock, clock)
    BY <2>2, StampOrder
  <2>4. \A i \in Items : ~(rows[i].rev > from /\ rows[i].rev <= from)
    OBVIOUS
  <2> QED
    BY <2>1, <2>3, <2>4
<1>7. ASSUME NEW m \in Nat, m \in S PROVE m + 1 \in S
  <2>1. SUFFICES ASSUME from + (m + 1) <= revision PROVE Good(f[from + (m + 1)], from + (m + 1))
    OBVIOUS
  <2> DEFINE r == from + (m + 1)
  <2>2. r \in Nat /\ r - 1 = from + m /\ from < r /\ r <= revision /\ from + m <= revision /\ r \in from..revision
    BY <2>1
  <2>3. f[r] = RowStep(d, f[r - 1], r)
    BY <1>3, <2>2
  <2>4. Good(f[r - 1], r - 1)
    BY <1>7, <2>2
  <2> HIDE DEF r, Good
  <2>5. Good(RowStep(d, f[r - 1], r), r)
    BY <1>5, <2>2, <2>4
  <2> QED
    BY <2>3, <2>5 DEF r
<1>8. Nat \subseteq S
  <2> HIDE DEF S
  <2> QED
    BY <1>6, <1>7, AllNaturals
<1>9. revision - from \in Nat /\ from + (revision - from) = revision
  OBVIOUS
<1>10. Good(f[revision], revision)
  <2> HIDE DEF Good
  <2> QED
    BY <1>8, <1>9
<1> QED
  BY <1>1, <1>10

\* A new version of a title covers only its parents and what they covered.
LEMMA CausalTypes ==
    ASSUME NEW v \in Words, NEW at \in Stamps, NEW P, \A x \in P : x.at \in Stamps /\ x.seen \in SUBSET Stamps
    PROVE  LET text == CausalValue(v, at, P) IN
           /\ text \in Texts /\ text.at = at /\ text.v = v
           /\ \A s \in text.seen : \E x \in P : s = x.at \/ s \in x.seen
<1> DEFINE seen == CausalFrontier(UNION {{x.at} \cup x.seen : x \in P})
<1>1. \A s \in seen : \E x \in P : s = x.at \/ s \in x.seen
  BY DEF CausalFrontier
<1>2. seen \in SUBSET Stamps
  BY <1>1
<1>3. CausalValue(v, at, P) = [v |-> v, at |-> at, seen |-> seen]
  BY DEF CausalValue
<1> HIDE DEF seen
<1> QED
  BY <1>1, <1>2, <1>3 DEF Texts

\* The decided text is stamped by the decision and derived from both versions.
LEMMA DecidedTypes ==
    ASSUME NEW v \in Words, NEW at \in Stamps, NEW c \in Conflicts
    PROVE  LET text == DecidedText(v, at, c) IN
           /\ text \in Texts /\ text.at = at /\ text.v = v
           /\ \A s \in text.seen : s \in {c.oursAt, c.theirsAt}
<1> DEFINE P == {[at |-> c.oursAt, seen |-> {}], [at |-> c.theirsAt, seen |-> {}]}
<1>1. \A x \in P : x.at \in Stamps /\ x.seen \in SUBSET Stamps /\ x.seen = {} /\ x.at \in {c.oursAt, c.theirsAt}
  BY DEF Conflicts
<1>2. DecidedText(v, at, c) = CausalValue(v, at, P)
  BY DEF DecidedText
<1> HIDE DEF P
<1> QED
  BY <1>1, <1>2, CausalTypes

\* The edits, by what they commit.
TitleKinds == {"create", "title", "resolveTitle"}

\* The operations a device queues.
Kinds == {"create", "title", "done", "delete", "resolveTitle", "resolveDeleted"}

\* What each edit writes, and the operation it queues for it.
Made(d, i, item, kind, at, text, flag) ==
    LET local == Local(d, i) IN
    \/ /\ kind = "create" /\ ~Known(local) /\ ~Known(rows[i].item)
       /\ at = Stamp(d) /\ flag = FALSE
       /\ \E v \in Titles[d] : text = CausalValue(v, at, {})
       /\ item = [NoItem EXCEPT !.title = text]
    \/ /\ kind = "title" /\ Known(local)
       /\ at = Stamp(d) /\ flag = FALSE
       /\ \E v \in Titles[d] : text = CausalValue(v, at, {local.title})
       /\ item = MergeItem(local, [local EXCEPT !.title = text])
    \/ /\ kind = "done" /\ Known(local)
       /\ at = Stamp(d) /\ flag \in Flags[d] /\ text = NoItem.title
       /\ item = MergeItem(local, [local EXCEPT !.done = [v |-> flag, at |-> at]])
    \/ /\ kind = "delete" /\ Known(local)
       /\ at = Stamp(d) /\ flag = FALSE /\ text = NoItem.title
       /\ item = [local EXCEPT !.del = at]
    \/ /\ kind = "resolveTitle"
       /\ at = DecisionStamp(d, local.cTitle) /\ flag = FALSE
       /\ \E v \in {local.cTitle.ours, local.cTitle.theirs} : text = DecidedText(v, at, local.cTitle)
       /\ item = [local EXCEPT !.title = text, !.titleRes = at, !.cTitle = NoConflict]
    \/ /\ kind = "resolveDeleted"
       /\ at = DecisionStamp(d, local.cDel) /\ flag \in BOOLEAN /\ text = NoItem.title
       /\ item = DecideDeleted(local, flag, at)

\* An edit of the planner: nothing else of the cycle moves.
Edit(d, i, item, kind, at, text, flag) ==
    /\ Unlocked(d)
    /\ Commit(d, i, item, kind, at, text, flag)
    /\ Made(d, i, item, kind, at, text, flag)

\* Every edit of the planner commits one operation.
LEMMA EditsCommit ==
    ASSUME NEW d \in Devices, NEW i \in Items,
           \/ \E v \in Titles[d] : AddItem(d, i, v) \/ SetTitle(d, i, v)
           \/ \E b \in Flags[d] : SetCompleted(d, i, b)
           \/ DeleteItem(d, i)
           \/ \E b \in BOOLEAN : ResolveTitle(d, i, b) \/ ResolveDeleted(d, i, b)
    PROVE  \E item, kind, at, text, flag : Edit(d, i, item, kind, at, text, flag)
<1>0. ASSUME NEW item, NEW kind, NEW at, NEW text, NEW flag, Edit(d, i, item, kind, at, text, flag)
      PROVE  \E it, k, a, t, f : Edit(d, i, it, k, a, t, f)
  BY <1>0
<1> DEFINE local == Local(d, i)
<1>1. ASSUME NEW v \in Titles[d], AddItem(d, i, v) PROVE \E it, k, a, t, f : Edit(d, i, it, k, a, t, f)
  <2> DEFINE text == CausalValue(v, Stamp(d), {})
             item == [NoItem EXCEPT !.title = text]
  <2>1. ~Known(local) /\ ~Known(rows[i].item) /\ Unlocked(d) /\ Commit(d, i, item, "create", Stamp(d), text, FALSE)
    BY <1>1 DEF AddItem, MayEdit
  <2>2. Made(d, i, item, "create", Stamp(d), text, FALSE)
    BY <2>1 DEF Made
  <2> QED
    BY <1>0, <2>1, <2>2 DEF Edit
<1>2. ASSUME NEW v \in Titles[d], SetTitle(d, i, v) PROVE \E it, k, a, t, f : Edit(d, i, it, k, a, t, f)
  <2> DEFINE text == CausalValue(v, Stamp(d), {local.title})
             item == MergeItem(local, [local EXCEPT !.title = text])
  <2>1. Known(local) /\ Unlocked(d) /\ Commit(d, i, item, "title", Stamp(d), text, FALSE)
    BY <1>2 DEF SetTitle, MayEdit
  <2>2. Made(d, i, item, "title", Stamp(d), text, FALSE)
    BY <2>1 DEF Made
  <2> QED
    BY <1>0, <2>1, <2>2 DEF Edit
<1>3. ASSUME NEW b \in Flags[d], SetCompleted(d, i, b) PROVE \E it, k, a, t, f : Edit(d, i, it, k, a, t, f)
  <2> DEFINE item == MergeItem(local, [local EXCEPT !.done = [v |-> b, at |-> Stamp(d)]])
  <2>1. Known(local) /\ Unlocked(d) /\ Commit(d, i, item, "done", Stamp(d), NoItem.title, b)
    BY <1>3 DEF SetCompleted, MayEdit
  <2>2. Made(d, i, item, "done", Stamp(d), NoItem.title, b)
    BY <2>1 DEF Made
  <2> QED
    BY <1>0, <2>1, <2>2 DEF Edit
<1>4. ASSUME DeleteItem(d, i) PROVE \E it, k, a, t, f : Edit(d, i, it, k, a, t, f)
  <2> DEFINE item == [local EXCEPT !.del = Stamp(d)]
  <2>1. Known(local) /\ Unlocked(d) /\ Commit(d, i, item, "delete", Stamp(d), NoItem.title, FALSE)
    BY <1>4 DEF DeleteItem, MayEdit
  <2>2. Made(d, i, item, "delete", Stamp(d), NoItem.title, FALSE)
    BY <2>1 DEF Made
  <2> QED
    BY <1>0, <2>1, <2>2 DEF Edit
<1>5. ASSUME NEW b \in BOOLEAN, ResolveTitle(d, i, b) PROVE \E it, k, a, t, f : Edit(d, i, it, k, a, t, f)
  <2> DEFINE at == DecisionStamp(d, local.cTitle)
             text == DecidedText(IF b THEN local.cTitle.ours ELSE local.cTitle.theirs, at, local.cTitle)
             item == [local EXCEPT !.title = text, !.titleRes = at, !.cTitle = NoConflict]
  <2>1. Unlocked(d) /\ Commit(d, i, item, "resolveTitle", at, text, FALSE)
    BY <1>5 DEF ResolveTitle, MayEdit
  <2>2. \E v \in {local.cTitle.ours, local.cTitle.theirs} : text = DecidedText(v, at, local.cTitle)
    OBVIOUS
  <2>3. Made(d, i, item, "resolveTitle", at, text, FALSE)
    BY <2>2 DEF Made
  <2> QED
    BY <1>0, <2>1, <2>3 DEF Edit
<1>6. ASSUME NEW b \in BOOLEAN, ResolveDeleted(d, i, b) PROVE \E it, k, a, t, f : Edit(d, i, it, k, a, t, f)
  <2> DEFINE at == DecisionStamp(d, local.cDel)
             item == DecideDeleted(local, b, at)
  <2>1. Unlocked(d) /\ Commit(d, i, item, "resolveDeleted", at, NoItem.title, b)
    BY <1>6 DEF ResolveDeleted, MayEdit
  <2>2. Made(d, i, item, "resolveDeleted", at, NoItem.title, b)
    BY DEF Made
  <2> QED
    BY <1>0, <2>1, <2>2 DEF Edit
<1> QED
  BY <1>1, <1>2, <1>3, <1>4, <1>5, <1>6

\* The types an edit reads.
LEMMA ClockOfDisk ==
    ASSUME TypeOK, NEW d \in Devices
    PROVE  /\ disk[d].clock \in Clocks(d) /\ Wall[d] \in Nat
           /\ \A i \in Items : Local(d, i) \in ItemType
           /\ Clocks(d) \subseteq Stamps /\ Clocks(d) \subseteq Stamp3
BY ConstantsAssumption, StampTypes DEF TypeOK, States, Local

\* The stamp of an edit is later than its device's clock.
LEMMA StampIsLater ==
    ASSUME TypeOK, NEW d \in Devices
    PROVE  Stamp(d) \in Clocks(d) /\ After(Stamp(d), disk[d].clock)
<1>1. disk[d].clock \in Clocks(d) /\ disk[d].clock \in Stamp3 /\ Wall[d] \in Nat
  BY ClockOfDisk
<1>2. NoStamp.p \in Int /\ NoStamp.l \in Nat
  BY DEF NoStamp
<1>3. HlcNow(disk[d].clock, Wall[d]) \in Clocks(d)
  BY <1>1, <1>2, ClockTypes
<1>4. After(HlcNow(disk[d].clock, Wall[d]), disk[d].clock)
  BY <1>1, NowIsLater
<1> QED
  BY <1>3, <1>4 DEF Stamp

\* The stamp of a decision is later than its device's clock and than both versions.
LEMMA DecisionIsLater ==
    ASSUME TypeOK, NEW d \in Devices, NEW c \in Conflicts
    PROVE  LET at == DecisionStamp(d, c) IN
           /\ at \in Clocks(d) /\ After(at, disk[d].clock)
           /\ After(at, c.oursAt) /\ After(at, c.theirsAt)
<1> DEFINE clock == disk[d].clock
           later == Later(c.oursAt, c.theirsAt)
           heard == HlcReceive(clock, later, Wall[d])
           at == HlcNow(heard, Wall[d])
<1>1. clock \in Clocks(d) /\ clock \in Stamp3 /\ Wall[d] \in Nat
  BY ClockOfDisk
<1>2. /\ c.oursAt \in Stamp3 /\ c.theirsAt \in Stamp3 /\ later \in Stamp3
      /\ ~After(c.oursAt, later) /\ ~After(c.theirsAt, later)
      /\ later \in Stamps
  <2>1. c.oursAt \in Stamps /\ c.theirsAt \in Stamps
    BY DEF Conflicts
  <2>2. c.oursAt \in Stamp3 /\ c.theirsAt \in Stamp3
    BY <2>1, StampTypes
  <2> QED
    BY <2>1, <2>2, StampOrder DEF Later
<1> HIDE DEF later
<1>3. later.p \in Int /\ later.l \in Nat /\ later.d \in Int
  BY <1>2 DEF Stamps, NoStamp, Stamp3
<1>4. heard \in Clocks(d) /\ After(heard, later) /\ After(heard, clock)
  BY <1>1, <1>3, ClockTypes, ReceiveIsLater
<1> HIDE DEF heard
<1>5. heard \in Stamp3 /\ at \in Clocks(d) /\ After(at, heard) /\ at \in Stamp3
  <2>1. heard \in Stamp3
    BY <1>4, StampTypes
  <2>2. at \in Clocks(d)
    BY <1>1, <1>3, <1>4, ClockTypes
  <2> QED
    BY <1>1, <2>1, <2>2, NowIsLater, StampTypes
<1> HIDE DEF at
<1>6. After(at, clock) /\ After(at, c.oursAt) /\ After(at, c.theirsAt)
  <2>1. After(at, later)
    BY <1>2, <1>4, <1>5, StampOrder
  <2> QED
    BY <1>1, <1>2, <1>4, <1>5, <2>1, StampOrder
<1>7. DecisionStamp(d, c) = at
  BY DEF DecisionStamp, at, heard, later
<1> QED
  BY <1>5, <1>6, <1>7

\* An edit writes an item of the right type; the one stamp it adds is its own.
LEMMA MadeTypes ==
    ASSUME TypeOK, NEW d \in Devices, NEW i \in Items,
           NEW item, NEW kind, NEW at, NEW text, NEW flag, Made(d, i, item, kind, at, text, flag)
    PROVE  /\ item \in ItemType /\ kind \in Kinds /\ text \in Texts /\ flag \in BOOLEAN
           /\ at \in Clocks(d) /\ at \in Stamps /\ After(at, disk[d].clock)
           /\ ItemStamps(item) \subseteq ItemStamps(Local(d, i)) \cup {NoStamp, at}
<1> DEFINE local == Local(d, i)
           Goal == /\ item \in ItemType /\ kind \in Kinds /\ text \in Texts /\ flag \in BOOLEAN
                   /\ at \in Clocks(d) /\ at \in Stamps /\ After(at, disk[d].clock)
                   /\ ItemStamps(item) \subseteq ItemStamps(local) \cup {NoStamp, at}
<1>1. /\ local \in ItemType /\ NoItem \in ItemType /\ Clocks(d) \subseteq Stamps
      /\ NoItem.title \in Texts /\ Titles[d] \subseteq Words /\ Flags[d] \subseteq BOOLEAN
      /\ NoConflict \in Conflicts /\ NoStamp \in Stamps
  BY ClockOfDisk, NoItemType, StampTypes, ConstantsAssumption DEF ItemType, Words
<1>2. Stamp(d) \in Clocks(d) /\ Stamp(d) \in Stamps /\ After(Stamp(d), disk[d].clock)
  BY <1>1, StampIsLater
<1>3. local.title \in Texts /\ local.title.at \in Stamps /\ local.title.seen \in SUBSET Stamps
      /\ local.cTitle \in Conflicts /\ local.cDel \in Conflicts
      /\ local.cTitle.ours \in Words /\ local.cTitle.theirs \in Words
  BY <1>1 DEF ItemType, Texts, Conflicts
<1>4. /\ \A s \in ItemStamps(NoItem) : s = NoStamp
      /\ NoConflict.oursAt = NoStamp /\ NoConflict.theirsAt = NoStamp
      /\ NoStamp \in ItemStamps(NoItem)
  BY DEF NoItem, NoConflict, ItemStamps
<1>5. ASSUME kind = "create" /\ ~Known(local) /\ at = Stamp(d) /\ flag = FALSE
             /\ item = [NoItem EXCEPT !.title = text],
             NEW v \in Titles[d], text = CausalValue(v, at, {})
      PROVE  Goal
  <2>1. text \in Texts /\ text.at = at
    BY <1>1, <1>2, <1>5, CausalTypes
  <2>2. item \in ItemType /\ item.title = text
    BY <1>1, <1>5, <2>1 DEF ItemType
  <2>3. ItemStamps(item) \subseteq ItemStamps(NoItem) \cup {at}
    BY <1>1, <1>5, <2>1 DEF ItemType, ItemStamps
  <2> QED
    BY <1>2, <1>4, <1>5, <2>1, <2>2, <2>3 DEF Kinds
<1>6. ASSUME kind = "title" /\ at = Stamp(d) /\ flag = FALSE
             /\ item = MergeItem(local, [local EXCEPT !.title = text]),
             NEW v \in Titles[d], text = CausalValue(v, at, {local.title})
      PROVE  Goal
  <2> DEFINE edit == [local EXCEPT !.title = text]
  <2>1. text \in Texts /\ text.at = at
    BY <1>1, <1>2, <1>3, <1>6, CausalTypes
  <2>2. edit \in ItemType /\ edit.title = text
    BY <1>1, <2>1 DEF ItemType
  <2>3. ItemStamps(edit) \subseteq ItemStamps(local) \cup {at}
    BY <1>1, <2>1 DEF ItemType, ItemStamps
  <2> HIDE DEF edit
  <2>4. item \in ItemType /\ ItemStamps(item) \subseteq ItemStamps(local) \cup ItemStamps(edit) \cup {NoStamp}
    BY <1>1, <1>6, <2>2, MergedItem DEF edit
  <2> QED
    BY <1>2, <1>6, <2>1, <2>3, <2>4 DEF Kinds
<1>7. ASSUME kind = "done" /\ at = Stamp(d) /\ flag \in Flags[d] /\ text = NoItem.title
             /\ item = MergeItem(local, [local EXCEPT !.done = [v |-> flag, at |-> at]])
      PROVE  Goal
  <2> DEFINE edit == [local EXCEPT !.done = [v |-> flag, at |-> at]]
  <2>1. flag \in BOOLEAN /\ [v |-> flag, at |-> at] \in [v : BOOLEAN, at : Stamps]
    BY <1>1, <1>2, <1>7
  <2>2. edit \in ItemType /\ edit.done = [v |-> flag, at |-> at]
    BY <1>1, <2>1 DEF ItemType
  <2>3. ItemStamps(edit) \subseteq ItemStamps(local) \cup {at}
    BY <1>1, <2>2 DEF ItemType, ItemStamps
  <2> HIDE DEF edit
  <2>4. item \in ItemType /\ ItemStamps(item) \subseteq ItemStamps(local) \cup ItemStamps(edit) \cup {NoStamp}
    BY <1>1, <1>7, <2>2, MergedItem DEF edit
  <2> QED
    BY <1>1, <1>2, <1>7, <2>1, <2>3, <2>4 DEF Kinds
<1>8. ASSUME kind = "delete" /\ at = Stamp(d) /\ flag = FALSE /\ text = NoItem.title
             /\ item = [local EXCEPT !.del = at]
      PROVE  Goal
  <2>1. item \in ItemType
    BY <1>1, <1>2, <1>8 DEF ItemType
  <2>2. ItemStamps(item) \subseteq ItemStamps(local) \cup {at}
    BY <1>1, <1>8 DEF ItemType, ItemStamps
  <2> QED
    BY <1>1, <1>2, <1>8, <2>1, <2>2 DEF Kinds
<1>9. ASSUME kind = "resolveTitle" /\ at = DecisionStamp(d, local.cTitle) /\ flag = FALSE
             /\ item = [local EXCEPT !.title = text, !.titleRes = at, !.cTitle = NoConflict],
             NEW v \in {local.cTitle.ours, local.cTitle.theirs}, text = DecidedText(v, at, local.cTitle)
      PROVE  Goal
  <2>1. at \in Clocks(d) /\ at \in Stamps /\ After(at, disk[d].clock)
    BY <1>1, <1>3, <1>9, DecisionIsLater
  <2>2. text \in Texts /\ text.at = at
    BY <1>3, <1>9, <2>1, DecidedTypes
  <2>3. item \in ItemType
    BY <1>1, <1>9, <2>1, <2>2 DEF ItemType
  <2>4. ItemStamps(item) \subseteq ItemStamps(local) \cup {NoStamp, at}
    BY <1>1, <1>4, <1>9, <2>2 DEF ItemType, ItemStamps
  <2> QED
    BY <1>9, <2>1, <2>2, <2>3, <2>4 DEF Kinds
<1>10. ASSUME kind = "resolveDeleted" /\ at = DecisionStamp(d, local.cDel) /\ flag \in BOOLEAN
              /\ text = NoItem.title /\ item = DecideDeleted(local, flag, at)
       PROVE  Goal
  <2>1. at \in Clocks(d) /\ at \in Stamps /\ After(at, disk[d].clock)
    BY <1>1, <1>3, <1>10, DecisionIsLater
  <2> DEFINE del == IF flag THEN at ELSE NoStamp
             res == [deleted |-> flag, at |-> at]
  <2>2. del \in Stamps /\ res \in [deleted : BOOLEAN, at : Stamps] /\ del \in {NoStamp, at} /\ res.at = at
    BY <1>1, <1>10, <2>1
  <2>3. item = [local EXCEPT !.del = del, !.delRes = res, !.cDel = NoConflict]
    BY <1>10 DEF DecideDeleted
  <2> HIDE DEF del, res
  <2>4. item \in ItemType
    BY <1>1, <2>2, <2>3 DEF ItemType
  <2>5. ItemStamps(item) \subseteq ItemStamps(local) \cup {NoStamp, at}
    BY <1>1, <1>4, <2>2, <2>3 DEF ItemType, ItemStamps
  <2> QED
    BY <1>1, <1>10, <2>1, <2>4, <2>5 DEF Kinds
<1> HIDE DEF Goal
<1>11. Goal
  BY <1>5, <1>6, <1>7, <1>8, <1>9, <1>10 DEF Made
<1> QED
  BY <1>11 DEF Goal

\* The rows the server has written have different revisions.
RevisionsDiffer == \A i, j \in Items : rows[i].rev = rows[j].rev /\ rows[i].rev > 0 => i = j

\* A file, or a cycle's copy of it, whose clock is not behind any stamp it holds.
ClockCovers(state) == \A i \in Items : \A s \in ItemStamps(state.items[i]) : ~After(s, state.clock)

\* The inductive invariant of TypeOK and ClockDominates.
ClockInv ==
    /\ TypeOK
    /\ RevisionsDiffer
    /\ \A d \in Devices : ClockCovers(disk[d]) /\ ClockCovers(mem[d])

\* A device that starts over holds no stamps.
LEMMA EmptyCovers == ASSUME NEW d \in Devices PROVE EmptyState(d) \in States(d) /\ ClockCovers(EmptyState(d))
<1>1. EmptyState(d) \in States(d)
  BY NoItemType DEF EmptyState, States, Clocks
<1>2. \A s \in ItemStamps(NoItem) : s = NoStamp
  BY DEF NoItem, NoConflict, ItemStamps
<1>3. ~After(NoStamp, [p |-> 0, l |-> 0, d |-> d])
  BY DEF After, NoStamp
<1> QED
  BY <1>1, <1>2, <1>3 DEF ClockCovers, EmptyState

\* Initially nothing is stamped.
LEMMA ClockInit == Init => ClockInv
<1> SUFFICES ASSUME Init PROVE ClockInv
  OBVIOUS
<1>1. \A d \in Devices : /\ disk[d] \in States(d) /\ disk[d].cursor = 0 /\ ClockCovers(disk[d])
                         /\ mem[d] \in States(d) /\ mem[d].cursor = 0 /\ ClockCovers(mem[d])
  BY EmptyCovers DEF Init, EmptyState
<1>2. rows \in [Items -> [item : ItemType, rev : Nat]] /\ revision = 0 /\ \A i \in Items : rows[i].rev = 0
  BY NoItemType DEF Init
<1>3. count \in [Devices -> [edits : Nat, cycles : Nat, retries : Nat, max : Loads]]
  BY ConstantsAssumption DEF Init
<1>4. applied \in [Devices -> Seq(KeyType)] /\ receipts = {} /\ \A d \in Devices : applied[d] = <<>>
  <2>1. <<>> \in Seq(KeyType)
    OBVIOUS
  <2> QED
    BY <2>1 DEF Init
<1>5. receipts = UNION {Range(applied[d]) : d \in Devices}
  <2>1. \A d \in Devices : Range(applied[d]) = {}
    BY <1>4 DEF Range
  <2> QED
    BY <1>4, <2>1
<1>6. TypeOK
  <2>1. DOMAIN disk = Devices /\ DOMAIN mem = Devices /\ requests = {} /\ shedKeys = {}
        /\ phase \in [Devices -> {"idle", "pull", "push"}] /\ batch \in [Devices -> SUBSET Operations]
        /\ answer \in [Devices -> [accepted : SUBSET KeyType, rejected : SUBSET KeyType]]
    BY DEF Init, NoAnswer
  <2>2. \A d \in Devices : /\ disk[d].cursor <= revision /\ mem[d].cursor <= revision
                          /\ disk[d] \in States(d) /\ mem[d] \in States(d)
    BY <1>1, <1>2
  <2>3. revision \in Nat /\ \A i \in Items : rows[i].rev <= revision
    BY <1>2
  <2> QED
    BY <1>2, <1>3, <1>4, <1>5, <2>1, <2>2, <2>3 DEF TypeOK
<1>7. RevisionsDiffer
  BY <1>2 DEF RevisionsDiffer
<1> QED
  BY <1>1, <1>6, <1>7 DEF ClockInv

\* The operation an edit queues.
NewOp(d, i, kind, at, text, flag) ==
    [key |-> <<d, count[d].edits + 1, i>>, item |-> i, kind |-> kind, at |-> at, text |-> text, flag |-> flag]

\* What an edit changes.
Committed(d, i, item, op) ==
    /\ DOMAIN disk' = Devices
    /\ \A e \in Devices : e # d => disk'[e] = disk[e]
    /\ disk'[d] = [clock |-> op.at, items |-> [disk[d].items EXCEPT ![i] = item],
                   outbox |-> disk[d].outbox \cup {op}, retry |-> disk[d].retry, cursor |-> disk[d].cursor]
    /\ count' = [count EXCEPT ![d].edits = @ + 1]
    /\ mem' = mem /\ phase' = phase /\ batch' = batch /\ answer' = answer /\ requests' = requests
    /\ rows' = rows /\ revision' = revision /\ receipts' = receipts /\ applied' = applied /\ shedKeys' = shedKeys

\* Commit does what Committed says.
LEMMA CommitEffect ==
    ASSUME TypeOK, NEW d \in Devices, NEW i \in Items,
           NEW item, NEW kind, NEW at, NEW text, NEW flag, Commit(d, i, item, kind, at, text, flag)
    PROVE  Committed(d, i, item, NewOp(d, i, kind, at, text, flag))
<1> DEFINE op == NewOp(d, i, kind, at, text, flag)
<1>0. op.at = at
  BY DEF NewOp
<1>1. /\ disk' = [disk EXCEPT ![d].clock = at, ![d].items[i] = item, ![d].outbox = @ \cup {op}]
      /\ count' = [count EXCEPT ![d].edits = @ + 1]
      /\ mem' = mem /\ phase' = phase /\ batch' = batch /\ answer' = answer /\ requests' = requests
      /\ rows' = rows /\ revision' = revision /\ receipts' = receipts /\ applied' = applied /\ shedKeys' = shedKeys
  BY DEF Commit, syncVars, serverVars, NewOp
<1> HIDE DEF op
<1>2. DOMAIN disk = Devices /\ disk[d] \in States(d)
  BY DEF TypeOK
<1>3. disk[d] = [clock |-> disk[d].clock, items |-> disk[d].items, outbox |-> disk[d].outbox,
                 retry |-> disk[d].retry, cursor |-> disk[d].cursor]
  BY <1>2 DEF States
<1>4. DOMAIN disk' = Devices /\ \A e \in Devices : e # d => disk'[e] = disk[e]
  BY <1>1, <1>2
<1>5. disk'[d] = [disk[d] EXCEPT !.clock = at, !.items = [disk[d].items EXCEPT ![i] = item],
                                 !.outbox = disk[d].outbox \cup {op}]
  BY <1>1, <1>2, <1>3
<1>6. disk'[d] = [clock |-> at, items |-> [disk[d].items EXCEPT ![i] = item],
                  outbox |-> disk[d].outbox \cup {op}, retry |-> disk[d].retry, cursor |-> disk[d].cursor]
  BY <1>3, <1>5
<1> QED
  BY <1>0, <1>1, <1>4, <1>6 DEF Committed, op

\* An edit is stamped after everything its device holds.
LEMMA CommitKeepsClocks ==
    ASSUME ClockInv, NEW d \in Devices, NEW i \in Items,
           NEW item, NEW kind, NEW at, NEW text, NEW flag, Edit(d, i, item, kind, at, text, flag)
    PROVE  ClockInv'
<1> DEFINE op == NewOp(d, i, kind, at, text, flag)
<1>1. TypeOK /\ Commit(d, i, item, kind, at, text, flag) /\ Made(d, i, item, kind, at, text, flag)
  BY DEF ClockInv, Edit
<1>2. /\ item \in ItemType /\ kind \in Kinds /\ text \in Texts /\ flag \in BOOLEAN
      /\ at \in Clocks(d) /\ at \in Stamps /\ After(at, disk[d].clock)
      /\ ItemStamps(item) \subseteq ItemStamps(Local(d, i)) \cup {NoStamp, at}
  BY <1>1, MadeTypes
<1>3. Committed(d, i, item, op) /\ op.at = at
  BY <1>1, CommitEffect DEF NewOp
<1>4. count' \in [Devices -> [edits : Nat, cycles : Nat, retries : Nat, max : Loads]] /\ count[d].edits + 1 \in Nat
  <2> DEFINE Count == [edits : Nat, cycles : Nat, retries : Nat, max : Loads]
  <2>1. count \in [Devices -> Count] /\ count[d] \in Count
    BY <1>1 DEF TypeOK
  <2>2. count[d].edits + 1 \in Nat /\ [count[d] EXCEPT !.edits = count[d].edits + 1] \in Count
    BY <2>1
  <2> HIDE DEF Count
  <2>3. count' \in [Devices -> Count]
    BY <1>3, <2>1, <2>2 DEF Committed
  <2> QED
    BY <2>2, <2>3 DEF Count
<1>5. op \in Operations
  BY <1>2, <1>4 DEF Operations, KeyType, Kinds, NewOp
<1> HIDE DEF op
<1>6. disk'[d] \in States(d)
  <2>1. disk[d] \in States(d)
    BY <1>1 DEF TypeOK
  <2>2. [disk[d].items EXCEPT ![i] = item] \in [Items -> ItemType]
    BY <1>2, <2>1 DEF States
  <2>3. disk[d].outbox \cup {op} \in SUBSET Operations
    BY <1>5, <2>1 DEF States
  <2> QED
    BY <1>2, <1>3, <2>1, <2>2, <2>3 DEF States, Committed
<1>7. TypeOK'
  <2>1. disk'[d].cursor = disk[d].cursor
    BY <1>3 DEF Committed
  <2>2. \A e \in Devices : /\ disk'[e] \in States(e) /\ disk'[e].cursor <= revision
                          /\ mem'[e] \in States(e) /\ mem'[e].cursor <= revision
    BY <1>1, <1>3, <1>6, <2>1 DEF TypeOK, Committed
  <2> QED
    BY <1>1, <1>3, <1>4, <2>2 DEF TypeOK, Committed
<1>8. RevisionsDiffer'
  BY <1>3 DEF ClockInv, RevisionsDiffer, Committed
<1>9. ClockCovers(disk'[d])
  <2>1. disk[d].clock \in Stamp3 /\ at \in Stamp3 /\ ~After(NoStamp, at) /\ ~After(at, at)
    <3>1. disk[d].clock \in Stamp3 /\ at \in Stamp3
      BY <1>1, <1>2, ClockOfDisk
    <3>2. at.p \in Nat
      BY <1>2 DEF Clocks
    <3>3. ~After(NoStamp, at)
      BY <3>2 DEF After, NoStamp
    <3> QED
      BY <3>1, <3>3, StampOrder
  <2>2. \A j \in Items : \A s \in ItemStamps(disk[d].items[j]) : ~After(s, disk[d].clock) /\ s \in Stamp3
    BY <1>1, ClockOfDisk, StampsOfItem, StampTypes DEF ClockInv, ClockCovers, Local
  <2>3. \A j \in Items : \A s \in ItemStamps(disk[d].items[j]) : ~After(s, at)
    BY <1>2, <2>1, <2>2, StampOrder
  <2>4. \A s \in ItemStamps(item) : ~After(s, at)
    BY <1>2, <2>1, <2>3 DEF Local
  <2>5. /\ disk'[d].clock = at /\ disk'[d].items[i] = item
        /\ \A j \in Items : j # i => disk'[d].items[j] = disk[d].items[j]
    BY <1>1, <1>3 DEF Committed, TypeOK, States
  <2> QED
    BY <2>3, <2>4, <2>5 DEF ClockCovers
<1>10. \A e \in Devices : ClockCovers(disk'[e]) /\ ClockCovers(mem'[e])
  BY <1>3, <1>9 DEF ClockInv, Committed, ClockCovers
<1> QED
  BY <1>7, <1>8, <1>10 DEF ClockInv, ClockCovers

\* What the pull half of a cycle makes of a device's state.
LEMMA AbsorbEffect ==
    ASSUME ClockInv, NEW d \in Devices, NEW state \in States(d), state.cursor <= revision
    PROVE  LET new == Absorb(d, state) IN
           /\ new \in States(d) /\ new.cursor <= revision
           /\ new.outbox = state.outbox /\ new.retry = state.retry
           /\ ~After(state.clock, new.clock)
           /\ \A i \in Items :
                new.items[i] = IF rows[i].rev <= state.cursor THEN state.items[i]
                               ELSE IF Known(state.items[i]) THEN MergeItem(state.items[i], rows[i].item)
                               ELSE rows[i].item
           /\ state.cursor <= new.cursor /\ \A i \in Items : rows[i].rev > state.cursor => rows[i].rev <= new.cursor
           /\ \A i \in Items : rows[i].rev > state.cursor =>
                \A s \in ItemStamps(rows[i].item) : ~After(s, new.clock)
<1> DEFINE changed == {i \in Items : rows[i].rev > state.cursor}
           serverClock == [p |-> ServerWall, l |-> 0, d |-> 0]
           heard == HlcReceive(state.clock, serverClock, Wall[d])
           clock == AbsorbRows(d, heard, state.cursor)
           revs == {rows[i].rev : i \in changed}
           cursor == IF changed = {} THEN state.cursor ELSE Max(revs)
           item(i) == IF rows[i].rev <= state.cursor THEN state.items[i]
                      ELSE IF Known(state.items[i]) THEN MergeItem(state.items[i], rows[i].item)
                      ELSE rows[i].item
           items == [i \in Items |-> item(i)]
           new == Absorb(d, state)
<1>1. /\ state.clock \in Clocks(d) /\ state.items \in [Items -> ItemType]
      /\ state.outbox \in SUBSET Operations /\ state.retry \in SUBSET KeyType /\ state.cursor \in Nat
      /\ state = [clock |-> state.clock, items |-> state.items, outbox |-> state.outbox,
                  retry |-> state.retry, cursor |-> state.cursor]
  BY DEF States
<1>2. /\ rows \in [Items -> [item : ItemType, rev : Nat]] /\ revision \in Nat
      /\ \A i \in Items : rows[i].rev <= revision /\ rows[i].rev \in Nat /\ rows[i].item \in ItemType
  BY DEF ClockInv, TypeOK
<1>3. Wall[d] \in Nat /\ ServerWall \in Nat /\ Clocks(d) \subseteq Stamp3
  BY ConstantsAssumption, StampTypes
<1>4. heard \in Clocks(d) /\ After(heard, state.clock)
  <2>1. serverClock.p \in Int /\ serverClock.l \in Nat /\ serverClock.d \in Int
    BY <1>3
  <2> HIDE DEF serverClock
  <2> QED
    BY <1>1, <1>3, <2>1, ClockTypes, ReceiveIsLater
<1> HIDE DEF heard
<1>5. /\ clock \in Clocks(d) /\ ~After(heard, clock)
      /\ \A i \in Items : rows[i].rev > state.cursor =>
           \A s \in ItemStamps(rows[i].item) : ~After(s, clock)
  BY <1>1, <1>2, <1>4, AbsorbedClock DEF ClockInv, RevisionsDiffer
<1>6. ~After(state.clock, clock)
  <2>1. clock \in Stamp3 /\ heard \in Stamp3 /\ state.clock \in Stamp3
    BY <1>1, <1>3, <1>4, <1>5
  <2> HIDE DEF clock
  <2> QED
    BY <1>4, <1>5, <2>1, StampOrder
<1>7. /\ cursor \in Nat /\ cursor <= revision /\ state.cursor <= cursor
      /\ \A i \in Items : rows[i].rev > state.cursor => rows[i].rev <= cursor
  <2>1. CASE changed = {}
    BY <1>1, <2>1
  <2>2. CASE changed # {}
    <3>1. revs \in SUBSET Nat /\ revs # {} /\ \A r \in revs : r <= revision /\ r > state.cursor
      BY <1>2, <2>2
    <3>2. \A i \in Items : rows[i].rev > state.cursor => rows[i].rev \in revs
      OBVIOUS
    <3>3. cursor = Max(revs)
      BY <2>2
    <3> HIDE DEF revs, cursor
    <3>4. Max(revs) \in revs /\ \A r \in revs : r <= Max(revs)
      BY <1>2, <3>1, MaxOfBounded
    <3> QED
      BY <1>1, <3>1, <3>2, <3>3, <3>4
  <2> QED
    BY <2>1, <2>2
<1>8. items \in [Items -> ItemType]
  <2>1. \A i \in Items : state.items[i] \in ItemType /\ rows[i].item \in ItemType
    BY <1>1, <1>2
  <2>2. \A i \in Items : MergeItem(state.items[i], rows[i].item) \in ItemType
    BY <2>1, MergedItem
  <2> QED
    BY <2>1, <2>2
<1>9. new = [clock |-> clock, items |-> items, outbox |-> state.outbox, retry |-> state.retry, cursor |-> cursor]
  <2>1. items = [i \in Items |-> IF i \in changed
                                 THEN IF Known(state.items[i]) THEN MergeItem(state.items[i], rows[i].item)
                                      ELSE rows[i].item
                                 ELSE state.items[i]]
    BY <1>1, <1>2
  <2>2. new = [state EXCEPT !.clock = clock, !.items = items, !.cursor = cursor]
    BY <2>1 DEF Absorb, heard
  <2> HIDE DEF new, clock, items, cursor
  <2> QED
    BY <1>1, <2>2
<1> HIDE DEF new, clock, cursor
<1>10. new \in States(d)
  <2> HIDE DEF items
  <2> QED
    BY <1>1, <1>5, <1>7, <1>8, <1>9 DEF States
<1>11. /\ new.clock = clock /\ new.outbox = state.outbox /\ new.retry = state.retry /\ new.cursor = cursor
       /\ \A i \in Items : new.items[i] = item(i)
  BY <1>9
<1> HIDE DEF items
<1> QED
  BY <1>5, <1>6, <1>7, <1>10, <1>11 DEF new

\* A pull leaves the clock at or after every stamp it brought in.
LEMMA AbsorbCovers ==
    ASSUME ClockInv, NEW d \in Devices, NEW state \in States(d), state.cursor <= revision, ClockCovers(state)
    PROVE  ClockCovers(Absorb(d, state))
<1> DEFINE new == Absorb(d, state)
<1>1. /\ new \in States(d)
      /\ ~After(state.clock, new.clock)
      /\ \A i \in Items :
           new.items[i] = IF rows[i].rev <= state.cursor THEN state.items[i]
                          ELSE IF Known(state.items[i]) THEN MergeItem(state.items[i], rows[i].item)
                          ELSE rows[i].item
      /\ \A i \in Items : rows[i].rev > state.cursor =>
           \A s \in ItemStamps(rows[i].item) : ~After(s, new.clock)
  BY AbsorbEffect
<1> HIDE DEF new
<1>2. \A i \in Items : state.items[i] \in ItemType /\ rows[i].item \in ItemType
  BY DEF States, ClockInv, TypeOK
<1>3. new.clock \in Clocks(d) /\ new.clock \in Stamp3 /\ state.clock \in Stamp3 /\ NoStamp \in Stamps
  BY <1>1, StampTypes DEF States
<1>4. ~After(NoStamp, new.clock)
  BY <1>3 DEF Clocks, NoStamp, After
<1> SUFFICES ASSUME NEW i \in Items, NEW s \in ItemStamps(new.items[i]) PROVE ~After(s, new.clock)
  BY DEF ClockCovers, new
<1>5. ASSUME NEW t \in ItemStamps(state.items[i]) PROVE ~After(t, new.clock)
  <2>1. t \in Stamp3 /\ ~After(t, state.clock)
    BY <1>2, StampsOfItem, StampTypes DEF ClockCovers
  <2> QED
    BY <1>1, <1>3, <2>1, StampOrder
<1>6. CASE rows[i].rev <= state.cursor
  BY <1>1, <1>5, <1>6
<1>7. CASE ~(rows[i].rev <= state.cursor)
  <2>1. \A t \in ItemStamps(rows[i].item) : ~After(t, new.clock)
    <3>1. rows[i].rev \in Nat /\ state.cursor \in Nat
      BY DEF States, ClockInv, TypeOK
    <3> QED
      BY <1>1, <1>7, <3>1
  <2>2. CASE Known(state.items[i])
    <3>1. new.items[i] = MergeItem(state.items[i], rows[i].item)
      BY <1>1, <1>7, <2>2
    <3>2. ItemStamps(new.items[i]) \subseteq ItemStamps(state.items[i]) \cup ItemStamps(rows[i].item) \cup {NoStamp}
      BY <1>2, <3>1, MergedItem
    <3> QED
      BY <1>4, <1>5, <2>1, <3>2
  <2>3. CASE ~Known(state.items[i])
    BY <1>1, <1>7, <2>1, <2>3
  <2> QED
    BY <2>2, <2>3
<1> QED
  BY <1>6, <1>7

\* A cycle that ends with a state of its device.
LEMMA FinishKeepsClocks ==
    ASSUME ClockInv, NEW d \in Devices, NEW state \in States(d), state.cursor <= revision,
           ClockCovers(state), Finish(d, state)
    PROVE  ClockInv'
<1>1. TypeOK
  BY DEF ClockInv
<1>2. /\ DOMAIN disk' = Devices /\ DOMAIN mem' = Devices
      /\ disk'[d] = state /\ mem'[d] = EmptyState(d)
      /\ \A e \in Devices : e # d => disk'[e] = disk[e] /\ mem'[e] = mem[e]
      /\ phase' \in [Devices -> {"idle", "pull", "push"}]
      /\ batch' \in [Devices -> SUBSET Operations]
      /\ answer' \in [Devices -> [accepted : SUBSET KeyType, rejected : SUBSET KeyType]]
  <2>1. NoAnswer \in [accepted : SUBSET KeyType, rejected : SUBSET KeyType]
    BY DEF NoAnswer
  <2> QED
    BY <1>1, <2>1 DEF Finish, TypeOK
<1>3. /\ requests' = requests /\ rows' = rows /\ revision' = revision /\ receipts' = receipts
      /\ applied' = applied /\ shedKeys' = shedKeys /\ count' = count
  BY DEF Finish, serverVars
<1>4. EmptyState(d) \in States(d) /\ ClockCovers(EmptyState(d)) /\ EmptyState(d).cursor = 0
  BY EmptyCovers DEF EmptyState
<1>5. \A e \in Devices : /\ disk'[e] \in States(e) /\ disk'[e].cursor <= revision
                         /\ mem'[e] \in States(e) /\ mem'[e].cursor <= revision
                         /\ ClockCovers(disk'[e]) /\ ClockCovers(mem'[e])
  <2>1. 0 <= revision
    BY <1>1 DEF TypeOK
  <2> QED
    BY <1>2, <1>4, <2>1 DEF ClockInv, TypeOK
<1>6. TypeOK'
  BY <1>1, <1>2, <1>3, <1>5 DEF TypeOK
<1> QED
  BY <1>3, <1>5, <1>6 DEF ClockInv, RevisionsDiffer, ClockCovers

\* What the server writes for an operation it accepts.
Stored(old, op, new) ==
    \/ op.kind = "create" /\ ~Known(old) /\ new = [old EXCEPT !.title = op.text]
    \/ op.kind \in {"create", "title"} /\ Known(old) /\ new = MergeItem(old, [old EXCEPT !.title = op.text])
    \/ op.kind = "done" /\ Known(old) /\ new = MergeItem(old, [old EXCEPT !.done = [v |-> op.flag, at |-> op.at]])
    \/ op.kind = "delete" /\ Known(old) /\ new = MergeItem(old, [old EXCEPT !.del = op.at])
    \/ op.kind = "resolveTitle" /\ Known(old) /\ new = ServerResolveTitle(old, op)
    \/ op.kind = "resolveDeleted" /\ Known(old) /\ new = DecideDeleted(old, op.flag, op.at)

\* The server stores nothing else, and accepts without storing only an outranked decision.
LEMMA ApplyOutcome ==
    ASSUME NEW old \in ItemType, NEW op \in Operations
    PROVE  LET outcome == ApplyItemOperation(old, op) IN
           /\ outcome.ok /\ outcome.writes => Stored(old, op, outcome.item)
           /\ outcome.ok /\ ~outcome.writes =>
                \/ op.kind = "resolveTitle" /\ ~After(op.at, old.titleRes)
                \/ op.kind = "resolveDeleted" /\ ~After(op.at, old.delRes.at)
<1> DEFINE outcome == ApplyItemOperation(old, op)
           decide(watermark, marker, next) ==
             [ok |-> ~Refused(op, watermark, marker), writes |-> ~Outdated(op, watermark), item |-> next]
<1>1. op.kind \in Kinds /\ DOMAIN op = {"key", "item", "at", "text", "flag", "kind"}
  BY DEF Operations, Kinds
<1>2. CASE ~Known(old)
  <2> DEFINE create == [op EXCEPT !.kind = "create"]
  <2>1. outcome = [ok |-> op.kind = "create", writes |-> TRUE, item |-> StampItemPatch(old, create)]
    BY <1>2 DEF ApplyItemOperation
  <2>2. create.kind = "create" /\ create.text = op.text
    BY <1>1
  <2> HIDE DEF create
  <2>3. StampItemPatch(old, create) = [old EXCEPT !.title = op.text]
    BY <2>2 DEF StampItemPatch
  <2> HIDE DEF outcome
  <2>4. outcome.ok = (op.kind = "create") /\ outcome.writes /\ outcome.item = [old EXCEPT !.title = op.text]
    BY <2>1, <2>3
  <2> QED
    BY <1>2, <2>4 DEF Stored, outcome
<1>3. CASE Known(old) /\ op.kind = "resolveTitle"
  <2>1. outcome = decide(old.titleRes, old.cTitle, ServerResolveTitle(old, op))
    BY <1>3 DEF ApplyItemOperation
  <2>2. outcome.writes = ~Outdated(op, old.titleRes) /\ outcome.item = ServerResolveTitle(old, op)
    BY <2>1
  <2> HIDE DEF outcome
  <2> QED
    BY <1>3, <2>2 DEF Stored, Outdated, outcome
<1>4. CASE Known(old) /\ op.kind = "resolveDeleted"
  <2>1. outcome = decide(old.delRes.at, old.cDel, DecideDeleted(old, op.flag, op.at))
    BY <1>4 DEF ApplyItemOperation
  <2>2. outcome.writes = ~Outdated(op, old.delRes.at) /\ outcome.item = DecideDeleted(old, op.flag, op.at)
    BY <2>1
  <2> HIDE DEF outcome
  <2> QED
    BY <1>4, <2>2 DEF Stored, Outdated, outcome
<1>5. CASE Known(old) /\ op.kind \in {"create", "title", "done", "delete"}
  <2>1. outcome = [ok |-> TRUE, writes |-> TRUE, item |-> MergeItem(old, StampItemPatch(old, op))]
    BY <1>5 DEF ApplyItemOperation
  <2>2. outcome.writes /\ outcome.item = MergeItem(old, StampItemPatch(old, op))
    BY <2>1
  <2> HIDE DEF outcome
  <2> QED
    BY <1>5, <2>2 DEF Stored, StampItemPatch, outcome
<1> QED
  BY <1>1, <1>2, <1>3, <1>4, <1>5 DEF Kinds

\* What the server stores is an item.
LEMMA StoredType ==
    ASSUME NEW old \in ItemType, NEW op \in Operations, NEW new, Stored(old, op, new)
    PROVE  new \in ItemType
<1>1. /\ op.text \in Texts /\ op.text.v \in Words /\ op.at \in Stamps /\ op.flag \in BOOLEAN
      /\ [v |-> op.flag, at |-> op.at] \in [v : BOOLEAN, at : Stamps]
      /\ NoConflict \in Conflicts /\ NoStamp \in Stamps
  BY NoItemType, StampTypes DEF Operations, Texts
<1>2. /\ [old EXCEPT !.title = op.text] \in ItemType
      /\ [old EXCEPT !.done = [v |-> op.flag, at |-> op.at]] \in ItemType
      /\ [old EXCEPT !.del = op.at] \in ItemType
  BY <1>1 DEF ItemType
<1>3. ServerResolveTitle(old, op) \in ItemType
  <2> DEFINE text == IF old.cTitle # NoConflict THEN DecidedText(op.text.v, op.at, old.cTitle)
                     ELSE CausalValue(op.text.v, op.at, {old.title})
  <2>1. old.cTitle \in Conflicts /\ old.title.at \in Stamps /\ old.title.seen \in SUBSET Stamps
    BY DEF ItemType, Texts
  <2>2. text \in Texts
    BY <1>1, <2>1, DecidedTypes, CausalTypes
  <2>3. ServerResolveTitle(old, op) = [old EXCEPT !.title = text, !.titleRes = op.at, !.cTitle = NoConflict]
    BY DEF ServerResolveTitle
  <2> HIDE DEF text
  <2> QED
    BY <1>1, <2>2, <2>3 DEF ItemType
<1>4. DecideDeleted(old, op.flag, op.at) \in ItemType
  <2> DEFINE del == IF op.flag THEN op.at ELSE NoStamp
             res == [deleted |-> op.flag, at |-> op.at]
  <2>1. del \in Stamps /\ res \in [deleted : BOOLEAN, at : Stamps]
    BY <1>1
  <2>2. DecideDeleted(old, op.flag, op.at) = [old EXCEPT !.del = del, !.delRes = res, !.cDel = NoConflict]
    BY DEF DecideDeleted
  <2> HIDE DEF del, res
  <2> QED
    BY <1>1, <2>1, <2>2 DEF ItemType
<1>5. \A t \in ItemType : MergeItem(old, t) \in ItemType
  BY MergedItem
<1> QED
  BY <1>2, <1>3, <1>4, <1>5 DEF Stored

\* What the service of one operation changes.
Serves(r, op) ==
    /\ disk' = disk /\ mem' = mem /\ phase' = phase /\ batch' = batch /\ shedKeys' = shedKeys /\ count' = count
    /\ \/ rows' = rows /\ revision' = revision
       \/ /\ op.key \notin receipts /\ revision' = revision + 1
          /\ \E new : /\ Stored(rows[op.item].item, op, new)
                      /\ rows' = [rows EXCEPT ![op.item] = [item |-> new, rev |-> revision + 1]]
    /\ \/ receipts' = receipts
       \/ /\ receipts' = receipts \cup {op.key}
          /\ \/ rows' # rows /\ revision' = revision + 1
             \/ op.kind = "resolveTitle" /\ ~After(op.at, rows[op.item].item.titleRes)
             \/ op.kind = "resolveDeleted" /\ ~After(op.at, rows[op.item].item.delRes.at)

\* ServeOperation does what Serves says.
LEMMA ServeEffect ==
    ASSUME TypeOK, NEW r \in requests, NEW op \in r.ops, ServeOperation(r, op)
    PROVE  Serves(r, op) /\ op \in Operations /\ r.d \in Devices
<1> DEFINE old == rows[op.item].item
           outcome == ApplyItemOperation(old, op)
           written == [rows EXCEPT ![op.item] = [item |-> outcome.item, rev |-> revision + 1]]
<1>0. r \in [d : Devices, cycle : Nat, ops : SUBSET Operations]
  BY DEF TypeOK
<1>1. op \in Operations /\ r.d \in Devices /\ op.item \in Items
  <2>1. op \in Operations /\ r.d \in Devices
    BY <1>0
  <2> QED
    BY <2>1 DEF Operations
<1>2. /\ old \in ItemType /\ rows \in [Items -> [item : ItemType, rev : Nat]]
      /\ revision \in Nat /\ \A i \in Items : rows[i].rev <= revision
  BY <1>1 DEF TypeOK
<1>3. /\ outcome.ok /\ outcome.writes => Stored(old, op, outcome.item)
      /\ outcome.ok /\ ~outcome.writes =>
           \/ op.kind = "resolveTitle" /\ ~After(op.at, old.titleRes)
           \/ op.kind = "resolveDeleted" /\ ~After(op.at, old.delRes.at)
  BY <1>1, <1>2, ApplyOutcome
<1>4. /\ disk' = disk /\ mem' = mem /\ phase' = phase /\ batch' = batch /\ shedKeys' = shedKeys /\ count' = count
      /\ rows' = IF op.key \notin receipts /\ outcome.ok /\ outcome.writes THEN written ELSE rows
      /\ revision' = IF op.key \notin receipts /\ outcome.ok /\ outcome.writes THEN revision + 1 ELSE revision
      /\ receipts' = IF outcome.ok THEN receipts \cup {op.key} ELSE receipts
  BY DEF ServeOperation
<1> HIDE DEF outcome
<1>5. written # rows
  <2>1. written[op.item].rev = revision + 1 /\ rows[op.item].rev # revision + 1
    BY <1>1, <1>2
  <2> QED
    BY <2>1
<1>6. CASE op.key \notin receipts /\ outcome.ok /\ outcome.writes
  BY <1>1, <1>3, <1>4, <1>5, <1>6 DEF Serves
<1>7. CASE op.key \notin receipts /\ outcome.ok /\ ~outcome.writes
  BY <1>1, <1>3, <1>4, <1>7 DEF Serves
<1>8. CASE op.key \in receipts \/ ~outcome.ok
  <2>1. receipts' = receipts /\ rows' = rows /\ revision' = revision
    BY <1>4, <1>8
  <2> QED
    BY <1>1, <1>4, <2>1 DEF Serves
<1> QED
  BY <1>6, <1>7, <1>8

\* The union of a family of sets of which one member gained an element.
LEMMA UnionGrows ==
    ASSUME NEW D, NEW d \in D, NEW k, NEW F, NEW G, G[d] = F[d] \cup {k},
           \A e \in D : e # d => G[e] = F[e]
    PROVE  UNION {G[e] : e \in D} = (UNION {F[e] : e \in D}) \cup {k}
<1> DEFINE A == UNION {G[e] : e \in D}
           B == UNION {F[e] : e \in D}
<1>1. \A e \in D : \A x \in F[e] : x \in B
  BY Zenon
<1>2. \A e \in D : \A x \in G[e] : x \in A
  BY Zenon
<1>3. \A x \in B : \E e \in D : x \in F[e]
  BY Zenon
<1>4. \A x \in A : \E e \in D : x \in G[e]
  BY Zenon
<1>5. A = B \cup {k}
  <2> HIDE DEF A, B
  <2>1. k \in A
    BY <1>2
  <2>2. \A x \in A : x \in B \cup {k}
    BY <1>1, <1>4
  <2>3. \A x \in B : x \in A
    BY <1>2, <1>3
  <2> QED
    BY <2>1, <2>2, <2>3
<1> QED
  BY <1>5

\* The server takes one operation: the rows keep their type and their revisions.
LEMMA ServeKeepsClocks ==
    ASSUME ClockInv, NEW r \in requests, NEW op \in r.ops, ServeOperation(r, op)
    PROVE  ClockInv'
<1>1. TypeOK /\ RevisionsDiffer
  BY DEF ClockInv
<1>2. Serves(r, op) /\ op \in Operations /\ r.d \in Devices
  BY <1>1, ServeEffect
<1>3. op.item \in Items /\ op.key \in KeyType
  BY <1>2 DEF Operations
<1>4. /\ rows \in [Items -> [item : ItemType, rev : Nat]] /\ revision \in Nat
      /\ \A i \in Items : rows[i].rev <= revision
  BY <1>1 DEF TypeOK
<1>5. /\ revision' \in Nat /\ revision <= revision'
      /\ rows' \in [Items -> [item : ItemType, rev : Nat]]
      /\ \A i \in Items : rows'[i].rev <= revision'
      /\ RevisionsDiffer'
  <2>1. CASE rows' = rows /\ revision' = revision
    BY <1>1, <1>4, <2>1 DEF RevisionsDiffer
  <2>2. ASSUME NEW new, Stored(rows[op.item].item, op, new), revision' = revision + 1,
               rows' = [rows EXCEPT ![op.item] = [item |-> new, rev |-> revision + 1]]
        PROVE  /\ revision' \in Nat /\ revision <= revision'
               /\ rows' \in [Items -> [item : ItemType, rev : Nat]]
               /\ \A i \in Items : rows'[i].rev <= revision'
               /\ RevisionsDiffer'
    <3>1. new \in ItemType
      BY <1>2, <1>3, <1>4, <2>2, StoredType
    <3>2. /\ rows'[op.item] = [item |-> new, rev |-> revision + 1]
          /\ \A i \in Items : i # op.item => rows'[i] = rows[i]
          /\ rows' \in [Items -> [item : ItemType, rev : Nat]]
      BY <1>3, <1>4, <2>2, <3>1
    <3>3. rows'[op.item].rev = revision + 1
      BY <3>2
    <3>4. \A i \in Items : rows'[i].rev <= revision'
      BY <1>4, <2>2, <3>2, <3>3
    <3>5. RevisionsDiffer'
      BY <1>1, <1>4, <3>2, <3>3 DEF RevisionsDiffer
    <3> QED
      BY <1>4, <2>2, <3>2, <3>4, <3>5
  <2> QED
    BY <1>2, <2>1, <2>2 DEF Serves
<1>6. /\ receipts' = UNION {Range(applied'[d]) : d \in Devices}
      /\ applied' \in [Devices -> Seq(KeyType)]
  <2> DEFINE d == r.d
             k == op.key
  <2>0. d \in Devices /\ k \in KeyType /\ applied \in [Devices -> Seq(KeyType)]
        /\ receipts = UNION {Range(applied[e]) : e \in Devices}
    BY <1>1, <1>2, <1>3 DEF TypeOK
  <2>1. \/ receipts' = receipts /\ applied' = applied
        \/ receipts' = receipts \cup {k} /\ applied' = [applied EXCEPT ![d] = Append(applied[d], k)]
    <3>1. CASE k \notin receipts /\ ApplyItemOperation(rows[op.item].item, op).ok
      BY <3>1 DEF ServeOperation
    <3>2. CASE k \in receipts \/ ~ApplyItemOperation(rows[op.item].item, op).ok
      <4>1. applied' = applied
        BY <3>2 DEF ServeOperation
      <4>2. receipts' = receipts \/ receipts' = receipts \cup {k}
        BY DEF ServeOperation
      <4>3. receipts' = receipts
        BY <3>2, <4>2 DEF ServeOperation
      <4> QED
        BY <4>1, <4>3
    <3> QED
      BY <3>1, <3>2
  <2> HIDE DEF d, k
  <2>2. CASE receipts' = receipts /\ applied' = applied
    BY <2>0, <2>2
  <2>3. CASE receipts' = receipts \cup {k} /\ applied' = [applied EXCEPT ![d] = Append(applied[d], k)]
    <3>1. applied[d] \in Seq(KeyType) /\ Append(applied[d], k) \in Seq(KeyType)
      BY <2>0
    <3>2. applied' \in [Devices -> Seq(KeyType)] /\ applied'[d] = Append(applied[d], k)
          /\ \A e \in Devices : e # d => applied'[e] = applied[e]
      BY <2>0, <2>3, <3>1
    <3>3. Range(Append(applied[d], k)) = Range(applied[d]) \cup {k}
      <4> DEFINE s == applied[d]
                 t == Append(s, k)
      <4>1. /\ DOMAIN s = 1..Len(s) /\ DOMAIN t = 1..(Len(s) + 1) /\ Len(s) \in Nat
            /\ t[Len(s) + 1] = k /\ \A n \in 1..Len(s) : t[n] = s[n]
        BY <2>0, <3>1
      <4> HIDE DEF s, t
      <4>2. \A x \in DOMAIN t : t[x] \in Range(s) \cup {k}
        BY <4>1 DEF Range
      <4>3. \A x \in DOMAIN s : s[x] \in Range(t)
        BY <4>1 DEF Range
      <4>4. k \in Range(t)
        BY <4>1 DEF Range
      <4>5. Range(t) \subseteq Range(s) \cup {k}
        BY <4>2 DEF Range
      <4>6. Range(s) \subseteq Range(t)
        BY <4>3 DEF Range
      <4> QED
        BY <4>4, <4>5, <4>6 DEF s, t
    <3>4. Range(applied'[d]) = Range(applied[d]) \cup {k}
      BY <3>2, <3>3
    <3>5. UNION {Range(applied'[e]) : e \in Devices} = (UNION {Range(applied[e]) : e \in Devices}) \cup {k}
      <4>1. \A e \in Devices : e # d => Range(applied'[e]) = Range(applied[e])
        BY <3>2
      <4> DEFINE Before == [e \in Devices |-> Range(applied[e])]
                 Now == [e \in Devices |-> Range(applied'[e])]
      <4>2. /\ Now[d] = Before[d] \cup {k} /\ \A e \in Devices : e # d => Now[e] = Before[e]
            /\ \A e \in Devices : Now[e] = Range(applied'[e]) /\ Before[e] = Range(applied[e])
        BY <2>0, <3>4, <4>1
      <4> HIDE DEF Before, Now
      <4>3. UNION {Now[e] : e \in Devices} = (UNION {Before[e] : e \in Devices}) \cup {k}
        BY <2>0, <4>2, UnionGrows
      <4>4. {Now[e] : e \in Devices} = {Range(applied'[e]) : e \in Devices}
        BY <4>2
      <4>5. {Before[e] : e \in Devices} = {Range(applied[e]) : e \in Devices}
        BY <4>2
      <4> QED
        BY <4>3, <4>4, <4>5
    <3> QED
      BY <2>0, <2>3, <3>2, <3>5
  <2> QED
    BY <2>1, <2>2, <2>3
<1>7. requests' \subseteq [d : Devices, cycle : Nat, ops : SUBSET Operations]
  <2>1. r \in [d : Devices, cycle : Nat, ops : SUBSET Operations]
    BY <1>1 DEF TypeOK
  <2>2. [r EXCEPT !.ops = @ \ {op}] \in [d : Devices, cycle : Nat, ops : SUBSET Operations]
    BY <2>1
  <2>3. requests' \subseteq requests \cup {[r EXCEPT !.ops = @ \ {op}]}
    BY DEF ServeOperation
  <2> QED
    BY <1>1, <2>2, <2>3 DEF TypeOK
<1>8. answer' \in [Devices -> [accepted : SUBSET KeyType, rejected : SUBSET KeyType]]
  <2> DEFINE Answers == [accepted : SUBSET KeyType, rejected : SUBSET KeyType]
  <2>1. answer \in [Devices -> Answers] /\ answer[r.d] \in Answers
    BY <1>1, <1>2 DEF TypeOK
  <2>2. /\ [answer[r.d] EXCEPT !.accepted = @ \cup {op.key}] \in Answers
        /\ [answer[r.d] EXCEPT !.rejected = @ \cup {op.key}] \in Answers
    BY <1>3, <2>1
  <2>3. \/ answer' = answer
        \/ answer' = [answer EXCEPT ![r.d] = [answer[r.d] EXCEPT !.accepted = @ \cup {op.key}]]
        \/ answer' = [answer EXCEPT ![r.d] = [answer[r.d] EXCEPT !.rejected = @ \cup {op.key}]]
    BY DEF ServeOperation
  <2> HIDE DEF Answers
  <2>4. answer' \in [Devices -> Answers]
    BY <1>2, <2>1, <2>2, <2>3
  <2> QED
    BY <2>4 DEF Answers
<1>9. /\ disk' = disk /\ mem' = mem /\ phase' = phase /\ batch' = batch /\ shedKeys' = shedKeys /\ count' = count
  BY <1>2 DEF Serves
<1>10. \A d \in Devices : /\ disk'[d] \in States(d) /\ disk'[d].cursor <= revision'
                          /\ mem'[d] \in States(d) /\ mem'[d].cursor <= revision'
  <2>1. \A d \in Devices : /\ disk[d] \in States(d) /\ disk[d].cursor <= revision /\ disk[d].cursor \in Nat
                           /\ mem[d] \in States(d) /\ mem[d].cursor <= revision /\ mem[d].cursor \in Nat
    BY <1>1 DEF TypeOK, States
  <2> QED
    BY <1>4, <1>5, <1>9, <2>1
<1>11. TypeOK'
  BY <1>1, <1>5, <1>6, <1>7, <1>8, <1>9, <1>10 DEF TypeOK
<1>12. \A d \in Devices : ClockCovers(disk'[d]) /\ ClockCovers(mem'[d])
  BY <1>9 DEF ClockInv
<1> QED
  BY <1>5, <1>11, <1>12 DEF ClockInv, ClockCovers


\* Every step keeps the types and the clocks.
LEMMA ClockStep == ClockInv /\ [Next]_vars => ClockInv'
<1> SUFFICES ASSUME ClockInv, [Next]_vars PROVE ClockInv'
  OBVIOUS
<1>0. TypeOK /\ \A d \in Devices : /\ disk[d] \in States(d) /\ disk[d].cursor <= revision /\ ClockCovers(disk[d])
                                   /\ mem[d] \in States(d) /\ mem[d].cursor <= revision /\ ClockCovers(mem[d])
  BY DEF ClockInv, TypeOK
<1>1. CASE UNCHANGED vars
  BY <1>1 DEF vars, ClockInv, TypeOK, RevisionsDiffer, ClockCovers
<1> SUFFICES ASSUME Next PROVE ClockInv'
  BY <1>1
<1> PICK d \in Devices :
        \/ \E i \in Items :
             \/ \E v \in Titles[d] : AddItem(d, i, v) \/ SetTitle(d, i, v)
             \/ \E b \in Flags[d] : SetCompleted(d, i, b)
             \/ DeleteItem(d, i)
             \/ \E b \in BOOLEAN : ResolveTitle(d, i, b) \/ ResolveDeleted(d, i, b)
        \/ \E key \in Keys(disk[d].outbox) : RequestRetry(d, key)
        \/ BeginSync(d)
        \/ PullFails(d)
        \/ PullAnswers(d)
        \/ PushAnswers(d)
        \/ PushFails(d)
        \/ Crash(d)
        \/ \E r \in requests : \E op \in r.ops : r.d = d /\ ServeOperation(r, op)
  BY Zenon DEF Next
<1>2. ASSUME NEW i \in Items,
             \/ \E v \in Titles[d] : AddItem(d, i, v) \/ SetTitle(d, i, v)
             \/ \E b \in Flags[d] : SetCompleted(d, i, b)
             \/ DeleteItem(d, i)
             \/ \E b \in BOOLEAN : ResolveTitle(d, i, b) \/ ResolveDeleted(d, i, b)
      PROVE  ClockInv'
  <2>1. PICK item, kind, at, text, flag : Edit(d, i, item, kind, at, text, flag)
    BY <1>2, EditsCommit
  <2> QED
    BY <2>1, CommitKeepsClocks
<1>3. ASSUME NEW key \in Keys(disk[d].outbox), RequestRetry(d, key) PROVE ClockInv'
  <2>1. key \in KeyType
    BY <1>0 DEF Keys, States, Operations
  <2>2. /\ disk' = [disk EXCEPT ![d].retry = @ \cup {key}]
        /\ count' = [count EXCEPT ![d].retries = @ + 1]
        /\ mem' = mem /\ phase' = phase /\ batch' = batch /\ answer' = answer /\ requests' = requests
        /\ rows' = rows /\ revision' = revision /\ receipts' = receipts /\ applied' = applied /\ shedKeys' = shedKeys
    BY <1>3 DEF RequestRetry, syncVars, serverVars
  <2>3. /\ DOMAIN disk' = Devices /\ \A e \in Devices : e # d => disk'[e] = disk[e]
        /\ disk'[d] = [disk[d] EXCEPT !.retry = disk[d].retry \cup {key}]
    BY <1>0, <2>2 DEF TypeOK
  <2>4. /\ disk'[d] \in States(d) /\ disk'[d].cursor = disk[d].cursor
        /\ disk'[d].clock = disk[d].clock /\ disk'[d].items = disk[d].items
    BY <1>0, <2>1, <2>3 DEF States
  <2>5. count' \in [Devices -> [edits : Nat, cycles : Nat, retries : Nat, max : Loads]]
    <3> DEFINE Count == [edits : Nat, cycles : Nat, retries : Nat, max : Loads]
    <3>0. count \in [Devices -> Count] /\ count[d] \in Count
      BY <1>0 DEF TypeOK
    <3>1. [count[d] EXCEPT !.retries = @ + 1] \in Count
      BY <3>0
    <3> HIDE DEF Count
    <3>2. count' \in [Devices -> Count]
      BY <2>2, <3>0, <3>1
    <3> QED
      BY <3>2 DEF Count
  <2>6. ClockCovers(disk'[d])
    BY <1>0, <2>4 DEF ClockCovers
  <2>7. \A e \in Devices : /\ disk'[e] \in States(e) /\ disk'[e].cursor <= revision /\ ClockCovers(disk'[e])
    BY <1>0, <2>3, <2>4, <2>6
  <2>9. \A e \in Devices : mem'[e] \in States(e) /\ mem'[e].cursor <= revision'
                            /\ disk'[e] \in States(e) /\ disk'[e].cursor <= revision'
    BY <1>0, <2>2, <2>7
  <2>10. DOMAIN disk' = Devices /\ DOMAIN mem' = Devices
    BY <1>0, <2>2, <2>3 DEF TypeOK
  <2>11. /\ phase' \in [Devices -> {"idle", "pull", "push"}]
         /\ batch' \in [Devices -> SUBSET Operations]
         /\ answer' \in [Devices -> [accepted : SUBSET KeyType, rejected : SUBSET KeyType]]
         /\ requests' \subseteq [d : Devices, cycle : Nat, ops : SUBSET Operations]
         /\ rows' \in [Items -> [item : ItemType, rev : Nat]]
         /\ revision' \in Nat /\ \A i \in Items : rows'[i].rev <= revision'
         /\ applied' \in [Devices -> Seq(KeyType)]
         /\ receipts' = UNION {Range(applied'[e]) : e \in Devices}
         /\ shedKeys' \subseteq KeyType
    BY <1>0, <2>2 DEF TypeOK
  <2>8. TypeOK'
    BY <2>5, <2>9, <2>10, <2>11 DEF TypeOK
  <2> QED
    BY <1>0, <2>2, <2>7, <2>8 DEF ClockInv, RevisionsDiffer, ClockCovers
<1>4. CASE BeginSync(d)
  <2> DEFINE copy == [disk[d] EXCEPT !.outbox = Shed(@)]
  <2>1. /\ disk' = disk /\ batch' = batch /\ answer' = answer /\ requests' = requests /\ rows' = rows
        /\ revision' = revision /\ receipts' = receipts /\ applied' = applied
        /\ mem' = [mem EXCEPT ![d] = copy] /\ phase' = [phase EXCEPT ![d] = "pull"]
        /\ count' = [count EXCEPT ![d].cycles = @ + 1]
        /\ shedKeys' \subseteq shedKeys \cup Keys(disk[d].outbox)
    BY <1>4 DEF BeginSync, serverVars
  <2>2. Shed(disk[d].outbox) \subseteq disk[d].outbox /\ Keys(disk[d].outbox) \subseteq KeyType
    BY <1>0 DEF Shed, Keys, States, Operations
  <2>3. /\ copy \in States(d) /\ copy.cursor = disk[d].cursor
        /\ copy.clock = disk[d].clock /\ copy.items = disk[d].items
    BY <1>0, <2>2 DEF States
  <2> HIDE DEF copy
  <2>4. DOMAIN mem' = Devices /\ mem'[d] = copy /\ \A e \in Devices : e # d => mem'[e] = mem[e]
    BY <1>0, <2>1 DEF TypeOK
  <2>5. ClockCovers(copy)
    BY <1>0, <2>3 DEF ClockCovers
  <2>6. \A e \in Devices : mem'[e] \in States(e) /\ mem'[e].cursor <= revision /\ ClockCovers(mem'[e])
    BY <1>0, <2>3, <2>4, <2>5
  <2>7. count' \in [Devices -> [edits : Nat, cycles : Nat, retries : Nat, max : Loads]]
    <3> DEFINE Count == [edits : Nat, cycles : Nat, retries : Nat, max : Loads]
    <3>0. count \in [Devices -> Count] /\ count[d] \in Count
      BY <1>0 DEF TypeOK
    <3>1. [count[d] EXCEPT !.cycles = @ + 1] \in Count
      BY <3>0
    <3> HIDE DEF Count
    <3>2. count' \in [Devices -> Count]
      BY <2>1, <3>0, <3>1
    <3> QED
      BY <3>2 DEF Count
  <2>8. phase' \in [Devices -> {"idle", "pull", "push"}] /\ shedKeys' \subseteq KeyType
    BY <1>0, <2>1, <2>2 DEF TypeOK
  <2>9. TypeOK'
    BY <1>0, <2>1, <2>4, <2>6, <2>7, <2>8 DEF TypeOK
  <2> QED
    BY <1>0, <2>1, <2>6, <2>9 DEF ClockInv, RevisionsDiffer, ClockCovers
<1>5. CASE PullFails(d)
  BY <1>0, <1>5, FinishKeepsClocks DEF PullFails
<1>6. CASE PullAnswers(d)
  <2> DEFINE state == Absorb(d, mem[d])
             ops == NextBatch(state.outbox, state.retry)
  <2>1. state \in States(d) /\ state.cursor <= revision /\ ClockCovers(state) /\ state.outbox = mem[d].outbox
    BY <1>0, AbsorbEffect, AbsorbCovers
  <2>2. CASE Finish(d, state)
    BY <2>1, <2>2, FinishKeepsClocks
  <2>3. CASE ~Finish(d, state)
    <3>1. /\ mem' = [mem EXCEPT ![d] = state] /\ batch' = [batch EXCEPT ![d] = ops]
          /\ phase' = [phase EXCEPT ![d] = "push"]
          /\ requests' = requests \cup {[d |-> d, cycle |-> count[d].cycles, ops |-> ops]}
          /\ disk' = disk /\ answer' = answer /\ rows' = rows /\ revision' = revision /\ receipts' = receipts
          /\ applied' = applied /\ shedKeys' = shedKeys /\ count' = count
      BY <1>6, <2>3 DEF PullAnswers
    <3>2. ops \in SUBSET Operations
      BY <1>0, <2>1 DEF NextBatch, Heads, States
    <3> HIDE DEF state, ops
    <3>3. DOMAIN mem' = Devices /\ mem'[d] = state /\ \A e \in Devices : e # d => mem'[e] = mem[e]
      BY <1>0, <3>1 DEF TypeOK
    <3>4. \A e \in Devices : mem'[e] \in States(e) /\ mem'[e].cursor <= revision /\ ClockCovers(mem'[e])
      BY <1>0, <2>1, <3>3
    <3>5. [d |-> d, cycle |-> count[d].cycles, ops |-> ops] \in [d : Devices, cycle : Nat, ops : SUBSET Operations]
      <4>1. count[d].cycles \in Nat
        BY <1>0 DEF TypeOK
      <4> QED
        BY <3>2, <4>1
    <3>6. /\ phase' \in [Devices -> {"idle", "pull", "push"}] /\ batch' \in [Devices -> SUBSET Operations]
          /\ requests' \subseteq [d : Devices, cycle : Nat, ops : SUBSET Operations]
      BY <1>0, <3>1, <3>2, <3>5 DEF TypeOK
    <3>7. TypeOK'
      BY <1>0, <3>1, <3>3, <3>4, <3>6 DEF TypeOK
    <3> QED
      BY <1>0, <3>1, <3>4, <3>7 DEF ClockInv, RevisionsDiffer, ClockCovers
  <2> QED
    BY <2>2, <2>3
<1>7. CASE PushAnswers(d)
  <2> DEFINE state == [mem[d] EXCEPT !.outbox = Acknowledge(@, answer[d].accepted), !.retry = @ \ Keys(batch[d])]
  <2>1. Acknowledge(mem[d].outbox, answer[d].accepted) \subseteq mem[d].outbox
    BY DEF Acknowledge
  <2>2. state \in States(d) /\ state.cursor = mem[d].cursor /\ state.clock = mem[d].clock /\ state.items = mem[d].items
    BY <1>0, <2>1 DEF States
  <2>3. Finish(d, state)
    BY <1>7 DEF PushAnswers
  <2> HIDE DEF state
  <2>4. ClockCovers(state)
    BY <1>0, <2>2 DEF ClockCovers
  <2> QED
    BY <1>0, <2>2, <2>3, <2>4, FinishKeepsClocks
<1>8. CASE PushFails(d)
  <2> DEFINE state == [mem[d] EXCEPT !.retry = @ \ Keys(batch[d])]
  <2>1. state \in States(d) /\ state.cursor = mem[d].cursor /\ state.clock = mem[d].clock /\ state.items = mem[d].items
    BY <1>0 DEF States
  <2>2. Finish(d, state)
    BY <1>8 DEF PushFails
  <2> HIDE DEF state
  <2>3. ClockCovers(state)
    BY <1>0, <2>1 DEF ClockCovers
  <2> QED
    BY <1>0, <2>1, <2>2, <2>3, FinishKeepsClocks
<1>9. CASE Crash(d)
  <2>1. /\ disk' = disk /\ requests' = requests /\ rows' = rows /\ revision' = revision /\ receipts' = receipts
        /\ applied' = applied /\ shedKeys' = shedKeys /\ count' = count
        /\ mem' = [mem EXCEPT ![d] = EmptyState(d)] /\ phase' = [phase EXCEPT ![d] = "idle"]
        /\ batch' = [batch EXCEPT ![d] = {}] /\ answer' = [answer EXCEPT ![d] = NoAnswer]
    BY <1>9 DEF Crash, serverVars
  <2>2. EmptyState(d) \in States(d) /\ ClockCovers(EmptyState(d)) /\ EmptyState(d).cursor = 0 /\ 0 <= revision
    <3>1. EmptyState(d) \in States(d) /\ ClockCovers(EmptyState(d))
      BY EmptyCovers
    <3>2. EmptyState(d).cursor = 0
      BY DEF EmptyState
    <3>3. revision \in Nat
      BY <1>0 DEF TypeOK
    <3> QED
      BY <3>1, <3>2, <3>3
  <2>3. DOMAIN mem' = Devices /\ mem'[d] = EmptyState(d) /\ \A e \in Devices : e # d => mem'[e] = mem[e]
    BY <1>0, <2>1 DEF TypeOK
  <2>4. \A e \in Devices : mem'[e] \in States(e) /\ mem'[e].cursor <= revision /\ ClockCovers(mem'[e])
    BY <1>0, <2>2, <2>3
  <2>5. /\ phase' \in [Devices -> {"idle", "pull", "push"}] /\ batch' \in [Devices -> SUBSET Operations]
        /\ answer' \in [Devices -> [accepted : SUBSET KeyType, rejected : SUBSET KeyType]]
    BY <1>0, <2>1 DEF TypeOK, NoAnswer
  <2>6. TypeOK'
    BY <1>0, <2>1, <2>3, <2>4, <2>5 DEF TypeOK
  <2> QED
    BY <1>0, <2>1, <2>4, <2>6 DEF ClockInv, RevisionsDiffer, ClockCovers
<1>10. ASSUME NEW r \in requests, NEW op \in r.ops, ServeOperation(r, op) PROVE ClockInv'
  BY <1>10, ServeKeepsClocks
<1> QED
  BY <1>2, <1>3, <1>4, <1>5, <1>6, <1>7, <1>8, <1>9, <1>10

\* Every variable keeps its type: stamps are made by the devices, cursors never pass
\* the server's revision, and the receipts are the keys of the applied operations.
THEOREM TypeCorrect == Spec => []TypeOK
<1>1. ClockInv => TypeOK
  BY DEF ClockInv
<1> QED
  BY ClockInit, ClockStep, <1>1, PTL DEF Spec

\* A device's clock is never behind a stamp its cache holds, for any devices, wall
\* clocks, faults and bounds, and whether or not edits wait for a running cycle.
THEOREM ClocksDominate == Spec => []ClockDominates
<1>1. ClockInv => ClockDominates
  BY DEF ClockInv, ClockCovers, ClockDominates
<1> QED
  BY ClockInit, ClockStep, <1>1, PTL DEF Spec

---------------------------------------------------------------------------
(* Devices that have nothing left to send or fetch show what the server holds *)

\* The laws of the order that the proofs about merges use.
LEMMA OrderOfStamps ==
    ASSUME NEW a \in Stamps, NEW b \in Stamps, NEW c \in Stamps
    PROVE  /\ ~After(a, a)
           /\ ~After(a, b) /\ ~After(b, a) => a = b
           /\ ~After(a, b) /\ ~After(b, c) => ~After(a, c)
           /\ After(a, b) /\ ~After(c, b) => After(a, c)
           /\ After(a, b) /\ ~After(a, c) => After(c, b)
           /\ After(a, b) => ~After(b, a)
           /\ Later(a, b) \in {a, b} /\ ~After(a, Later(a, b)) /\ ~After(b, Later(a, b))
<1>1. a \in Stamp3 /\ b \in Stamp3 /\ c \in Stamp3
  BY StampTypes
<1> QED
  BY <1>1 DEF Stamp3, After, Later

\* No stamp is after itself.
LEMMA SameStamp == ASSUME NEW a \in Stamps PROVE ~After(a, a)
BY OrderOfStamps

\* The stamp that stands for none is before every other.
LEMMA NoStampIsFirst ==
    ASSUME NEW a \in Stamps
    PROVE  ~After(NoStamp, a) /\ (a # NoStamp => After(a, NoStamp))
<1>1. CASE a = NoStamp
  BY <1>1 DEF After, NoStamp
<1>2. CASE a \in [p : Nat, l : Nat, d : Devices]
  BY <1>2 DEF After, NoStamp
<1> QED
  BY <1>1, <1>2 DEF Stamps

\* The titles of one item agree: a stamp names one text, and none was derived
\* from an event after it.
Cohere(T) == \A x, y \in T :
    /\ x.at = y.at => x.v = y.v
    /\ \A s \in x.seen : ~After(s, x.at)

\* Titles that agree merge to the later of the two.
LEMMA LaterTitle ==
    ASSUME NEW o \in ItemType, NEW t \in ItemType, Cohere({o.title, t.title})
    PROVE  LET m == MergeTitle(o, t).value IN
           /\ m.at = Later(o.title.at, t.title.at)
           /\ m.at = o.title.at => m.v = o.title.v
           /\ m.at = t.title.at => m.v = t.title.v
           /\ \A s \in m.seen : ~After(s, m.at)
<1> DEFINE a == o.title
           b == t.title
           m == MergeTitle(o, t).value
<1>1. /\ a \in Texts /\ b \in Texts /\ a.at \in Stamps /\ b.at \in Stamps
      /\ a.seen \subseteq Stamps /\ b.seen \subseteq Stamps
  BY DEF ItemType, Texts
<1>2. /\ a.at = b.at => a.v = b.v
      /\ \A s \in a.seen : ~After(s, a.at)
      /\ \A s \in b.seen : ~After(s, b.at)
  BY DEF Cohere
<1>3. CASE a.at = o.titleRes /\ t.title.at = t.titleRes
  <2>1. m = IF After(b.at, a.at) THEN b ELSE a
    BY <1>3 DEF MergeTitle
  <2> QED
    BY <1>1, <1>2, <2>1, OrderOfStamps DEF Later
<1>4. CASE ~(a.at = o.titleRes /\ t.title.at = t.titleRes)
  <2>0. m = MergeText(a, b).value
    BY <1>4 DEF MergeTitle
  <2> DEFINE winner == IF After(b.at, a.at) THEN b ELSE a
             joint == CausalFrontier({a.at, b.at} \cup a.seen \cup b.seen)
  <2>1. /\ winner.at = Later(a.at, b.at) /\ winner \in {a, b} /\ winner \in Texts
        /\ winner.at \in Stamps /\ ~After(a.at, winner.at) /\ ~After(b.at, winner.at)
        /\ winner.at = a.at => winner.v = a.v
        /\ winner.at = b.at => winner.v = b.v
        /\ \A s \in winner.seen : ~After(s, winner.at)
    BY <1>1, <1>2, OrderOfStamps DEF Later
  <2>2. CASE a.v = b.v
    <3>1. MergeText(a, b).value = [winner EXCEPT !.seen = joint]
      BY <2>2 DEF MergeText
    <3>2. joint \subseteq {a.at, b.at} \cup a.seen \cup b.seen
      BY DEF CausalFrontier
    <3>3. \A s \in joint : s \in Stamps /\ (~After(s, a.at) \/ ~After(s, b.at))
      BY <1>1, <1>2, <3>2, OrderOfStamps
    <3>4. \A s \in joint : ~After(s, winner.at)
      BY <1>1, <2>1, <3>3, OrderOfStamps
    <3> HIDE DEF joint, winner, m, a, b
    <3>5. m.at = winner.at /\ m.v = winner.v /\ m.seen = joint
      BY <2>0, <2>1, <3>1 DEF Texts
    <3> QED
      BY <2>1, <3>4, <3>5 DEF m, a, b
  <2>3. CASE a.v # b.v
    <3>1. a.at # b.at
      BY <1>2, <2>3
    <3>2. Observes(b, a.at) => ~After(a.at, b.at)
      BY <1>1, <1>2, OrderOfStamps DEF Observes
    <3>3. Observes(a, b.at) => ~After(b.at, a.at)
      BY <1>1, <1>2, OrderOfStamps DEF Observes
    <3>4. After(a.at, b.at) \/ After(b.at, a.at)
      BY <1>1, <3>1, OrderOfStamps
    <3> DEFINE saw == Observes(b, a.at)
               seen == Observes(a, b.at)
    <3>5. MergeText(a, b).value = IF saw # seen THEN IF saw THEN b ELSE a ELSE winner
      BY <2>3, <3>1 DEF MergeText
    <3>6. MergeText(a, b).value = winner
      <4> HIDE DEF saw, seen
      <4>1. saw => ~After(a.at, b.at)
        BY <3>2 DEF saw
      <4>2. seen => ~After(b.at, a.at)
        BY <3>3 DEF seen
      <4>3. saw /\ ~seen => After(b.at, a.at)
        BY <3>4, <4>1
      <4>4. CASE saw /\ ~seen
        BY <3>5, <4>3, <4>4
      <4>5. CASE ~saw /\ seen
        BY <3>5, <4>2, <4>5
      <4>6. CASE saw <=> seen
        BY <3>5, <4>6
      <4>7. saw \in BOOLEAN /\ seen \in BOOLEAN
        BY DEF saw, seen, Observes
      <4> QED
        BY <4>4, <4>5, <4>6, <4>7
    <3> QED
      BY <2>0, <2>1, <3>6
  <2> QED
    BY <2>2, <2>3
<1> QED
  BY <1>3, <1>4

\* Completions are ordered by reading, counter and value: at equal clocks `true` wins.
DoneBelow(a, b) ==
    \/ a.at.p < b.at.p
    \/ a.at.p = b.at.p /\ a.at.l < b.at.l
    \/ a.at.p = b.at.p /\ a.at.l = b.at.l /\ (a.v => b.v)

\* The completions of items.
Dones == [v : BOOLEAN, at : Stamps]

\* DoneBelow is a preorder, and a completion nobody set is below every other.
LEMMA DoneOrder ==
    ASSUME NEW a \in Dones, NEW b \in Dones, NEW c \in Dones
    PROVE  /\ DoneBelow(a, a)
           /\ DoneBelow(a, b) /\ DoneBelow(b, c) => DoneBelow(a, c)
           /\ DoneBelow(a, b) /\ DoneBelow(b, a) => a.v = b.v /\ a.at.p = b.at.p /\ a.at.l = b.at.l
           /\ a.at = NoStamp /\ a.v = FALSE => DoneBelow(a, b)
<1>1. a.at \in Stamps /\ b.at \in Stamps /\ c.at \in Stamps /\ a.v \in BOOLEAN /\ b.v \in BOOLEAN /\ c.v \in BOOLEAN
  BY DEF Dones
<1>2. a.at \in Stamp3 /\ b.at \in Stamp3 /\ c.at \in Stamp3
  BY <1>1, StampTypes
<1>3. a.at = NoStamp => (~After(a.at, b.at))
  BY <1>1, NoStampIsFirst
<1>4. /\ a.at.p \in Int /\ a.at.l \in Int /\ b.at.p \in Int /\ b.at.l \in Int /\ c.at.p \in Int /\ c.at.l \in Int
  BY <1>2 DEF Stamp3
<1>5. a.at = NoStamp /\ a.v = FALSE => DoneBelow(a, b)
  BY <1>1, <1>3, <1>4 DEF DoneBelow, After
<1>6. /\ DoneBelow(a, a)
      /\ DoneBelow(a, b) /\ DoneBelow(b, c) => DoneBelow(a, c)
      /\ DoneBelow(a, b) /\ DoneBelow(b, a) => a.at.p = b.at.p /\ a.at.l = b.at.l
  BY <1>4, SMT DEF DoneBelow
<1>7. DoneBelow(a, b) /\ DoneBelow(b, a) => a.v = b.v
  BY <1>1, <1>4 DEF DoneBelow
<1> QED
  BY <1>5, <1>6, <1>7

\* A completion is below itself.
LEMMA SameDone == ASSUME NEW a \in Dones PROVE DoneBelow(a, a)
BY DoneOrder

\* A completion nobody set is below every other.
LEMMA NotDone ==
    ASSUME NEW a \in Dones, NEW b \in Dones, a.at = NoStamp, a.v = FALSE
    PROVE  DoneBelow(a, b)
BY DoneOrder

\* Of two completions the merge keeps one that neither is above.
LEMMA LaterDone ==
    ASSUME NEW a \in Dones, NEW b \in Dones
    PROVE  LET m == MergeCompletion(a, b) IN m \in {a, b} /\ DoneBelow(a, m) /\ DoneBelow(b, m)
<1> DEFINE m == MergeCompletion(a, b)
<1>1. a.at \in Stamps /\ b.at \in Stamps /\ a.v \in BOOLEAN /\ b.v \in BOOLEAN
  BY DEF Dones
<1>2. a.at \in Stamp3 /\ b.at \in Stamp3
  BY <1>1, StampTypes
<1>3. a.at.p \in Int /\ a.at.l \in Int /\ b.at.p \in Int /\ b.at.l \in Int /\ a.at.d \in Int /\ b.at.d \in Int
  BY <1>2 DEF Stamp3
<1>4. CASE a.at.p = b.at.p /\ a.at.l = b.at.l
  <2>1. m = IF a.v THEN a ELSE b
    BY <1>4 DEF MergeCompletion
  <2> QED
    BY <1>1, <1>3, <1>4, <2>1 DEF DoneBelow
<1>5. CASE ~(a.at.p = b.at.p /\ a.at.l = b.at.l)
  <2>1. m = IF After(b.at, a.at) THEN b ELSE a
    BY <1>5, Zenon DEF MergeCompletion
  <2>2. CASE After(b.at, a.at)
    BY <1>3, <1>5, <2>1, <2>2, DoneOrder DEF DoneBelow, After
  <2>3. CASE ~After(b.at, a.at)
    BY <1>3, <1>5, <2>1, <2>3, DoneOrder DEF DoneBelow, After
  <2> QED
    BY <2>2, <2>3
<1> QED
  BY <1>4, <1>5

\* A merge is undecided exactly when both sides are.
LEMMA MergedUndecided ==
    ASSUME NEW o \in ItemType, NEW t \in ItemType
    PROVE  Undecided(MergeItem(o, t)) <=> Undecided(o) /\ Undecided(t)
<1> DEFINE m == MergeItem(o, t)
           delRes == IF After(t.delRes.at, o.delRes.at) THEN t.delRes ELSE o.delRes
<1>1. /\ o.titleRes \in Stamps /\ t.titleRes \in Stamps
      /\ o.delRes.at \in Stamps /\ t.delRes.at \in Stamps
  BY DEF ItemType
<1>2. m.titleRes = Later(o.titleRes, t.titleRes) /\ m.delRes = delRes
  BY DEF MergeItem
<1>3. Later(o.titleRes, t.titleRes) = NoStamp <=> o.titleRes = NoStamp /\ t.titleRes = NoStamp
  BY <1>1, NoStampIsFirst DEF Later
<1>4. delRes.at = NoStamp <=> o.delRes.at = NoStamp /\ t.delRes.at = NoStamp
  BY <1>1, NoStampIsFirst
<1> HIDE DEF m, delRes
<1> QED
  BY <1>2, <1>3, <1>4 DEF Undecided, m

\* The item the server holds.
Row(i) == rows[i].item

\* The states of an item's cache and outbox there are: files and running cycles.
Replicas == {disk[d] : d \in Devices} \cup {mem[d] : d \in Devices}

\* Every operation there is.
AllOps == {op \in Operations : (\E s \in Replicas : op \in s.outbox) \/ \E r \in requests : op \in r.ops}

\* Every version of item i there is, the unknown item among them.
Versions(i) == {x \in ItemType : x = NoItem \/ x = Row(i) \/ \E s \in Replicas : x = s.items[i]}

\* The versions of the title of item i anywhere: stored, or in an operation.
TitlesOn(i) ==
    {t \in Texts : (\E x \in Versions(i) : t = x.title) \/ \E op \in AllOps : op.item = i /\ t = op.text}

\* A stamp is not after the clock of the device that made it.
Old(s) == \A d \in Devices : s.d = d => ~After(s, disk[d].clock)

\* Operations are stamped, and only those about the title carry one.
OpShape == \A op \in AllOps :
    /\ op.at # NoStamp
    /\ op.kind \in TitleKinds => op.text.at = op.at
    /\ op.kind \notin TitleKinds => op.text = NoItem.title

\* Two operations with one key are one operation.
SameOp == \A a, b \in AllOps : a.key = b.key => a = b

\* Every stamp was made by the device it names, no later than its present clock.
Minted ==
    /\ \A i \in Items : \A x \in Versions(i) : \A s \in ItemStamps(x) : Old(s)
    /\ \A op \in AllOps : Old(op.at)

\* The clock a cycle will write back is not behind the file's.
ClockAhead == \A d \in Devices : phase[d] # "idle" => ~After(disk[d].clock, mem[d].clock)

\* What operations are, wherever they are: queued, being pushed, or in a late request.
OpInv == OpShape /\ SameOp /\ Minted /\ ClockAhead

\* The items the argument is about: undecided on the server, with nothing shed.
Steady(i) == Undecided(Row(i)) /\ shedKeys = {}

\* The completion an operation carries.
OpDone(op) == [v |-> op.flag, at |-> op.at]

\* The fields of x are those of y or win over them.
Covers(x, y) == ~After(y.title.at, x.title.at) /\ DoneBelow(y.done, x.done)

\* A person's decisions on a conflict.
Decisions == {"resolveTitle", "resolveDeleted"}

\* The server has no row exactly for the items it does not know.
RowWell(i) == /\ rows[i].rev = 0 => Row(i) = NoItem
              /\ ~Known(Row(i)) => rows[i].rev = 0

\* The row accounts for every operation that left a receipt.
Served(i) == \A op \in AllOps : op.item = i /\ op.key \in receipts =>
    /\ op.kind \notin Decisions
    /\ op.kind \in TitleKinds => ~After(op.at, Row(i).title.at)
    /\ op.kind = "done" => DoneBelow(OpDone(op), Row(i).done)

\* What a replica shows and the row does not have yet is in the replica's outbox.
SentTitle(i, s) == \/ ~After(s.items[i].title.at, Row(i).title.at)
                   \/ \E op \in s.outbox : /\ op.item = i /\ op.kind \in TitleKinds
                                           /\ ~After(s.items[i].title.at, op.at)

\* A completion a replica holds is on the server, or still queued there.
SentDone(i, s) == \/ DoneBelow(s.items[i].done, Row(i).done)
                  \/ \E op \in s.outbox : /\ op.item = i /\ op.kind = "done"
                                          /\ DoneBelow(s.items[i].done, OpDone(op))

\* A replica whose cursor is past the row has what the row has.
Fresh(i, s) == rows[i].rev <= s.cursor => Covers(s.items[i], Row(i))

\* What holds of the title and the completion of an item nobody decided on.
FieldsOf(i) ==
    /\ Cohere(TitlesOn(i)) /\ RowWell(i) /\ Served(i)
    /\ \A s \in Replicas : SentTitle(i, s) /\ SentDone(i, s) /\ Fresh(i, s)

\* The inductive invariant of FieldsConverge, over OpInv.
FieldInv == \A i \in Items : Steady(i) => FieldsOf(i)

\* A step that makes no edit and changes no row: every replica after it is empty or
\* descends from one before it.
ItemsDescend(t, s) == \A i \in Items :
    \/ t.items[i] = s.items[i] /\ (rows[i].rev <= t.cursor => rows[i].rev <= s.cursor)
    \/ Known(s.items[i]) /\ t.items[i] = MergeItem(s.items[i], Row(i))
    \/ ~Known(s.items[i]) /\ t.items[i] = Row(i)

\* An operation leaves an outbox with a receipt, or because work was shed.
OutboxDescends(t, s) ==
    shedKeys' = {} => \A op \in s.outbox : op \in t.outbox \/ op.key \in receipts

\* A step that makes no edit and stores nothing: every replica after it is one of those
\* before it, maybe with rows merged in, or empty.
Passive ==
    /\ rows' = rows /\ receipts' = receipts /\ shedKeys \subseteq shedKeys'
    /\ AllOps' \subseteq AllOps
    /\ \A d \in Devices : ~After(disk[d].clock, disk'[d].clock)
    /\ ClockAhead'
    /\ \A t \in Replicas' : \/ \E d \in Devices : t = EmptyState(d)
                            \/ \E s \in Replicas : ItemsDescend(t, s) /\ OutboxDescends(t, s)

\* The types of replicas, rows and versions.
LEMMA ReplicaTypes ==
    ASSUME TypeOK
    PROVE  /\ \A s \in Replicas : /\ s.items \in [Items -> ItemType] /\ s.outbox \subseteq Operations
                                  /\ s.cursor \in Nat /\ s.cursor <= revision
                                  /\ s.outbox \subseteq AllOps
                                  /\ \A i \in Items : s.items[i] \in Versions(i)
           /\ \A i \in Items : /\ Row(i) \in ItemType /\ Row(i) \in Versions(i) /\ NoItem \in Versions(i)
                               /\ rows[i].rev \in Nat /\ rows[i].rev <= revision
           /\ \A i \in Items : \A x \in Versions(i) : x.title \in TitlesOn(i)
<1>1. \A s \in Replicas : \E d \in Devices : s \in States(d) /\ s.cursor <= revision
  <2>1. \A d \in Devices : /\ disk[d] \in States(d) /\ disk[d].cursor <= revision
                           /\ mem[d] \in States(d) /\ mem[d].cursor <= revision
    BY DEF TypeOK
  <2> QED
    BY <2>1 DEF Replicas
<1>2. \A s \in Replicas : /\ s.items \in [Items -> ItemType] /\ s.outbox \subseteq Operations
                          /\ s.cursor \in Nat /\ s.cursor <= revision
  BY <1>1 DEF States
<1>3. \A s \in Replicas : s.outbox \subseteq AllOps /\ \A i \in Items : s.items[i] \in Versions(i)
  BY <1>2 DEF AllOps, Versions
<1>4. \A i \in Items : /\ Row(i) \in ItemType /\ Row(i) \in Versions(i) /\ NoItem \in Versions(i)
                       /\ rows[i].rev \in Nat /\ rows[i].rev <= revision
  BY NoItemType DEF TypeOK, Row, Versions
<1>5. \A i \in Items : \A x \in Versions(i) : x.title \in TitlesOn(i)
  <2>1. \A i \in Items : \A x \in Versions(i) : x.title \in Texts
    BY DEF Versions, ItemType
  <2> QED
    BY <2>1 DEF TitlesOn
<1> QED
  BY <1>2, <1>3, <1>4, <1>5

\* A passive step makes no version of an item but merges with its row.
LEMMA PassiveVersions ==
    ASSUME TypeOK, TypeOK', Passive, NEW i \in Items, NEW x \in Versions(i)'
    PROVE  x \in Versions(i) \/ \E y \in Versions(i) : x = MergeItem(y, Row(i))
<1>1. x \in ItemType /\ (x = NoItem \/ x = rows'[i].item \/ \E t \in Replicas' : x = t.items[i])
  BY DEF Versions, Row
<1>2. CASE x = NoItem \/ x = rows'[i].item
  BY <1>2, ReplicaTypes DEF Passive, Row
<1>3. ASSUME NEW t \in Replicas', x = t.items[i]
      PROVE  x \in Versions(i) \/ \E y \in Versions(i) : x = MergeItem(y, Row(i))
  <2>1. CASE \E d \in Devices : t = EmptyState(d)
    BY <1>3, <2>1, ReplicaTypes DEF EmptyState
  <2>2. ASSUME NEW s \in Replicas, ItemsDescend(t, s)
        PROVE  x \in Versions(i) \/ \E y \in Versions(i) : x = MergeItem(y, Row(i))
    BY <1>3, <2>2, ReplicaTypes DEF ItemsDescend
  <2> QED
    BY <2>1, <2>2 DEF Passive
<1> QED
  BY <1>1, <1>2, <1>3

\* A passive step keeps the invariant of operations.
LEMMA PassiveKeepsOps ==
    ASSUME TypeOK, TypeOK', OpInv, Passive
    PROVE  OpInv'
<1>1. OpShape' /\ SameOp'
  BY DEF OpInv, OpShape, SameOp, Passive
<1>2. ASSUME NEW s \in Stamps, Old(s) PROVE Old(s)'
  <2> SUFFICES ASSUME NEW d \in Devices, s.d = d PROVE ~After(s, disk'[d].clock)
    BY DEF Old
  <2>1. ~After(s, disk[d].clock) /\ ~After(disk[d].clock, disk'[d].clock)
    BY <1>2 DEF Old, Passive
  <2>2. disk[d].clock \in Stamps /\ disk'[d].clock \in Stamps
    <3>1. disk[d].clock \in Clocks(d) /\ disk'[d].clock \in Clocks(d)
      BY DEF TypeOK, States
    <3> QED
      BY <3>1, StampTypes
  <2> QED
    BY <2>1, <2>2, OrderOfStamps
<1>3. ASSUME NEW i \in Items, NEW x \in Versions(i)', NEW s \in ItemStamps(x) PROVE Old(s)'
  <2>1. Row(i) \in Versions(i) /\ Versions(i) \subseteq ItemType /\ NoItem \in Versions(i)
    BY ReplicaTypes DEF Versions
  <2>2. \A y \in Versions(i) : \A r \in ItemStamps(y) : Old(r) /\ r \in Stamps
    BY <2>1, StampsOfItem DEF OpInv, Minted
  <2>3. NoStamp \in ItemStamps(NoItem)
    BY DEF NoItem, ItemStamps
  <2>4. CASE x \in Versions(i)
    BY <1>2, <1>3, <2>2, <2>4
  <2>5. ASSUME NEW y \in Versions(i), x = MergeItem(y, Row(i)) PROVE Old(s)'
    <3>1. s \in ItemStamps(y) \cup ItemStamps(Row(i)) \cup {NoStamp}
      BY <1>3, <2>1, <2>5, MergedItem
    <3> QED
      BY <1>2, <2>1, <2>2, <2>3, <3>1
  <2> QED
    BY <2>4, <2>5, PassiveVersions
<1>4. ASSUME NEW op \in AllOps' PROVE Old(op.at)'
  <2>1. op \in AllOps /\ op.at \in Stamps
    BY DEF Passive, AllOps, Operations
  <2> QED
    BY <1>2, <2>1 DEF OpInv, Minted
<1>5. Minted'
  BY <1>3, <1>4 DEF Minted
<1> QED
  BY <1>1, <1>5 DEF OpInv, Passive

\* Titles that repeat those there were, with nothing later behind them, agree as well.
LEMMA StillCohere ==
    ASSUME NEW S, NEW T, Cohere(S),
           \A t \in T : /\ \E s \in S : t.at = s.at /\ t.v = s.v
                        /\ \A r \in t.seen : ~After(r, t.at)
    PROVE  Cohere(T)
BY DEF Cohere

\* The merge of two versions of an item, by their titles and completions.
LEMMA MergedFields ==
    ASSUME TypeOK, NEW i \in Items, Cohere(TitlesOn(i)), NEW x \in Versions(i), NEW y \in Versions(i)
    PROVE  LET m == MergeItem(x, y) IN
           /\ m \in ItemType /\ Cohere({x.title, y.title})
           /\ \E s \in TitlesOn(i) : m.title.at = s.at /\ m.title.v = s.v
           /\ \A r \in m.title.seen : ~After(r, m.title.at)
           /\ m.title.at \in {x.title.at, y.title.at}
           /\ ~After(x.title.at, m.title.at) /\ ~After(y.title.at, m.title.at)
           /\ m.done \in {x.done, y.done} /\ DoneBelow(x.done, m.done) /\ DoneBelow(y.done, m.done)
           /\ x.title.at \in Stamps /\ y.title.at \in Stamps /\ x.done \in Dones /\ y.done \in Dones
<1>1. x \in ItemType /\ y \in ItemType
  BY DEF Versions
<1>2. /\ x.title.at \in Stamps /\ y.title.at \in Stamps /\ x.done \in Dones /\ y.done \in Dones
  BY <1>1 DEF ItemType, Texts, Dones
<1>3. x.title \in TitlesOn(i) /\ y.title \in TitlesOn(i)
  BY ReplicaTypes
<1>4. Cohere({x.title, y.title})
  BY <1>3 DEF Cohere
<1> DEFINE m == MergeItem(x, y)
<1>5. m \in ItemType /\ m.title = MergeTitle(x, y).value /\ m.done = MergeCompletion(x.done, y.done)
  BY <1>1, MergedItem
<1>6. /\ m.title.at = Later(x.title.at, y.title.at)
      /\ m.title.at = x.title.at => m.title.v = x.title.v
      /\ m.title.at = y.title.at => m.title.v = y.title.v
      /\ \A r \in m.title.seen : ~After(r, m.title.at)
  BY <1>1, <1>4, <1>5, LaterTitle
<1>7. m.done \in {x.done, y.done} /\ DoneBelow(x.done, m.done) /\ DoneBelow(y.done, m.done)
  BY <1>2, <1>5, LaterDone
<1> HIDE DEF m
<1>8. /\ m.title.at \in {x.title.at, y.title.at}
      /\ ~After(x.title.at, m.title.at) /\ ~After(y.title.at, m.title.at)
  BY <1>2, <1>6, OrderOfStamps
<1>9. \E s \in TitlesOn(i) : m.title.at = s.at /\ m.title.v = s.v
  BY <1>3, <1>6, <1>8
<1> QED
  BY <1>2, <1>4, <1>5, <1>6, <1>7, <1>8, <1>9 DEF m

\* Pulling, finishing or copying a replica keeps what holds of its fields.
LEMMA DescendantHasFields ==
    ASSUME TypeOK, NEW i \in Items, FieldsOf(i), NEW s \in Replicas, NEW t, ItemsDescend(t, s),
           \A op \in s.outbox : op \in t.outbox \/ op.key \in receipts
    PROVE  SentTitle(i, t) /\ SentDone(i, t) /\ Fresh(i, t)
<1> DEFINE x == s.items[i]
           y == t.items[i]
<1>1. /\ x \in Versions(i) /\ Row(i) \in Versions(i) /\ x \in ItemType /\ Row(i) \in ItemType
      /\ s.outbox \subseteq Operations /\ s.outbox \subseteq AllOps
  BY ReplicaTypes
<1>2. /\ x.title.at \in Stamps /\ Row(i).title.at \in Stamps /\ x.done \in Dones /\ Row(i).done \in Dones
  BY <1>1 DEF ItemType, Texts, Dones
<1>3. /\ ~After(Row(i).title.at, Row(i).title.at) /\ DoneBelow(Row(i).done, Row(i).done)
  BY <1>2, SameStamp, SameDone
<1>4. Cohere(TitlesOn(i)) /\ Served(i) /\ SentTitle(i, s) /\ SentDone(i, s) /\ Fresh(i, s)
  BY DEF FieldsOf
<1>5. \A op \in s.outbox : op.at \in Stamps /\ OpDone(op) \in Dones
  BY <1>1 DEF Operations, OpDone, Dones
<1>6. \/ ~After(x.title.at, Row(i).title.at)
      \/ \E op \in t.outbox : op.item = i /\ op.kind \in TitleKinds /\ ~After(x.title.at, op.at)
  <2>1. CASE ~After(x.title.at, Row(i).title.at)
    BY <2>1
  <2>2. ASSUME NEW op \in s.outbox, op.item = i, op.kind \in TitleKinds, ~After(x.title.at, op.at),
               op.key \in receipts
        PROVE  ~After(x.title.at, Row(i).title.at)
    <3>1. ~After(op.at, Row(i).title.at)
      BY <1>1, <1>4, <2>2 DEF Served
    <3> QED
      BY <1>2, <1>5, <2>2, <3>1, OrderOfStamps
  <2> QED
    BY <1>4, <2>1, <2>2 DEF SentTitle
<1>7. \/ DoneBelow(x.done, Row(i).done)
      \/ \E op \in t.outbox : op.item = i /\ op.kind = "done" /\ DoneBelow(x.done, OpDone(op))
  <2>1. CASE DoneBelow(x.done, Row(i).done)
    BY <2>1
  <2>2. ASSUME NEW op \in s.outbox, op.item = i, op.kind = "done", DoneBelow(x.done, OpDone(op)),
               op.key \in receipts
        PROVE  DoneBelow(x.done, Row(i).done)
    <3>1. DoneBelow(OpDone(op), Row(i).done)
      BY <1>1, <1>4, <2>2 DEF Served
    <3> QED
      BY <1>2, <1>5, <2>2, <3>1, DoneOrder
  <2> QED
    BY <1>4, <2>1, <2>2 DEF SentDone
<1>8. CASE y = x /\ (rows[i].rev <= t.cursor => rows[i].rev <= s.cursor)
  BY <1>4, <1>6, <1>7, <1>8 DEF SentTitle, SentDone, Fresh
<1>9. CASE y = MergeItem(x, Row(i))
  <2>1. /\ y.title.at \in {x.title.at, Row(i).title.at} /\ ~After(Row(i).title.at, y.title.at)
        /\ y.done \in {x.done, Row(i).done} /\ DoneBelow(Row(i).done, y.done)
    BY <1>1, <1>4, <1>9, MergedFields
  <2> HIDE DEF y
  <2>2. SentTitle(i, t)
    BY <1>3, <1>6, <2>1 DEF SentTitle, y
  <2>3. SentDone(i, t)
    BY <1>3, <1>7, <2>1 DEF SentDone, y
  <2>4. Fresh(i, t)
    BY <2>1 DEF Fresh, Covers, y
  <2> QED
    BY <2>2, <2>3, <2>4
<1>10. CASE y = Row(i)
  BY <1>3, <1>10 DEF SentTitle, SentDone, Fresh, Covers
<1> QED
  BY <1>8, <1>9, <1>10 DEF ItemsDescend

\* A device that starts over holds no field, and has fetched nothing.
LEMMA EmptyHasFields ==
    ASSUME TypeOK, NEW i \in Items, RowWell(i), NEW d \in Devices
    PROVE  SentTitle(i, EmptyState(d)) /\ SentDone(i, EmptyState(d)) /\ Fresh(i, EmptyState(d))
<1>1. EmptyState(d).items[i] = NoItem /\ EmptyState(d).cursor = 0
  BY DEF EmptyState
<1>2. /\ Row(i) \in ItemType /\ NoItem \in ItemType /\ rows[i].rev \in Nat
  BY ReplicaTypes, NoItemType
<1>3. /\ Row(i).title.at \in Stamps /\ NoItem.title.at \in Stamps /\ Row(i).done \in Dones /\ NoItem.done \in Dones
  BY <1>2 DEF ItemType, Texts, Dones
<1>4. NoItem.title.at = NoStamp /\ NoItem.done.at = NoStamp /\ NoItem.done.v = FALSE
  BY DEF NoItem
<1>5. ~After(NoItem.title.at, Row(i).title.at) /\ DoneBelow(NoItem.done, Row(i).done)
  BY <1>3, <1>4, NoStampIsFirst, NotDone
<1>6. rows[i].rev <= 0 => Covers(NoItem, Row(i))
  <2>1. rows[i].rev <= 0 => Row(i) = NoItem
    BY <1>2 DEF RowWell
  <2>2. Covers(NoItem, NoItem)
    BY <1>3, SameStamp, SameDone DEF Covers
  <2> QED
    BY <2>1, <2>2
<1> QED
  BY <1>1, <1>5, <1>6 DEF SentTitle, SentDone, Fresh

\* A passive step keeps the invariant of the fields.
LEMMA PassiveKeepsFields ==
    ASSUME TypeOK, TypeOK', FieldInv, Passive
    PROVE  FieldInv'
<1> SUFFICES ASSUME NEW i \in Items, Steady(i)' PROVE FieldsOf(i)'
  BY DEF FieldInv
<1>1. Row(i)' = Row(i) /\ rows' = rows /\ receipts' = receipts /\ shedKeys' = {} /\ shedKeys = {}
  BY DEF Steady, Passive, Row
<1>2. Steady(i) /\ FieldsOf(i)
  BY <1>1 DEF Steady, FieldInv
<1>3. Cohere(TitlesOn(i)) /\ RowWell(i) /\ Served(i)
  BY <1>2 DEF FieldsOf
<1>4. Cohere(TitlesOn(i)')
  <2>1. ASSUME NEW x \in Versions(i)'
        PROVE  /\ \E s \in TitlesOn(i) : x.title.at = s.at /\ x.title.v = s.v
               /\ \A r \in x.title.seen : ~After(r, x.title.at)
    <3>1. CASE x \in Versions(i)
      BY <1>3, <3>1, ReplicaTypes DEF Cohere
    <3>2. ASSUME NEW y \in Versions(i), x = MergeItem(y, Row(i))
          PROVE  /\ \E s \in TitlesOn(i) : x.title.at = s.at /\ x.title.v = s.v
                 /\ \A r \in x.title.seen : ~After(r, x.title.at)
      BY <1>3, <3>2, ReplicaTypes, MergedFields
    <3> QED
      BY <3>1, <3>2, PassiveVersions
  <2>2. ASSUME NEW op \in AllOps', op.item = i PROVE op.text \in TitlesOn(i)
    <3>1. op \in AllOps /\ op.text \in Texts
      BY DEF Passive, AllOps, Operations
    <3> QED
      BY <2>2, <3>1 DEF TitlesOn
  <2>3. \A t \in TitlesOn(i)' : /\ \E s \in TitlesOn(i) : t.at = s.at /\ t.v = s.v
                                /\ \A r \in t.seen : ~After(r, t.at)
    <3> SUFFICES ASSUME NEW t \in TitlesOn(i)'
                 PROVE  /\ \E s \in TitlesOn(i) : t.at = s.at /\ t.v = s.v
                        /\ \A r \in t.seen : ~After(r, t.at)
      OBVIOUS
    <3>1. (\E x \in Versions(i)' : t = x.title) \/ \E op \in AllOps' : op.item = i /\ t = op.text
      BY DEF TitlesOn
    <3>2. CASE \E x \in Versions(i)' : t = x.title
      BY <2>1, <3>2
    <3>3. CASE t \in TitlesOn(i)
      BY <1>3, <3>3 DEF Cohere
    <3> QED
      BY <2>2, <3>1, <3>2, <3>3
  <2> QED
    BY <1>3, <2>3, StillCohere
<1>5. RowWell(i)' /\ Served(i)'
  BY <1>1, <1>3 DEF RowWell, Served, Passive
<1>6. ASSUME NEW t \in Replicas' PROVE (SentTitle(i, t) /\ SentDone(i, t) /\ Fresh(i, t))'
  <2>1. SentTitle(i, t) /\ SentDone(i, t) /\ Fresh(i, t)
    <3>1. CASE \E d \in Devices : t = EmptyState(d)
      BY <1>3, <3>1, EmptyHasFields
    <3>2. ASSUME NEW s \in Replicas, ItemsDescend(t, s), OutboxDescends(t, s)
          PROVE  SentTitle(i, t) /\ SentDone(i, t) /\ Fresh(i, t)
      <4>1. \A op \in s.outbox : op \in t.outbox \/ op.key \in receipts
        BY <1>1, <3>2 DEF OutboxDescends
      <4> QED
        BY <1>2, <3>2, <4>1, DescendantHasFields
    <3> QED
      BY <3>1, <3>2 DEF Passive
  <2> QED
    BY <1>1, <2>1 DEF SentTitle, SentDone, Fresh
<1> QED
  BY <1>4, <1>5, <1>6 DEF FieldsOf

\* A new edit's key is nowhere yet.
LEMMA NewKey ==
    ASSUME TypeOK, QueueInv, NEW d \in Devices, NEW i \in Items
    PROVE  LET key == <<d, count[d].edits + 1, i>> IN
           key \notin receipts /\ \A o \in AllOps : o.key # key
<1> DEFINE key == <<d, count[d].edits + 1, i>>
<1>0. count[d].edits \in Nat
  BY DEF TypeOK
<1>1. \A e \in Devices : \A k \in Home(e) : k[1] = e /\ k[2] <= count[e].edits
  BY DEF QueueInv, Numbered, Queued, Home, Keys
<1>2. \A e \in Devices : key \notin Home(e)
  BY <1>0, <1>1
<1>3. key \notin receipts
  BY <1>2, HandedIsHome DEF Handed
<1>4. ASSUME NEW o \in AllOps PROVE \E e \in Devices : o.key \in Home(e)
  <2>1. CASE \E s \in Replicas : o \in s.outbox
    <3>1. PICK e \in Devices : o \in disk[e].outbox \/ o \in mem[e].outbox
      BY <2>1 DEF Replicas
    <3>2. o.key \in Keys(disk[e].outbox) \/ o.key \in Keys(mem[e].outbox)
      BY <3>1 DEF Keys
    <3> QED
      BY <3>2 DEF Home, QueueInv, Numbered
  <2>2. CASE \E r \in requests : o \in r.ops
    <3>1. PICK r \in requests : o \in r.ops
      BY <2>2
    <3>2. o.key \in Keys(r.ops) /\ r.d \in Devices /\ Keys(r.ops) \subseteq Home(r.d)
      BY <3>1 DEF Keys, QueueInv, Numbered
    <3> QED
      BY <3>2
  <2> QED
    BY <2>1, <2>2 DEF AllOps
<1> HIDE DEF key
<1>5. \A o \in AllOps : o.key # key
  BY <1>2, <1>4
<1> QED
  BY <1>3, <1>5 DEF key

\* The operation an edit queues, and its stamp.
LEMMA MadeOp ==
    ASSUME TypeOK, NEW d \in Devices, NEW i \in Items,
           NEW item, NEW kind, NEW at, NEW text, NEW flag, Made(d, i, item, kind, at, text, flag)
    PROVE  /\ at # NoStamp /\ at.d = d
           /\ kind \in TitleKinds => text.at = at
           /\ kind \notin TitleKinds => text = NoItem.title
<1>1. at \in Clocks(d) /\ Local(d, i) \in ItemType
  BY MadeTypes, ClockOfDisk
<1>2. at # NoStamp /\ at.d = d
  BY <1>1 DEF Clocks, NoStamp
<1>3. \A v, P : CausalValue(v, at, P).at = at
  BY DEF CausalValue
<1>4. \A v, c : DecidedText(v, at, c).at = at
  BY <1>3 DEF DecidedText
<1>5. kind \in TitleKinds => text.at = at
  BY <1>3, <1>4 DEF Made, TitleKinds
<1>6. kind \notin TitleKinds => text = NoItem.title
  BY DEF Made, TitleKinds
<1> QED
  BY <1>2, <1>5, <1>6

\* What a local edit adds to the operations, the versions and the replicas.
LEMMA EditAdds ==
    ASSUME TypeOK, TypeOK', NEW d \in Devices, NEW i \in Items, NEW item \in ItemType, NEW op \in Operations,
           op.item = i, Committed(d, i, item, op)
    PROVE  /\ \A o \in AllOps' : o \in AllOps \/ o = op
           /\ \A s \in Replicas' : s \in Replicas \/ s = disk'[d]
           /\ disk[d] \in Replicas /\ disk'[d] \in Replicas'
           /\ disk'[d].items[i] = item /\ \A j \in Items : j # i => disk'[d].items[j] = disk[d].items[j]
           /\ disk'[d].outbox = disk[d].outbox \cup {op} /\ disk'[d].cursor = disk[d].cursor
           /\ \A j \in Items : \A x \in Versions(j)' : x \in Versions(j) \/ (j = i /\ x = item)
<1>1. /\ disk'[d].items[i] = item /\ \A j \in Items : j # i => disk'[d].items[j] = disk[d].items[j]
      /\ disk'[d].outbox = disk[d].outbox \cup {op} /\ disk'[d].cursor = disk[d].cursor
  <2>1. disk[d].items \in [Items -> ItemType]
    BY DEF TypeOK, States
  <2> QED
    BY <2>1 DEF Committed
<1>2. /\ \A s \in Replicas' : s \in Replicas \/ s = disk'[d]
      /\ disk[d] \in Replicas /\ disk'[d] \in Replicas'
  <2>1. \A e \in Devices : mem'[e] = mem[e] /\ (e # d => disk'[e] = disk[e])
    BY DEF Committed
  <2> QED
    BY <2>1 DEF Replicas
<1>3. \A o \in AllOps' : o \in AllOps \/ o = op
  <2> SUFFICES ASSUME NEW o \in AllOps' PROVE o \in AllOps \/ o = op
    OBVIOUS
  <2>1. o \in Operations /\ ((\E s \in Replicas' : o \in s.outbox) \/ \E r \in requests : o \in r.ops)
    BY DEF AllOps, Committed
  <2>2. CASE \E r \in requests : o \in r.ops
    BY <2>1, <2>2 DEF AllOps
  <2>3. ASSUME NEW s \in Replicas', o \in s.outbox PROVE o \in AllOps \/ o = op
    <3>1. CASE s \in Replicas
      BY <2>1, <2>3, <3>1 DEF AllOps
    <3>2. CASE s = disk'[d]
      BY <1>1, <1>2, <2>1, <2>3, <3>2 DEF AllOps
    <3> QED
      BY <1>2, <3>1, <3>2
  <2> QED
    BY <2>1, <2>2, <2>3
<1>4. ASSUME NEW j \in Items, NEW x \in Versions(j)' PROVE x \in Versions(j) \/ (j = i /\ x = item)
  <2>1. x \in ItemType /\ (x = NoItem \/ x = Row(j) \/ \E s \in Replicas' : x = s.items[j])
    BY DEF Versions, Row, Committed
  <2>2. ASSUME NEW s \in Replicas', x = s.items[j] PROVE x \in Versions(j) \/ (j = i /\ x = item)
    <3>1. CASE s \in Replicas
      BY <2>1, <2>2, <3>1 DEF Versions
    <3>2. CASE s = disk'[d]
      BY <1>1, <1>2, <2>1, <2>2, <3>2 DEF Versions
    <3> QED
      BY <1>2, <3>1, <3>2
  <2>3. CASE x = NoItem \/ x = Row(j)
    BY <2>1, <2>3 DEF Versions
  <2> QED
    BY <2>1, <2>2, <2>3
<1> QED
  BY <1>1, <1>2, <1>3, <1>4

\* An edit mints a new key and a new stamp.
LEMMA EditKeepsOps ==
    ASSUME ClockInv, TypeOK', QueueInv, OpInv, NEW d \in Devices, NEW i \in Items, phase[d] = "idle",
           NEW item, NEW kind, NEW at, NEW text, NEW flag, Edit(d, i, item, kind, at, text, flag)
    PROVE  OpInv'
<1> DEFINE op == NewOp(d, i, kind, at, text, flag)
<1>1. /\ TypeOK /\ Committed(d, i, item, op) /\ Made(d, i, item, kind, at, text, flag)
  BY CommitEffect DEF ClockInv, Edit
<1>2. /\ item \in ItemType /\ kind \in Kinds /\ text \in Texts /\ flag \in BOOLEAN
      /\ at \in Clocks(d) /\ at \in Stamps /\ After(at, disk[d].clock)
      /\ ItemStamps(item) \subseteq ItemStamps(Local(d, i)) \cup {NoStamp, at}
  BY <1>1, MadeTypes
<1>3. op \in Operations /\ op.item = i /\ op.at = at /\ op.kind = kind /\ op.text = text
      /\ op.key = <<d, count[d].edits + 1, i>>
  <2>1. count[d].edits \in Nat
    BY <1>1 DEF TypeOK
  <2> QED
    BY <1>2, <2>1 DEF NewOp, Operations, KeyType, Kinds
<1>4. at # NoStamp /\ at.d = d /\ (kind \in TitleKinds => text.at = at) /\ (kind \notin TitleKinds => text = NoItem.title)
  BY <1>1, MadeOp
<1>5. \A o \in AllOps : o.key # op.key
  BY <1>1, <1>3, NewKey
<1> HIDE DEF op
<1>6. /\ \A o \in AllOps' : o \in AllOps \/ o = op
      /\ \A j \in Items : \A x \in Versions(j)' : x \in Versions(j) \/ (j = i /\ x = item)
  BY <1>1, <1>2, <1>3, EditAdds
<1>7. OpShape'
  BY <1>3, <1>4, <1>6 DEF OpInv, OpShape
<1>8. SameOp'
  BY <1>5, <1>6 DEF OpInv, SameOp
<1>9. disk'[d].clock = at /\ \A e \in Devices : e # d => disk'[e] = disk[e]
  BY <1>1, <1>3 DEF Committed
<1>10. ASSUME NEW s \in Stamps, Old(s) PROVE Old(s)'
  <2>1. disk[d].clock \in Stamps
    BY <1>1, ClockOfDisk
  <2>2. ~After(s, disk[d].clock) => ~After(s, at)
    BY <1>2, <2>1, OrderOfStamps
  <2> QED
    BY <1>9, <1>10, <2>2 DEF Old
<1>11. Old(at)'
  BY <1>2, <1>4, <1>9, SameStamp DEF Old
<1>12. ASSUME NEW j \in Items, NEW x \in Versions(j)', NEW s \in ItemStamps(x) PROVE Old(s)'
  <2>1. \A y \in Versions(j) : \A r \in ItemStamps(y) : Old(r) /\ r \in Stamps
    <3>1. Versions(j) \subseteq ItemType
      BY DEF Versions
    <3> QED
      BY <3>1, StampsOfItem DEF OpInv, Minted
  <2>2. CASE x \in Versions(j)
    BY <1>10, <1>12, <2>1, <2>2
  <2>3. CASE j = i /\ x = item
    <3>1. Local(d, i) \in Versions(i) /\ NoItem \in Versions(i)
      BY <1>1, ReplicaTypes DEF Local, Replicas
    <3>2. NoStamp \in ItemStamps(NoItem)
      BY DEF NoItem, ItemStamps
    <3>3. s \in ItemStamps(Local(d, i)) \cup {NoStamp, at}
      BY <1>2, <1>12, <2>3
    <3> QED
      BY <1>10, <1>11, <2>1, <2>3, <3>1, <3>2, <3>3
  <2> QED
    BY <1>6, <2>2, <2>3
<1>13. ASSUME NEW o \in AllOps' PROVE Old(o.at)'
  <2>1. CASE o \in AllOps
    <3>1. o.at \in Stamps /\ Old(o.at)
      BY <2>1 DEF AllOps, Operations, OpInv, Minted
    <3> QED
      BY <1>10, <3>1
  <2> QED
    BY <1>3, <1>6, <1>11, <2>1
<1>14. Minted'
  BY <1>12, <1>13 DEF Minted
<1>15. ClockAhead'
  <2>1. phase' = phase /\ mem' = mem
    BY <1>1 DEF Committed
  <2> QED
    BY <1>9, <2>1 DEF OpInv, ClockAhead
<1> QED
  BY <1>7, <1>8, <1>14, <1>15 DEF OpInv

\* What a local edit does to the title and the completion of its item.
Raises(local, item, kind, at, text, flag) ==
    /\ ~After(local.title.at, item.title.at) /\ DoneBelow(local.done, item.done)
    /\ \A r \in item.title.seen : ~After(r, item.title.at)
    /\ \/ item.title.at = local.title.at /\ item.title.v = local.title.v
       \/ kind \in TitleKinds /\ item.title.at = text.at /\ item.title.v = text.v
    /\ \/ item.done = local.done
       \/ kind = "done" /\ item.done = [v |-> flag, at |-> at]

\* An edit never takes a field back, and its title follows what it covers.
LEMMA EditRaises ==
    ASSUME ClockInv, OpInv, NEW d \in Devices, NEW i \in Items, Cohere(TitlesOn(i)),
           NEW item, NEW kind, NEW at, NEW text, NEW flag, Made(d, i, item, kind, at, text, flag)
    PROVE  /\ kind # "create" => Raises(Local(d, i), item, kind, at, text, flag)
           /\ kind = "create" => item = [NoItem EXCEPT !.title = text]
           /\ Cohere(TitlesOn(i) \cup {text})
<1> DEFINE local == Local(d, i)
<1>0. TypeOK /\ ClockCovers(disk[d])
  BY DEF ClockInv
<1>1. /\ item \in ItemType /\ kind \in Kinds /\ text \in Texts /\ flag \in BOOLEAN
      /\ at \in Clocks(d) /\ at \in Stamps /\ After(at, disk[d].clock)
  BY <1>0, MadeTypes
<1>2. /\ at # NoStamp /\ at.d = d /\ (kind \in TitleKinds => text.at = at)
      /\ (kind \notin TitleKinds => text = NoItem.title)
  BY <1>0, MadeOp
<1>3. /\ local \in ItemType /\ local \in Versions(i) /\ disk[d].clock \in Stamps
      /\ NoItem.title \in TitlesOn(i) /\ local.title \in TitlesOn(i)
  BY <1>0, ClockOfDisk, ReplicaTypes DEF Local, Replicas
<1>4. /\ local.title \in Texts /\ local.title.at \in Stamps /\ local.done \in Dones
      /\ local.cTitle \in Conflicts /\ local.cDel \in Conflicts /\ local.title.seen \subseteq Stamps
      /\ local.done.at \in Stamps
  BY <1>3 DEF ItemType, Texts, Dones
<1>5. ~After(local.title.at, disk[d].clock) /\ ~After(local.done.at, disk[d].clock)
  BY <1>0 DEF ClockCovers, Local, ItemStamps
<1>6. After(at, local.title.at) /\ After(at, local.done.at)
  BY <1>1, <1>3, <1>4, <1>5, OrderOfStamps
<1>7. \A y \in TitlesOn(i) : y.at # at
  <2> SUFFICES ASSUME NEW y \in TitlesOn(i), y.at = at PROVE FALSE
    OBVIOUS
  <2>1. Old(y.at) \/ y.at = NoStamp
    <3>1. ASSUME NEW x \in Versions(i), y = x.title PROVE Old(y.at)
      BY <3>1 DEF OpInv, Minted, ItemStamps
    <3>2. ASSUME NEW op \in AllOps, y = op.text PROVE Old(y.at) \/ y.at = NoStamp
      BY <3>2 DEF OpInv, Minted, OpShape, NoItem
    <3> QED
      BY <3>1, <3>2 DEF TitlesOn
  <2> QED
    BY <1>1, <1>2, <2>1 DEF Old
<1>8. \A s \in local.title.seen : ~After(s, local.title.at)
  BY <1>3 DEF Cohere
<1>9. kind \in TitleKinds => \A s \in text.seen : ~After(s, at)
  <2> SUFFICES ASSUME kind \in TitleKinds, NEW s \in text.seen PROVE ~After(s, at)
    OBVIOUS
  <2>0. s \in Stamps
    BY <1>1 DEF Texts
  <2>1. ASSUME NEW v, text = CausalValue(v, at, {}) PROVE FALSE
    BY <2>1 DEF CausalValue, CausalFrontier
  <2>2. ASSUME NEW v, text = CausalValue(v, at, {local.title}) PROVE ~After(s, at)
    <3>1. s \in {local.title.at} \cup local.title.seen
      BY <2>2 DEF CausalValue, CausalFrontier
    <3>2. ~After(s, local.title.at)
      BY <1>4, <1>8, <3>1, SameStamp
    <3> QED
      BY <1>1, <1>4, <1>6, <2>0, <3>2, OrderOfStamps
  <2>3. ASSUME NEW v \in {local.cTitle.ours, local.cTitle.theirs}, text = DecidedText(v, at, local.cTitle),
               at = DecisionStamp(d, local.cTitle)
        PROVE  ~After(s, at)
    <3>1. v \in Words
      BY <1>4, <2>3 DEF Conflicts
    <3>2. s \in {local.cTitle.oursAt, local.cTitle.theirsAt}
      BY <1>1, <1>4, <2>3, <3>1, DecidedTypes
    <3>3. After(at, s)
      BY <1>0, <1>4, <2>3, <3>2, DecisionIsLater
    <3> QED
      BY <1>1, <2>0, <3>3, OrderOfStamps
  <2> QED
    BY <2>1, <2>2, <2>3 DEF Made, TitleKinds
<1>10. Cohere(TitlesOn(i) \cup {text})
  <2>1. CASE kind \notin TitleKinds
    BY <1>2, <1>3, <2>1 DEF Cohere
  <2>2. CASE kind \in TitleKinds
    BY <1>2, <1>7, <1>9, <2>2 DEF Cohere
  <2> QED
    BY <2>1, <2>2
<1>11. DoneBelow(local.done, local.done) /\ ~After(local.title.at, local.title.at)
  BY <1>4, SameDone, SameStamp
<1>12. ~After(local.title.at, at)
  BY <1>1, <1>4, <1>6, OrderOfStamps
<1>13. kind = "create" => item = [NoItem EXCEPT !.title = text]
  BY DEF Made
<1>14. CASE kind = "title"
  <2> DEFINE edit == [local EXCEPT !.title = text]
  <2>1. item = MergeItem(local, edit)
    BY <1>14 DEF Made
  <2>2. edit \in ItemType /\ edit.title = text /\ edit.done = local.done
    BY <1>1, <1>3 DEF ItemType
  <2> HIDE DEF edit, local
  <2>3. Cohere({local.title, text})
    BY <1>3, <1>10 DEF Cohere
  <2>4. item.title = MergeTitle(local, edit).value /\ item.done \in {local.done, edit.done}
    BY <1>3, <2>1, <2>2, MergedItem
  <2>5. /\ item.title.at = Later(local.title.at, text.at)
        /\ item.title.at = text.at => item.title.v = text.v
        /\ \A s \in item.title.seen : ~After(s, item.title.at)
    BY <1>3, <2>2, <2>3, <2>4, LaterTitle
  <2>6. text.at = at
    BY <1>2, <1>14 DEF TitleKinds
  <2>7. item.title.at = at
    BY <1>6, <2>5, <2>6 DEF Later
  <2>8. item.done = local.done
    BY <2>2, <2>4
  <2> QED
    BY <1>2, <1>10, <1>11, <1>12, <1>14, <2>5, <2>6, <2>7, <2>8 DEF Raises, TitleKinds, local
<1>15. CASE kind = "done"
  <2> DEFINE new == [v |-> flag, at |-> at]
             edit == [local EXCEPT !.done = new]
  <2>1. item = MergeItem(local, edit)
    BY <1>15 DEF Made
  <2>2. edit \in ItemType /\ edit.title = local.title /\ edit.done = new /\ new \in Dones
    BY <1>1, <1>3 DEF ItemType, Dones
  <2> HIDE DEF edit, local, new
  <2>3. Cohere({local.title, edit.title})
    BY <1>3, <2>2 DEF Cohere
  <2>4. /\ item.title = MergeTitle(local, edit).value /\ item.done = MergeCompletion(local.done, new)
    BY <1>3, <2>1, <2>2, MergedItem
  <2>5. item.done \in {local.done, new} /\ DoneBelow(local.done, item.done)
    BY <1>4, <2>2, <2>4, LaterDone
  <2>6. /\ item.title.at = Later(local.title.at, local.title.at)
        /\ item.title.at = local.title.at => item.title.v = local.title.v
        /\ \A s \in item.title.seen : ~After(s, item.title.at)
    BY <1>3, <2>2, <2>3, <2>4, LaterTitle
  <2>7. item.title.at = local.title.at
    BY <2>6 DEF Later
  <2> QED
    BY <1>10, <1>11, <1>15, <2>1, <2>5, <2>6, <2>7 DEF Raises, local, new
<1>16. CASE kind = "delete"
  <2>1. item = [local EXCEPT !.del = at]
    BY <1>16 DEF Made
  <2>2. item.title = local.title /\ item.done = local.done
    BY <1>3, <2>1 DEF ItemType
  <2> HIDE DEF local
  <2> QED
    BY <1>8, <1>10, <1>11, <1>16, <2>1, <2>2 DEF Raises, local
<1>17. CASE kind = "resolveTitle"
  <2>1. item = [local EXCEPT !.title = text, !.titleRes = at, !.cTitle = NoConflict]
    BY <1>17 DEF Made
  <2>2. item.title = text /\ item.done = local.done
    BY <1>3, <2>1 DEF ItemType
  <2> HIDE DEF local
  <2> QED
    BY <1>2, <1>9, <1>10, <1>11, <1>12, <1>17, <2>2 DEF Raises, TitleKinds, local
<1>18. CASE kind = "resolveDeleted"
  <2>1. item = DecideDeleted(local, flag, at)
    BY <1>18 DEF Made
  <2>2. item.title = local.title /\ item.done = local.done
    BY <1>3, <2>1 DEF ItemType, DecideDeleted
  <2> HIDE DEF local
  <2> QED
    BY <1>8, <1>10, <1>11, <1>18, <2>2 DEF Raises, local
<1> QED
  BY <1>1, <1>10, <1>13, <1>14, <1>15, <1>16, <1>17, <1>18 DEF Kinds

\* An edit keeps the invariant of the fields: what it writes, it queues.
LEMMA EditKeepsFields ==
    ASSUME ClockInv, TypeOK', QueueInv, OpInv, FieldInv, NEW d \in Devices, NEW i \in Items,
           NEW item, NEW kind, NEW at, NEW text, NEW flag, Edit(d, i, item, kind, at, text, flag)
    PROVE  FieldInv'
<1> SUFFICES ASSUME NEW j \in Items, Steady(j)' PROVE FieldsOf(j)'
  BY DEF FieldInv
<1> DEFINE op == NewOp(d, i, kind, at, text, flag)
<1>1. /\ TypeOK /\ Committed(d, i, item, op) /\ Made(d, i, item, kind, at, text, flag)
  BY CommitEffect DEF ClockInv, Edit
<1>2. /\ item \in ItemType /\ kind \in Kinds /\ text \in Texts /\ flag \in BOOLEAN
      /\ at \in Clocks(d) /\ at \in Stamps
  BY <1>1, MadeTypes
<1>3. op \in Operations /\ op.item = i /\ op.at = at /\ op.kind = kind /\ op.text = text /\ op.flag = flag
      /\ op.key = <<d, count[d].edits + 1, i>>
  <2>1. count[d].edits \in Nat
    BY <1>1 DEF TypeOK
  <2> QED
    BY <1>2, <2>1 DEF NewOp, Operations, KeyType, Kinds
<1>4. at # NoStamp /\ (kind \in TitleKinds => text.at = at) /\ (kind \notin TitleKinds => text = NoItem.title)
  BY <1>1, MadeOp
<1>5. op.key \notin receipts
  BY <1>1, <1>3, NewKey
<1> HIDE DEF op
<1>6. /\ \A o \in AllOps' : o \in AllOps \/ o = op
      /\ \A s \in Replicas' : s \in Replicas \/ s = disk'[d]
      /\ disk[d] \in Replicas
      /\ disk'[d].items[i] = item /\ \A k \in Items : k # i => disk'[d].items[k] = disk[d].items[k]
      /\ disk'[d].outbox = disk[d].outbox \cup {op} /\ disk'[d].cursor = disk[d].cursor
      /\ \A k \in Items : \A x \in Versions(k)' : x \in Versions(k) \/ (k = i /\ x = item)
  BY <1>1, <1>2, <1>3, EditAdds
<1>7. rows' = rows /\ receipts' = receipts /\ shedKeys' = shedKeys /\ Row(j)' = Row(j)
  BY <1>1 DEF Committed, Row
<1>8. Steady(j) /\ FieldsOf(j)
  BY <1>7 DEF Steady, FieldInv
<1>9. Cohere(TitlesOn(j)) /\ RowWell(j) /\ Served(j) /\ SentTitle(j, disk[d]) /\ SentDone(j, disk[d]) /\ Fresh(j, disk[d])
  BY <1>6, <1>8 DEF FieldsOf
<1>10. j = i => /\ kind # "create" => Raises(Local(d, i), item, kind, at, text, flag)
                /\ kind = "create" => item = [NoItem EXCEPT !.title = text]
                /\ Cohere(TitlesOn(i) \cup {text})
  BY <1>1, <1>9, EditRaises
<1>11. NoItem \in Versions(j) /\ NoItem.title \in TitlesOn(j) /\ Row(j) \in ItemType /\ rows[j].rev \in Nat
  BY <1>1, ReplicaTypes
<1>12. Local(d, i) \in Versions(i) /\ Local(d, i) \in ItemType /\ Local(d, i).title \in TitlesOn(i) /\ Local(d, i) = disk[d].items[i]
  BY <1>1, <1>6, ReplicaTypes DEF Local, Versions
<1>13. Cohere(TitlesOn(j)')
  <2> DEFINE S == IF j = i THEN TitlesOn(i) \cup {text} ELSE TitlesOn(j)
  <2>1. Cohere(S)
    BY <1>9, <1>10
  <2>2. TitlesOn(j) \subseteq S /\ (j = i => text \in S)
    OBVIOUS
  <2> HIDE DEF S
  <2>3. ASSUME j = i
        PROVE  /\ \E s \in S : item.title.at = s.at /\ item.title.v = s.v
               /\ \A r \in item.title.seen : ~After(r, item.title.at)
    <3>1. CASE kind = "create"
      <4>1. item.title = text
        BY <1>2, <1>10, <2>3, <3>1, NoItemType DEF ItemType
      <4>2. \A r \in text.seen : ~After(r, text.at)
        BY <2>1, <2>2, <2>3 DEF Cohere
      <4> QED
        BY <2>2, <2>3, <4>1, <4>2
    <3>2. CASE kind # "create"
      BY <1>10, <1>12, <2>2, <2>3, <3>2 DEF Raises
    <3> QED
      BY <3>1, <3>2
  <2>4. ASSUME NEW x \in Versions(j)'
        PROVE  /\ \E s \in S : x.title.at = s.at /\ x.title.v = s.v
               /\ \A r \in x.title.seen : ~After(r, x.title.at)
    <3>1. CASE x \in Versions(j)
      <4>1. x.title \in S
        BY <1>1, <2>2, <3>1, ReplicaTypes
      <4> QED
        BY <2>1, <4>1 DEF Cohere
    <3> QED
      BY <1>6, <2>3, <3>1
  <2>5. ASSUME NEW o \in AllOps', o.item = j PROVE o.text \in S
    <3>1. CASE o \in AllOps
      <4>1. o.text \in Texts
        BY <3>1 DEF AllOps, Operations
      <4>2. o.text \in TitlesOn(j)
        BY <2>5, <3>1, <4>1 DEF TitlesOn
      <4> QED
        BY <2>2, <4>2
    <3>2. CASE o = op
      BY <1>3, <2>2, <2>5, <3>2
    <3> QED
      BY <1>6, <3>1, <3>2
  <2>6. \A t \in TitlesOn(j)' : /\ \E s \in S : t.at = s.at /\ t.v = s.v
                                /\ \A r \in t.seen : ~After(r, t.at)
    <3> SUFFICES ASSUME NEW t \in TitlesOn(j)'
                 PROVE  /\ \E s \in S : t.at = s.at /\ t.v = s.v
                        /\ \A r \in t.seen : ~After(r, t.at)
      OBVIOUS
    <3>1. (\E x \in Versions(j)' : t = x.title) \/ \E o \in AllOps' : o.item = j /\ t = o.text
      BY DEF TitlesOn
    <3>2. CASE \E x \in Versions(j)' : t = x.title
      BY <2>4, <3>2
    <3>3. CASE t \in S
      BY <2>1, <3>3 DEF Cohere
    <3> QED
      BY <2>5, <3>1, <3>2, <3>3
  <2> QED
    BY <2>1, <2>6, StillCohere
<1>14. RowWell(j)'
  BY <1>7, <1>9 DEF RowWell
<1>15. Served(j)'
  BY <1>5, <1>6, <1>7, <1>9 DEF Served
<1>16. SentTitle(j, disk'[d]) /\ SentDone(j, disk'[d]) /\ Fresh(j, disk'[d])
  <2>1. CASE j # i
    <3>1. disk'[d].items[j] = disk[d].items[j]
      BY <1>6, <2>1
    <3> QED
      BY <1>6, <1>9, <3>1 DEF SentTitle, SentDone, Fresh
  <2>2. CASE j = i /\ kind = "create"
    <3>1. item = [NoItem EXCEPT !.title = text]
      BY <1>10, <2>2
    <3>2. item.title = text /\ item.done = NoItem.done
      BY <1>2, <3>1, NoItemType DEF ItemType
    <3>3. text.at = at
      BY <1>4, <2>2 DEF TitleKinds
    <3>4. Row(j) = NoItem
      <4>1. ~Known(Row(j))
        BY <1>1, <2>2 DEF Made, Row
      <4> QED
        BY <1>9, <4>1 DEF RowWell
    <3>5. NoItem.done \in Dones /\ NoItem.title.at = NoStamp
      BY NoItemType DEF ItemType, Dones, NoItem
    <3>6. SentTitle(j, disk'[d])
      BY <1>2, <1>3, <1>6, <2>2, <3>2, <3>3, SameStamp DEF SentTitle, TitleKinds
    <3>7. SentDone(j, disk'[d])
      BY <1>6, <2>2, <3>2, <3>4, <3>5, SameDone DEF SentDone
    <3>8. Fresh(j, disk'[d])
      BY <1>2, <1>6, <2>2, <3>2, <3>3, <3>4, <3>5, SameDone, NoStampIsFirst DEF Fresh, Covers
    <3> QED
      BY <3>6, <3>7, <3>8
  <2>3. CASE j = i /\ kind # "create"
    <3> DEFINE local == disk[d].items[i]
    <3>1. Raises(local, item, kind, at, text, flag)
      BY <1>10, <1>12, <2>3
    <3>2. /\ local.title.at \in Stamps /\ item.title.at \in Stamps /\ Row(i).title.at \in Stamps
          /\ local.done \in Dones /\ item.done \in Dones /\ Row(i).done \in Dones
      BY <1>2, <1>11, <1>12, <2>3 DEF ItemType, Texts, Dones
    <3> HIDE DEF local
    <3>3. SentTitle(j, disk'[d])
      <4>1. CASE item.title.at = local.title.at
        BY <1>6, <1>9, <2>3, <4>1 DEF SentTitle, local
      <4>2. CASE kind \in TitleKinds /\ item.title.at = text.at
        BY <1>2, <1>3, <1>4, <1>6, <2>3, <4>2, SameStamp DEF SentTitle
      <4> QED
        BY <3>1, <4>1, <4>2 DEF Raises
    <3>4. SentDone(j, disk'[d])
      <4>1. CASE item.done = local.done
        BY <1>6, <1>9, <2>3, <4>1 DEF SentDone, local
      <4>2. CASE kind = "done" /\ item.done = [v |-> flag, at |-> at]
        <5>1. OpDone(op) = item.done
          BY <1>3, <4>2 DEF OpDone
        <5>2. DoneBelow(item.done, OpDone(op))
          BY <3>2, <5>1, SameDone
        <5> QED
          BY <1>3, <1>6, <2>3, <4>2, <5>2 DEF SentDone
      <4> QED
        BY <3>1, <4>1, <4>2 DEF Raises
    <3>5. Fresh(j, disk'[d])
      <4> SUFFICES ASSUME rows[i].rev <= disk[d].cursor PROVE Covers(item, Row(i))
        BY <1>6, <2>3 DEF Fresh
      <4>1. Covers(local, Row(i))
        BY <1>9, <2>3 DEF Fresh, local
      <4>2. ~After(Row(i).title.at, item.title.at)
        BY <3>1, <3>2, <4>1, OrderOfStamps DEF Covers, Raises
      <4>3. DoneBelow(Row(i).done, item.done)
        BY <3>1, <3>2, <4>1, DoneOrder DEF Covers, Raises
      <4> QED
        BY <4>2, <4>3 DEF Covers
    <3> QED
      BY <3>3, <3>4, <3>5
  <2> QED
    BY <2>1, <2>2, <2>3
<1>17. ASSUME NEW s \in Replicas' PROVE (SentTitle(j, s) /\ SentDone(j, s) /\ Fresh(j, s))'
  <2>1. SentTitle(j, s) /\ SentDone(j, s) /\ Fresh(j, s)
    BY <1>6, <1>8, <1>16 DEF FieldsOf
  <2> QED
    BY <1>7, <2>1 DEF SentTitle, SentDone, Fresh
<1> QED
  BY <1>13, <1>14, <1>15, <1>17 DEF FieldsOf

\* The stamps of a stored row are the old row's and the operation's.
LEMMA StoredStamps ==
    ASSUME NEW old \in ItemType, NEW op \in Operations, NEW new, Stored(old, op, new),
           op.kind \in TitleKinds => op.text.at = op.at
    PROVE  ItemStamps(new) \subseteq ItemStamps(old) \cup {NoStamp, op.at}
<1>1. op.at \in Stamps /\ op.text \in Texts /\ op.flag \in BOOLEAN
  BY DEF Operations
<1>2. ASSUME NEW t \in ItemType, new = MergeItem(old, t), ItemStamps(t) \subseteq ItemStamps(old) \cup {op.at}
      PROVE  ItemStamps(new) \subseteq ItemStamps(old) \cup {NoStamp, op.at}
  <2>1. ItemStamps(MergeItem(old, t)) \subseteq ItemStamps(old) \cup ItemStamps(t) \cup {NoStamp}
    BY MergedItem
  <2> QED
    BY <1>2, <2>1
<1>3. CASE op.kind \in {"create", "title"}
  <2> DEFINE t == [old EXCEPT !.title = op.text]
  <2>1. t \in ItemType /\ t.title.at = op.at
    BY <1>1, <1>3 DEF ItemType, TitleKinds
  <2>2. ItemStamps(t) \subseteq ItemStamps(old) \cup {op.at}
    BY <2>1 DEF ItemStamps, ItemType
  <2>3. new = t \/ new = MergeItem(old, t)
    BY <1>3 DEF Stored
  <2> HIDE DEF t
  <2> QED
    BY <1>2, <2>1, <2>2, <2>3
<1>4. CASE op.kind = "done"
  <2> DEFINE t == [old EXCEPT !.done = [v |-> op.flag, at |-> op.at]]
  <2>1. t \in ItemType
    BY <1>1 DEF ItemType
  <2>2. ItemStamps(t) \subseteq ItemStamps(old) \cup {op.at}
    BY <2>1 DEF ItemStamps, ItemType
  <2>3. new = MergeItem(old, t)
    BY <1>4 DEF Stored
  <2> HIDE DEF t
  <2> QED
    BY <1>2, <2>1, <2>2, <2>3
<1>5. CASE op.kind = "delete"
  <2> DEFINE t == [old EXCEPT !.del = op.at]
  <2>1. t \in ItemType
    BY <1>1 DEF ItemType
  <2>2. ItemStamps(t) \subseteq ItemStamps(old) \cup {op.at}
    BY <2>1 DEF ItemStamps, ItemType
  <2>3. new = MergeItem(old, t)
    BY <1>5 DEF Stored
  <2> HIDE DEF t
  <2> QED
    BY <1>2, <2>1, <2>2, <2>3
<1>6. CASE op.kind = "resolveTitle"
  <2> DEFINE text == IF old.cTitle # NoConflict THEN DecidedText(op.text.v, op.at, old.cTitle)
                     ELSE CausalValue(op.text.v, op.at, {old.title})
  <2>1. text.at = op.at
    BY DEF DecidedText, CausalValue
  <2> HIDE DEF text
  <2>2. new = [old EXCEPT !.title = text, !.titleRes = op.at, !.cTitle = NoConflict]
    BY <1>6 DEF Stored, ServerResolveTitle, text
  <2>3. NoConflict.oursAt = NoStamp /\ NoConflict.theirsAt = NoStamp
    BY DEF NoConflict
  <2> QED
    BY <2>1, <2>2, <2>3 DEF ItemStamps, ItemType
<1>7. CASE op.kind = "resolveDeleted"
  <2>1. new = DecideDeleted(old, op.flag, op.at)
    BY <1>7 DEF Stored
  <2>2. NoConflict.oursAt = NoStamp /\ NoConflict.theirsAt = NoStamp
    BY DEF NoConflict
  <2> DEFINE del == IF op.flag THEN op.at ELSE NoStamp
             res == [deleted |-> op.flag, at |-> op.at]
  <2>3. new = [old EXCEPT !.del = del, !.delRes = res, !.cDel = NoConflict]
    BY <2>1 DEF DecideDeleted
  <2>4. del \in {NoStamp, op.at} /\ res.at = op.at
    OBVIOUS
  <2> HIDE DEF del, res
  <2> QED
    BY <2>2, <2>3, <2>4 DEF ItemStamps, ItemType
<1> QED
  BY <1>3, <1>4, <1>5, <1>6, <1>7 DEF Stored

\* What an operation makes of a row that stays undecided.
RowRaised(old, op, new) ==
    /\ Undecided(old) /\ Known(new) /\ op.kind \notin Decisions
    /\ \/ new.title.at = old.title.at /\ new.title.v = old.title.v
       \/ new.title.at = op.text.at /\ new.title.v = op.text.v
    /\ \A r \in new.title.seen : ~After(r, new.title.at)
    /\ Covers(new, old)
    /\ op.kind \in TitleKinds => ~After(op.at, new.title.at)
    /\ op.kind = "done" => DoneBelow(OpDone(op), new.done)
    /\ new.done = old.done \/ (op.kind = "done" /\ new.done = OpDone(op))

\* An accepted operation never takes a field of the row back, and its own is in it.
LEMMA StoredRaises ==
    ASSUME NEW old \in ItemType, NEW op \in Operations, NEW new, Stored(old, op, new), Undecided(new),
           op.at # NoStamp, op.kind \in TitleKinds => op.text.at = op.at, Cohere({old.title, op.text})
    PROVE  RowRaised(old, op, new)
<1>1. op.at \in Stamps /\ op.text \in Texts /\ OpDone(op) \in Dones /\ op.text.at \in Stamps
  BY DEF Operations, OpDone, Dones, Texts
<1>2. old.title \in Texts /\ old.title.at \in Stamps /\ old.done \in Dones
  BY DEF ItemType, Texts, Dones
<1>3. op.kind \notin Decisions
  <2>1. CASE op.kind = "resolveTitle"
    <3>1. new = ServerResolveTitle(old, op)
      BY <2>1 DEF Stored
    <3>2. new.titleRes = op.at
      BY <3>1 DEF ServerResolveTitle, ItemType
    <3> QED
      BY <3>2 DEF Undecided
  <2>2. CASE op.kind = "resolveDeleted"
    <3>1. new = DecideDeleted(old, op.flag, op.at)
      BY <2>2 DEF Stored
    <3>2. new.delRes.at = op.at
      BY <3>1 DEF DecideDeleted, ItemType
    <3> QED
      BY <3>2 DEF Undecided
  <2> QED
    BY <2>1, <2>2 DEF Decisions
<1>4. ASSUME NEW t \in ItemType, new = MergeItem(old, t), Known(old),
             t.title = old.title \/ (op.kind \in TitleKinds /\ t.title = op.text),
             op.kind \in TitleKinds => t.title = op.text,
             t.done = old.done \/ (op.kind = "done" /\ t.done = OpDone(op)),
             op.kind = "done" => t.done = OpDone(op)
      PROVE  RowRaised(old, op, new)
  <2>1. Cohere({old.title, t.title}) /\ t.done \in Dones /\ t.title.at \in Stamps
    BY <1>1, <1>2, <1>4 DEF Cohere
  <2>2. /\ new.title = MergeTitle(old, t).value /\ new.done = MergeCompletion(old.done, t.done)
    BY <1>4, MergedItem
  <2>3. /\ new.title.at = Later(old.title.at, t.title.at)
        /\ new.title.at = old.title.at => new.title.v = old.title.v
        /\ new.title.at = t.title.at => new.title.v = t.title.v
        /\ \A r \in new.title.seen : ~After(r, new.title.at)
    BY <1>4, <2>1, <2>2, LaterTitle
  <2>4. /\ new.title.at \in {old.title.at, t.title.at}
        /\ ~After(old.title.at, new.title.at) /\ ~After(t.title.at, new.title.at)
    BY <1>2, <2>1, <2>3, OrderOfStamps
  <2>5. new.done \in {old.done, t.done} /\ DoneBelow(old.done, new.done) /\ DoneBelow(t.done, new.done)
    BY <1>2, <2>1, <2>2, LaterDone
  <2>6. Undecided(old)
    BY <1>4, <2>1, MergedUndecided
  <2>7. Known(new)
    <3>1. old.title.at # NoStamp /\ After(old.title.at, NoStamp)
      BY <1>2, <1>4, NoStampIsFirst DEF Known
    <3> QED
      BY <2>4, <3>1 DEF Known
  <2>8. Covers(new, old)
    BY <2>4, <2>5 DEF Covers
  <2>9. \/ new.title.at = old.title.at /\ new.title.v = old.title.v
        \/ new.title.at = op.text.at /\ new.title.v = op.text.v
    BY <1>4, <2>3, <2>4
  <2>10. op.kind \in TitleKinds => ~After(op.at, new.title.at)
    BY <1>4, <2>4
  <2>11. op.kind = "done" => DoneBelow(OpDone(op), new.done)
    BY <1>4, <2>5
  <2>12. new.done = old.done \/ (op.kind = "done" /\ new.done = OpDone(op))
    BY <1>4, <2>5
  <2> QED
    BY <1>3, <2>3, <2>6, <2>7, <2>8, <2>9, <2>10, <2>11, <2>12 DEF RowRaised
<1>5. CASE op.kind = "create" /\ ~Known(old) /\ new = [old EXCEPT !.title = op.text]
  <2>1. new.title = op.text /\ new.done = old.done /\ new.titleRes = old.titleRes /\ new.delRes = old.delRes
    BY <1>5 DEF ItemType
  <2>2. op.text.at = op.at
    BY <1>5 DEF TitleKinds
  <2>3. old.title.at = NoStamp
    BY <1>5 DEF Known
  <2>4. Covers(new, old)
    BY <1>1, <1>2, <2>1, <2>2, <2>3, NoStampIsFirst, SameDone DEF Covers
  <2>5. \A r \in op.text.seen : ~After(r, op.text.at)
    BY DEF Cohere
  <2>6. ~After(op.at, op.at)
    BY <1>1, SameStamp
  <2> QED
    BY <1>3, <1>5, <2>1, <2>2, <2>4, <2>5, <2>6 DEF RowRaised, Undecided, Known, TitleKinds
<1>6. CASE op.kind \in {"create", "title"} /\ Known(old) /\ new = MergeItem(old, [old EXCEPT !.title = op.text])
  <2> DEFINE t == [old EXCEPT !.title = op.text]
  <2>1. t \in ItemType /\ t.title = op.text /\ t.done = old.done
    BY <1>1 DEF ItemType
  <2> HIDE DEF t
  <2> QED
    BY <1>4, <1>6, <2>1 DEF t, TitleKinds
<1>7. CASE op.kind = "done" /\ Known(old) /\ new = MergeItem(old, [old EXCEPT !.done = [v |-> op.flag, at |-> op.at]])
  <2> DEFINE t == [old EXCEPT !.done = OpDone(op)]
  <2>1. t \in ItemType /\ t.title = old.title /\ t.done = OpDone(op)
    BY <1>1 DEF ItemType, Dones
  <2>2. new = MergeItem(old, t)
    BY <1>7 DEF OpDone
  <2> HIDE DEF t
  <2> QED
    BY <1>4, <1>7, <2>1, <2>2 DEF TitleKinds
<1>8. CASE op.kind = "delete" /\ Known(old) /\ new = MergeItem(old, [old EXCEPT !.del = op.at])
  <2> DEFINE t == [old EXCEPT !.del = op.at]
  <2>1. t \in ItemType /\ t.title = old.title /\ t.done = old.done
    BY <1>1 DEF ItemType
  <2>2. new = MergeItem(old, t)
    BY <1>8
  <2> HIDE DEF t
  <2> QED
    BY <1>4, <1>8, <2>1, <2>2 DEF TitleKinds
<1> QED
  BY <1>3, <1>5, <1>6, <1>7, <1>8 DEF Stored, Decisions

\* An item that a decision is on record about does not lose it to an operation.
LEMMA StoredStaysDecided ==
    ASSUME NEW old \in ItemType, NEW op \in Operations, NEW new, Stored(old, op, new), op.at # NoStamp,
           Undecided(new)
    PROVE  Undecided(old)
<1>0. /\ op.at \in Stamps /\ op.text \in Texts /\ op.flag \in BOOLEAN
      /\ old.titleRes \in Stamps /\ old.delRes.at \in Stamps
  BY DEF Operations, ItemType
<1>1. ASSUME NEW t \in ItemType, new = MergeItem(old, t), t.titleRes = old.titleRes, t.delRes = old.delRes
      PROVE  Undecided(old)
  <2>1. new.titleRes = Later(old.titleRes, t.titleRes) /\ new.delRes \in {old.delRes, t.delRes}
    BY <1>1, MergedItem
  <2> QED
    BY <1>1, <2>1 DEF Undecided, Later
<1>2. CASE op.kind \in {"create", "title"}
  <2> DEFINE t == [old EXCEPT !.title = op.text]
  <2>1. t \in ItemType /\ t.titleRes = old.titleRes /\ t.delRes = old.delRes
    BY <1>0 DEF ItemType
  <2>2. new = t \/ new = MergeItem(old, t)
    BY <1>2 DEF Stored
  <2> HIDE DEF t
  <2> QED
    BY <1>1, <2>1, <2>2 DEF Undecided
<1>3. CASE op.kind = "done"
  <2> DEFINE t == [old EXCEPT !.done = [v |-> op.flag, at |-> op.at]]
  <2>1. t \in ItemType /\ t.titleRes = old.titleRes /\ t.delRes = old.delRes
    BY <1>0 DEF ItemType
  <2>2. new = MergeItem(old, t)
    BY <1>3 DEF Stored
  <2> HIDE DEF t
  <2> QED
    BY <1>1, <2>1, <2>2
<1>4. CASE op.kind = "delete"
  <2> DEFINE t == [old EXCEPT !.del = op.at]
  <2>1. t \in ItemType /\ t.titleRes = old.titleRes /\ t.delRes = old.delRes
    BY <1>0 DEF ItemType
  <2>2. new = MergeItem(old, t)
    BY <1>4 DEF Stored
  <2> HIDE DEF t
  <2> QED
    BY <1>1, <2>1, <2>2
<1>5. CASE op.kind = "resolveTitle"
  <2>1. new = ServerResolveTitle(old, op)
    BY <1>5 DEF Stored
  <2>2. new.titleRes = op.at
    BY <2>1 DEF ServerResolveTitle, ItemType
  <2> QED
    BY <2>2 DEF Undecided
<1>6. CASE op.kind = "resolveDeleted"
  <2>1. new = DecideDeleted(old, op.flag, op.at)
    BY <1>6 DEF Stored
  <2>2. new.delRes.at = op.at
    BY <2>1 DEF DecideDeleted, ItemType
  <2> QED
    BY <2>2 DEF Undecided
<1> QED
  BY <1>2, <1>3, <1>4, <1>5, <1>6 DEF Stored

\* What the service of an operation leaves of the operations, versions and replicas.
LEMMA ServeLeaves ==
    ASSUME TypeOK, TypeOK', OpInv, NEW r \in requests, NEW op \in r.ops, ServeOperation(r, op)
    PROVE  /\ Serves(r, op) /\ op \in AllOps /\ op \in Operations /\ op.item \in Items
           /\ AllOps' \subseteq AllOps /\ Replicas' = Replicas
           /\ \A j \in Items : \A x \in Versions(j)' : x \in Versions(j) \/ x = rows'[j].item
           /\ op.at # NoStamp /\ (op.kind \in TitleKinds => op.text.at = op.at)
<1>1. Serves(r, op) /\ op \in Operations
  BY ServeEffect
<1>2. op \in AllOps /\ op.item \in Items
  BY <1>1 DEF AllOps, Operations
<1>3. Replicas' = Replicas
  BY <1>1 DEF Serves, Replicas
<1>4. AllOps' \subseteq AllOps
  <2>1. r \in [d : Devices, cycle : Nat, ops : SUBSET Operations]
    BY DEF TypeOK
  <2> DEFINE rest == [r EXCEPT !.ops = @ \ {op}]
  <2>2. requests' \subseteq requests \cup {rest}
    BY DEF ServeOperation
  <2>3. rest.ops \subseteq r.ops
    BY <2>1
  <2> HIDE DEF rest
  <2>4. \A q \in requests' : \A o \in q.ops : \E p \in requests : o \in p.ops
    BY <2>2, <2>3
  <2> QED
    BY <1>3, <2>4 DEF AllOps
<1>5. \A j \in Items : \A x \in Versions(j)' : x \in Versions(j) \/ x = rows'[j].item
  BY <1>3 DEF Versions, Row
<1>6. op.at # NoStamp /\ (op.kind \in TitleKinds => op.text.at = op.at)
  BY <1>2 DEF OpInv, OpShape
<1> QED
  BY <1>1, <1>2, <1>3, <1>4, <1>5, <1>6

\* Serving an operation keeps the invariant of operations.
LEMMA ServeKeepsOps ==
    ASSUME TypeOK, TypeOK', OpInv, NEW r \in requests, NEW op \in r.ops, ServeOperation(r, op)
    PROVE  OpInv'
<1>1. /\ Serves(r, op) /\ op \in AllOps /\ op \in Operations /\ op.item \in Items
      /\ AllOps' \subseteq AllOps
      /\ \A j \in Items : \A x \in Versions(j)' : x \in Versions(j) \/ x = rows'[j].item
      /\ op.kind \in TitleKinds => op.text.at = op.at
  BY ServeLeaves
<1>2. OpShape' /\ SameOp'
  BY <1>1 DEF OpInv, OpShape, SameOp
<1>3. disk' = disk /\ mem' = mem /\ phase' = phase
  BY <1>1 DEF Serves
<1>4. ClockAhead'
  BY <1>3 DEF OpInv, ClockAhead
<1>5. \A s : Old(s)' <=> Old(s)
  BY <1>3 DEF Old
<1>6. \A j \in Items : Row(j) \in Versions(j) /\ NoItem \in Versions(j) /\ Row(j) \in ItemType
  BY ReplicaTypes
<1>7. ASSUME NEW j \in Items, NEW s \in ItemStamps(rows'[j].item) PROVE Old(s)
  <2>1. CASE rows'[j] = rows[j]
    BY <1>6, <1>7, <2>1 DEF OpInv, Minted, Row
  <2>2. CASE rows'[j] # rows[j]
    <3>1. PICK new : /\ Stored(rows[op.item].item, op, new)
                     /\ rows' = [rows EXCEPT ![op.item] = [item |-> new, rev |-> revision + 1]]
      BY <1>1, <2>2 DEF Serves
    <3>2. j = op.item /\ rows'[j].item = new
      BY <1>1, <2>2, <3>1 DEF TypeOK
    <3>3. s \in ItemStamps(Row(j)) \cup {NoStamp, op.at}
      BY <1>1, <1>6, <1>7, <3>1, <3>2, StoredStamps DEF Row
    <3>4. NoStamp \in ItemStamps(NoItem)
      BY DEF NoItem, ItemStamps
    <3> QED
      BY <1>1, <1>6, <3>3, <3>4 DEF OpInv, Minted
  <2> QED
    BY <2>1, <2>2
<1>8. Minted'
  BY <1>1, <1>5, <1>7 DEF OpInv, Minted
<1> QED
  BY <1>2, <1>4, <1>8 DEF OpInv

\* Serving an operation keeps the invariant of the fields.
LEMMA ServeKeepsFields ==
    ASSUME TypeOK, TypeOK', OpInv, FieldInv, NEW r \in requests, NEW op \in r.ops, ServeOperation(r, op)
    PROVE  FieldInv'
<1> SUFFICES ASSUME NEW j \in Items, Steady(j)' PROVE FieldsOf(j)'
  BY DEF FieldInv
<1>1. /\ Serves(r, op) /\ op \in AllOps /\ op \in Operations /\ op.item \in Items
      /\ AllOps' \subseteq AllOps /\ Replicas' = Replicas
      /\ \A k \in Items : \A x \in Versions(k)' : x \in Versions(k) \/ x = rows'[k].item
      /\ op.at # NoStamp /\ (op.kind \in TitleKinds => op.text.at = op.at)
  BY ServeLeaves
<1>2. shedKeys' = shedKeys /\ shedKeys' = {} /\ Undecided(rows'[j].item)
  BY <1>1 DEF Serves, Steady, Row
<1>3. \A s \in Replicas : /\ s.items[j] \in ItemType /\ s.cursor \in Nat /\ s.cursor <= revision
                          /\ s.items[j].title.at \in Stamps /\ s.items[j].done \in Dones
  <2>1. \A s \in Replicas : s.items[j] \in ItemType /\ s.cursor \in Nat /\ s.cursor <= revision
    BY ReplicaTypes DEF Versions
  <2> QED
    BY <2>1 DEF ItemType, Texts, Dones
<1>4. /\ Row(j) \in ItemType /\ Row(j) \in Versions(j) /\ rows[j].rev \in Nat
      /\ Row(j).title.at \in Stamps /\ Row(j).done \in Dones /\ Row(j).title \in TitlesOn(j)
  <2>1. Row(j) \in ItemType /\ Row(j) \in Versions(j) /\ rows[j].rev \in Nat /\ Row(j).title \in TitlesOn(j)
    BY ReplicaTypes
  <2> QED
    BY <2>1 DEF ItemType, Texts, Dones
<1>5. \A k \in receipts' : k \in receipts \/ k = op.key
  BY <1>1 DEF Serves
<1>6. \A x \in Versions(j) : x.title \in TitlesOn(j)
  BY ReplicaTypes
<1>7. \A o \in AllOps : o.item = j => o.text \in TitlesOn(j)
  BY DEF AllOps, Operations, TitlesOn
<1>8. CASE rows'[j] = rows[j]
  <2>1. Row(j)' = Row(j) /\ Steady(j) /\ FieldsOf(j)
    BY <1>2, <1>8 DEF Row, Steady, FieldInv
  <2>2. op.item = j /\ op.key \in receipts' => op.key \in receipts
    <3> SUFFICES ASSUME op.item = j, op.key \in receipts', op.key \notin receipts PROVE FALSE
      OBVIOUS
    <3>1. rows' = rows
      <4> SUFFICES ASSUME NEW new, rows' = [rows EXCEPT ![op.item] = [item |-> new, rev |-> revision + 1]]
                   PROVE  FALSE
        BY <1>1 DEF Serves
      <4>1. rows'[j].rev = revision + 1
        BY DEF TypeOK
      <4>2. revision \in Nat /\ rows[j].rev <= revision
        BY ReplicaTypes DEF TypeOK
      <4> QED
        BY <1>4, <1>8, <4>1, <4>2
    <3>2. ~After(op.at, Row(j).titleRes) \/ ~After(op.at, Row(j).delRes.at)
      BY <1>1, <3>1 DEF Serves, Row
    <3>3. Row(j).titleRes = NoStamp /\ Row(j).delRes.at = NoStamp
      BY <2>1 DEF Steady, Undecided
    <3>4. op.at \in Stamps
      BY <1>1 DEF Operations
    <3> QED
      BY <1>1, <3>2, <3>3, <3>4, NoStampIsFirst
  <2>3. Cohere(TitlesOn(j)')
    <3>1. Versions(j)' \subseteq Versions(j)
      BY <1>1, <1>4, <1>8 DEF Row
    <3>2. TitlesOn(j)' \subseteq TitlesOn(j)
      BY <1>1, <3>1 DEF TitlesOn
    <3> QED
      BY <2>1, <3>2 DEF FieldsOf, Cohere
  <2>4. RowWell(j)'
    BY <1>8, <2>1 DEF RowWell, FieldsOf
  <2>5. Served(j)'
    <3> SUFFICES ASSUME NEW o \in AllOps', o.item = j, o.key \in receipts'
                 PROVE  /\ o.kind \notin Decisions
                        /\ o.kind \in TitleKinds => ~After(o.at, Row(j).title.at)
                        /\ o.kind = "done" => DoneBelow(OpDone(o), Row(j).done)
      BY <2>1 DEF Served
    <3>1. o \in AllOps
      BY <1>1
    <3>2. o.key = op.key => o = op
      BY <1>1, <3>1 DEF OpInv, SameOp
    <3>3. o.key \in receipts
      BY <1>5, <2>2, <3>2
    <3> QED
      BY <2>1, <3>1, <3>3 DEF FieldsOf, Served
  <2>6. ASSUME NEW s \in Replicas' PROVE (SentTitle(j, s) /\ SentDone(j, s) /\ Fresh(j, s))'
    BY <1>1, <1>8, <2>1, <2>6 DEF FieldsOf, SentTitle, SentDone, Fresh
  <2> QED
    BY <2>3, <2>4, <2>5, <2>6 DEF FieldsOf
<1>9. CASE rows'[j] # rows[j]
  <2>1. PICK new : /\ op.key \notin receipts /\ Stored(rows[op.item].item, op, new)
                   /\ rows' = [rows EXCEPT ![op.item] = [item |-> new, rev |-> revision + 1]]
                   /\ revision' = revision + 1
    BY <1>1, <1>9 DEF Serves
  <2>2. j = op.item /\ rows'[j] = [item |-> new, rev |-> revision + 1] /\ revision \in Nat
    BY <1>1, <1>9, <2>1 DEF TypeOK
  <2>3. Stored(Row(j), op, new) /\ Undecided(new) /\ Row(j)' = new /\ rows'[j].rev = revision + 1
    BY <1>2, <2>1, <2>2 DEF Row
  <2>4. new \in ItemType
    BY <1>1, <1>4, <2>3, StoredType
  <2>5. Undecided(Row(j))
    <3> SUFFICES ASSUME ~Undecided(Row(j)) PROVE FALSE
      OBVIOUS
    <3> QED
      BY <1>1, <1>4, <2>3, StoredStaysDecided
  <2>6. Steady(j) /\ FieldsOf(j)
    BY <1>2, <2>5 DEF Steady, FieldInv
  <2>7. Cohere({Row(j).title, op.text}) /\ op.text \in TitlesOn(j)
    BY <1>1, <1>4, <1>7, <2>2, <2>6 DEF FieldsOf, Cohere
  <2>8. RowRaised(Row(j), op, new)
    BY <1>1, <1>4, <2>3, <2>7, StoredRaises
  <2>9. new.title.at \in Stamps /\ new.done \in Dones /\ Covers(new, Row(j))
    BY <2>4, <2>8 DEF ItemType, Texts, Dones, RowRaised
  <2>10. Cohere(TitlesOn(j)')
    <3>1. \A t \in TitlesOn(j)' : t \in TitlesOn(j) \/ t = new.title
      <4> SUFFICES ASSUME NEW t \in TitlesOn(j)' PROVE t \in TitlesOn(j) \/ t = new.title
        OBVIOUS
      <4>1. (\E x \in Versions(j)' : t = x.title) \/ \E o \in AllOps' : o.item = j /\ t = o.text
        BY DEF TitlesOn
      <4> QED
        BY <1>1, <1>6, <1>7, <2>2, <4>1
    <3>2. \E s \in TitlesOn(j) : new.title.at = s.at /\ new.title.v = s.v
      BY <1>4, <2>7, <2>8 DEF RowRaised
    <3>3. \A q \in new.title.seen : ~After(q, new.title.at)
      BY <2>8 DEF RowRaised
    <3>4. Cohere(TitlesOn(j))
      BY <2>6 DEF FieldsOf
    <3>5. \A t \in TitlesOn(j)' : /\ \E s \in TitlesOn(j) : t.at = s.at /\ t.v = s.v
                                  /\ \A q \in t.seen : ~After(q, t.at)
      BY <3>1, <3>2, <3>3, <3>4 DEF Cohere
    <3> QED
      BY <3>4, <3>5, StillCohere
  <2>11. RowWell(j)'
    BY <2>2, <2>3, <2>8 DEF RowWell, RowRaised
  <2>12. Served(j)'
    <3> SUFFICES ASSUME NEW o \in AllOps', o.item = j, o.key \in receipts'
                 PROVE  /\ o.kind \notin Decisions
                        /\ o.kind \in TitleKinds => ~After(o.at, new.title.at)
                        /\ o.kind = "done" => DoneBelow(OpDone(o), new.done)
      BY <2>3 DEF Served
    <3>1. o \in AllOps /\ o.at \in Stamps /\ OpDone(o) \in Dones
      BY <1>1 DEF AllOps, Operations, OpDone, Dones
    <3>2. CASE o = op
      BY <2>8, <3>2 DEF RowRaised
    <3>3. CASE o # op
      <4>1. o.key \in receipts
        BY <1>1, <1>5, <3>1, <3>3 DEF OpInv, SameOp
      <4>2. /\ o.kind \notin Decisions
            /\ o.kind \in TitleKinds => ~After(o.at, Row(j).title.at)
            /\ o.kind = "done" => DoneBelow(OpDone(o), Row(j).done)
        BY <2>6, <3>1, <4>1 DEF FieldsOf, Served
      <4>3. ~After(o.at, Row(j).title.at) => ~After(o.at, new.title.at)
        BY <1>4, <2>9, <3>1, OrderOfStamps DEF Covers
      <4>4. DoneBelow(OpDone(o), Row(j).done) => DoneBelow(OpDone(o), new.done)
        BY <1>4, <2>9, <3>1, DoneOrder DEF Covers
      <4> QED
        BY <4>2, <4>3, <4>4
    <3> QED
      BY <3>2, <3>3
  <2>13. ASSUME NEW s \in Replicas' PROVE (SentTitle(j, s) /\ SentDone(j, s) /\ Fresh(j, s))'
    <3>1. s \in Replicas /\ SentTitle(j, s) /\ SentDone(j, s)
      BY <1>1, <2>6, <2>13 DEF FieldsOf
    <3>2. ~After(s.items[j].title.at, Row(j).title.at) => ~After(s.items[j].title.at, new.title.at)
      BY <1>3, <1>4, <2>9, <3>1, OrderOfStamps DEF Covers
    <3>3. DoneBelow(s.items[j].done, Row(j).done) => DoneBelow(s.items[j].done, new.done)
      BY <1>3, <1>4, <2>9, <3>1, DoneOrder DEF Covers
    <3>4. ~(rows'[j].rev <= s.cursor)
      BY <1>3, <2>2, <2>3, <3>1
    <3> QED
      BY <2>3, <3>1, <3>2, <3>3, <3>4 DEF SentTitle, SentDone, Fresh
  <2> QED
    BY <2>10, <2>11, <2>12, <2>13 DEF FieldsOf
<1> QED
  BY <1>8, <1>9

\* A file or a cycle's copy that comes of one there was.
Inherits(d, t) ==
    \/ t = EmptyState(d)
    \/ \E s \in Replicas : ItemsDescend(t, s) /\ OutboxDescends(t, s) /\ t.outbox \subseteq s.outbox

\* What shows that a step of one device is passive.
LEMMA PassiveIf ==
    ASSUME TypeOK, TypeOK', ClockAhead, NEW d \in Devices,
           rows' = rows, receipts' = receipts, shedKeys \subseteq shedKeys',
           \A e \in Devices : e # d => disk'[e] = disk[e] /\ mem'[e] = mem[e] /\ phase'[e] = phase[e],
           Inherits(d, disk'[d]), Inherits(d, mem'[d]),
           \A q \in requests' : q \in requests \/ q.ops \subseteq AllOps,
           ~After(disk[d].clock, disk'[d].clock),
           phase'[d] # "idle" => ~After(disk'[d].clock, mem'[d].clock)
    PROVE  Passive
<1>1. \A t \in Replicas' : t \in Replicas \/ Inherits(d, t)
  BY DEF Replicas
<1>2. \A s \in Replicas : ItemsDescend(s, s) /\ OutboxDescends(s, s)
  BY DEF ItemsDescend, OutboxDescends
<1>3. \A t \in Replicas' : \/ \E e \in Devices : t = EmptyState(e)
                           \/ \E s \in Replicas : ItemsDescend(t, s) /\ OutboxDescends(t, s)
  BY <1>1, <1>2 DEF Inherits
<1>4. AllOps' \subseteq AllOps
  <2> SUFFICES ASSUME NEW o \in AllOps' PROVE o \in AllOps
    OBVIOUS
  <2>1. o \in Operations /\ ((\E t \in Replicas' : o \in t.outbox) \/ \E q \in requests' : o \in q.ops)
    BY DEF AllOps
  <2>2. ASSUME NEW t \in Replicas', o \in t.outbox PROVE o \in AllOps
    <3>1. CASE t \in Replicas
      BY <2>1, <2>2, <3>1 DEF AllOps
    <3>2. CASE t = EmptyState(d)
      BY <2>2, <3>2 DEF EmptyState
    <3>3. ASSUME NEW s \in Replicas, t.outbox \subseteq s.outbox PROVE o \in AllOps
      BY <2>1, <2>2, <3>3 DEF AllOps
    <3> QED
      BY <1>1, <3>1, <3>2, <3>3 DEF Inherits
  <2>3. ASSUME NEW q \in requests', o \in q.ops PROVE o \in AllOps
    BY <2>1, <2>3 DEF AllOps
  <2> QED
    BY <2>1, <2>2, <2>3
<1>5. \A e \in Devices : ~After(disk[e].clock, disk'[e].clock)
  <2> SUFFICES ASSUME NEW e \in Devices, e # d PROVE ~After(disk[e].clock, disk'[e].clock)
    OBVIOUS
  <2>1. disk'[e] = disk[e] /\ disk[e].clock \in Stamps
    BY ClockOfDisk
  <2> QED
    BY <2>1, SameStamp
<1>6. ClockAhead'
  BY DEF ClockAhead
<1> QED
  BY <1>3, <1>4, <1>5, <1>6 DEF Passive

\* A cycle that ends with what it made of its copy.
LEMMA FinishIsPassive ==
    ASSUME TypeOK, TypeOK', ClockAhead, NEW d \in Devices, phase[d] # "idle",
           NEW state \in States(d), Finish(d, state),
           ItemsDescend(state, mem[d]), OutboxDescends(state, mem[d]), state.outbox \subseteq mem[d].outbox,
           ~After(mem[d].clock, state.clock)
    PROVE  Passive
<1>1. /\ rows' = rows /\ receipts' = receipts /\ shedKeys' = shedKeys /\ requests' = requests
      /\ \A e \in Devices : e # d => disk'[e] = disk[e] /\ mem'[e] = mem[e] /\ phase'[e] = phase[e]
      /\ disk'[d] = state /\ mem'[d] = EmptyState(d) /\ phase'[d] = "idle"
  BY DEF Finish, serverVars, TypeOK
<1>2. mem[d] \in Replicas
  BY DEF Replicas
<1>3. Inherits(d, disk'[d]) /\ Inherits(d, mem'[d])
  BY <1>1, <1>2 DEF Inherits
<1>4. disk[d].clock \in Stamps /\ mem[d].clock \in Stamps /\ state.clock \in Stamps
  <2>1. disk[d].clock \in Clocks(d) /\ mem[d].clock \in Clocks(d) /\ state.clock \in Clocks(d)
    BY DEF TypeOK, States
  <2> QED
    BY <2>1, StampTypes
<1>5. ~After(disk[d].clock, state.clock)
  BY <1>4, OrderOfStamps DEF ClockAhead
<1> QED
  BY <1>1, <1>3, <1>5, PassiveIf

\* What pulling makes of a copy.
LEMMA AbsorbDescends ==
    ASSUME ClockInv, NEW d \in Devices
    PROVE  LET state == Absorb(d, mem[d]) IN
           /\ state \in States(d) /\ state.outbox = mem[d].outbox
           /\ ItemsDescend(state, mem[d]) /\ OutboxDescends(state, mem[d])
           /\ ~After(mem[d].clock, state.clock)
<1> DEFINE state == Absorb(d, mem[d])
<1>0. mem[d] \in States(d) /\ mem[d].cursor <= revision /\ mem[d].cursor \in Nat
      /\ \A i \in Items : rows[i].rev \in Nat
  BY DEF ClockInv, TypeOK, States
<1>1. /\ state \in States(d) /\ state.outbox = mem[d].outbox
      /\ ~After(mem[d].clock, state.clock)
      /\ \A i \in Items :
            state.items[i] = IF rows[i].rev <= mem[d].cursor THEN mem[d].items[i]
                             ELSE IF Known(mem[d].items[i]) THEN MergeItem(mem[d].items[i], rows[i].item)
                             ELSE rows[i].item
  BY <1>0, AbsorbEffect
<1> HIDE DEF state
<1>2. ItemsDescend(state, mem[d])
  BY <1>1 DEF ItemsDescend, Row
<1>3. OutboxDescends(state, mem[d])
  BY <1>1 DEF OutboxDescends
<1> QED
  BY <1>1, <1>2, <1>3 DEF state

\* Every step is an edit, the service of an operation, or passive.
LEMMA StepKinds ==
    ASSUME StoreLock, ClockInv, TypeOK', Durable, OpInv, [Next]_vars
    PROVE  \/ Passive
           \/ \E d \in Devices, i \in Items : phase[d] = "idle" /\
                \E item, kind, at, text, flag : Edit(d, i, item, kind, at, text, flag)
           \/ \E r \in requests : \E op \in r.ops : ServeOperation(r, op)
<1>0. /\ TypeOK /\ ClockAhead /\ \A e \in Devices : disk[e] \in Replicas /\ mem[e] \in Replicas
      /\ \A e \in Devices : disk[e].clock \in Stamps /\ mem[e].clock \in Stamps /\ disk[e] \in States(e) /\ mem[e] \in States(e)
  <2>1. TypeOK /\ ClockAhead
    BY DEF ClockInv, OpInv
  <2>2. \A e \in Devices : disk[e] \in States(e) /\ mem[e] \in States(e)
    BY <2>1 DEF TypeOK
  <2>3. \A e \in Devices : disk[e].clock \in Stamps /\ mem[e].clock \in Stamps
    BY <2>2, StampTypes DEF States
  <2> QED
    BY <2>1, <2>2, <2>3 DEF Replicas
<1>1. CASE UNCHANGED vars
  <2>1. Replicas' = Replicas /\ AllOps' = AllOps
    BY <1>1 DEF vars, Replicas, AllOps
  <2>2. \A s \in Replicas : ItemsDescend(s, s) /\ OutboxDescends(s, s)
    BY DEF ItemsDescend, OutboxDescends
  <2>3. \A d \in Devices : ~After(disk[d].clock, disk'[d].clock)
    BY <1>0, <1>1, SameStamp DEF vars
  <2> QED
    BY <1>0, <1>1, <2>1, <2>2, <2>3 DEF Passive, vars, ClockAhead
<1> SUFFICES ASSUME Next
             PROVE  \/ Passive
                    \/ \E d \in Devices, i \in Items : phase[d] = "idle" /\
                         \E item, kind, at, text, flag : Edit(d, i, item, kind, at, text, flag)
                    \/ \E r \in requests : \E op \in r.ops : ServeOperation(r, op)
  BY <1>1
<1> PICK d \in Devices :
        \/ \E i \in Items :
             \/ \E v \in Titles[d] : AddItem(d, i, v) \/ SetTitle(d, i, v)
             \/ \E b \in Flags[d] : SetCompleted(d, i, b)
             \/ DeleteItem(d, i)
             \/ \E b \in BOOLEAN : ResolveTitle(d, i, b) \/ ResolveDeleted(d, i, b)
        \/ \E key \in Keys(disk[d].outbox) : RequestRetry(d, key)
        \/ BeginSync(d)
        \/ PullFails(d)
        \/ PullAnswers(d)
        \/ PushAnswers(d)
        \/ PushFails(d)
        \/ Crash(d)
        \/ \E r \in requests : \E op \in r.ops : r.d = d /\ ServeOperation(r, op)
  BY Zenon DEF Next
<1>2. ASSUME NEW i \in Items,
             \/ \E v \in Titles[d] : AddItem(d, i, v) \/ SetTitle(d, i, v)
             \/ \E b \in Flags[d] : SetCompleted(d, i, b)
             \/ DeleteItem(d, i)
             \/ \E b \in BOOLEAN : ResolveTitle(d, i, b) \/ ResolveDeleted(d, i, b)
      PROVE  \E e \in Devices, j \in Items : phase[e] = "idle" /\
                \E item, kind, at, text, flag : Edit(e, j, item, kind, at, text, flag)
  <2>1. PICK item, kind, at, text, flag : Edit(d, i, item, kind, at, text, flag)
    BY <1>2, EditsCommit
  <2>2. phase[d] = "idle"
    BY <2>1 DEF Edit, Unlocked
  <2> QED
    BY <2>1, <2>2
<1>3. ASSUME NEW key \in Keys(disk[d].outbox), RequestRetry(d, key) PROVE Passive
  <2>1. /\ disk' = [disk EXCEPT ![d].retry = @ \cup {key}] /\ phase[d] = "idle"
        /\ mem' = mem /\ phase' = phase /\ requests' = requests
        /\ rows' = rows /\ receipts' = receipts /\ shedKeys' = shedKeys
    BY <1>3 DEF RequestRetry, syncVars, serverVars, Unlocked
  <2>2. /\ \A e \in Devices : e # d => disk'[e] = disk[e]
        /\ disk'[d] = [disk[d] EXCEPT !.retry = disk[d].retry \cup {key}]
    BY <1>0, <2>1 DEF TypeOK
  <2>3. /\ disk'[d].items = disk[d].items /\ disk'[d].outbox = disk[d].outbox
        /\ disk'[d].cursor = disk[d].cursor /\ disk'[d].clock = disk[d].clock
    BY <1>0, <2>2 DEF States
  <2>4. Inherits(d, disk'[d]) /\ Inherits(d, mem'[d])
    <3>1. ItemsDescend(disk'[d], disk[d]) /\ OutboxDescends(disk'[d], disk[d])
      BY <2>3 DEF ItemsDescend, OutboxDescends
    <3>2. ItemsDescend(mem[d], mem[d]) /\ OutboxDescends(mem[d], mem[d])
      BY DEF ItemsDescend, OutboxDescends
    <3> QED
      BY <1>0, <2>1, <2>3, <3>1, <3>2 DEF Inherits
  <2>5. ~After(disk[d].clock, disk'[d].clock)
    BY <1>0, <2>3, SameStamp
  <2> QED
    BY <1>0, <2>1, <2>2, <2>4, <2>5, PassiveIf
<1>4. CASE BeginSync(d)
  <2> DEFINE copy == [disk[d] EXCEPT !.outbox = Shed(@)]
  <2>1. /\ disk' = disk /\ requests' = requests /\ rows' = rows /\ receipts' = receipts
        /\ mem' = [mem EXCEPT ![d] = copy] /\ phase' = [phase EXCEPT ![d] = "pull"]
        /\ shedKeys' = shedKeys \cup (Keys(disk[d].outbox) \ Keys(Shed(disk[d].outbox)))
    BY <1>4 DEF BeginSync, serverVars
  <2>2. Shed(disk[d].outbox) \subseteq disk[d].outbox
    BY DEF Shed
  <2>3. /\ copy.items = disk[d].items /\ copy.outbox = Shed(disk[d].outbox)
        /\ copy.cursor = disk[d].cursor /\ copy.clock = disk[d].clock
    BY <1>0 DEF States
  <2> HIDE DEF copy
  <2>4. mem'[d] = copy /\ \A e \in Devices : e # d => mem'[e] = mem[e] /\ phase'[e] = phase[e]
    BY <1>0, <2>1 DEF TypeOK
  <2>5. ItemsDescend(copy, disk[d])
    BY <2>3 DEF ItemsDescend
  <2>6. OutboxDescends(copy, disk[d])
    <3> SUFFICES ASSUME shedKeys' = {}, NEW op \in disk[d].outbox PROVE op \in Shed(disk[d].outbox)
      BY <2>3 DEF OutboxDescends
    <3>1. op.key \in Keys(Shed(disk[d].outbox))
      BY <2>1 DEF Keys
    <3>2. PICK o \in Shed(disk[d].outbox) : o.key = op.key
      BY <3>1 DEF Keys
    <3>3. op \in AllOps /\ o \in AllOps
      BY <1>0, <2>2, ReplicaTypes
    <3> QED
      BY <3>2, <3>3 DEF OpInv, SameOp
  <2>7. ItemsDescend(disk[d], disk[d]) /\ OutboxDescends(disk[d], disk[d])
    BY DEF ItemsDescend, OutboxDescends
  <2>8. Inherits(d, disk'[d]) /\ Inherits(d, mem'[d])
    BY <1>0, <2>1, <2>2, <2>3, <2>4, <2>5, <2>6, <2>7 DEF Inherits
  <2>9. ~After(disk[d].clock, disk[d].clock)
    BY <1>0, SameStamp
  <2>10. \A e \in Devices : e # d => disk'[e] = disk[e] /\ mem'[e] = mem[e] /\ phase'[e] = phase[e]
    BY <2>1, <2>4
  <2>11. ~After(disk[d].clock, disk'[d].clock) /\ ~After(disk'[d].clock, mem'[d].clock)
    BY <2>1, <2>3, <2>4, <2>9
  <2> QED
    BY <1>0, <2>1, <2>8, <2>10, <2>11, PassiveIf
<1>5. CASE PullFails(d)
  <2>1. ItemsDescend(mem[d], mem[d]) /\ OutboxDescends(mem[d], mem[d]) /\ ~After(mem[d].clock, mem[d].clock)
    BY <1>0, SameStamp DEF ItemsDescend, OutboxDescends
  <2>2. phase[d] # "idle" /\ Finish(d, mem[d])
    BY <1>5 DEF PullFails
  <2> QED
    BY <1>0, <2>1, <2>2, FinishIsPassive
<1>6. CASE PullAnswers(d)
  <2> DEFINE state == Absorb(d, mem[d])
             ops == NextBatch(state.outbox, state.retry)
  <2>1. /\ state \in States(d) /\ state.outbox = mem[d].outbox
        /\ ItemsDescend(state, mem[d]) /\ OutboxDescends(state, mem[d])
        /\ ~After(mem[d].clock, state.clock)
    BY AbsorbDescends
  <2>2. phase[d] = "pull"
    BY <1>6 DEF PullAnswers
  <2>3. CASE Finish(d, state)
    BY <1>0, <2>1, <2>2, <2>3, FinishIsPassive
  <2>4. CASE ~Finish(d, state)
    <3>1. /\ mem' = [mem EXCEPT ![d] = state] /\ phase' = [phase EXCEPT ![d] = "push"]
          /\ requests' = requests \cup {[d |-> d, cycle |-> count[d].cycles, ops |-> ops]}
          /\ disk' = disk /\ rows' = rows /\ receipts' = receipts /\ shedKeys' = shedKeys
      BY <1>6, <2>4 DEF PullAnswers
    <3>2. ops \subseteq mem[d].outbox
      BY <2>1 DEF NextBatch, Heads
    <3>3. mem[d].outbox \subseteq AllOps
      BY <1>0, ReplicaTypes
    <3> HIDE DEF state, ops
    <3>4. mem'[d] = state /\ \A e \in Devices : e # d => mem'[e] = mem[e] /\ phase'[e] = phase[e]
      BY <1>0, <3>1 DEF TypeOK
    <3>5. ItemsDescend(disk[d], disk[d]) /\ OutboxDescends(disk[d], disk[d]) /\ ~After(disk[d].clock, disk[d].clock)
      BY <1>0, SameStamp DEF ItemsDescend, OutboxDescends
    <3>6. Inherits(d, disk'[d]) /\ Inherits(d, mem'[d])
      BY <1>0, <2>1, <3>1, <3>4, <3>5 DEF Inherits
    <3>7. \A q \in requests' : q \in requests \/ q.ops \subseteq AllOps
      BY <3>1, <3>2, <3>3
    <3>8. ~After(disk[d].clock, state.clock)
      <4>1. ~After(disk[d].clock, mem[d].clock)
        BY <1>0, <2>2 DEF ClockAhead
      <4>2. state.clock \in Stamps
        BY <2>1, StampTypes DEF States
      <4> QED
        BY <1>0, <2>1, <4>1, <4>2, OrderOfStamps
    <3>9. ~After(disk[d].clock, disk'[d].clock) /\ ~After(disk'[d].clock, mem'[d].clock)
      BY <3>1, <3>4, <3>5, <3>8
    <3>10. \A e \in Devices : e # d => disk'[e] = disk[e] /\ mem'[e] = mem[e] /\ phase'[e] = phase[e]
      BY <3>1, <3>4
    <3> QED
      BY <1>0, <3>1, <3>6, <3>7, <3>9, <3>10, PassiveIf
  <2> QED
    BY <2>3, <2>4
<1>7. CASE PushAnswers(d)
  <2> DEFINE state == [mem[d] EXCEPT !.outbox = Acknowledge(@, answer[d].accepted), !.retry = @ \ Keys(batch[d])]
  <2>1. Acknowledge(mem[d].outbox, answer[d].accepted) \subseteq mem[d].outbox
    BY DEF Acknowledge
  <2>2. /\ state \in States(d) /\ state.cursor = mem[d].cursor /\ state.clock = mem[d].clock
        /\ state.items = mem[d].items /\ state.outbox = Acknowledge(mem[d].outbox, answer[d].accepted)
    BY <1>0, <2>1 DEF States
  <2>3. Finish(d, state) /\ phase[d] # "idle"
    BY <1>7 DEF PushAnswers
  <2> HIDE DEF state
  <2>4. \A op \in mem[d].outbox : op \in state.outbox \/ op.key \in receipts
    <3>1. answer[d].accepted \subseteq receipts
      BY DEF Durable, AnswersHonest
    <3> QED
      BY <2>2, <3>1 DEF Acknowledge
  <2>5. ItemsDescend(state, mem[d]) /\ OutboxDescends(state, mem[d]) /\ ~After(mem[d].clock, state.clock)
    BY <1>0, <2>2, <2>4, SameStamp DEF ItemsDescend, OutboxDescends
  <2> QED
    BY <1>0, <2>1, <2>2, <2>3, <2>5, FinishIsPassive
<1>8. CASE PushFails(d)
  <2> DEFINE state == [mem[d] EXCEPT !.retry = @ \ Keys(batch[d])]
  <2>1. /\ state \in States(d) /\ state.cursor = mem[d].cursor /\ state.clock = mem[d].clock
        /\ state.items = mem[d].items /\ state.outbox = mem[d].outbox
    BY <1>0 DEF States
  <2>2. Finish(d, state) /\ phase[d] # "idle"
    BY <1>8 DEF PushFails
  <2> HIDE DEF state
  <2>3. ItemsDescend(state, mem[d]) /\ OutboxDescends(state, mem[d]) /\ ~After(mem[d].clock, state.clock)
    BY <1>0, <2>1, SameStamp DEF ItemsDescend, OutboxDescends
  <2> QED
    BY <1>0, <2>1, <2>2, <2>3, FinishIsPassive
<1>9. CASE Crash(d)
  <2>1. /\ disk' = disk /\ requests' = requests /\ rows' = rows /\ receipts' = receipts /\ shedKeys' = shedKeys
        /\ mem' = [mem EXCEPT ![d] = EmptyState(d)] /\ phase' = [phase EXCEPT ![d] = "idle"]
    BY <1>9 DEF Crash, serverVars
  <2>2. mem'[d] = EmptyState(d) /\ phase'[d] = "idle" /\ \A e \in Devices : e # d => mem'[e] = mem[e] /\ phase'[e] = phase[e]
    BY <1>0, <2>1 DEF TypeOK
  <2>3. ItemsDescend(disk[d], disk[d]) /\ OutboxDescends(disk[d], disk[d]) /\ ~After(disk[d].clock, disk[d].clock)
    BY <1>0, SameStamp DEF ItemsDescend, OutboxDescends
  <2>4. Inherits(d, disk'[d]) /\ Inherits(d, mem'[d])
    BY <1>0, <2>1, <2>2, <2>3 DEF Inherits
  <2> QED
    BY <1>0, <2>1, <2>2, <2>3, <2>4, PassiveIf
<1> QED
  BY <1>2, <1>3, <1>4, <1>5, <1>6, <1>7, <1>8, <1>9

\* What the two proofs below keep: the clocks, the queues and the fields.
SyncInv == ClockInv /\ Durable /\ QueueInv /\ OpInv /\ FieldInv

\* At the start every replica is empty.
LEMMA NothingYet ==
    ASSUME Init
    PROVE  /\ AllOps = {} /\ receipts = {}
           /\ \A i \in Items : Row(i) = NoItem /\ rows[i].rev = 0 /\ \A x \in Versions(i) : x = NoItem
           /\ \A s \in Replicas : \E d \in Devices : s = EmptyState(d)
<1>1. \A s \in Replicas : \E d \in Devices : s = EmptyState(d)
  BY DEF Init, Replicas
<1>2. \A s \in Replicas : s.outbox = {} /\ \A i \in Items : s.items[i] = NoItem
  BY <1>1 DEF EmptyState
<1>3. AllOps = {} /\ receipts = {}
  BY <1>2 DEF Init, AllOps
<1>4. \A i \in Items : Row(i) = NoItem /\ rows[i].rev = 0
  BY DEF Init, Row
<1>5. \A i \in Items : \A x \in Versions(i) : x = NoItem
  BY <1>2, <1>4 DEF Versions
<1> QED
  BY <1>1, <1>3, <1>4, <1>5

\* Initially nothing is made, queued or stored.
LEMMA SyncInit == Init => SyncInv
<1> SUFFICES ASSUME Init PROVE SyncInv
  OBVIOUS
<1>1. ClockInv /\ Durable /\ QueueInv /\ TypeOK
  BY ClockInit, DurableInit, QueueInit DEF ClockInv
<1>2. /\ AllOps = {} /\ receipts = {}
      /\ \A i \in Items : Row(i) = NoItem /\ rows[i].rev = 0 /\ \A x \in Versions(i) : x = NoItem
      /\ \A s \in Replicas : \E d \in Devices : s = EmptyState(d)
  BY NothingYet
<1>3. \A s \in ItemStamps(NoItem) : s = NoStamp
  BY DEF ItemStamps, NoItem, NoConflict
<1>4. Old(NoStamp)
  <2>1. \A d \in Devices : disk[d].clock \in Stamps
    BY <1>1, ClockOfDisk
  <2> QED
    BY <2>1, NoStampIsFirst DEF Old
<1>5. OpInv
  <2>1. Minted
    BY <1>2, <1>3, <1>4 DEF Minted
  <2>2. ClockAhead
    BY DEF Init, ClockAhead
  <2> QED
    BY <1>2, <2>1, <2>2 DEF OpInv, OpShape, SameOp
<1>6. FieldInv
  <2> SUFFICES ASSUME NEW i \in Items PROVE FieldsOf(i)
    BY DEF FieldInv
  <2>1. \A t \in TitlesOn(i) : t = NoItem.title
    BY <1>2 DEF TitlesOn
  <2>2. NoItem.title.seen = {}
    BY DEF NoItem
  <2>3. Cohere(TitlesOn(i))
    BY <2>1, <2>2 DEF Cohere
  <2>4. RowWell(i)
    BY <1>2 DEF RowWell
  <2>5. Served(i)
    BY <1>2 DEF Served
  <2>6. \A s \in Replicas : SentTitle(i, s) /\ SentDone(i, s) /\ Fresh(i, s)
    BY <1>1, <1>2, <2>4, EmptyHasFields
  <2> QED
    BY <2>3, <2>4, <2>5, <2>6 DEF FieldsOf
<1> QED
  BY <1>1, <1>5, <1>6 DEF SyncInv

\* Every step keeps it: an edit, an operation served, or a passive step.
LEMMA SyncStep == StoreLock /\ SyncInv /\ [Next]_vars => SyncInv'
<1> SUFFICES ASSUME StoreLock, SyncInv, [Next]_vars PROVE SyncInv'
  OBVIOUS
<1>1. ClockInv /\ Durable /\ QueueInv /\ OpInv /\ FieldInv /\ TypeOK
  BY DEF SyncInv, ClockInv
<1>2. ClockInv' /\ Durable' /\ QueueInv' /\ TypeOK'
  <2>1. ClockInv' /\ Durable' /\ QueueInv'
    BY <1>1, ClockStep, DurableStep, QueueStep
  <2> QED
    BY <2>1 DEF ClockInv
<1>3. CASE Passive
  BY <1>1, <1>2, <1>3, PassiveKeepsOps, PassiveKeepsFields DEF SyncInv
<1>4. ASSUME NEW d \in Devices, NEW i \in Items, phase[d] = "idle",
             NEW item, NEW kind, NEW at, NEW text, NEW flag, Edit(d, i, item, kind, at, text, flag)
      PROVE  SyncInv'
  <2>1. OpInv'
    BY <1>1, <1>2, <1>4, EditKeepsOps
  <2>2. FieldInv'
    BY <1>1, <1>2, <1>4, EditKeepsFields
  <2> QED
    BY <1>2, <2>1, <2>2 DEF SyncInv
<1>5. ASSUME NEW r \in requests, NEW op \in r.ops, ServeOperation(r, op) PROVE SyncInv'
  <2>1. OpInv' /\ FieldInv'
    BY <1>1, <1>2, <1>5, ServeKeepsOps, ServeKeepsFields
  <2> QED
    BY <1>2, <2>1 DEF SyncInv
<1> QED
  BY <1>1, <1>2, <1>3, <1>4, <1>5, StepKinds

\* What a quiet device and the row say of a steady item.
LEMMA QuietAgrees ==
    ASSUME SyncInv, NEW d \in Devices, Quiet(d), NEW i \in Items, Steady(i)
    PROVE  LET x == disk[d].items[i] IN
           /\ x.title.at = Row(i).title.at /\ x.title.v = Row(i).title.v
           /\ DoneBelow(x.done, Row(i).done) /\ DoneBelow(Row(i).done, x.done)
           /\ x.done.v = Row(i).done.v /\ x.done.at.p = Row(i).done.at.p /\ x.done.at.l = Row(i).done.at.l
<1> DEFINE s == disk[d]
           x == s.items[i]
<1>1. TypeOK /\ s \in Replicas /\ s.outbox = {} /\ s.cursor = revision
  BY DEF SyncInv, ClockInv, Replicas, Quiet
<1>2. FieldsOf(i)
  BY DEF SyncInv, FieldInv
<1>3. Cohere(TitlesOn(i)) /\ SentTitle(i, s) /\ SentDone(i, s) /\ Fresh(i, s)
  BY <1>1, <1>2 DEF FieldsOf
<1>4. /\ x \in Versions(i) /\ Row(i) \in Versions(i) /\ x.title \in TitlesOn(i) /\ Row(i).title \in TitlesOn(i)
      /\ rows[i].rev <= revision
  BY <1>1, ReplicaTypes
<1>5. /\ x.title.at \in Stamps /\ Row(i).title.at \in Stamps /\ x.done \in Dones /\ Row(i).done \in Dones
  <2>1. x \in ItemType /\ Row(i) \in ItemType
    BY <1>4 DEF Versions
  <2> QED
    BY <2>1 DEF ItemType, Texts, Dones
<1>6. ~After(x.title.at, Row(i).title.at) /\ DoneBelow(x.done, Row(i).done)
  BY <1>1, <1>3 DEF SentTitle, SentDone
<1>7. ~After(Row(i).title.at, x.title.at) /\ DoneBelow(Row(i).done, x.done)
  BY <1>1, <1>3, <1>4 DEF Fresh, Covers
<1>8. x.title.at = Row(i).title.at
  BY <1>5, <1>6, <1>7, OrderOfStamps
<1>9. x.title.v = Row(i).title.v
  BY <1>3, <1>4, <1>8 DEF Cohere
<1>10. x.done.v = Row(i).done.v /\ x.done.at.p = Row(i).done.at.p /\ x.done.at.l = Row(i).done.at.l
  BY <1>5, <1>6, <1>7, DoneOrder
<1> QED
  BY <1>6, <1>7, <1>8, <1>9, <1>10

\* A device with nothing left to send or fetch shows the server's title and
\* completion of every item nobody recorded a decision on, for any number of devices
\* and items, in whatever order the pushes, the pulls and their failures came.
THEOREM FieldsAgree == StoreLock => (Spec => []FieldsConverge)
<1>1. SyncInv => FieldsConverge
  BY QuietAgrees DEF FieldsConverge, Steady, Row
<1> SUFFICES ASSUME StoreLock PROVE Spec => []FieldsConverge
  OBVIOUS
<1>2. SyncInv /\ [Next]_vars => SyncInv'
  BY SyncStep
<1> QED
  BY SyncInit, <1>1, <1>2, PTL DEF Spec

=============================================================================
