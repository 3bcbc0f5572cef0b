----------------------------- MODULE Semaphore -----------------------------
(* The promise-queue semaphore of memory/llm/llm-semaphore.ts that caps the   *)
(* outbound requests of one server process (one instance per pool).           *)
(*                                                                            *)
(* JavaScript runs one callback at a time, so an action is the code between   *)
(* two awaits.  The await inside acquire() is what makes the class subtle:    *)
(* a hand-off resolves the waiter's promise, but the waiter's own inFlight++  *)
(* happens in a later microtask, and other callbacks may run in between.      *)
EXTENDS Integers, Sequences, FiniteSets, SequencesExt

CONSTANTS
    Callers,     \* the calls made on the pool, one acquire each
    Blocking,    \* the callers that use acquire(); the others use acquireOrNull()
    Hanging,     \* the callers whose model server never answers
    Caps,        \* what the cap resolver may return; 0 stands for Infinity
    MaxQueue,    \* BRAINROUTER_LLM_MAX_QUEUE
    MaxResets    \* bound on reset() calls

ASSUME CallersAssumption == 
    IsFiniteSet(Callers) /\ Blocking \subseteq Callers /\ Hanging \subseteq Callers
ASSUME CapsAssumption == Caps \subseteq Nat /\ Caps # {}
ASSUME BoundsAssumption == MaxQueue \in Nat \ {0} /\ MaxResets \in Nat

VARIABLES
    cap,        \* this.cap
    inFlight,   \* this.inFlight
    waiters,    \* this.waiters, oldest first
    stale,      \* how many of the oldest waiters are past the age limit
    caller,     \* where each caller is
    resets      \* reset() calls so far

vars == <<cap, inFlight, waiters, stale, caller, resets>>

-----------------------------------------------------------------------------
(* A caller has not called yet (new), waits in the queue, is granted (its     *)
(* promise is resolved, its continuation has not run), holds a metered slot,  *)
(* is free (it came through while the cap was disabled: its release does      *)
(* nothing), or is done: it released, or it was refused, shed or timed out.   *)
CallerStates == {"new", "waiting", "granted", "holding", "free", "done"}

In(s) == {c \in Callers : caller[c] = s}

Init ==
    /\ cap \in Caps
    /\ inFlight = 0
    /\ waiters = <<>>
    /\ stale = 0
    /\ caller = [c \in Callers |-> "new"]
    /\ resets = 0

-----------------------------------------------------------------------------
(* shedStale(): drop every waiter past the age limit.  enqueuedAt grows along *)
(* the queue, so those are a prefix.  A shed acquire() rejects and a shed     *)
(* acquireOrNull() resolves null: either way its caller is answered.          *)
Fresh == SubSeq(waiters, stale + 1, Len(waiters))
Stale == {waiters[i] : i \in 1..stale}

(* Faulty variant: stale entries leave the queue, their promises stay pending.*)
AfterShedSilently == caller
AfterShed == [c \in Callers |-> IF c \in Stale THEN "done" ELSE caller[c]]

QueueFull == Len(Fresh) >= MaxQueue

(* Time passes: the oldest waiter that was still fresh reaches the limit.     *)
Age ==
    /\ stale < Len(waiters)
    /\ stale' = stale + 1
    /\ UNCHANGED <<cap, inFlight, waiters, caller, resets>>

(* The first branch of both entry points: the cap is disabled.                *)
Passthrough(c) ==
    /\ caller[c] = "new"
    /\ cap = 0
    /\ caller' = [caller EXCEPT ![c] = "free"]
    /\ UNCHANGED <<cap, inFlight, waiters, stale, resets>>

(* The second branch of both: a slot is free.  It does not look at the queue. *)
AcquireFast(c) ==
    /\ caller[c] = "new"
    /\ cap # 0
    /\ inFlight < cap
    /\ inFlight' = inFlight + 1
    /\ caller' = [caller EXCEPT ![c] = "holding"]
    /\ UNCHANGED <<cap, waiters, stale, resets>>

(* The pool is busy: shed, then refuse the caller (acquire throws             *)
(* SemaphoreOverloadError, acquireOrNull answers null) or append a waiter.    *)
AcquireSlow(c) ==
    /\ caller[c] = "new"
    /\ cap # 0
    /\ inFlight >= cap
    /\ stale' = 0
    /\ IF QueueFull
       THEN /\ waiters' = Fresh
            /\ caller' = [AfterShed EXCEPT ![c] = "done"]
       ELSE /\ waiters' = Append(Fresh, c)
            /\ caller' = [AfterShed EXCEPT ![c] = "waiting"]
    /\ UNCHANGED <<cap, inFlight, resets>>

(* The microtask after acquire()'s await: the granted waiter counts itself.   *)
Continue(c) ==
    /\ caller[c] = "granted"
    /\ caller' = [caller EXCEPT ![c] = "holding"]
    /\ inFlight' = inFlight + 1
    /\ UNCHANGED <<cap, waiters, stale, resets>>

(* acquireOrNull's own timer: it leaves the queue and resolves null.          *)
TimeoutOrNull(c) ==
    /\ c \notin Blocking
    /\ \E i \in 1..Len(waiters) :
          /\ waiters[i] = c
          /\ waiters' = RemoveAt(waiters, i)
          /\ stale' = IF i <= stale THEN stale - 1 ELSE stale
    /\ caller' = [caller EXCEPT ![c] = "done"]
    /\ UNCHANGED <<cap, inFlight, resets>>

(* The count after a release: Math.max(0, inFlight - 1).                      *)
(* Faulty variants: the slot is not given back; the count is not clamped.     *)
LeftUncounted == inFlight
LeftUnclamped == inFlight - 1
Left == IF inFlight > 0 THEN inFlight - 1 ELSE 0

(* Faulty variant: shift first and shed after, so a stale head costs the      *)
(* hand-off.                                                                  *)
ReleaseShiftFirst(c) ==
    /\ caller[c] = "holding"
    /\ inFlight' = Left
    /\ waiters' = IF waiters = <<>> THEN waiters ELSE Tail(waiters)
    /\ stale' = IF stale > 0 THEN stale - 1 ELSE 0
    /\ caller' = [d \in Callers |->
                    CASE d = c -> "done"
                      [] waiters # <<>> /\ d = Head(waiters) ->
                            IF stale > 0 THEN "done" ELSE "granted"
                      [] OTHER -> caller[d]]
    /\ UNCHANGED <<cap, resets>>

(* The closure of makeRelease(): give the slot back, shed, hand it to the     *)
(* oldest fresh waiter.  An acquireOrNull waiter counts itself inside grant();*)
(* an acquire waiter only gets its promise resolved.                          *)
Release(c) ==
    LET freed == [AfterShed EXCEPT ![c] = "done"] IN
    /\ caller[c] = "holding"
    /\ stale' = 0
    /\ IF Fresh = <<>>
       THEN /\ waiters' = Fresh
            /\ inFlight' = Left
            /\ caller' = freed
       ELSE /\ waiters' = Tail(Fresh)
            /\ inFlight' = IF Head(Fresh) \in Blocking THEN Left ELSE Left + 1
            /\ caller' = [freed EXCEPT ![Head(Fresh)] =
                            IF Head(Fresh) \in Blocking THEN "granted" ELSE "holding"]
    /\ UNCHANGED <<cap, resets>>

(* The release of a caller that came through while the cap was disabled.      *)
ReleaseFree(c) ==
    /\ caller[c] = "free"
    /\ caller' = [caller EXCEPT ![c] = "done"]
    /\ UNCHANGED <<cap, inFlight, waiters, stale, resets>>

(* reset(): re-resolve the cap, forget the count, shed every waiter.  Slots   *)
(* handed out before stay with their callers.                                 *)
Reset ==
    /\ resets < MaxResets
    /\ resets' = resets + 1
    /\ cap' \in Caps
    /\ inFlight' = 0
    /\ waiters' = <<>>
    /\ stale' = 0
    /\ caller' = [c \in Callers |-> IF caller[c] = "waiting" THEN "done" ELSE caller[c]]

Next ==
    \/ Age
    \/ Reset
    \/ \E c \in Callers :
          \/ Passthrough(c)
          \/ AcquireFast(c)
          \/ AcquireSlow(c)
          \/ Continue(c)
          \/ TimeoutOrNull(c)
          \/ Release(c)
          \/ ReleaseFree(c)

Spec == Init /\ [][Next]_vars

(* Microtasks always run.  Every call site releases in a finally block, so a  *)
(* slot is given back once the call it was taken for ends; by default no      *)
(* client-side timeout ends it (util/request-timeout.ts), so a call whose     *)
(* server hangs keeps its slot.  No timer and no new call is assumed.         *)
FairSpec ==
    /\ Spec
    /\ \A c \in Callers : WF_vars(Continue(c))
    /\ \A c \in Callers \ Hanging : WF_vars(Release(c))

-----------------------------------------------------------------------------
(* The variables stay in their types.                                         *)
TypeOK ==
    /\ cap \in Caps
    /\ inFlight \in Nat
    /\ waiters \in Seq(Callers)
    /\ stale \in 0..Len(waiters)
    /\ caller \in [Callers -> CallerStates]
    /\ resets \in 0..MaxResets

(* The queue holds exactly the callers that wait, each once: a shed, a timeout *)
(* or a reset never leaves behind a waiter whose promise nobody will settle,   *)
(* and never keeps an entry that would later be handed a phantom slot.         *)
QueueExact ==
    /\ \A i \in 1..Len(waiters) : caller[waiters[i]] = "waiting"
    /\ \A i, j \in 1..Len(waiters) : waiters[i] = waiters[j] => i = j
    /\ \A c \in Callers : caller[c] = "waiting" => \E i \in 1..Len(waiters) : waiters[i] = c

(* No lost wake-up: while somebody waits, the whole cap is in use or on its    *)
(* way to a granted caller, whatever sheds, timeouts and resets happened.      *)
NoLostWakeup ==
    waiters # <<>> => cap # 0 /\ inFlight + Cardinality(In("granted")) >= cap

(* The count never exceeds the slots really held, so the pool cannot shrink    *)
(* for good; until a reset() it is exactly the number of held slots.           *)
NoLeakedSlot ==
    /\ inFlight <= Cardinality(In("holding"))
    /\ resets = 0 => inFlight = Cardinality(In("holding"))

(* The wait queue is bounded: overload is refused, never queued.               *)
QueueBounded == Len(waiters) <= MaxQueue

(* A pool used only through acquireOrNull keeps its cap: grant() counts the    *)
(* new holder before any other callback can run.                               *)
OrNullWithinCap ==
    (Blocking = {} /\ cap # 0 /\ resets = 0) => Cardinality(In("holding")) <= cap

(* "The cap still bounds simultaneous in-flight sockets" (llm-semaphore.ts,    *)
(* lines 22-23), said of every pool, the ones used through acquire() included. *)
WithinCap == (cap # 0 /\ resets = 0) => Cardinality(In("holding")) <= cap

(* Every caller that queues is answered (granted, refused or timed out) unless *)
(* calls that never return hold the whole cap: a smaller number of them costs  *)
(* the pool their slots and nobody else's turn.  With nothing hanging this is  *)
(* freedom from starvation (acquire() has no timer of its own).                *)
Wedged == cap # 0 /\ Cardinality(In("holding") \cap Hanging) >= cap
WaiterSettles == \A c \in Callers : caller[c] = "waiting" ~> caller[c] # "waiting" \/ Wedged

=============================================================================
