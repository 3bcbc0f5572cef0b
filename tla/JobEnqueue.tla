----------------------------- MODULE JobEnqueue -----------------------------
(* Concurrent enqueueMemoryJob calls (jobQueries.ts), each up to four         *)
(* statements long, against a table whose jobs run, settle and are retried    *)
(* meanwhile.  A call mints its own job id, so calls and jobs share their     *)
(* names; a job exists once its call's INSERT went through.                   *)
EXTENDS JobLifecycle

CONSTANTS
    Key,          \* idempotency key of each call, or NoKey
    Tenant,       \* tenant of each call's input (tenantForJobInput)
    NoKey,
    NoCall,       \* "no answer yet"
    MaxResubmits  \* bound on operator retries

ASSUME EnqueueAssumption ==
    /\ DOMAIN Key = Jobs /\ DOMAIN Tenant = Jobs
    /\ NoCall \notin Jobs
    /\ MaxResubmits \in Nat

VARIABLES
    pc,         \* the statement each call is at
    answer,     \* the job each call returned
    seen,       \* history: the jobs in flight at some moment of each call
    resubmits

vars == <<life, pc, answer, seen, resubmits>>

Init ==
    /\ LifeInit
    /\ pc = [r \in Jobs |-> "new"]
    /\ answer = [r \in Jobs |-> NoCall]
    /\ seen = [r \in Jobs |-> {}]
    /\ resubmits = 0

(* The key of the partial unique index of migration 049 (one kind).           *)
Scope(j) == <<Tenant[j], Key[j]>>

(* The in-flight rows the unique index holds against a row with j's scope.    *)
Conflicts(j) ==
    {k \in Jobs \ {j} : Key[j] # NoKey /\ Scope(k) = Scope(j) /\ InFlight(k)}

(* The row inFlightWinner() finds.                                            *)
(* Faulty variant: the lookup has no status predicate.                        *)
WinnersAnyStatus(j) ==
    {k \in Jobs \ {j} : Key[j] # NoKey /\ Scope(k) = Scope(j) /\ ~IsIn(k, {"absent"})}
Winners(j) == Conflicts(j)

-----------------------------------------------------------------------------
Call(r) ==
    /\ pc[r] = "new"
    /\ pc' = [pc EXCEPT ![r] = "insert"]
    /\ UNCHANGED <<life, answer, resubmits>>

Answer(r, j) ==
    /\ pc' = [pc EXCEPT ![r] = "answered"]
    /\ answer' = [answer EXCEPT ![r] = j]

(* INSERT ... ON CONFLICT DO NOTHING: the row is in, or the call goes on to   *)
(* its next statement.                                                        *)
Insert(r, from, next) ==
    /\ pc[r] = from
    /\ IF Conflicts(r) = {}
       THEN Submit(r) /\ Answer(r, r)
       ELSE /\ pc' = [pc EXCEPT ![r] = next]
            /\ UNCHANGED <<life, answer>>
    /\ UNCHANGED resubmits

(* inFlightWinner(): answer with it, or go on because it settled meanwhile.   *)
(* Faulty variant: the lookup's empty result is handed to the caller.         *)
ReadUndefined(r, from, next) ==
    /\ pc[r] = from
    /\ \/ \E k \in Winners(r) : Answer(r, k)
       \/ Winners(r) = {} /\ Answer(r, "undefined")
    /\ UNCHANGED <<life, resubmits>>
Read(r, from, next) ==
    /\ pc[r] = from
    /\ \/ \E k \in Winners(r) : Answer(r, k)
       \/ /\ Winners(r) = {}
          /\ pc' = [pc EXCEPT ![r] = next]
          /\ UNCHANGED answer
    /\ UNCHANGED <<life, resubmits>>

(* The order of the statements.                                               *)
(* Faulty variant: no second insert when the winner was gone.                 *)
EnqueueMemoryJobOneTry(r) ==
    \/ Insert(r, "insert", "read")
    \/ Read(r, "read", "threw")
EnqueueMemoryJob(r) ==
    \/ Insert(r, "insert", "read")
    \/ Read(r, "read", "again")
    \/ Insert(r, "again", "reread")
    \/ Read(r, "reread", "threw")

(* What happens to queued jobs meanwhile; a sweep looks like GiveUp here.     *)
JobMoves(j) ==
    /\ Lease(j) \/ Publish(j) \/ GiveUp(j) \/ Drop({j})
    /\ UNCHANGED <<pc, answer, resubmits>>

(* retryMemoryJob: the unique index makes it fail while a duplicate is in     *)
(* flight.                                                                    *)
(* Faulty variant: the index does not cover the re-armed row.                 *)
RetryUnchecked(j) ==
    /\ resubmits < MaxResubmits
    /\ resubmits' = resubmits + 1
    /\ Resubmit(j)
    /\ UNCHANGED <<pc, answer>>
Retry(j) ==
    /\ resubmits < MaxResubmits
    /\ resubmits' = resubmits + 1
    /\ Conflicts(j) = {}
    /\ Resubmit(j)
    /\ UNCHANGED <<pc, answer>>

InCall(r) == pc[r] \in {"insert", "read", "again", "reread"}

Next ==
    /\ \E j \in Jobs : Call(j) \/ EnqueueMemoryJob(j) \/ JobMoves(j) \/ Retry(j)
    /\ seen' = [r \in Jobs |->
          IF InCall(r) \/ InCall(r)' THEN seen[r] \cup {j \in Jobs : InFlight(j)'} ELSE seen[r]]

Spec == Init /\ [][Next]_vars

-----------------------------------------------------------------------------
(* The variables stay in their types.                                         *)
TypeOK ==
    /\ LifeTypeOK
    /\ pc \in [Jobs -> {"new", "insert", "read", "again", "reread", "answered", "threw"}]
    /\ answer \in [Jobs -> Jobs \cup {NoCall}]
    /\ seen \in [Jobs -> SUBSET Jobs]
    /\ resubmits \in 0..MaxResubmits

(* At most one job of a (kind, tenant, key) is in flight, operator retries of *)
(* settled duplicates included.                                               *)
UniqueInFlight ==
    \A j, k \in Jobs :
        (Key[j] # NoKey /\ Tenant[j] = Tenant[k] /\ Key[j] = Key[k] /\ InFlight(j) /\ InFlight(k))
        => j = k

(* A call is never answered with a job of another tenant or key, so no tenant *)
(* is handed another's job record or has its work absorbed by it.             *)
AnswerInScope ==
    \A r \in Jobs : answer[r] # NoCall =>
        Tenant[answer[r]] = Tenant[r] /\ Key[answer[r]] = Key[r]

(* No request is lost: the job a call is answered with, its own or a winner's, *)
(* was in flight during the call; a request is never absorbed by a run that    *)
(* had settled before it was made.                                             *)
AnswerWasInFlight ==
    \A r \in Jobs : pc[r] = "answered" => answer[r] \in seen[r]

(* One duplicate that settles between two statements is not enough to make an  *)
(* enqueue fail: a call throws only after two different winners slipped away.  *)
ThrowsOnlyAfterTwoWinners ==
    \A r \in Jobs : pc[r] = "threw" /\ resubmits = 0 =>
        \E k, l \in seen[r] \ {r} : k # l /\ Scope(k) = Scope(r) /\ Scope(l) = Scope(r)

=============================================================================
