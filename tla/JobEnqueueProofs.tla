-------------------------- MODULE JobEnqueueProofs --------------------------
(* Proofs about JobEnqueue for every number of calls, every assignment of     *)
(* keys and tenants to them and every number of operator retries.             *)
EXTENDS JobEnqueue, JobLifecycleProofs

Settled(j) == IsIn(j, {"done", "failed", "cancelled"})

(* The calls that the caller of r may be answered with.                       *)
Rivals(r) == {k \in seen[r] \ {r} : Scope(k) = Scope(r)}

-----------------------------------------------------------------------------
(* The inductive invariant.  What a call has met so far, at each statement:   *)
(* a rival at the first lookup, a rival that has settled at the second        *)
(* insert, two of them after it.                                              *)
Progress(r) ==
    /\ pc[r] \in {"read", "again", "reread", "threw"} => Key[r] # NoKey
    /\ resubmits = 0 =>
          /\ pc[r] = "read" => \E k \in Rivals(r) : ~IsIn(k, {"absent"})
          /\ pc[r] = "again" => \E k \in Rivals(r) : Settled(k)
          /\ pc[r] \in {"reread", "threw"} => \E k, l \in Rivals(r) : k # l

IInv ==
    /\ TypeOK
    /\ UniqueInFlight
    /\ AnswerInScope
    /\ AnswerWasInFlight
    /\ \A r \in Jobs : Progress(r)

(* It holds at the start.                                                     *)
LEMMA InitInvariant == Init => IInv
  <1> SUFFICES ASSUME Init PROVE IInv
    OBVIOUS
  <1>1. TypeOK
    BY InitTyped, EnqueueAssumption DEF Init, TypeOK
  <1>2. \A j \in Jobs : ~InFlight(j)
    BY DEF Init, LifeInit, Unborn, InFlight, IsIn
  <1> QED
    BY <1>1, <1>2 DEF Init, IInv, UniqueInFlight, AnswerInScope, AnswerWasInFlight, Progress

-----------------------------------------------------------------------------
(* What a step does to the history: it grows, and a call under way sees every *)
(* job that the step leaves in flight.                                        *)
SeenStep ==
    /\ seen' \in [Jobs -> SUBSET Jobs]
    /\ \A r \in Jobs : seen[r] \subseteq seen'[r]
    /\ \A r, j \in Jobs : InCall(r) /\ InFlight(j)' => j \in seen'[r]

LEMMA SeenGrows ==
    ASSUME TypeOK,
           seen' = [r \in Jobs |->
              IF InCall(r) \/ InCall(r)' THEN seen[r] \cup {j \in Jobs : InFlight(j)'} ELSE seen[r]]
    PROVE  SeenStep
  BY DEF TypeOK, SeenStep

(* What a step does to the table: a job enters it, or comes back, only while  *)
(* nothing with its scope is in flight; no job leaves it; without a retry a   *)
(* settled one stays settled.                                                 *)
TableStep ==
    /\ LifeTypeOK'
    /\ UniqueInFlight'
    /\ \A k \in Jobs : ~IsIn(k, {"absent"}) => ~IsIn(k, {"absent"})'
    /\ \A k \in Jobs : Settled(k) /\ resubmits' = 0 => Settled(k)'

LEMMA OneJobChanges ==
    ASSUME UniqueInFlight, LifeTypeOK', NEW j \in Jobs, Elsewhere(j),
           InFlight(j)' => InFlight(j) \/ Conflicts(j) = {},
           ~IsIn(j, {"absent"})',
           Settled(j) /\ resubmits' = 0 => Settled(j)'
    PROVE  TableStep
  <1>1. \A k \in Jobs : k # j => InFlight(k)' = InFlight(k)
    BY DEF Elsewhere, InFlight, IsIn
  <1>2. ASSUME NEW k \in Jobs, k # j, Key[j] # NoKey, Tenant[j] = Tenant[k], Key[j] = Key[k],
               InFlight(j)', InFlight(k)'
        PROVE  FALSE
    <2>1. InFlight(k)
      BY <1>1, <1>2
    <2>2. Scope(k) = Scope(j)
      BY <1>2 DEF Scope
    <2>3. k \in Conflicts(j)
      BY <1>2, <2>1, <2>2 DEF Conflicts
    <2>4. InFlight(j)
      BY <1>2, <2>3
    <2> QED
      BY <1>2, <2>1, <2>4 DEF UniqueInFlight
  <1>3. UniqueInFlight'
    <2> SUFFICES ASSUME NEW a \in Jobs, NEW b \in Jobs, a # b,
                        Key[a] # NoKey, Tenant[a] = Tenant[b], Key[a] = Key[b],
                        InFlight(a)', InFlight(b)'
                 PROVE  FALSE
      BY DEF UniqueInFlight
    <2>1. CASE a = j
      BY <1>2, <2>1
    <2>2. CASE b = j
      BY <1>2, <2>2
    <2>3. CASE a # j /\ b # j
      BY <1>1, <2>3 DEF UniqueInFlight
    <2> QED
      BY <2>1, <2>2, <2>3
  <1>4. \A k \in Jobs : ~IsIn(k, {"absent"}) => ~IsIn(k, {"absent"})'
    BY DEF Elsewhere, IsIn
  <1>5. \A k \in Jobs : Settled(k) /\ resubmits' = 0 => Settled(k)'
    BY DEF Elsewhere, Settled, IsIn
  <1> QED
    BY <1>3, <1>4, <1>5 DEF TableStep

LEMMA TableUnchanged ==
    ASSUME TypeOK, UniqueInFlight, UNCHANGED life
    PROVE  TableStep
  BY DEF TypeOK, TableStep, LifeTypeOK, UniqueInFlight, InFlight, IsIn, Settled

-----------------------------------------------------------------------------
(* A call that stays where it is keeps what it knows.                         *)
LEMMA ProgressKept ==
    ASSUME TypeOK, NEW r \in Jobs, Progress(r), SeenStep, TableStep,
           pc'[r] = pc[r], resubmits' = 0 => resubmits = 0
    PROVE  Progress(r)'
  <1>1. Rivals(r) \subseteq Rivals(r)'
    BY DEF Rivals, SeenStep, Scope
  <1>2. \A k \in Rivals(r) : k \in Jobs
    BY DEF Rivals, TypeOK
  <1>3. ASSUME resubmits' = 0, pc[r] = "read" PROVE \E k \in Rivals(r)' : ~IsIn(k, {"absent"})'
    BY <1>1, <1>2, <1>3 DEF Progress, TableStep
  <1>4. ASSUME resubmits' = 0, pc[r] = "again" PROVE \E k \in Rivals(r)' : Settled(k)'
    BY <1>1, <1>2, <1>4 DEF Progress, TableStep
  <1>5. ASSUME resubmits' = 0, pc[r] \in {"reread", "threw"} PROVE \E k, l \in Rivals(r)' : k # l
    BY <1>1, <1>5 DEF Progress
  <1> QED
    BY <1>3, <1>4, <1>5 DEF Progress

(* So do all of them while only the table changes.                            *)
LEMMA CallsUntouched ==
    ASSUME IInv, SeenStep, TableStep, UNCHANGED <<pc, answer>>,
           resubmits' \in 0..MaxResubmits, resubmits' = 0 => resubmits = 0
    PROVE  IInv'
  <1>1. TypeOK'
    BY DEF IInv, TypeOK, SeenStep, TableStep
  <1>2. UniqueInFlight'
    BY DEF TableStep
  <1>3. AnswerInScope'
    BY DEF IInv, AnswerInScope
  <1>4. AnswerWasInFlight'
    BY DEF IInv, AnswerWasInFlight, SeenStep
  <1>5. \A r \in Jobs : Progress(r)'
    BY ProgressKept DEF IInv
  <1> QED
    BY <1>1, <1>2, <1>3, <1>4, <1>5 DEF IInv

(* One call moves, and is answered or not.                                    *)
LEMMA OneCallMoves ==
    ASSUME IInv, NEW r \in Jobs, SeenStep, TableStep, UNCHANGED resubmits,
           NEW s \in {"insert", "read", "again", "reread", "answered", "threw"},
           pc' = [pc EXCEPT ![r] = s],
           NEW a \in Jobs \cup {NoCall}, answer' = [answer EXCEPT ![r] = a],
           a # NoCall => Tenant[a] = Tenant[r] /\ Key[a] = Key[r],
           s = "answered" => a \in seen'[r],
           Progress(r)'
    PROVE  IInv'
  <1>1. pc'[r] = s /\ \A q \in Jobs : q # r => pc'[q] = pc[q] /\ answer'[q] = answer[q]
    BY DEF IInv, TypeOK
  <1>2. answer'[r] = a
    BY DEF IInv, TypeOK
  <1>3. TypeOK'
    <2>1. pc' \in [Jobs -> {"new", "insert", "read", "again", "reread", "answered", "threw"}]
      BY DEF IInv, TypeOK
    <2>2. answer' \in [Jobs -> Jobs \cup {NoCall}]
      BY DEF IInv, TypeOK
    <2> QED
      BY <2>1, <2>2 DEF IInv, TypeOK, SeenStep, TableStep
  <1>4. AnswerInScope'
    BY <1>1, <1>2 DEF IInv, AnswerInScope
  <1>5. AnswerWasInFlight'
    BY <1>1, <1>2 DEF IInv, AnswerWasInFlight, SeenStep
  <1>6. \A q \in Jobs : Progress(q)'
    BY <1>1, ProgressKept DEF IInv
  <1> QED
    BY <1>3, <1>4, <1>5, <1>6 DEF IInv, TableStep

-----------------------------------------------------------------------------
(* One lemma per action.                                                      *)
LEMMA CallKeeps ==
    ASSUME IInv, SeenStep, NEW r \in Jobs, Call(r)
    PROVE  IInv'
  <1>1. TableStep
    BY TableUnchanged DEF IInv, Call
  <1>2. pc' = [pc EXCEPT ![r] = "insert"] /\ UNCHANGED <<answer, resubmits>>
    BY DEF Call
  <1>3. Progress(r)'
    BY <1>2 DEF IInv, TypeOK, Progress
  <1>4. answer' = [answer EXCEPT ![r] = answer[r]] /\ answer[r] \in Jobs \cup {NoCall}
    BY <1>2 DEF IInv, TypeOK
  <1>5. answer[r] # NoCall => Tenant[answer[r]] = Tenant[r] /\ Key[answer[r]] = Key[r]
    BY DEF IInv, AnswerInScope
  <1> QED
    BY <1>1, <1>2, <1>3, <1>4, <1>5, OneCallMoves

(* A call that is inserting or looking has a history of what it met.          *)
LEMMA ConflictSeen ==
    ASSUME IInv, SeenStep, UNCHANGED life, NEW r \in Jobs, InCall(r), NEW k \in Conflicts(r)
    PROVE  k \in Rivals(r)' /\ InFlight(k) /\ Key[r] # NoKey
  <1>1. k \in Jobs \ {r} /\ Scope(k) = Scope(r) /\ InFlight(k) /\ Key[r] # NoKey
    BY DEF Conflicts
  <1>2. InFlight(k)'
    BY <1>1 DEF InFlight, IsIn
  <1>3. k \in seen'[r]
    BY <1>1, <1>2 DEF SeenStep
  <1> QED
    BY <1>1, <1>3 DEF Rivals, Scope

LEMMA InsertKeeps ==
    ASSUME IInv, SeenStep, NEW r \in Jobs,
           Insert(r, "insert", "read") \/ Insert(r, "again", "reread")
    PROVE  IInv'
  <1>0. InCall(r) /\ UNCHANGED resubmits /\ TypeOK /\ LifeTypeOK /\ UniqueInFlight
    BY DEF Insert, InCall, IInv, TypeOK
  <1>1. CASE Conflicts(r) = {}
    <2>1. Submit(r) /\ Answer(r, r)
      BY <1>1 DEF Insert
    <2>2. /\ LifeTypeOK' /\ Elsewhere(r) /\ IsIn(r, {"absent"}) /\ life'[r].status = "pending"
      BY <1>0, <2>1, SubmitEffect
    <2>3. InFlight(r)' /\ ~IsIn(r, {"absent"})' /\ ~Settled(r)
      BY <2>2 DEF InFlight, IsIn, Settled
    <2>4. TableStep
      BY <1>0, <1>1, <2>2, <2>3, OneJobChanges
    <2>5. r \in seen'[r]
      BY <1>0, <2>3 DEF SeenStep
    <2>6. pc' = [pc EXCEPT ![r] = "answered"] /\ answer' = [answer EXCEPT ![r] = r]
      BY <2>1 DEF Answer
    <2>7. Progress(r)'
      BY <1>0, <2>6 DEF TypeOK, Progress
    <2> QED
      BY <1>0, <2>4, <2>5, <2>6, <2>7, OneCallMoves
  <1>2. CASE Conflicts(r) # {}
    <2>1. PICK k \in Conflicts(r) : TRUE
      BY <1>2
    <2>2. UNCHANGED <<life, answer>>
      BY <1>2 DEF Insert
    <2>3. TableStep
      BY <1>0, <2>2, TableUnchanged
    <2>4. k \in Rivals(r)' /\ InFlight(k) /\ Key[r] # NoKey /\ k \in Jobs
      BY <1>0, <2>1, <2>2, ConflictSeen DEF Conflicts
    <2>5. answer' = [answer EXCEPT ![r] = answer[r]] /\ answer[r] \in Jobs \cup {NoCall}
      BY <1>0, <2>2 DEF TypeOK
    <2>6. answer[r] # NoCall => Tenant[answer[r]] = Tenant[r] /\ Key[answer[r]] = Key[r]
      BY DEF IInv, AnswerInScope
    <2>7. CASE pc[r] = "insert" /\ pc' = [pc EXCEPT ![r] = "read"]
      <3>1. pc'[r] = "read"
        BY <1>0, <2>7 DEF TypeOK
      <3>2. ~IsIn(k, {"absent"})'
        BY <2>2, <2>4 DEF InFlight, IsIn
      <3>3. Progress(r)'
        BY <2>4, <3>1, <3>2 DEF Progress
      <3> QED
        BY <1>0, <2>3, <2>5, <2>6, <2>7, <3>3, OneCallMoves
    <2>8. CASE pc[r] = "again" /\ pc' = [pc EXCEPT ![r] = "reread"]
      <3>1. pc'[r] = "reread"
        BY <1>0, <2>8 DEF TypeOK
      <3>2. ASSUME resubmits' = 0 PROVE \E l, m \in Rivals(r)' : l # m
        <4>1. PICK l \in Rivals(r) : Settled(l)
          BY <1>0, <2>8, <3>2 DEF IInv, Progress
        <4>2. l \in Rivals(r)'
          BY <4>1 DEF Rivals, SeenStep, Scope
        <4>3. l # k
          BY <2>4, <4>1 DEF Settled, InFlight, IsIn
        <4> QED
          BY <2>4, <4>2, <4>3
      <3>3. Progress(r)'
        BY <2>4, <3>1, <3>2 DEF Progress
      <3> QED
        BY <1>0, <2>3, <2>5, <2>6, <2>8, <3>3, OneCallMoves
    <2> QED
      BY <1>2, <2>7, <2>8 DEF Insert
  <1> QED
    BY <1>1, <1>2

LEMMA ReadKeeps ==
    ASSUME IInv, SeenStep, NEW r \in Jobs,
           Read(r, "read", "again") \/ Read(r, "reread", "threw")
    PROVE  IInv'
  <1>0. /\ InCall(r) /\ UNCHANGED <<life, resubmits>>
        /\ TypeOK /\ LifeTypeOK /\ UniqueInFlight /\ Key[r] # NoKey
    BY DEF Read, InCall, IInv, TypeOK, Progress
  <1>1. TableStep
    BY <1>0, TableUnchanged
  <1>2. ASSUME NEW k \in Winners(r), Answer(r, k) PROVE IInv'
    <2>1. k \in Conflicts(r) /\ k \in Jobs /\ Scope(k) = Scope(r)
      BY <1>2 DEF Winners, Conflicts
    <2>2. k \in seen'[r]
      BY <1>0, <2>1, ConflictSeen DEF Rivals
    <2>3. Tenant[k] = Tenant[r] /\ Key[k] = Key[r]
      BY <2>1 DEF Scope
    <2>4. pc' = [pc EXCEPT ![r] = "answered"] /\ answer' = [answer EXCEPT ![r] = k]
      BY <1>2 DEF Answer
    <2>5. Progress(r)'
      BY <1>0, <2>4 DEF TypeOK, Progress
    <2> QED
      BY <1>0, <1>1, <2>1, <2>2, <2>3, <2>4, <2>5, OneCallMoves
  <1>3. ASSUME Winners(r) = {}, UNCHANGED answer,
               \/ pc[r] = "read" /\ pc' = [pc EXCEPT ![r] = "again"]
               \/ pc[r] = "reread" /\ pc' = [pc EXCEPT ![r] = "threw"]
        PROVE  IInv'
    <2>1. answer' = [answer EXCEPT ![r] = answer[r]] /\ answer[r] \in Jobs \cup {NoCall}
      BY <1>0, <1>3 DEF TypeOK
    <2>2. answer[r] # NoCall => Tenant[answer[r]] = Tenant[r] /\ Key[answer[r]] = Key[r]
      BY DEF IInv, AnswerInScope
    <2>3. Rivals(r) \subseteq Rivals(r)'
      BY DEF Rivals, SeenStep, Scope
    <2>4. CASE pc[r] = "read" /\ pc' = [pc EXCEPT ![r] = "again"]
      <3>1. pc'[r] = "again"
        BY <1>0, <2>4 DEF TypeOK
      <3>2. ASSUME resubmits' = 0 PROVE \E k \in Rivals(r)' : Settled(k)'
        <4>1. PICK k \in Rivals(r) : ~IsIn(k, {"absent"})
          BY <1>0, <2>4, <3>2 DEF IInv, Progress
        <4>2. k \in Jobs /\ k # r /\ Scope(k) = Scope(r)
          BY <1>0, <4>1 DEF Rivals, TypeOK
        <4>3. ~InFlight(k)
          BY <1>0, <1>3, <4>2 DEF Winners, Conflicts
        <4>4. life[k].status \in {"absent", "pending", "running", "done", "failed", "cancelled"}
          BY <1>0, <4>2 DEF LifeTypeOK, LifeRecord
        <4>5. Settled(k)
          BY <4>1, <4>3, <4>4 DEF Settled, InFlight, IsIn
        <4>6. Settled(k)'
          BY <1>0, <4>5 DEF Settled, IsIn
        <4> QED
          BY <2>3, <4>1, <4>6
      <3>3. Progress(r)'
        BY <1>0, <3>1, <3>2 DEF Progress
      <3> QED
        BY <1>0, <1>1, <2>1, <2>2, <2>4, <3>3, OneCallMoves
    <2>5. CASE pc[r] = "reread" /\ pc' = [pc EXCEPT ![r] = "threw"]
      <3>1. pc'[r] = "threw"
        BY <1>0, <2>5 DEF TypeOK
      <3>2. ASSUME resubmits' = 0 PROVE \E k, l \in Rivals(r)' : k # l
        BY <1>0, <2>3, <2>5, <3>2 DEF IInv, Progress
      <3>3. Progress(r)'
        BY <1>0, <3>1, <3>2 DEF Progress
      <3> QED
        BY <1>0, <1>1, <2>1, <2>2, <2>5, <3>3, OneCallMoves
    <2> QED
      BY <1>3, <2>4, <2>5
  <1> QED
    BY <1>2, <1>3 DEF Read

(* The queue at work: no job comes into flight that was not.                  *)
LEMMA JobMovesKeeps ==
    ASSUME IInv, SeenStep, NEW j \in Jobs, JobMoves(j)
    PROVE  IInv'
  <1>0. LifeTypeOK /\ UniqueInFlight /\ UNCHANGED <<pc, answer, resubmits>> /\ resubmits \in 0..MaxResubmits
    BY DEF IInv, TypeOK, JobMoves
  <1>1. CASE Lease(j) \/ Publish(j) \/ GiveUp(j)
    <2>1. /\ LifeTypeOK' /\ InFlight(j) /\ Elsewhere(j)
          /\ life'[j].status \in {"pending", "running", "done", "failed"}
      BY <1>0, <1>1, MoveEffect
    <2>2. ~IsIn(j, {"absent"})' /\ ~Settled(j)
      BY <2>1 DEF InFlight, IsIn, Settled
    <2>3. TableStep
      BY <1>0, <2>1, <2>2, OneJobChanges
    <2> QED
      BY <1>0, <2>3, CallsUntouched
  <1>2. CASE Drop({j})
    <2>1. /\ LifeTypeOK' /\ InFlight(j) /\ life'[j].status = "cancelled" /\ Elsewhere(j)
      BY <1>0, <1>2, DropEffect DEF Elsewhere
    <2>2. ~IsIn(j, {"absent"})' /\ ~Settled(j)
      BY <2>1 DEF InFlight, IsIn, Settled
    <2>3. TableStep
      BY <1>0, <2>1, <2>2, OneJobChanges
    <2> QED
      BY <1>0, <2>3, CallsUntouched
  <1> QED
    BY <1>1, <1>2 DEF JobMoves

(* The unique index lets a settled job back in only while no rival is there.  *)
LEMMA RetryKeeps ==
    ASSUME IInv, SeenStep, NEW j \in Jobs, Retry(j)
    PROVE  IInv'
  <1>0. LifeTypeOK /\ UniqueInFlight /\ UNCHANGED <<pc, answer>> /\ Conflicts(j) = {}
    BY DEF IInv, TypeOK, Retry
  <1>1. resubmits' \in 0..MaxResubmits /\ resubmits' # 0
    BY EnqueueAssumption DEF IInv, TypeOK, Retry
  <1>2. LifeTypeOK' /\ life'[j].status = "pending" /\ Elsewhere(j)
    BY <1>0, ResubmitEffect DEF Retry
  <1>3. ~IsIn(j, {"absent"})'
    BY <1>2 DEF IsIn
  <1>4. TableStep
    BY <1>0, <1>1, <1>2, <1>3, OneJobChanges
  <1> QED
    BY <1>0, <1>1, <1>4, CallsUntouched

LEMMA StepInvariant == IInv /\ [Next]_vars => IInv'
  <1> SUFFICES ASSUME IInv, [Next]_vars PROVE IInv'
    OBVIOUS
  <1>1. CASE Next
    <2>1. SeenStep
      BY <1>1, SeenGrows DEF IInv, Next
    <2>2. PICK j \in Jobs : Call(j) \/ EnqueueMemoryJob(j) \/ JobMoves(j) \/ Retry(j)
      BY <1>1 DEF Next
    <2>3. CASE EnqueueMemoryJob(j)
      BY <2>1, <2>3, InsertKeeps, ReadKeeps DEF EnqueueMemoryJob
    <2> QED
      BY <2>1, <2>2, <2>3, CallKeeps, JobMovesKeeps, RetryKeeps
  <1>2. CASE UNCHANGED vars
    <2>1. /\ \A j \in Jobs : InFlight(j)' = InFlight(j) /\ Settled(j)' = Settled(j)
                              /\ IsIn(j, {"absent"})' = IsIn(j, {"absent"})
          /\ \A r \in Jobs : Rivals(r)' = Rivals(r)
      BY <1>2 DEF vars, InFlight, IsIn, Settled, Rivals, Scope
    <2>2. TypeOK' /\ UniqueInFlight' /\ AnswerInScope' /\ AnswerWasInFlight'
      BY <1>2, <2>1 DEF vars, IInv, TypeOK, LifeTypeOK, UniqueInFlight, AnswerInScope, AnswerWasInFlight
    <2>3. ASSUME NEW r \in Jobs PROVE Progress(r)'
      <3>1. Progress(r)
        BY DEF IInv
      <3>2. \A k \in Rivals(r) : k \in Jobs
        BY DEF Rivals, IInv, TypeOK
      <3> QED
        BY <1>2, <2>1, <3>1, <3>2 DEF vars, Progress
    <2> QED
      BY <2>2, <2>3 DEF IInv
  <1> QED
    BY <1>1, <1>2

-----------------------------------------------------------------------------
(* The results.                                                               *)
LEMMA Invariant == Spec => []IInv
  BY InitInvariant, StepInvariant, PTL DEF Spec

(* The calls and the table stay well typed.                                   *)
THEOREM EnqueueTypeCorrect == Spec => []TypeOK
<1>1. IInv => TypeOK
  BY DEF IInv
<1> QED
  BY Invariant, <1>1, PTL

(* At most one job of a tenant and key is ever in flight, whatever calls and  *)
(* operator retries interleave (the unique index of migration 049).           *)
THEOREM OneInFlight == Spec => []UniqueInFlight
<1>1. IInv => UniqueInFlight
  BY DEF IInv
<1> QED
  BY Invariant, <1>1, PTL

(* No call is ever answered with a job of another tenant or key.              *)
THEOREM AnswersStayInScope == Spec => []AnswerInScope
<1>1. IInv => AnswerInScope
  BY DEF IInv
<1> QED
  BY Invariant, <1>1, PTL

(* No request is absorbed by a job that had settled before the call began.    *)
THEOREM AnswersWereInFlight == Spec => []AnswerWasInFlight
<1>1. IInv => AnswerWasInFlight
  BY DEF IInv
<1> QED
  BY Invariant, <1>1, PTL

(* enqueueMemoryJob throws only after two different jobs with its scope       *)
(* settled, or were re-armed, under its eyes.                                 *)
THEOREM ThrowsAreRare == Spec => []ThrowsOnlyAfterTwoWinners
<1>1. IInv => ThrowsOnlyAfterTwoWinners
  <2> SUFFICES ASSUME IInv, NEW r \in Jobs, pc[r] = "threw", resubmits = 0
               PROVE  \E k, l \in seen[r] \ {r} : k # l /\ Scope(k) = Scope(r) /\ Scope(l) = Scope(r)
    BY DEF ThrowsOnlyAfterTwoWinners
  <2>1. PICK k \in Rivals(r), l \in Rivals(r) : k # l
    BY DEF IInv, Progress
  <2> QED
    BY <2>1 DEF Rivals
<1> QED
  BY Invariant, <1>1, PTL

=============================================================================
