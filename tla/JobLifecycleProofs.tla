------------------------- MODULE JobLifecycleProofs -------------------------
(* What each operation on the job table does to it: the lemmas that the       *)
(* proofs about the enqueue protocol and the review ingress share.            *)
EXTENDS JobLifecycle, TLAPS

(* Every other job is left alone.                                             *)
Elsewhere(j) == \A k \in Jobs : k # j => life'[k] = life[k]

LEMMA InitTyped == LifeInit => LifeTypeOK
  BY DEF LifeInit, LifeTypeOK, LifeRecord, Unborn

(* One record is replaced by another.                                         *)
LEMMA Replaced ==
    ASSUME LifeTypeOK, NEW j \in Jobs, NEW l \in LifeRecord, life' = [life EXCEPT ![j] = l]
    PROVE  LifeTypeOK' /\ life'[j] = l /\ Elsewhere(j)
  BY DEF LifeTypeOK, Elsewhere

(* One field of a record is set.                                              *)
LEMMA SetStatus ==
    ASSUME NEW l \in LifeRecord, NEW s \in {"pending", "running", "done", "failed", "cancelled"}
    PROVE  /\ [l EXCEPT !.status = s] \in LifeRecord
           /\ [l EXCEPT !.status = s].status = s
           /\ [l EXCEPT !.status = s].tries = l.tries
  BY DEF LifeRecord

LEMMA SetCount ==
    ASSUME NEW l \in LifeRecord, NEW n \in Nat
    PROVE  /\ [l EXCEPT !.gen = n] \in LifeRecord /\ [l EXCEPT !.gen = n].status = l.status
           /\ [l EXCEPT !.result = n] \in LifeRecord /\ [l EXCEPT !.result = n].status = l.status
           /\ [l EXCEPT !.tries = n] \in LifeRecord /\ [l EXCEPT !.tries = n].status = l.status
           /\ [l EXCEPT !.tries = n].tries = n
  BY DEF LifeRecord

(* What each operation makes of a record.                                     *)
LEMMA LeasedRecord ==
    ASSUME NEW l \in LifeRecord
    PROVE  Leased(l) \in LifeRecord /\ Leased(l).status = "running"
  <1> DEFINE m == [l EXCEPT !.status = "running"]
  <1>1. m \in LifeRecord /\ m.status = "running"
    BY SetStatus, SetCount
  <1>2. Leased(l) = [m EXCEPT !.gen = @ + 1]
    BY DEF Leased
  <1> HIDE DEF m
  <1>3. m.gen + 1 \in Nat
    BY <1>1 DEF LifeRecord
  <1>4. [m EXCEPT !.gen = m.gen + 1] \in LifeRecord /\ [m EXCEPT !.gen = m.gen + 1].status = m.status
    BY <1>1, <1>3, SetCount
  <1> QED
    BY <1>1, <1>2, <1>4

LEMMA PublishedRecord ==
    ASSUME NEW l \in LifeRecord
    PROVE  Published(l) \in LifeRecord /\ Published(l).status = "done"
  <1> DEFINE m == [l EXCEPT !.status = "done"]
  <1>1. m \in LifeRecord /\ m.status = "done" /\ l.gen \in Nat
    BY SetStatus, SetCount DEF LifeRecord
  <1>2. Published(l) = [m EXCEPT !.result = l.gen]
    BY DEF Published
  <1> HIDE DEF m
  <1>3. [m EXCEPT !.result = l.gen] \in LifeRecord /\ [m EXCEPT !.result = l.gen].status = m.status
    BY <1>1, SetCount
  <1> QED
    BY <1>1, <1>2, <1>3

LEMMA StartOverRecord ==
    ASSUME NEW l \in LifeRecord
    PROVE  StartOver(l) \in LifeRecord /\ StartOver(l).status = "pending"
  <1> DEFINE m == [l EXCEPT !.status = "pending"]
  <1>1. m \in LifeRecord /\ m.status = "pending"
    BY SetStatus, SetCount
  <1>2. StartOver(l) = [m EXCEPT !.tries = 0]
    BY DEF StartOver
  <1> HIDE DEF m
  <1>3. [m EXCEPT !.tries = 0] \in LifeRecord /\ [m EXCEPT !.tries = 0].status = m.status
    BY <1>1, SetCount
  <1> QED
    BY <1>1, <1>2, <1>3

LEMMA UsedRecord ==
    ASSUME NEW j \in Jobs, NEW l \in LifeRecord
    PROVE  /\ Used(j, l) \in LifeRecord
           /\ Used(j, l).status \in {"pending", "failed"}
           /\ Used(j, l).tries > 0
  <1> DEFINE m == [l EXCEPT !.tries = @ + 1]
             x == IF l.tries + 1 < MaxAttempts[j] THEN "pending" ELSE "failed"
  <1>1. l.tries + 1 \in Nat /\ l.tries + 1 > 0
    BY DEF LifeRecord
  <1>2. m \in LifeRecord /\ m.tries > 0
    BY <1>1, SetStatus, SetCount
  <1>3. Used(j, l) = [m EXCEPT !.status = x]
    BY DEF Used
  <1>4. x \in {"pending", "failed"} /\ x \in {"pending", "running", "done", "failed", "cancelled"}
    OBVIOUS
  <1> HIDE DEF m, x
  <1>5. /\ [m EXCEPT !.status = x] \in LifeRecord
        /\ [m EXCEPT !.status = x].status = x /\ [m EXCEPT !.status = x].tries = m.tries
    BY <1>2, <1>4, SetStatus
  <1> QED
    BY <1>2, <1>3, <1>4, <1>5

(* The insert of a row.                                                       *)
LEMMA SubmitEffect ==
    ASSUME LifeTypeOK, NEW j \in Jobs, Submit(j)
    PROVE  /\ LifeTypeOK'
           /\ IsIn(j, {"absent"})
           /\ life'[j].status = "pending" /\ life'[j].tries = life[j].tries
           /\ Elsewhere(j)
  <1>1. life[j] \in LifeRecord /\ IsIn(j, {"absent"})
    BY DEF LifeTypeOK, Submit
  <1>2. LifeTypeOK' /\ life'[j] = [life[j] EXCEPT !.status = "pending"] /\ Elsewhere(j)
    BY <1>1, SetStatus, SetCount, Replaced DEF Submit
  <1> QED
    BY <1>1, <1>2 DEF LifeRecord

(* A claim and a completion.                                                  *)
LEMMA LeaseEffect ==
    ASSUME LifeTypeOK, NEW j \in Jobs, Lease(j)
    PROVE  /\ LifeTypeOK'
           /\ IsIn(j, {"pending"})
           /\ life'[j].status = "running"
           /\ Elsewhere(j)
  <1>1. life[j] \in LifeRecord
    BY DEF LifeTypeOK
  <1> QED
    BY <1>1, LeasedRecord, Replaced DEF Lease

LEMMA PublishEffect ==
    ASSUME LifeTypeOK, NEW j \in Jobs, Publish(j)
    PROVE  /\ LifeTypeOK'
           /\ IsIn(j, {"running"})
           /\ life'[j].status = "done"
           /\ Elsewhere(j)
  <1>1. life[j] \in LifeRecord
    BY DEF LifeTypeOK
  <1> QED
    BY <1>1, PublishedRecord, Replaced DEF Publish

(* A failure, which a sweep looks like here: pending again with an attempt    *)
(* used, or failed for good.                                                  *)
LEMMA GiveUpEffect ==
    ASSUME LifeTypeOK, NEW j \in Jobs, GiveUp(j)
    PROVE  /\ LifeTypeOK'
           /\ IsIn(j, {"running"})
           /\ life'[j].status \in {"pending", "failed"} /\ life'[j].tries > 0
           /\ Elsewhere(j)
  <1>1. life[j] \in LifeRecord
    BY DEF LifeTypeOK
  <1> QED
    BY <1>1, UsedRecord, Replaced DEF GiveUp

(* The retry of a settled job.                                                *)
LEMMA ResubmitEffect ==
    ASSUME LifeTypeOK, NEW j \in Jobs, Resubmit(j)
    PROVE  /\ LifeTypeOK'
           /\ IsIn(j, {"failed", "cancelled"})
           /\ life'[j].status = "pending"
           /\ Elsewhere(j)
  <1>1. life[j] \in LifeRecord
    BY DEF LifeTypeOK
  <1> QED
    BY <1>1, StartOverRecord, Replaced DEF Resubmit

(* A cancel of one job or of many.                                            *)
LEMMA DropEffect ==
    ASSUME LifeTypeOK, NEW S \in SUBSET Jobs, Drop(S)
    PROVE  /\ LifeTypeOK'
           /\ \A k \in S : InFlight(k) /\ life'[k].status = "cancelled"
           /\ \A k \in Jobs \ S : life'[k] = life[k]
  <1>1. \A k \in Jobs : life[k] \in LifeRecord
    BY DEF LifeTypeOK
  <1>2. \A k \in Jobs : [life[k] EXCEPT !.status = "cancelled"] \in LifeRecord
    BY <1>1, SetStatus, SetCount
  <1>3. LifeTypeOK'
    BY <1>1, <1>2 DEF Drop, LifeTypeOK
  <1>4. \A k \in S : InFlight(k) /\ life'[k].status = "cancelled"
    BY <1>1 DEF Drop, LifeRecord
  <1>5. \A k \in Jobs \ S : life'[k] = life[k]
    BY DEF Drop
  <1> QED
    BY <1>3, <1>4, <1>5

(* What queued jobs do while nobody enqueues: they are claimed, they settle   *)
(* or they are pending again.  None is cancelled.                             *)
LEMMA MoveEffect ==
    ASSUME LifeTypeOK, NEW j \in Jobs, Lease(j) \/ Publish(j) \/ GiveUp(j)
    PROVE  /\ LifeTypeOK'
           /\ InFlight(j)
           /\ life'[j].status \in {"pending", "running", "done", "failed"}
           /\ life'[j].status = "pending" => life'[j].tries > 0
           /\ Elsewhere(j)
  BY LeaseEffect, PublishEffect, GiveUpEffect DEF IsIn, InFlight

=============================================================================
