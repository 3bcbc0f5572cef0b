------------------------ MODULE ReviewIngressProofs ------------------------
(* Proofs about ReviewIngress for every number of deliveries and lenses, in   *)
(* whatever order and interleaving they are handled.                          *)
EXTENDS ReviewIngress, JobLifecycleProofs

Standing(j) == ~IsIn(j, {"absent", "cancelled"})
Positions == 1..Len(Lenses)

LEMMA LensFacts ==
    /\ Len(Lenses) \in Nat
    /\ Positions \subseteq Int
    /\ \A i \in Positions : Lenses[i] \in LensSet
    /\ \A l \in LensSet : \E i \in Positions : l = Lenses[i]
    /\ \A d \in Deliveries, l \in LensSet : <<d, l>> \in Jobs
  BY IngressAssumption DEF LensSet, Positions

-----------------------------------------------------------------------------
(* The inductive invariant: a lens is still ahead of some handler, or it has  *)
(* a review that stands.                                                      *)
Covered(i) == (\E d \in Deliveries : pc[d] <= i) \/ (\E d \in Deliveries : Standing(<<d, Lenses[i]>>))
IInv == TypeOK /\ (faults = 0 => \A i \in Positions : Covered(i))

LEMMA InitInvariant == Init => IInv
  <1> SUFFICES ASSUME Init PROVE IInv
    OBVIOUS
  <1>1. TypeOK
    BY InitTyped, LensFacts, IngressAssumption DEF Init, TypeOK, Over
  <1>2. \A i \in Positions : Covered(i)
    BY LensFacts, IngressAssumption DEF Init, Covered, Positions
  <1> QED
    BY <1>1, <1>2 DEF IInv

(* What each step does to the handlers and to the table.                      *)
LEMMA TypeStep == TypeOK /\ [Next]_vars => TypeOK'
  <1> SUFFICES ASSUME TypeOK, [Next]_vars PROVE TypeOK'
    OBVIOUS
  <1>0. Len(Lenses) \in Nat /\ MaxFaults \in Nat /\ LifeTypeOK
    BY LensFacts, IngressAssumption DEF TypeOK
  <1>1. ASSUME NEW d \in Deliveries, Arrive(d) PROVE TypeOK'
    BY <1>0, <1>1 DEF Arrive, TypeOK, LifeTypeOK, Start, Over
  <1>2. ASSUME NEW d \in Deliveries, Supersede(d) PROVE TypeOK'
    <2>1. Superseded \in SUBSET Jobs
      BY DEF Superseded
    <2>2. LifeTypeOK'
      BY <1>0, <1>2, <2>1, DropEffect DEF Supersede
    <2> QED
      BY <1>0, <1>2, <2>2 DEF Supersede, TypeOK, Start, Over
  <1>3. ASSUME NEW d \in Deliveries, EnqueueReview(d) PROVE TypeOK'
    <2>1. <<d, Lenses[pc[d]]>> \in Jobs
      BY <1>3, LensFacts DEF EnqueueReview, Positions
    <2>2. LifeTypeOK'
      BY <1>0, <1>3, <2>1, SubmitEffect DEF EnqueueReview
    <2> QED
      BY <1>0, <1>3, <2>2 DEF EnqueueReview, TypeOK, Over
  <1>4. ASSUME NEW d \in Deliveries, StatementFails(d) PROVE TypeOK'
    BY <1>0, <1>4 DEF StatementFails, TypeOK, LifeTypeOK, Start, Over
  <1>5. ASSUME NEW j \in Jobs, JobMoves(j) PROVE TypeOK'
    <2>1. LifeTypeOK'
      BY <1>0, <1>5, MoveEffect DEF JobMoves
    <2> QED
      BY <1>5, <2>1 DEF JobMoves, TypeOK
  <1>6. CASE UNCHANGED vars
    BY <1>6 DEF vars, TypeOK, LifeTypeOK
  <1> QED
    BY <1>1, <1>2, <1>3, <1>4, <1>5, <1>6 DEF Next, Handler

LEMMA StepInvariant == IInv /\ [Next]_vars => IInv'
  <1> SUFFICES ASSUME IInv, [Next]_vars, faults' = 0, NEW i \in Positions PROVE Covered(i)'
    BY TypeStep DEF IInv
  <1>0. TypeOK /\ LifeTypeOK /\ Len(Lenses) \in Nat /\ i \in Int /\ i >= 1 /\ Lenses[i] \in LensSet
    BY LensFacts DEF IInv, TypeOK, Positions
  <1>1. ASSUME NEW d \in Deliveries, Arrive(d) PROVE Covered(i)'
    BY <1>0, <1>1 DEF Arrive, TypeOK, Covered, Start
  <1>2. ASSUME NEW d \in Deliveries, Supersede(d) PROVE Covered(i)'
    BY <1>0, <1>2 DEF Supersede, TypeOK, Covered
  <1>3. ASSUME NEW d \in Deliveries, EnqueueReview(d) PROVE Covered(i)'
    <2> DEFINE j == <<d, Lenses[pc[d]]>>
    <2>1. j \in Jobs /\ Submit(j) /\ pc' = [pc EXCEPT ![d] = @ + 1] /\ pc[d] \in Positions
      BY <1>3, LensFacts DEF EnqueueReview, Positions
    <2>2. life'[j].status = "pending" /\ Elsewhere(j)
      BY <1>0, <2>1, SubmitEffect
    <2>3. CASE pc[d] = i
      BY <2>2, <2>3 DEF Covered, Standing, IsIn
    <2>4. CASE \E e \in Deliveries : pc[e] <= i /\ ~(e = d /\ pc[d] = i)
      BY <1>0, <2>1, <2>4 DEF TypeOK, Covered, Positions
    <2>5. ASSUME NEW e \in Deliveries, Standing(<<e, Lenses[i]>>) PROVE Covered(i)'
      <3>1. Standing(<<e, Lenses[i]>>)'
        BY <1>0, <2>2, <2>5, LensFacts DEF Elsewhere, Standing, IsIn
      <3> QED
        BY <3>1 DEF Covered
    <2>6. Covered(i)
      BY <1>3 DEF IInv, EnqueueReview
    <2> QED
      BY <2>3, <2>4, <2>5, <2>6 DEF Covered
  <1>4. ASSUME NEW d \in Deliveries, StatementFails(d) PROVE FALSE
    BY <1>4 DEF StatementFails, IInv, TypeOK
  <1>5. ASSUME NEW j \in Jobs, JobMoves(j) PROVE Covered(i)'
    <2>1. /\ life'[j].status \in {"pending", "running", "done", "failed"} /\ Elsewhere(j)
          /\ pc' = pc /\ faults' = faults
      BY <1>0, <1>5, MoveEffect DEF JobMoves
    <2>2. \A e \in Deliveries : Standing(<<e, Lenses[i]>>) => Standing(<<e, Lenses[i]>>)'
      BY <1>0, <2>1, LensFacts DEF Elsewhere, Standing, IsIn
    <2> QED
      BY <2>1, <2>2 DEF IInv, Covered
  <1>6. CASE UNCHANGED vars
    BY <1>6 DEF vars, IInv, Covered, Standing, IsIn
  <1> QED
    BY <1>1, <1>2, <1>3, <1>4, <1>5, <1>6 DEF Next, Handler

LEMMA Invariant == Spec => []IInv
  BY InitInvariant, StepInvariant, PTL DEF Spec

(* The handlers and the table stay well typed.                                *)
THEOREM IngressTypeCorrect == Spec => []TypeOK
<1>1. IInv => TypeOK
  BY DEF IInv
<1> QED
  BY Invariant, <1>1, PTL

(* However many deliveries are handled concurrently and out of order, every   *)
(* lens keeps a review that was not cancelled, unless a statement failed: a    *)
(* superseding handler always has its own enqueues ahead of it (fireReviews). *)
THEOREM ReviewsSurvive == Spec => []ReviewNotLost
<1>1. IInv => ReviewNotLost
  <2> SUFFICES ASSUME IInv, Quiet, faults = 0, NEW l \in LensSet
               PROVE  \E d \in Deliveries : ~IsIn(<<d, l>>, {"absent", "cancelled"})
    BY DEF ReviewNotLost
  <2>1. PICK i \in Positions : l = Lenses[i]
    BY LensFacts
  <2>2. \A d \in Deliveries : ~(pc[d] <= i)
    BY LensFacts DEF Quiet, Over, Positions
  <2> QED
    BY <2>1, <2>2 DEF IInv, Covered, Standing
<1> QED
  BY Invariant, <1>1, PTL

(* No step cancels a running review (cancelSupersededReviewJobs takes pending *)
(* rows only).                                                                *)
THEOREM RunningReviewsFinish == Spec => RunningReviewFinishes
<1>1. TypeOK /\ [Next]_vars =>
         [\A j \in Jobs : IsIn(j, {"running"}) => life'[j].status # "cancelled"]_vars
  <2> SUFFICES ASSUME TypeOK, Next, NEW j \in Jobs, IsIn(j, {"running"})
               PROVE  life'[j].status # "cancelled"
    OBVIOUS
  <2>0. LifeTypeOK /\ life[j].status = "running"
    BY DEF TypeOK, IsIn
  <2>1. ASSUME UNCHANGED life PROVE life'[j].status # "cancelled"
    BY <2>0, <2>1
  <2>2. ASSUME NEW d \in Deliveries, Supersede(d) PROVE life'[j].status # "cancelled"
    <3>1. Superseded \in SUBSET Jobs /\ j \notin Superseded /\ Drop(Superseded)
      BY <2>0, <2>2 DEF Superseded, IsIn, Supersede
    <3>2. life'[j] = life[j]
      BY <2>0, <3>1, DropEffect
    <3> QED
      BY <2>0, <3>2
  <2>3. ASSUME NEW d \in Deliveries, EnqueueReview(d) PROVE life'[j].status # "cancelled"
    <3> DEFINE k == <<d, Lenses[pc[d]]>>
    <3>1. k \in Jobs /\ Submit(k)
      BY <2>3, LensFacts DEF EnqueueReview, Positions
    <3> HIDE DEF k
    <3>2. life'[k].status = "pending" /\ Elsewhere(k)
      BY <2>0, <3>1, SubmitEffect
    <3> QED
      BY <2>0, <3>2 DEF Elsewhere
  <2>4. ASSUME NEW k \in Jobs, JobMoves(k) PROVE life'[j].status # "cancelled"
    <3>1. life'[k].status \in {"pending", "running", "done", "failed"} /\ Elsewhere(k)
      BY <2>0, <2>4, MoveEffect DEF JobMoves
    <3> QED
      BY <2>0, <3>1 DEF Elsewhere
  <2> QED
    BY <2>1, <2>2, <2>3, <2>4 DEF Next, Handler, Arrive, StatementFails
<1> QED
  BY IngressTypeCorrect, <1>1, PTL DEF Spec, RunningReviewFinishes

-----------------------------------------------------------------------------
(* Deliveries in push order: one head each, and all but the first are pushes. *)
OrderedHeads ==
    /\ \A d, e \in Deliveries : HeadOf[d] = HeadOf[e] => d = e
    /\ \A d, e \in Deliveries : HeadOf[e] < HeadOf[d] => d \in Pushes

(* A later delivery is touched only when the earlier ones are through.        *)
OneAtATime ==
    \A d, e \in Deliveries : HeadOf[d] < HeadOf[e] /\ pc[e] # -1 => pc[d] = Over

(* Once a delivery has superseded, what is pending of earlier heads has       *)
(* failed before.                                                             *)
OlderRearmed ==
    \A d, e \in Deliveries, l \in LensSet :
        HeadOf[e] < HeadOf[d] /\ pc[d] >= 1 /\ IsIn(<<e, l>>, {"pending"}) => life[<<e, l>>].tries > 0

(* What the newest delivery has enqueued stands.                              *)
NewestStands ==
    \A d \in Deliveries : Newest(d) =>
        \A i \in Positions : i < pc[d] => Standing(<<d, Lenses[i]>>)

OrderInv ==
    inOrder /\ faults = 0 => OneAtATime /\ OlderRearmed /\ NewestStands

LEMMA OrderInit == Init => OrderInv
  BY LensFacts, IngressAssumption DEF Init, OrderInv, OneAtATime, OlderRearmed, NewestStands, Positions

(* A delivery whose handler is at work has every later one still to come.     *)
LEMMA LaterStillToCome ==
    ASSUME TypeOK, OneAtATime, NEW d \in Deliveries, pc[d] # Over,
           NEW e \in Deliveries, HeadOf[d] < HeadOf[e]
    PROVE  pc[e] = -1
  BY DEF OneAtATime

LEMMA OrderStep == OrderedHeads /\ TypeOK /\ OrderInv /\ [Next]_vars => OrderInv'
  <1> SUFFICES ASSUME OrderedHeads, TypeOK, OrderInv, [Next]_vars, inOrder', faults' = 0
               PROVE  (OneAtATime /\ OlderRearmed /\ NewestStands)'
    BY DEF OrderInv
  <1>0. /\ LifeTypeOK /\ Len(Lenses) \in Nat /\ Over \in Nat /\ Over >= 1
        /\ \A d \in Deliveries : HeadOf[d] \in Nat /\ pc[d] \in Int
        /\ DOMAIN pc = Deliveries
    BY LensFacts, IngressAssumption DEF TypeOK, Over
  <1>1. OneAtATime /\ OlderRearmed /\ NewestStands
    <2>1. inOrder
      BY Zenon DEF Next, Handler, Arrive, Supersede, EnqueueReview, StatementFails, JobMoves, vars
    <2>2. faults = 0
      <3>1. faults \in Nat
        BY IngressAssumption DEF TypeOK
      <3>2. faults' = faults \/ faults' = faults + 1
        BY Zenon DEF Next, Handler, Arrive, Supersede, EnqueueReview, StatementFails, JobMoves, vars
      <3> QED
        BY <3>1, <3>2
    <2> QED
      BY <2>1, <2>2 DEF OrderInv
  <1>2. ASSUME NEW d \in Deliveries, Arrive(d) PROVE (OneAtATime /\ OlderRearmed /\ NewestStands)'
    <2>1. /\ pc[d] = -1 /\ UNCHANGED life
          /\ pc' = [pc EXCEPT ![d] = IF d \in Pushes THEN 0 ELSE 1]
          /\ \A e \in Deliveries : HeadOf[e] < HeadOf[d] => pc[e] = Over
      BY <1>2 DEF Arrive, Start
    <2>2. OneAtATime'
      BY <1>0, <1>1, <2>1 DEF OneAtATime, Over
    <2>3. OlderRearmed'
      BY <1>0, <1>1, <2>1 DEF OlderRearmed, OrderedHeads, IsIn
    <2>4. NewestStands'
      BY <1>0, <1>1, <2>1 DEF NewestStands, Newest, Positions, Standing, IsIn
    <2> QED
      BY <2>2, <2>3, <2>4
  <1>3. ASSUME NEW d \in Deliveries, Supersede(d) PROVE (OneAtATime /\ OlderRearmed /\ NewestStands)'
    <2>1. /\ pc[d] = 0 /\ pc' = [pc EXCEPT ![d] = 1] /\ Drop(Superseded) /\ Superseded \in SUBSET Jobs
      BY <1>3 DEF Supersede, Start, Superseded
    <2>2. /\ \A k \in Superseded : life'[k].status = "cancelled"
          /\ \A k \in Jobs \ Superseded : life'[k] = life[k] /\ life[k].status # "pending"
      BY <1>0, <2>1, DropEffect DEF Superseded, IsIn
    <2>3. \A e \in Deliveries : HeadOf[d] < HeadOf[e] => pc[e] = -1
      BY <1>0, <1>1, <2>1, LaterStillToCome
    <2>4. OneAtATime'
      BY <1>0, <1>1, <2>1, <2>3 DEF OneAtATime, Over
    <2>5. OlderRearmed'
      BY <2>2, LensFacts DEF OlderRearmed, IsIn
    <2>6. NewestStands'
      <3> SUFFICES ASSUME NEW e \in Deliveries, Newest(e), NEW i \in Positions, i < pc'[e] PROVE FALSE
        BY DEF NewestStands, Newest
      <3>1. i >= 1 /\ i \in Int
        BY DEF Positions
      <3>2. e # d
        BY <1>0, <2>1, <3>1
      <3>3. HeadOf[d] < HeadOf[e]
        BY <1>0, <3>2 DEF Newest, OrderedHeads
      <3> QED
        BY <1>0, <2>1, <2>3, <3>1, <3>2, <3>3
    <2> QED
      BY <2>4, <2>5, <2>6
  <1>4. ASSUME NEW d \in Deliveries, EnqueueReview(d) PROVE (OneAtATime /\ OlderRearmed /\ NewestStands)'
    <2> DEFINE j == <<d, Lenses[pc[d]]>>
    <2>1. /\ pc[d] \in Positions /\ pc[d] # Over /\ pc[d] >= 1
          /\ pc' = [pc EXCEPT ![d] = @ + 1] /\ Submit(j) /\ j \in Jobs
      BY <1>4, LensFacts DEF EnqueueReview, Positions, Over
    <2>2. life'[j].status = "pending" /\ Elsewhere(j) /\ life[j].status = "absent"
      BY <1>0, <2>1, SubmitEffect DEF IsIn
    <2>3. \A e \in Deliveries : HeadOf[d] < HeadOf[e] => pc[e] = -1
      BY <1>0, <1>1, <2>1, LaterStillToCome
    <2>4. OneAtATime'
      BY <1>0, <1>1, <2>1, <2>3 DEF OneAtATime
    <2>5. OlderRearmed'
      <3> SUFFICES ASSUME NEW e \in Deliveries, NEW c \in Deliveries, NEW l \in LensSet,
                          HeadOf[c] < HeadOf[e], pc'[e] >= 1, life'[<<c, l>>].status = "pending"
                   PROVE  life'[<<c, l>>].tries > 0
        BY DEF OlderRearmed, IsIn
      <3>1. c # d
        BY <1>0, <2>1, <2>3
      <3>2. pc[e] >= 1
        BY <1>0, <2>1
      <3>3. life'[<<c, l>>] = life[<<c, l>>]
        BY <2>2, <3>1, LensFacts DEF Elsewhere
      <3> QED
        BY <1>1, <3>2, <3>3 DEF OlderRearmed, IsIn
    <2>6. NewestStands'
      <3> SUFFICES ASSUME NEW e \in Deliveries, Newest(e), NEW i \in Positions, i < pc'[e]
                   PROVE  life'[<<e, Lenses[i]>>].status \notin {"absent", "cancelled"}
        BY DEF NewestStands, Newest, Standing, IsIn
      <3>1. i \in Int /\ pc[d] \in Int
        BY <1>0 DEF Positions
      <3>2. CASE e = d /\ i = pc[d]
        BY <2>2, <3>2
      <3>3. CASE ~(e = d /\ i = pc[d])
        <4>1. i < pc[e]
          BY <1>0, <2>1, <3>1, <3>3
        <4>2. Standing(<<e, Lenses[i]>>)
          BY <1>1, <4>1 DEF NewestStands
        <4>3. <<e, Lenses[i]>> # j
          BY <2>2, <4>2 DEF Standing, IsIn
        <4>4. life'[<<e, Lenses[i]>>] = life[<<e, Lenses[i]>>]
          BY <2>2, <4>3, LensFacts DEF Elsewhere
        <4> QED
          BY <4>2, <4>4 DEF Standing, IsIn
      <3> QED
        BY <3>2, <3>3
    <2> QED
      BY <2>4, <2>5, <2>6
  <1>5. ASSUME NEW d \in Deliveries, StatementFails(d) PROVE FALSE
    BY <1>5 DEF StatementFails, TypeOK
  <1>6. ASSUME NEW j \in Jobs, JobMoves(j) PROVE (OneAtATime /\ OlderRearmed /\ NewestStands)'
    <2>1. /\ life'[j].status \in {"pending", "running", "done", "failed"}
          /\ life'[j].status = "pending" => life'[j].tries > 0
          /\ Elsewhere(j) /\ pc' = pc
      BY <1>0, <1>6, MoveEffect DEF JobMoves
    <2>2. OneAtATime'
      BY <1>1, <2>1 DEF OneAtATime
    <2>3. OlderRearmed'
      BY <1>1, <2>1, LensFacts DEF OlderRearmed, Elsewhere, IsIn
    <2>4. NewestStands'
      BY <1>1, <2>1, LensFacts DEF NewestStands, Newest, Elsewhere, Standing, IsIn
    <2> QED
      BY <2>2, <2>3, <2>4
  <1>7. CASE UNCHANGED vars
    BY <1>1, <1>7 DEF vars, OneAtATime, OlderRearmed, NewestStands, Newest, Standing, IsIn
  <1> QED
    BY <1>2, <1>3, <1>4, <1>5, <1>6, <1>7 DEF Next, Handler

(* Handled one at a time in push order, with no failing statement, pushes     *)
(* leave the newest head's reviews standing, and of older heads none pending  *)
(* but one that ran and failed after it was superseded.                       *)
THEOREM OrderedPushesSupersede == OrderedHeads => (Spec => []SupersededUnlessRearmed)
<1> SUFFICES ASSUME OrderedHeads PROVE Spec => []SupersededUnlessRearmed
  OBVIOUS
<1>1. TypeOK /\ OrderInv /\ [Next]_vars => OrderInv'
  BY OrderStep
<1>2. TypeOK /\ OrderInv => SupersededUnlessRearmed
  <2> SUFFICES ASSUME TypeOK, OrderInv, inOrder, Quiet, faults = 0,
                      NEW d \in Deliveries, NEW l \in LensSet
               PROVE  IF Newest(d) THEN ~IsIn(<<d, l>>, {"absent", "cancelled"})
                      ELSE IsIn(<<d, l>>, {"pending"}) => life[<<d, l>>].tries > 0
    BY DEF SupersededUnlessRearmed
  <2>0. /\ Len(Lenses) \in Nat /\ Over = Len(Lenses) + 1
        /\ \A e \in Deliveries : HeadOf[e] \in Nat /\ pc[e] = Over
    BY LensFacts, IngressAssumption DEF Over, Quiet
  <2>1. CASE Newest(d)
    <3>1. PICK i \in Positions : l = Lenses[i]
      BY LensFacts
    <3>2. i < pc[d]
      BY <2>0 DEF Positions
    <3> QED
      BY <2>1, <3>1, <3>2 DEF OrderInv, NewestStands, Standing
  <2>2. CASE ~Newest(d)
    <3>1. PICK e \in Deliveries : HeadOf[d] < HeadOf[e]
      BY <2>0, <2>2 DEF Newest
    <3>2. pc[e] >= 1
      BY <2>0
    <3> QED
      BY <2>2, <3>1, <3>2 DEF OrderInv, OlderRearmed
  <2> QED
    BY <2>1, <2>2
<1> QED
  BY OrderInit, IngressTypeCorrect, <1>1, <1>2, PTL DEF Spec

=============================================================================
