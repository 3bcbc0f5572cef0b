--------------------------- MODULE ReviewIngress ---------------------------
(* Pull-request reviews from GitHub webhooks (integrations/githubWebhook.ts,  *)
(* processGithubDelivery and fireReviews) for one pull request: a push first  *)
(* cancels the reviews still pending, then enqueues one review per lens.      *)
(* Deliveries are handled concurrently, by one or several ingress processes,  *)
(* and GitHub neither orders them nor sends each of them once.                *)
(*                                                                            *)
(* The review of delivery d under lens l is the job <<d, l>>.                 *)
EXTENDS JobLifecycle, Sequences

CONSTANTS
    Deliveries,
    HeadOf,      \* the head commit of each delivery, numbered in push order
    Pushes,      \* the "synchronize" deliveries; the others are opened/reopened
    Lenses,      \* the lenses to fire, in order: <<"security">> or with "code"
    MaxFaults    \* bound on failing statements and crashes

LensSet == {Lenses[i] : i \in 1..Len(Lenses)}

ASSUME IngressAssumption ==
    /\ IsFiniteSet(Deliveries) /\ Deliveries # {}
    /\ Lenses \in Seq(STRING)
    /\ Jobs = Deliveries \X LensSet
    /\ HeadOf \in [Deliveries -> Nat]
    /\ Pushes \subseteq Deliveries
    /\ MaxFaults \in Nat

VARIABLES
    pc,       \* where each delivery's handler is; a number is the next lens
    faults,
    inOrder   \* the deliveries of this behaviour come one at a time, in push order

vars == <<life, pc, faults, inOrder>>

Start == 0
Over == Len(Lenses) + 1

Init ==
    /\ LifeInit
    /\ pc = [d \in Deliveries |-> -1]
    /\ faults = 0
    /\ inOrder \in BOOLEAN

-----------------------------------------------------------------------------
(* A delivery arrives: signed, of a linked repository, with lenses to fire.   *)
Arrive(d) ==
    /\ pc[d] = -1
    /\ inOrder => \A e \in Deliveries :
          /\ pc[e] \in {-1, Over}
          /\ HeadOf[e] < HeadOf[d] => pc[e] = Over
          /\ HeadOf[e] > HeadOf[d] => pc[e] = -1
    /\ pc' = [pc EXCEPT ![d] = IF d \in Pushes THEN Start ELSE 1]
    /\ UNCHANGED <<life, faults, inOrder>>

(* cancelSupersededReviewJobs: every review still pending, of any lens.       *)
Superseded == {j \in Jobs : IsIn(j, {"pending"})}

(* Faulty variant: it takes the first lens only.                              *)
SupersedeFirstLens(d) ==
    /\ pc[d] = Start
    /\ pc' = [pc EXCEPT ![d] = 1]
    /\ Drop({j \in Superseded : j[2] = Lenses[1]})
    /\ UNCHANGED <<faults, inOrder>>
Supersede(d) ==
    /\ pc[d] = Start
    /\ pc' = [pc EXCEPT ![d] = 1]
    /\ Drop(Superseded)
    /\ UNCHANGED <<faults, inOrder>>

(* deps.enqueue for the next lens; no idempotency key is passed.              *)
EnqueueReview(d) ==
    /\ pc[d] \in 1..Len(Lenses)
    /\ Submit(<<d, Lenses[pc[d]]>>)
    /\ pc' = [pc EXCEPT ![d] = @ + 1]
    /\ UNCHANGED <<faults, inOrder>>

(* Either statement may fail; the handler swallows the error and goes on.     *)
(* Faulty variant: it goes on past the last lens.                             *)
StatementFailsPastEnd(d) ==
    /\ pc[d] \in Start..Over
    /\ faults < MaxFaults
    /\ faults' = faults + 1
    /\ pc' = [pc EXCEPT ![d] = @ + 1]
    /\ UNCHANGED <<life, inOrder>>
StatementFails(d) ==
    /\ pc[d] \in Start..Len(Lenses)
    /\ faults < MaxFaults
    /\ faults' = faults + 1
    /\ pc' = [pc EXCEPT ![d] = @ + 1]
    /\ UNCHANGED <<life, inOrder>>

(* The runners at work on the queue; a sweep looks like GiveUp here.          *)
JobMoves(j) ==
    /\ Lease(j) \/ Publish(j) \/ GiveUp(j)
    /\ UNCHANGED <<pc, faults, inOrder>>

(* Faulty variant: the handler enqueues first and supersedes afterwards,      *)
(* sparing its own review.                                                    *)
HandlerCancelLast(d) ==
    \/ /\ pc[d] = Start
       /\ Submit(<<d, Lenses[1]>>)
       /\ pc' = [pc EXCEPT ![d] = 1]
       /\ UNCHANGED <<faults, inOrder>>
    \/ /\ pc[d] = 1
       /\ IF d \in Pushes
          THEN Drop({j \in Superseded : j[1] # d})
          ELSE Submit(<<d, Lenses[1]>>)
       /\ pc' = [pc EXCEPT ![d] = Over]
       /\ UNCHANGED <<faults, inOrder>>
Handler(d) == Supersede(d) \/ EnqueueReview(d) \/ StatementFails(d)

Next ==
    \/ \E d \in Deliveries : Arrive(d) \/ Handler(d)
    \/ \E j \in Jobs : JobMoves(j)

Spec == Init /\ [][Next]_vars

-----------------------------------------------------------------------------
(* The variables stay in their types.                                         *)
TypeOK ==
    /\ LifeTypeOK
    /\ pc \in [Deliveries -> -1..Over]
    /\ faults \in 0..MaxFaults
    /\ inOrder \in BOOLEAN

Quiet == \A d \in Deliveries : pc[d] = Over
Newest(d) == \A e \in Deliveries : HeadOf[e] <= HeadOf[d]

(* Superseding never wipes a pull request out: once every handler is through, *)
(* each lens has a review that was not cancelled, whatever the interleaving,  *)
(* unless a statement failed (a cancel that went through and an enqueue that  *)
(* did not leave no review, and GitHub was answered 202 all the same).        *)
ReviewNotLost ==
    (Quiet /\ faults = 0) =>
        \A l \in LensSet : \E d \in Deliveries : ~IsIn(<<d, l>>, {"absent", "cancelled"})

(* Deliveries handled one at a time in push order leave the newest head's     *)
(* review standing, and of older heads none pending except one that was       *)
(* already running when it was superseded, failed, and was re-armed.          *)
SupersededUnlessRearmed ==
    (inOrder /\ Quiet /\ faults = 0) =>
        \A d \in Deliveries, l \in LensSet :
            IF Newest(d) THEN ~IsIn(<<d, l>>, {"absent", "cancelled"})
                         ELSE IsIn(<<d, l>>, {"pending"}) => life[<<d, l>>].tries > 0

(* A superseding push leaves the review that already runs to finish.          *)
RunningReviewFinishes ==
    [][\A j \in Jobs : IsIn(j, {"running"}) => life'[j].status # "cancelled"]_vars

=============================================================================
