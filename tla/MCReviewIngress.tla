-------------------------- MODULE MCReviewIngress --------------------------
(* One pull request: opened with head 1, pushed to twice.                      *)
EXTENDS ReviewIngress, TLC

CONSTANTS d1, d2, d3

ThreePushes == {d1, d2, d3}
TwoLensJobs == ThreePushes \X {"security", "code"}

PushOrder == [d \in Deliveries |-> CASE d = d1 -> 1 [] d = d2 -> 2 [] OTHER -> 3]
Attempts == [j \in Jobs |-> 2]
BothLenses == <<"security", "code">>

=============================================================================
