---------------------------- MODULE MCJobRunner ----------------------------
(* Small instances of JobRunner for TLC.  m1 is a queued job, i1 the row of an *)
(* inline capture stage; both belong to one tenant.                            *)
EXTENDS JobRunner

CONSTANTS m1, i1, w1, w2, srv, org

(* max_attempts is 1 for inline rows (runAsJob) and 2 stands for the agents'.  *)
Attempts == [j \in Jobs |-> IF j \in InlineJobs THEN 1 ELSE 2]
OneTenant == [j \in Jobs |-> org]
M1First == [j \in Jobs |-> IF j = m1 THEN 80 ELSE 50]

NoSkew == [p \in Procs |-> 0]

=============================================================================
