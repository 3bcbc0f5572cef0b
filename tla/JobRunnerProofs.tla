-------------------------- MODULE JobRunnerProofs --------------------------
(* Proofs about JobRunner for every number of jobs, runners, attempts and     *)
(* faults, and every clock skew.                                              *)
EXTENDS JobRunner, FiniteSetTheorems, TLAPS

-----------------------------------------------------------------------------
(* Rows: their fields, and what each statement does to them.                  *)
LEMMA RowFields ==
    ASSUME NEW r \in RowType
    PROVE  /\ r.status \in Statuses /\ r.attempts \in Nat /\ r.epoch \in Nat
           /\ r.age \in Int /\ r.delay \in Int /\ r.output \in Nat
  BY DEF RowType

LEMMA RowUpdates ==
    ASSUME NEW r \in RowType
    PROVE  /\ \A s \in Statuses : [r EXCEPT !.status = s] \in RowType
           /\ \A n \in Nat : [r EXCEPT !.attempts = n] \in RowType
           /\ \A n \in Nat : [r EXCEPT !.epoch = n] \in RowType
           /\ \A n \in Int : [r EXCEPT !.age = n] \in RowType
           /\ \A n \in Int : [r EXCEPT !.delay = n] \in RowType
           /\ \A n \in Nat : [r EXCEPT !.output = n] \in RowType
  <1>1. \A s \in Statuses : [r EXCEPT !.status = s] \in RowType
    BY DEF RowType
  <1>2. \A n \in Nat : [r EXCEPT !.attempts = n] \in RowType
    BY DEF RowType
  <1>3. \A n \in Nat : [r EXCEPT !.epoch = n] \in RowType
    BY DEF RowType
  <1>4. \A n \in Int : [r EXCEPT !.age = n] \in RowType
    BY DEF RowType
  <1>5. \A n \in Int : [r EXCEPT !.delay = n] \in RowType
    BY DEF RowType
  <1>6. \A n \in Nat : [r EXCEPT !.output = n] \in RowType
    BY DEF RowType
  <1> QED
    BY <1>1, <1>2, <1>3, <1>4, <1>5, <1>6

LEMMA NoRowType == NoRow \in RowType
  BY DEF NoRow, RowType, Statuses

(* The abstract record of a row, built from its parts.                        *)
Life(s, n, g, o) == [status |-> s, tries |-> n, gen |-> g, result |-> o]

LEMMA LifeUpdates ==
    ASSUME NEW s, NEW n, NEW g, NEW o, NEW x, NEW y
    PROVE  /\ [Life(s, n, g, o) EXCEPT !.status = x] = Life(x, n, g, o)
           /\ [Life(s, n, g, o) EXCEPT !.tries = x] = Life(s, x, g, o)
           /\ [Life(s, n, g, o) EXCEPT !.gen = x] = Life(s, n, x, o)
           /\ [Life(s, n, g, o) EXCEPT !.result = x] = Life(s, n, g, x)
           /\ Life(s, n, g, o).status = s /\ Life(s, n, g, o).tries = n
           /\ Life(s, n, g, o).gen = g /\ Life(s, n, g, o).result = o
  BY DEF Life

LEMMA InsertRowType ==
    ASSUME NEW d \in Int
    PROVE  /\ InsertRow(d) \in RowType
           /\ LifeOf(InsertRow(d)) = Life("pending", 0, 0, 0)
  <1> DEFINE a == [NoRow EXCEPT !.status = "pending"]
             b == [a EXCEPT !.delay = d]
  <1>1. a \in RowType
    BY NoRowType, RowUpdates DEF Statuses
  <1> HIDE DEF a
  <1>2. b \in RowType
    BY <1>1, RowUpdates
  <1>3. InsertRow(d) = b
    BY DEF InsertRow, a
  <1>4. LifeOf(InsertRow(d)) = Life("pending", 0, 0, 0)
    BY DEF InsertRow, NoRow, LifeOf, Life
  <1> QED
    BY <1>2, <1>3, <1>4

LEMMA LeaseRowType ==
    ASSUME NEW r \in RowType, NEW d \in Int
    PROVE  /\ LeaseRow(r, d) \in RowType
           /\ LifeOf(LeaseRow(r, d)) = Life("running", r.attempts, r.epoch + 1, r.output)
           /\ LeaseRow(r, d).status = "running" /\ LeaseRow(r, d).epoch = r.epoch + 1
  <1> DEFINE a == [r EXCEPT !.status = "running"]
             b == [a EXCEPT !.age = -d]
             c == [b EXCEPT !.epoch = @ + 1]
  <1>1. a \in RowType
    BY RowUpdates DEF Statuses
  <1> HIDE DEF a
  <1>2. b \in RowType
    BY <1>1, RowUpdates
  <1> HIDE DEF b
  <1>3. c \in RowType
    BY <1>2, RowFields, RowUpdates
  <1>4. LeaseRow(r, d) = c
    BY DEF LeaseRow, a, b
  <1>5. /\ LifeOf(LeaseRow(r, d)) = Life("running", r.attempts, r.epoch + 1, r.output)
        /\ LeaseRow(r, d).status = "running" /\ LeaseRow(r, d).epoch = r.epoch + 1
    BY DEF LeaseRow, RowType, LifeOf, Life
  <1> QED
    BY <1>3, <1>4, <1>5

LEMMA RenewRowType ==
    ASSUME NEW r \in RowType, NEW e \in Nat, NEW d \in Int
    PROVE  /\ RenewRow(r, e, d) \in RowType
           /\ LifeOf(RenewRow(r, e, d)) = LifeOf(r)
           /\ r.status # "running" => RenewRow(r, e, d) = r
  BY DEF RenewRow, Owned, RowType, LifeOf

LEMMA CompleteRowType ==
    ASSUME NEW r \in RowType, NEW e \in Nat
    PROVE  /\ CompleteRow(r, e, e) \in RowType
           /\ ~Owned(r, e) => CompleteRow(r, e, e) = r
           /\ Owned(r, e) => LifeOf(CompleteRow(r, e, e)) = Life("done", r.attempts, r.epoch, e)
  <1> DEFINE a == [r EXCEPT !.status = "done"]
             b == [a EXCEPT !.age = 0]
             c == [b EXCEPT !.output = e]
  <1>1. a \in RowType
    BY RowUpdates DEF Statuses
  <1> HIDE DEF a
  <1>2. b \in RowType
    BY <1>1, RowUpdates
  <1> HIDE DEF b
  <1>3. c \in RowType
    BY <1>2, RowUpdates
  <1>4. CompleteRow(r, e, e) = IF Owned(r, e) THEN c ELSE r
    BY DEF CompleteRow, a, b
  <1>5. Owned(r, e) => LifeOf(CompleteRow(r, e, e)) = Life("done", r.attempts, r.epoch, e)
    BY DEF CompleteRow, RowType, LifeOf, Life
  <1> QED
    BY <1>3, <1>4, <1>5

LEMMA UseAttemptType ==
    ASSUME NEW j \in Jobs, NEW r \in RowType, NEW d \in Int
    PROVE  /\ UseAttempt(j, r, d) \in RowType
           /\ UseAttempt(j, r, d).status \in {"pending", "failed"}
           /\ UseAttempt(j, r, d).epoch = r.epoch
           /\ LifeOf(UseAttempt(j, r, d)) =
                Life(IF r.attempts + 1 < MaxAttempts[j] THEN "pending" ELSE "failed",
                     r.attempts + 1, r.epoch, r.output)
  <1> DEFINE a(s) == [r EXCEPT !.status = s]
             b(s) == [a(s) EXCEPT !.attempts = @ + 1]
             c(s) == [b(s) EXCEPT !.age = 0]
             u == UseAttempt(j, r, d)
  <1>1. \A s \in Statuses : a(s) \in RowType
    BY RowUpdates
  <1> HIDE DEF a
  <1>2. \A s \in Statuses : b(s) \in RowType
    BY <1>1, RowFields, RowUpdates
  <1> HIDE DEF b
  <1>3. \A s \in Statuses : c(s) \in RowType
    BY <1>2, RowUpdates
  <1> HIDE DEF c
  <1>4. [c("pending") EXCEPT !.delay = d] \in RowType /\ c("failed") \in RowType
    BY <1>3, RowUpdates DEF Statuses
  <1>5. CASE r.attempts + 1 < MaxAttempts[j]
    <2>1. u = [c("pending") EXCEPT !.delay = d]
      BY <1>5 DEF UseAttempt, a, b, c
    <2>2. LifeOf(u) = Life("pending", r.attempts + 1, r.epoch, r.output)
      BY <1>5 DEF UseAttempt, RowType, LifeOf, Life
    <2>3. u.status = "pending" /\ u.epoch = r.epoch
      BY <1>5 DEF UseAttempt, RowType
    <2> QED
      BY <1>4, <1>5, <2>1, <2>2, <2>3
  <1>6. CASE ~(r.attempts + 1 < MaxAttempts[j])
    <2>1. u = c("failed")
      BY <1>6 DEF UseAttempt, a, b, c
    <2>2. LifeOf(u) = Life("failed", r.attempts + 1, r.epoch, r.output)
      BY <1>6 DEF UseAttempt, RowType, LifeOf, Life
    <2>3. u.status = "failed" /\ u.epoch = r.epoch
      BY <1>6 DEF UseAttempt, RowType
    <2> QED
      BY <1>4, <1>6, <2>1, <2>2, <2>3
  <1> QED
    BY <1>5, <1>6

LEMMA FailRowType ==
    ASSUME NEW j \in Jobs, NEW r \in RowType, NEW e \in Nat, NEW d \in Int
    PROVE  /\ FailRow(j, r, e, d) \in RowType
           /\ ~Owned(r, e) => FailRow(j, r, e, d) = r
           /\ Owned(r, e) => FailRow(j, r, e, d) = UseAttempt(j, r, d)
  BY UseAttemptType DEF FailRow

(* A lease the sweep takes.                                                   *)
Expired(r) == r.status = "running" /\ r.age > Stuck

LEMMA SweepRowType ==
    ASSUME NEW j \in Jobs, NEW r \in RowType, NEW d \in Int
    PROVE  /\ SweepRow(j, r, d) \in RowType
           /\ ~Expired(r) => SweepRow(j, r, d) = r
           /\ Expired(r) =>
                /\ SweepRow(j, r, d).status \in {"pending", "failed"}
                /\ SweepRow(j, r, d).epoch = r.epoch + 1
                /\ LifeOf(SweepRow(j, r, d)) =
                     Life(IF r.attempts + 1 < MaxAttempts[j] THEN "pending" ELSE "failed",
                          r.attempts + 1, r.epoch + 1, r.output)
  <1> DEFINE u == UseAttempt(j, r, d)
             v == [u EXCEPT !.epoch = @ + 1]
             s == IF r.attempts + 1 < MaxAttempts[j] THEN "pending" ELSE "failed"
  <1>1. u \in RowType /\ u.epoch = r.epoch /\ u.status \in {"pending", "failed"}
    BY UseAttemptType
  <1>2. LifeOf(u) = Life(s, r.attempts + 1, r.epoch, r.output)
    BY UseAttemptType
  <1>3. SweepRow(j, r, d) = IF Expired(r) THEN v ELSE r
    BY DEF SweepRow, Expired
  <1> HIDE DEF u, s
  <1>4. v \in RowType
    BY <1>1, RowFields, RowUpdates
  <1>5. v.status = u.status /\ v.epoch = r.epoch + 1
    BY <1>1 DEF RowType
  <1>6. LifeOf(v) = [LifeOf(u) EXCEPT !.gen = r.epoch + 1]
    BY <1>1 DEF RowType, LifeOf
  <1>7. LifeOf(v) = Life(s, r.attempts + 1, r.epoch + 1, r.output)
    BY <1>2, <1>6, LifeUpdates
  <1> HIDE DEF v
  <1> QED
    BY <1>1, <1>3, <1>4, <1>5, <1>7 DEF s

LEMMA RetryRowType ==
    ASSUME NEW r \in RowType, NEW d \in Int, r.status \in {"failed", "cancelled"}
    PROVE  /\ RetryRow(r, d) \in RowType
           /\ RetryRow(r, d).status = "pending" /\ RetryRow(r, d).epoch = r.epoch
           /\ LifeOf(RetryRow(r, d)) = Life("pending", 0, r.epoch, r.output)
  <1> DEFINE a == [r EXCEPT !.status = "pending"]
             b == [a EXCEPT !.attempts = 0]
             c == [b EXCEPT !.delay = d]
             e == [c EXCEPT !.age = 0]
  <1>1. a \in RowType
    BY RowUpdates DEF Statuses
  <1> HIDE DEF a
  <1>2. b \in RowType
    BY <1>1, RowUpdates
  <1> HIDE DEF b
  <1>3. c \in RowType
    BY <1>2, RowUpdates
  <1> HIDE DEF c
  <1>4. e \in RowType
    BY <1>3, RowUpdates
  <1>5. RetryRow(r, d) = e
    BY DEF RetryRow, a, b, c
  <1>6. LifeOf(RetryRow(r, d)) = Life("pending", 0, r.epoch, r.output)
    BY DEF RetryRow, RowType, LifeOf, Life
  <1>7. RetryRow(r, d).status = "pending" /\ RetryRow(r, d).epoch = r.epoch
    BY DEF RetryRow, RowType
  <1> QED
    BY <1>4, <1>5, <1>6, <1>7

LEMMA CancelRowType ==
    ASSUME NEW r \in RowType
    PROVE  /\ CancelRow(r) \in RowType
           /\ r.status \notin InFlightStatuses => CancelRow(r) = r
           /\ r.status \in InFlightStatuses =>
                LifeOf(CancelRow(r)) = Life("cancelled", r.attempts, r.epoch, r.output)
  <1> DEFINE a == [r EXCEPT !.status = "cancelled"]
             b == [a EXCEPT !.age = 0]
  <1>1. a \in RowType
    BY RowUpdates DEF Statuses
  <1> HIDE DEF a
  <1>2. b \in RowType
    BY <1>1, RowUpdates
  <1>3. CancelRow(r) = IF r.status \in InFlightStatuses THEN b ELSE r
    BY DEF CancelRow, a
  <1>4. r.status \in InFlightStatuses =>
          LifeOf(CancelRow(r)) = Life("cancelled", r.attempts, r.epoch, r.output)
    BY DEF CancelRow, RowType, LifeOf, Life
  <1> QED
    BY <1>2, <1>3, <1>4

-----------------------------------------------------------------------------
(* Tasks: moving one keeps its process, its job and its lease.                *)
LEMMA TaskFields ==
    ASSUME NEW t \in TaskType
    PROVE  /\ t.proc \in Procs /\ t.job \in Jobs /\ t.epoch \in Nat
           /\ t.at \in TaskPositions /\ t.awaited \in BOOLEAN
  BY DEF TaskType

LEMMA TaskUpdates ==
    ASSUME NEW t \in TaskType
    PROVE  /\ \A a \in TaskPositions :
                /\ [t EXCEPT !.at = a] \in TaskType
                /\ [t EXCEPT !.at = a].job = t.job /\ [t EXCEPT !.at = a].epoch = t.epoch
           /\ \A b \in BOOLEAN :
                /\ [t EXCEPT !.awaited = b] \in TaskType
                /\ [t EXCEPT !.awaited = b].job = t.job /\ [t EXCEPT !.awaited = b].epoch = t.epoch
  <1>1. \A a \in TaskPositions :
          /\ [t EXCEPT !.at = a] \in TaskType
          /\ [t EXCEPT !.at = a].job = t.job /\ [t EXCEPT !.at = a].epoch = t.epoch
    BY DEF TaskType
  <1>2. \A b \in BOOLEAN :
          /\ [t EXCEPT !.awaited = b] \in TaskType
          /\ [t EXCEPT !.awaited = b].job = t.job /\ [t EXCEPT !.awaited = b].epoch = t.epoch
    BY DEF TaskType
  <1> QED
    BY <1>1, <1>2

LEMMA NewTask ==
    ASSUME NEW p \in Procs, NEW j \in Jobs, NEW e \in Nat, NEW a \in TaskPositions, NEW b \in BOOLEAN
    PROVE  [proc |-> p, job |-> j, epoch |-> e, at |-> a, awaited |-> b] \in TaskType
  BY DEF TaskType

LEMMA ClockFacts ==
    /\ \A p \in Procs : Skew[p] \in Int
    /\ Runners \subseteq Procs /\ Inline \in Procs
    /\ Stuck \in Nat
    /\ \A t \in TaskType : Delays(t) \subseteq Int
  <1>1. \A p \in Procs : Skew[p] \in Int
    BY RunnerBoundsAssumption
  <1>2. Runners \subseteq Procs /\ Inline \in Procs
    BY DEF Procs
  <1>3. ASSUME NEW t \in TaskType, NEW d \in Delays(t)
        PROVE  d \in Int
    <2>1. Skew[t.proc] \in Int /\ Skew[Inline] \in Int
      BY <1>1, <1>2, TaskFields
    <2>2. Backoffs \subseteq Nat
      BY RunnerBoundsAssumption
    <2> QED
      BY <1>3, <2>1, <2>2 DEF Delays
  <1> QED
    BY <1>1, <1>2, <1>3, TableAssumption

-----------------------------------------------------------------------------
(* Type correctness.                                                          *)
LEMMA RunnerTypeInit == Init => TypeOK
  BY NoRowType, RunnerBoundsAssumption DEF Init, TypeOK

(* Every statement leaves rows in the table.                                  *)
LEMMA RowsTyped ==
    ASSUME TypeOK, NEW j \in Jobs, NEW x \in RowType, row' = [row EXCEPT ![j] = x]
    PROVE  row' \in [Jobs -> RowType]
  BY DEF TypeOK

LEMMA MovedTyped ==
    ASSUME tasks \subseteq TaskType, NEW t \in tasks, NEW a \in TaskPositions, Moved(t, a)
    PROVE  tasks' \subseteq TaskType
  BY TaskUpdates DEF Moved

LEMMA RunnerTypeStep == TypeOK /\ [Next]_vars => TypeOK'
  <1> SUFFICES ASSUME TypeOK, [Next]_vars
               PROVE  TypeOK'
    OBVIOUS
  <1> USE ClockFacts, JobSetsAssumption
  <1>0. /\ row \in [Jobs -> RowType]
        /\ phase \in [Runners -> {"idle", "claiming", "draining"}]
        /\ sel \in [Runners -> Jobs \cup {NoJob}]
        /\ tasks \subseteq TaskType
        /\ stage \in [InlineJobs -> {"new", "starting", "over"}]
        /\ faults \in 0..MaxEvents /\ retries \in 0..MaxEvents
        /\ MaxEvents \in Nat
    BY RunnerBoundsAssumption DEF TypeOK
  <1>1. faults + retries < MaxEvents =>
          /\ faults' = faults + 1 => faults' \in 0..MaxEvents
          /\ retries' = retries + 1 => retries' \in 0..MaxEvents
    BY <1>0
  <1>2. CASE Tick
    <2>1. ASSUME NEW j \in Jobs
          PROVE  row'[j] \in RowType
      <3>1. row[j] \in RowType /\ row[j].age \in Int /\ row[j].delay \in Int
        BY <1>0, RowFields
      <3>2. /\ [row[j] EXCEPT !.age = row[j].age + 1] \in RowType
            /\ [row[j] EXCEPT !.delay = row[j].delay - 1] \in RowType
        <4> DEFINE r == row[j]
        <4>1. r \in RowType /\ r.age + 1 \in Int /\ r.delay - 1 \in Int
          BY <3>1
        <4> HIDE DEF r
        <4>2. [r EXCEPT !.age = r.age + 1] \in RowType /\ [r EXCEPT !.delay = r.delay - 1] \in RowType
          BY <4>1, RowUpdates
        <4> QED
          BY <4>2 DEF r
      <3>3. \/ row'[j] = [row[j] EXCEPT !.age = row[j].age + 1]
            \/ row'[j] = [row[j] EXCEPT !.delay = row[j].delay - 1]
            \/ row'[j] = row[j]
        BY <1>2 DEF Tick
      <3> QED
        BY <3>1, <3>2, <3>3
    <2>2. row' = [j \in Jobs |-> row'[j]]
      BY <1>2 DEF Tick
    <2>3. row' \in [Jobs -> RowType]
      BY <2>1, <2>2
    <2> QED
      BY <1>0, <1>2, <2>3 DEF Tick, TypeOK
  <1>3. ASSUME NEW w \in Runners, TickSweep(w)
        PROVE  TypeOK'
    <2>1. \A j \in Jobs : SweepRow(j, row[j], Skew[w]) \in RowType
      BY <1>0, SweepRowType
    <2>2. row' \in [Jobs -> RowType]
      BY <1>3, <2>1 DEF TickSweep
    <2> QED
      BY <1>0, <1>3, <2>2 DEF TickSweep, TypeOK
  <1>4. ASSUME NEW w \in Runners, ClaimSelect(w)
        PROVE  TypeOK'
    <2>1. sel' \in [Runners -> Jobs \cup {NoJob}]
      BY <1>0, <1>4 DEF ClaimSelect, ClaimOrder, Candidates, Claimable
    <2> QED
      BY <1>0, <1>4, <2>1 DEF ClaimSelect, TypeOK
  <1>5. ASSUME NEW w \in Runners, ClaimCommit(w)
        PROVE  TypeOK'
    <2> DEFINE j == sel[w]
    <2>1. j \in Jobs
      BY <1>0, <1>5 DEF ClaimCommit
    <2>2. LeaseRow(row[j], Skew[w]) \in RowType
      BY <1>0, <2>1, LeaseRowType
    <2>3. row' \in [Jobs -> RowType]
      BY <1>5, <2>1, <2>2, RowsTyped DEF ClaimCommit
    <2>4. row'[j].epoch \in Nat
      BY <2>1, <2>3, RowFields
    <2>5. [proc |-> w, job |-> j, epoch |-> row'[j].epoch, at |-> "claimed", awaited |-> TRUE] \in TaskType
      BY <2>1, <2>4, NewTask DEF TaskPositions
    <2>6. tasks' \subseteq TaskType
      BY <1>0, <1>5, <2>5 DEF ClaimCommit
    <2>7. sel' \in [Runners -> Jobs \cup {NoJob}]
      BY <1>0, <1>5, <2>1 DEF ClaimCommit
    <2> QED
      BY <1>0, <1>5, <2>3, <2>6, <2>7 DEF ClaimCommit, TypeOK
  <1>6. ASSUME NEW w \in Runners, Drain(w)
        PROVE  TypeOK'
    <2>1. \A t \in tasks : \A a \in {"exec", "cancel"} : [t EXCEPT !.at = a] \in TaskType
      BY <1>0, TaskUpdates DEF TaskPositions
    <2>2. tasks' \subseteq TaskType
      BY <1>0, <1>6, <2>1 DEF Drain
    <2> QED
      BY <1>0, <1>6, <2>2 DEF Drain, TypeOK
  <1>7. ASSUME NEW w \in Runners, ClaimThrows(w)
        PROVE  TypeOK'
    BY <1>0, <1>1, <1>7 DEF ClaimThrows, TypeOK
  <1>8. ASSUME NEW w \in Runners, TickEnds(w)
        PROVE  TypeOK'
    BY <1>0, <1>8 DEF TickEnds, TypeOK
  <1>9. ASSUME NEW t \in tasks, Execute(t)
        PROVE  TypeOK'
    <2>1. tasks' \subseteq TaskType
      BY <1>0, <1>9, MovedTyped DEF Execute, TaskPositions
    <2> QED
      BY <1>0, <1>9, <2>1 DEF Execute, TypeOK
  <1>10. ASSUME NEW t \in tasks, Renew(t)
         PROVE  TypeOK'
    <2>1. t.job \in Jobs /\ RenewalEpoch(t) \in Nat /\ Skew[t.proc] \in Int
      BY <1>0, TaskFields DEF RenewalEpoch
    <2>2. RenewRow(row[t.job], RenewalEpoch(t), Skew[t.proc]) \in RowType
      BY <1>0, <2>1, RenewRowType
    <2>3. row' \in [Jobs -> RowType]
      BY <1>10, <2>1, <2>2, RowsTyped DEF Renew
    <2> QED
      BY <1>0, <1>10, <2>3 DEF Renew, TypeOK
  <1>11. ASSUME NEW t \in tasks
         PROVE  /\ t.job \in Jobs /\ t.epoch \in Nat /\ t \in TaskType
                /\ CompleteRow(row[t.job], t.epoch, t.epoch) \in RowType
                /\ \A d \in Delays(t) : FailRow(t.job, row[t.job], t.epoch, d) \in RowType
                /\ CancelRow(row[t.job]) \in RowType
    BY <1>0, TaskFields, CompleteRowType, FailRowType, CancelRowType
  <1>12. ASSUME NEW t \in tasks, Complete(t)
         PROVE  TypeOK'
    <2>1. row' \in [Jobs -> RowType]
      BY <1>11, <1>12, RowsTyped DEF Complete
    <2> QED
      BY <1>0, <1>12, <2>1 DEF Complete, TypeOK
  <1>13. ASSUME NEW t \in tasks, CompleteThrows(t)
         PROVE  TypeOK'
    <2>1. row' \in [Jobs -> RowType]
      BY <1>0, <1>11, <1>13, RowsTyped DEF CompleteThrows
    <2>2. tasks' \subseteq TaskType
      BY <1>0, <1>13, MovedTyped DEF CompleteThrows, TaskPositions
    <2> QED
      BY <1>0, <1>1, <1>13, <2>1, <2>2 DEF CompleteThrows, TypeOK
  <1>14. ASSUME NEW t \in tasks, Fail(t)
         PROVE  TypeOK'
    <2>1. row' \in [Jobs -> RowType]
      BY <1>11, <1>14, RowsTyped DEF Fail
    <2> QED
      BY <1>0, <1>14, <2>1 DEF Fail, TypeOK
  <1>15. ASSUME NEW t \in tasks, Cancel(t)
         PROVE  TypeOK'
    <2>1. row' \in [Jobs -> RowType]
      BY <1>11, <1>15, RowsTyped DEF Cancel
    <2> QED
      BY <1>0, <1>15, <2>1 DEF Cancel, TypeOK
  <1>16. ASSUME NEW t \in tasks, EndThrows(t)
         PROVE  TypeOK'
    <2>1. row' \in [Jobs -> RowType]
      BY <1>0, <1>11, <1>16, RowsTyped DEF EndThrows
    <2>2. tasks' \subseteq TaskType
      <3>1. \A u \in tasks : [u EXCEPT !.awaited = FALSE] \in TaskType
        BY <1>0, TaskUpdates
      <3> QED
        BY <1>0, <1>16, <3>1 DEF EndThrows
    <2>3. phase' \in [Runners -> {"idle", "claiming", "draining"}]
      BY <1>0, <1>16 DEF EndThrows
    <2> QED
      BY <1>0, <1>1, <1>16, <2>1, <2>2, <2>3 DEF EndThrows, TypeOK
  <1>17. ASSUME NEW j \in Jobs, Enqueue(j)
         PROVE  TypeOK'
    <2>1. InsertRow(0) \in RowType
      BY InsertRowType
    <2>2. row' \in [Jobs -> RowType]
      BY <1>17, <2>1, RowsTyped DEF Enqueue
    <2> QED
      BY <1>0, <1>17, <2>2 DEF Enqueue, TypeOK
  <1>18. ASSUME NEW j \in Jobs, Retry(j)
         PROVE  TypeOK'
    <2>1. RetryRow(row[j], 0) \in RowType
      BY <1>0, <1>18, RetryRowType DEF Retry
    <2>2. row' \in [Jobs -> RowType]
      BY <1>18, <2>1, RowsTyped DEF Retry
    <2> QED
      BY <1>0, <1>1, <1>18, <2>2 DEF Retry, TypeOK
  <1>19. ASSUME NEW j \in Jobs, InlineEnqueue(j)
         PROVE  TypeOK'
    <2>1. row' \in [Jobs -> RowType]
      BY <1>19, InsertRowType, RowsTyped DEF InlineEnqueue
    <2> QED
      BY <1>0, <1>19, <2>1 DEF InlineEnqueue, TypeOK
  <1>20. ASSUME NEW j \in Jobs, InlineStart(j)
         PROVE  TypeOK'
    <2>1. LeaseRow(row[j], Skew[Inline]) \in RowType
      BY <1>0, LeaseRowType
    <2>2. row' \in [Jobs -> RowType]
      BY <1>20, <2>1, RowsTyped DEF InlineStart
    <2>3. row'[j].epoch \in Nat
      BY <2>2, RowFields
    <2>4. \A a \in {"exec", "ok"} :
            [proc |-> Inline, job |-> j, epoch |-> row'[j].epoch, at |-> a, awaited |-> FALSE] \in TaskType
      BY <2>3, NewTask DEF TaskPositions
    <2>5. tasks' \subseteq TaskType
      BY <1>0, <1>20, <2>4 DEF InlineStart
    <2>6. stage' \in [InlineJobs -> {"new", "starting", "over"}]
      BY <1>0, <1>20 DEF InlineStart
    <2> QED
      BY <1>0, <1>20, <2>2, <2>5, <2>6 DEF InlineStart, TypeOK
  <1>21. ASSUME NEW j \in Jobs, InlineRefused(j)
         PROVE  TypeOK'
    BY <1>0, <1>21 DEF InlineRefused, TypeOK
  <1>22. ASSUME NEW p \in Procs, Crash(p)
         PROVE  TypeOK'
    BY <1>0, <1>1, <1>22 DEF Crash, TypeOK
  <1>23. CASE UNCHANGED vars
    BY <1>0, <1>23 DEF vars, TypeOK
  <1> QED
    BY <1>2, <1>3, <1>4, <1>5, <1>6, <1>7, <1>8, <1>9, <1>10, <1>12, <1>13, <1>14, <1>15,
       <1>16, <1>17, <1>18, <1>19, <1>20, <1>21, <1>22, <1>23
    DEF Next, RunnerStep, TaskStep, JobStep

(* Type correctness: the job table, the runners' phases, the claim locks and  *)
(* the tasks stay in their types, whatever faults and clocks do.              *)
THEOREM JobsTypeCorrect == Spec => []TypeOK
  BY RunnerTypeInit, RunnerTypeStep, PTL DEF Spec

-----------------------------------------------------------------------------
(* The inductive invariant about leases.  A row locked by a claim stays       *)
(* pending until the claim commits, and one claim locks it; a row that was    *)
(* never inserted is blank; an inline stage that has not begun has no row.    *)
(* Together with these, one holder per lease is inductive.                    *)
SelPending ==
    /\ \A w \in Runners : sel[w] # NoJob => row[sel[w]].status = "pending"
    /\ \A v, w \in Runners : sel[v] = sel[w] /\ sel[v] # NoJob => v = w
AbsentBlank == \A j \in Jobs : row[j].status = "absent" => row[j] = NoRow
StageFresh == \A j \in InlineJobs : stage[j] = "new" => row[j].status = "absent"

LeaseInv == TypeOK /\ SelPending /\ AbsentBlank /\ StageFresh /\ OneLeaseHolder

LEMMA LifeParts ==
    ASSUME NEW x, NEW s, NEW n, NEW g, NEW o, LifeOf(x) = Life(s, n, g, o)
    PROVE  x.status = s /\ x.attempts = n /\ x.epoch = g /\ x.output = o
  <1>1. /\ LifeOf(x).status = x.status /\ LifeOf(x).tries = x.attempts
        /\ LifeOf(x).gen = x.epoch /\ LifeOf(x).result = x.output
    BY DEF LifeOf
  <1> QED
    BY <1>1, LifeUpdates

(* What a write-back does to status and epoch, whether it applies or not.     *)
LEMMA WriteBacks ==
    ASSUME NEW j \in Jobs, NEW r \in RowType, NEW e \in Nat, NEW d \in Int
    PROVE  /\ CompleteRow(r, e, e) = r \/
                (/\ r.status = "running" /\ CompleteRow(r, e, e).status = "done"
                 /\ CompleteRow(r, e, e).epoch = r.epoch)
           /\ FailRow(j, r, e, d) = r \/
                (/\ r.status = "running" /\ FailRow(j, r, e, d).status \in {"pending", "failed"}
                 /\ FailRow(j, r, e, d).epoch = r.epoch)
           /\ CancelRow(r) = r \/
                (/\ r.status \in InFlightStatuses /\ CancelRow(r).status = "cancelled"
                 /\ CancelRow(r).epoch = r.epoch)
           /\ RenewRow(r, e, d).status = r.status /\ RenewRow(r, e, d).epoch = r.epoch
  <1>1. ASSUME Owned(r, e)
        PROVE  /\ r.status = "running"
               /\ CompleteRow(r, e, e).status = "done" /\ CompleteRow(r, e, e).epoch = r.epoch
    <2>1. LifeOf(CompleteRow(r, e, e)) = Life("done", r.attempts, r.epoch, e)
      BY <1>1, CompleteRowType
    <2> QED
      BY <1>1, <2>1, LifeParts DEF Owned
  <1>2. ASSUME Owned(r, e)
        PROVE  FailRow(j, r, e, d).status \in {"pending", "failed"} /\ FailRow(j, r, e, d).epoch = r.epoch
    <2>1. FailRow(j, r, e, d) = UseAttempt(j, r, d)
      BY <1>2, FailRowType
    <2> QED
      BY <2>1, UseAttemptType
  <1>3. ~Owned(r, e) => CompleteRow(r, e, e) = r /\ FailRow(j, r, e, d) = r
    BY CompleteRowType, FailRowType
  <1>4. ASSUME r.status \in InFlightStatuses
        PROVE  CancelRow(r).status = "cancelled" /\ CancelRow(r).epoch = r.epoch
    <2>1. LifeOf(CancelRow(r)) = Life("cancelled", r.attempts, r.epoch, r.output)
      BY <1>4, CancelRowType
    <2> QED
      BY <2>1, LifeParts
  <1>5. r.status \notin InFlightStatuses => CancelRow(r) = r
    BY CancelRowType
  <1>6. RenewRow(r, e, d).status = r.status /\ RenewRow(r, e, d).epoch = r.epoch
    BY RenewRowType DEF LifeOf
  <1> QED
    BY <1>1, <1>2, <1>3, <1>4, <1>5, <1>6

(* A step on the table that inserts nothing and leaves locked rows alone.     *)
SafeRows ==
    \A i \in Jobs :
        /\ row'[i].status = "absent" => row'[i] = row[i]
        /\ row[i].status = "absent" => row'[i].status = "absent"
        /\ Locked(i) => row'[i].status = row[i].status
        /\ row'[i].epoch >= row[i].epoch

LEMMA SameRowsSafe ==
    ASSUME TypeOK, row' = row
    PROVE  SafeRows
  <1>1. \A i \in Jobs : row[i].epoch \in Nat
    BY RowFields DEF TypeOK
  <1> QED
    BY <1>1 DEF SafeRows

LEMMA OneRowSafe ==
    ASSUME TypeOK, NEW j \in Jobs, NEW x, row' = [row EXCEPT ![j] = x],
           \/ x = row[j]
           \/ /\ row[j].status # "absent" /\ x.status # "absent"
              /\ x.epoch = row[j].epoch
              /\ Locked(j) => x.status = row[j].status
    PROVE  SafeRows
  <1>1. \A i \in Jobs : row[i].epoch \in Nat
    BY RowFields DEF TypeOK
  <1>2. \A i \in Jobs : row'[i] = IF i = j THEN x ELSE row[i]
    BY DEF TypeOK
  <1> QED
    BY <1>1, <1>2 DEF SafeRows

LEMMA SafeRowsKeep ==
    ASSUME LeaseInv, TypeOK', SafeRows,
           \A w \in Runners : sel'[w] = sel[w] \/ sel'[w] = NoJob,
           \A j \in InlineJobs : stage'[j] = "new" => stage[j] = "new"
    PROVE  SelPending' /\ AbsentBlank' /\ StageFresh'
  <1>1. \A w \in Runners : sel[w] # NoJob => sel[w] \in Jobs /\ Locked(sel[w]) /\ row[sel[w]].status = "pending"
    BY DEF LeaseInv, TypeOK, SelPending, Locked
  <1>2. SelPending'
    BY <1>1 DEF SelPending, LeaseInv, SafeRows
  <1>3. AbsentBlank'
    BY DEF AbsentBlank, LeaseInv, SafeRows
  <1>4. StageFresh'
    BY JobSetsAssumption DEF StageFresh, LeaseInv, SafeRows
  <1> QED
    BY <1>2, <1>3, <1>4

EpochsGrow == \A i \in Jobs : row'[i].epoch >= row[i].epoch

(* Leases carried on: every task of the new state descends from one of the    *)
(* old state with the same lease, and no two descend from the same.           *)
LEMMA HoldersKept ==
    ASSUME LeaseInv, TypeOK', EpochsGrow,
           \A u \in tasks' : \E t \in tasks : t.job = u.job /\ t.epoch = u.epoch,
           \A u, v \in tasks' : u.job = v.job /\ u.epoch = v.epoch => u = v
    PROVE  OneLeaseHolder'
  <1>1. ASSUME NEW u \in tasks'
        PROVE  1 <= u.epoch /\ u.epoch <= row'[u.job].epoch
    <2>1. PICK t \in tasks : t.job = u.job /\ t.epoch = u.epoch
      OBVIOUS
    <2>2. t.job \in Jobs /\ t.epoch \in Nat
      BY TaskFields DEF LeaseInv, TypeOK
    <2>3. 1 <= t.epoch /\ t.epoch <= row[t.job].epoch
      BY DEF LeaseInv, OneLeaseHolder
    <2>4. row[t.job].epoch \in Nat /\ row'[t.job].epoch \in Nat
      BY <2>2, RowFields DEF LeaseInv, TypeOK
    <2>5. row'[t.job].epoch >= row[t.job].epoch
      BY <2>2 DEF EpochsGrow
    <2> QED
      BY <2>1, <2>2, <2>3, <2>4, <2>5
  <1> QED
    BY <1>1 DEF OneLeaseHolder

LEMMA SubsetKept ==
    ASSUME LeaseInv, TypeOK', EpochsGrow, tasks' \subseteq tasks
    PROVE  OneLeaseHolder'
  <1>1. \A u, v \in tasks' : u.job = v.job /\ u.epoch = v.epoch => u = v
    BY DEF LeaseInv, OneLeaseHolder
  <1>2. \A u \in tasks' : \E t \in tasks : t.job = u.job /\ t.epoch = u.epoch
    OBVIOUS
  <1> QED
    BY <1>1, <1>2, HoldersKept

LEMMA MovedKept ==
    ASSUME LeaseInv, TypeOK', EpochsGrow, NEW t \in tasks, NEW a \in TaskPositions, Moved(t, a)
    PROVE  OneLeaseHolder'
  <1> DEFINE m == [t EXCEPT !.at = a]
  <1>1. m.job = t.job /\ m.epoch = t.epoch
    BY TaskUpdates DEF LeaseInv, TypeOK
  <1>2. tasks' = (tasks \ {t}) \cup {m}
    BY DEF Moved
  <1> HIDE DEF m
  <1>3. \A u \in tasks' : \E v \in tasks : v.job = u.job /\ v.epoch = u.epoch
    BY <1>1, <1>2
  <1>4. \A u, v \in tasks : u.job = v.job /\ u.epoch = v.epoch => u = v
    BY DEF LeaseInv, OneLeaseHolder
  <1>5. \A u, v \in tasks' : u.job = v.job /\ u.epoch = v.epoch => u = v
    BY <1>1, <1>2, <1>4
  <1> QED
    BY <1>3, <1>5, HoldersKept

(* A new lease has an epoch above every lease handed out before.              *)
LEMMA LeaseTaken ==
    ASSUME LeaseInv, TypeOK', NEW j \in Jobs, NEW n \in tasks',
           row'[j].epoch = row[j].epoch + 1,
           \A i \in Jobs \ {j} : row'[i] = row[i],
           n.job = j, n.epoch = row'[j].epoch, tasks' = tasks \cup {n}
    PROVE  OneLeaseHolder'
  <1>1. \A i \in Jobs : row[i].epoch \in Nat
    BY RowFields DEF LeaseInv, TypeOK
  <1>2. \A t \in tasks : t.job \in Jobs /\ t.epoch \in Nat /\ 1 <= t.epoch /\ t.epoch <= row[t.job].epoch
    BY TaskFields DEF LeaseInv, TypeOK, OneLeaseHolder
  <1>3. \A t \in tasks : ~(t.job = n.job /\ t.epoch = n.epoch)
    BY <1>1, <1>2
  <1>4. \A t \in tasks : 1 <= t.epoch /\ t.epoch <= row'[t.job].epoch
    BY <1>1, <1>2
  <1>5. 1 <= n.epoch /\ n.epoch <= row'[n.job].epoch
    BY <1>1
  <1>6. \A t, u \in tasks : t.job = u.job /\ t.epoch = u.epoch => t = u
    BY DEF LeaseInv, OneLeaseHolder
  <1> QED
    BY <1>3, <1>4, <1>5, <1>6 DEF OneLeaseHolder

LEMMA LeaseInit == Init => LeaseInv
  <1> SUFFICES ASSUME Init
               PROVE  LeaseInv
    OBVIOUS
  <1>1. TypeOK
    BY RunnerTypeInit
  <1>2. SelPending /\ AbsentBlank /\ StageFresh /\ OneLeaseHolder
    BY JobSetsAssumption DEF Init, SelPending, AbsentBlank, StageFresh, OneLeaseHolder, NoRow
  <1> QED
    BY <1>1, <1>2 DEF LeaseInv

LEMMA LeaseStep == LeaseInv /\ [Next]_vars => LeaseInv'
  <1> SUFFICES ASSUME LeaseInv, [Next]_vars
               PROVE  LeaseInv'
    OBVIOUS
  <1> USE ClockFacts, JobSetsAssumption
  <1>0. TypeOK /\ TypeOK'
    BY RunnerTypeStep DEF LeaseInv
  <1>1. /\ row \in [Jobs -> RowType] /\ sel \in [Runners -> Jobs \cup {NoJob}]
        /\ stage \in [InlineJobs -> {"new", "starting", "over"}] /\ tasks \subseteq TaskType
        /\ \A t \in tasks : t \in TaskType /\ t.job \in Jobs /\ t.epoch \in Nat
        /\ \A j \in Jobs : row[j] \in RowType /\ row[j].epoch \in Nat
    BY <1>0, TaskFields, RowFields DEF TypeOK
  <1>2. SafeRows => EpochsGrow
    BY DEF SafeRows, EpochsGrow
  <1>3. \A j \in Jobs : Locked(j) => row[j].status = "pending"
    BY DEF LeaseInv, SelPending, Locked
  <1> DEFINE Table == SelPending' /\ AbsentBlank' /\ StageFresh'
             SelKept == \A w \in Runners : sel'[w] = sel[w] \/ sel'[w] = NoJob
             StageKept == \A j \in InlineJobs : stage'[j] = "new" => stage[j] = "new"
  <1>4. SUFFICES Table /\ OneLeaseHolder'
    BY <1>0 DEF LeaseInv
  <1>5. SafeRows /\ SelKept /\ StageKept => Table
    BY <1>0, SafeRowsKeep
  <1>6. SafeRows /\ tasks' \subseteq tasks => OneLeaseHolder'
    BY <1>0, <1>2, SubsetKept
  <1> HIDE DEF Table, SelKept, StageKept
  <1>7. sel' = sel => SelKept
    BY DEF SelKept
  <1>8. stage' = stage => StageKept
    BY DEF StageKept
  <1>10. CASE Tick
    <2>1. ASSUME NEW i \in Jobs
          PROVE  row'[i].status = row[i].status /\ row'[i].epoch = row[i].epoch
      <3>1. row[i] \in RowType
        BY <1>1
      <3>2. \/ row'[i] = [row[i] EXCEPT !.age = row[i].age + 1]
            \/ row'[i] = [row[i] EXCEPT !.delay = row[i].delay - 1]
            \/ row'[i] = row[i]
        BY <1>10 DEF Tick
      <3> QED
        BY <3>1, <3>2 DEF RowType
    <2>2. \A i \in Jobs : row[i].status = "absent" => row'[i] = row[i]
      BY <1>10 DEF Tick
    <2>3. SafeRows
      BY <1>1, <2>1, <2>2 DEF SafeRows
    <2> QED
      BY <1>5, <1>6, <1>7, <1>8, <1>10, <2>3 DEF Tick
  <1>11. ASSUME NEW w \in Runners, TickSweep(w)
         PROVE  Table /\ OneLeaseHolder'
    <2>1. ASSUME NEW i \in Jobs
          PROVE  \/ row'[i] = row[i]
                 \/ /\ row[i].status = "running" /\ row'[i].status \in {"pending", "failed"}
                    /\ row'[i].epoch = row[i].epoch + 1
      <3>1. row'[i] = SweepRow(i, row[i], Skew[w])
        BY <1>11 DEF TickSweep
      <3> QED
        BY <1>1, <3>1, SweepRowType DEF Expired
    <2>2. SafeRows
      BY <1>1, <1>3, <2>1 DEF SafeRows
    <2> QED
      BY <1>5, <1>6, <1>7, <1>8, <1>11, <2>2 DEF TickSweep
  <1>12. ASSUME NEW w \in Runners, ClaimSelect(w)
         PROVE  Table /\ OneLeaseHolder'
    <2>1. PICK j \in Jobs : row[j].status = "pending" /\ ~Locked(j) /\ sel' = [sel EXCEPT ![w] = j]
      BY <1>12 DEF ClaimSelect, ClaimOrder, Candidates, Claimable
    <2>2. SelPending'
      BY <1>1, <1>12, <2>1 DEF ClaimSelect, SelPending, LeaseInv, Locked
    <2>3. AbsentBlank' /\ StageFresh'
      BY <1>12 DEF ClaimSelect, AbsentBlank, StageFresh, LeaseInv
    <2>4. SafeRows
      BY <1>0, <1>12, SameRowsSafe DEF ClaimSelect
    <2> QED
      BY <1>6, <1>12, <2>2, <2>3, <2>4 DEF ClaimSelect, Table
  <1>13. ASSUME NEW w \in Runners, ClaimCommit(w)
         PROVE  Table /\ OneLeaseHolder'
    <2> DEFINE j == sel[w]
               n == [proc |-> w, job |-> j, epoch |-> row'[j].epoch, at |-> "claimed", awaited |-> TRUE]
    <2>1. j \in Jobs /\ row[j].status = "pending"
      BY <1>1, <1>13 DEF ClaimCommit, LeaseInv, SelPending
    <2>2. /\ row' = [row EXCEPT ![j] = LeaseRow(row[j], Skew[w])]
          /\ tasks' = tasks \cup {n} /\ sel' = [sel EXCEPT ![w] = NoJob] /\ stage' = stage
      BY <1>13 DEF ClaimCommit
    <2>3. n.job = j /\ n.epoch = row'[j].epoch
      OBVIOUS
    <2> HIDE DEF n
    <2>4. row'[j] = LeaseRow(row[j], Skew[w]) /\ \A i \in Jobs \ {j} : row'[i] = row[i]
      BY <1>1, <2>1, <2>2
    <2>5. row'[j].status = "running" /\ row'[j].epoch = row[j].epoch + 1
      <3>1. row[j] \in RowType /\ Skew[w] \in Int
        BY <1>1, <2>1
      <3>2. /\ LeaseRow(row[j], Skew[w]).status = "running"
            /\ LeaseRow(row[j], Skew[w]).epoch = row[j].epoch + 1
        BY <3>1, LeaseRowType
      <3> QED
        BY <2>4, <3>2
    <2>6. OneLeaseHolder'
      BY <1>0, <2>1, <2>2, <2>3, <2>4, <2>5, LeaseTaken
    <2>7. \A v \in Runners : sel'[v] # NoJob => sel'[v] = sel[v] /\ sel[v] \in Jobs \ {j}
      BY <1>1, <2>1, <2>2 DEF LeaseInv, SelPending
    <2>8. SelPending'
      BY <2>4, <2>7 DEF SelPending, LeaseInv
    <2>9. AbsentBlank' /\ StageFresh'
      BY <2>1, <2>2, <2>4, <2>5 DEF AbsentBlank, StageFresh, LeaseInv
    <2> QED
      BY <2>6, <2>8, <2>9 DEF Table
  <1>14. ASSUME NEW w \in Runners, Drain(w)
         PROVE  Table /\ OneLeaseHolder'
    <2> DEFINE F(t) == IF t \in Claimed(w)
                       THEN [t EXCEPT !.at = IF t.job \in Runnable THEN "exec" ELSE "cancel"]
                       ELSE t
    <2>1. row' = row /\ sel' = sel /\ stage' = stage /\ tasks' = {F(t) : t \in tasks}
      BY <1>14 DEF Drain
    <2>2. \A t \in tasks : F(t).job = t.job /\ F(t).epoch = t.epoch
      BY <1>1, TaskUpdates DEF TaskPositions
    <2> HIDE DEF F
    <2>3. SafeRows
      BY <1>0, <2>1, SameRowsSafe
    <2>4. \A u \in tasks' : \E t \in tasks : t.job = u.job /\ t.epoch = u.epoch
      BY <2>1, <2>2
    <2>5. \A t, u \in tasks : t.job = u.job /\ t.epoch = u.epoch => t = u
      BY DEF LeaseInv, OneLeaseHolder
    <2>6. \A u, v \in tasks' : u.job = v.job /\ u.epoch = v.epoch => u = v
      BY <2>1, <2>2, <2>5
    <2>7. OneLeaseHolder'
      BY <1>0, <1>2, <2>3, <2>4, <2>6, HoldersKept
    <2> QED
      BY <1>5, <1>7, <1>8, <2>1, <2>3, <2>7
  <1>15. ASSUME NEW w \in Runners, ClaimThrows(w)
         PROVE  Table /\ OneLeaseHolder'
    <2>1. SafeRows
      BY <1>0, <1>15, SameRowsSafe DEF ClaimThrows
    <2>2. SelKept
      BY <1>1, <1>15 DEF ClaimThrows, SelKept
    <2> QED
      BY <1>5, <1>6, <1>8, <1>15, <2>1, <2>2 DEF ClaimThrows
  <1>16. ASSUME NEW w \in Runners, TickEnds(w)
         PROVE  Table /\ OneLeaseHolder'
    <2>1. SafeRows
      BY <1>0, <1>16, SameRowsSafe DEF TickEnds
    <2> QED
      BY <1>5, <1>6, <1>7, <1>8, <1>16, <2>1 DEF TickEnds
  <1>17. ASSUME NEW t \in tasks, Execute(t)
         PROVE  Table /\ OneLeaseHolder'
    <2>1. SafeRows
      BY <1>0, <1>17, SameRowsSafe DEF Execute
    <2>2. OneLeaseHolder'
      BY <1>0, <1>2, <1>17, <2>1, MovedKept DEF Execute, TaskPositions
    <2> QED
      BY <1>5, <1>7, <1>8, <1>17, <2>1, <2>2 DEF Execute
  <1>18. ASSUME NEW t \in tasks, Renew(t)
         PROVE  Table /\ OneLeaseHolder'
    <2> DEFINE x == RenewRow(row[t.job], RenewalEpoch(t), Skew[t.proc])
    <2>1. t.job \in Jobs /\ RenewalEpoch(t) \in Nat /\ Skew[t.proc] \in Int
      BY <1>1, TaskFields DEF RenewalEpoch
    <2>2. x.status = row[t.job].status /\ x.epoch = row[t.job].epoch
      BY <1>1, <2>1, WriteBacks
    <2>3. row' = [row EXCEPT ![t.job] = x] /\ row[t.job].status = "running"
      BY <1>18 DEF Renew, Owned
    <2> HIDE DEF x
    <2>4. SafeRows
      BY <1>0, <2>1, <2>2, <2>3, OneRowSafe
    <2> QED
      BY <1>5, <1>6, <1>7, <1>8, <1>18, <2>4 DEF Renew
  <1>19. ASSUME NEW t \in tasks, row' = [row EXCEPT ![t.job] = CompleteRow(row[t.job], t.epoch, t.epoch)]
         PROVE  SafeRows
    <2> DEFINE x == CompleteRow(row[t.job], t.epoch, t.epoch)
    <2>1. \/ x = row[t.job]
          \/ row[t.job].status = "running" /\ x.status = "done" /\ x.epoch = row[t.job].epoch
      BY <1>1, WriteBacks
    <2> HIDE DEF x
    <2>2. row' = [row EXCEPT ![t.job] = x] /\ t.job \in Jobs
      BY <1>1, <1>19 DEF x
    <2>3. row[t.job].status = "running" => ~Locked(t.job)
      BY <1>3, <2>2
    <2> QED
      BY <1>0, <2>1, <2>2, <2>3, OneRowSafe
  <1>20. ASSUME NEW t \in tasks, NEW d \in Delays(t),
                row' = [row EXCEPT ![t.job] = FailRow(t.job, row[t.job], t.epoch, d)]
         PROVE  SafeRows
    <2> DEFINE x == FailRow(t.job, row[t.job], t.epoch, d)
    <2>1. \/ x = row[t.job]
          \/ /\ row[t.job].status = "running" /\ x.status \in {"pending", "failed"}
             /\ x.epoch = row[t.job].epoch
      <3>1. t.job \in Jobs /\ row[t.job] \in RowType /\ t.epoch \in Nat /\ d \in Int
        BY <1>1
      <3> QED
        BY <3>1, WriteBacks
    <2> HIDE DEF x
    <2>2. row' = [row EXCEPT ![t.job] = x] /\ t.job \in Jobs
      BY <1>1, <1>20 DEF x
    <2>3. row[t.job].status = "running" => ~Locked(t.job)
      BY <1>3, <2>2
    <2> QED
      BY <1>0, <2>1, <2>2, <2>3, OneRowSafe
  <1>21. ASSUME NEW t \in tasks, ~Locked(t.job), row' = [row EXCEPT ![t.job] = CancelRow(row[t.job])]
         PROVE  SafeRows
    <2> DEFINE x == CancelRow(row[t.job])
    <2>1. \/ x = row[t.job]
          \/ /\ row[t.job].status \in InFlightStatuses /\ x.status = "cancelled"
             /\ x.epoch = row[t.job].epoch
      <3>1. t.job \in Jobs /\ row[t.job] \in RowType /\ 0 \in Nat /\ 0 \in Int
        BY <1>1
      <3> QED
        BY <3>1, WriteBacks
    <2> HIDE DEF x
    <2>2. row' = [row EXCEPT ![t.job] = x] /\ t.job \in Jobs
      BY <1>1, <1>21 DEF x
    <2> QED
      BY <1>0, <1>21, <2>1, <2>2, OneRowSafe DEF InFlightStatuses
  <1>22. ASSUME NEW t \in tasks, Complete(t)
         PROVE  Table /\ OneLeaseHolder'
    <2>1. SafeRows
      BY <1>19, <1>22 DEF Complete
    <2> QED
      BY <1>5, <1>6, <1>7, <1>8, <1>22, <2>1 DEF Complete
  <1>23. ASSUME NEW t \in tasks, CompleteThrows(t)
         PROVE  Table /\ OneLeaseHolder'
    <2>1. SafeRows
      BY <1>0, <1>19, <1>23, SameRowsSafe DEF CompleteThrows
    <2>2. OneLeaseHolder'
      BY <1>0, <1>2, <1>23, <2>1, MovedKept DEF CompleteThrows, TaskPositions
    <2> QED
      BY <1>5, <1>7, <1>8, <1>23, <2>1, <2>2 DEF CompleteThrows
  <1>24. ASSUME NEW t \in tasks, Fail(t)
         PROVE  Table /\ OneLeaseHolder'
    <2>1. SafeRows
      BY <1>20, <1>24 DEF Fail
    <2> QED
      BY <1>5, <1>6, <1>7, <1>8, <1>24, <2>1 DEF Fail
  <1>25. ASSUME NEW t \in tasks, Cancel(t)
         PROVE  Table /\ OneLeaseHolder'
    <2>1. SafeRows
      BY <1>21, <1>25 DEF Cancel
    <2> QED
      BY <1>5, <1>6, <1>7, <1>8, <1>25, <2>1 DEF Cancel
  <1>26. ASSUME NEW t \in tasks, EndThrows(t)
         PROVE  Table /\ OneLeaseHolder'
    <2> DEFINE F(u) == IF u.proc = t.proc THEN [u EXCEPT !.awaited = FALSE] ELSE u
    <2>1. SafeRows
      BY <1>0, <1>20, <1>21, <1>26, SameRowsSafe DEF EndThrows
    <2>2. sel' = sel /\ stage' = stage
      BY <1>26 DEF EndThrows
    <2>3. \A u \in tasks : F(u).job = u.job /\ F(u).epoch = u.epoch
      BY <1>1, TaskUpdates
    <2>4. tasks' = {F(u) : u \in tasks \ {t}} \/ tasks' = tasks \ {t}
      BY <1>26 DEF EndThrows
    <2> HIDE DEF F
    <2>5. \A u \in tasks' : \E v \in tasks : v.job = u.job /\ v.epoch = u.epoch
      BY <2>3, <2>4
    <2>6. \A u, v \in tasks : v.job = u.job /\ v.epoch = u.epoch => u = v
      BY DEF LeaseInv, OneLeaseHolder
    <2>7. \A u, v \in tasks' : u.job = v.job /\ u.epoch = v.epoch => u = v
      BY <2>3, <2>4, <2>6
    <2>8. OneLeaseHolder'
      BY <1>0, <1>2, <2>1, <2>5, <2>7, HoldersKept
    <2> QED
      BY <1>5, <1>7, <1>8, <2>1, <2>2, <2>8
  <1>27. ASSUME NEW j \in Jobs, NEW d \in Int, row[j].status = "absent",
                row' = [row EXCEPT ![j] = InsertRow(d)],
                sel' = sel, tasks' = tasks, StageKept, j \in InlineJobs => stage'[j] # "new"
         PROVE  Table /\ OneLeaseHolder'
    <2>1. row[j] = NoRow
      BY <1>27 DEF LeaseInv, AbsentBlank
    <2>2. LifeOf(InsertRow(d)) = Life("pending", 0, 0, 0)
      BY <1>27, InsertRowType
    <2>3. row'[j].status = "pending" /\ row'[j].epoch = 0 /\ row[j].epoch = 0
      BY <1>1, <1>27, <2>1, <2>2, LifeParts DEF NoRow
    <2>4. \A i \in Jobs \ {j} : row'[i] = row[i]
      BY <1>1, <1>27
    <2>5. EpochsGrow
      BY <1>1, <2>3, <2>4 DEF EpochsGrow
    <2>6. OneLeaseHolder'
      BY <1>0, <1>27, <2>5, SubsetKept
    <2>7. SelPending'
      BY <1>1, <1>27, <2>3, <2>4 DEF SelPending, LeaseInv
    <2>8. AbsentBlank' /\ StageFresh'
      BY <1>27, <2>3, <2>4 DEF AbsentBlank, StageFresh, LeaseInv, StageKept
    <2> QED
      BY <2>6, <2>7, <2>8 DEF Table
  <1>28. ASSUME NEW j \in Jobs, Enqueue(j)
         PROVE  Table /\ OneLeaseHolder'
    <2>1. 0 \in Int /\ row' = [row EXCEPT ![j] = InsertRow(0)]
      BY <1>28 DEF Enqueue
    <2> QED
      BY <1>8, <1>27, <1>28, <2>1 DEF Enqueue
  <1>29. ASSUME NEW j \in Jobs, Retry(j)
         PROVE  Table /\ OneLeaseHolder'
    <2> DEFINE x == RetryRow(row[j], 0)
    <2>1. row' = [row EXCEPT ![j] = x] /\ row[j].status \in {"failed", "cancelled"}
      BY <1>29 DEF Retry
    <2>2. x.status = "pending" /\ x.epoch = row[j].epoch
      BY <1>1, <2>1, RetryRowType
    <2> HIDE DEF x
    <2>3. ~Locked(j)
      BY <1>3, <2>1
    <2>4. SafeRows
      BY <1>0, <2>1, <2>2, <2>3, OneRowSafe
    <2> QED
      BY <1>5, <1>6, <1>7, <1>8, <1>29, <2>4 DEF Retry
  <1>30. ASSUME NEW j \in Jobs, InlineEnqueue(j)
         PROVE  Table /\ OneLeaseHolder'
    <2>1. /\ j \in InlineJobs /\ stage[j] = "new" /\ stage' = [stage EXCEPT ![j] = "starting"]
          /\ row' = [row EXCEPT ![j] = InsertRow(Skew[Inline])] /\ sel' = sel /\ tasks' = tasks
      BY <1>30 DEF InlineEnqueue
    <2>2. row[j].status = "absent"
      BY <2>1 DEF LeaseInv, StageFresh
    <2>3. StageKept /\ stage'[j] # "new"
      BY <1>1, <2>1 DEF StageKept
    <2> QED
      BY <1>27, <2>1, <2>2, <2>3
  <1>31. ASSUME NEW j \in Jobs, InlineStart(j)
         PROVE  Table /\ OneLeaseHolder'
    <2>1. PICK a \in {"exec", "ok"} : tasks' = tasks \cup
            {[proc |-> Inline, job |-> j, epoch |-> row'[j].epoch, at |-> a, awaited |-> FALSE]}
      BY <1>31 DEF InlineStart
    <2> DEFINE n == [proc |-> Inline, job |-> j, epoch |-> row'[j].epoch, at |-> a, awaited |-> FALSE]
    <2>2. n.job = j /\ n.epoch = row'[j].epoch /\ tasks' = tasks \cup {n}
      BY <2>1
    <2> HIDE DEF n
    <2>3. /\ row' = [row EXCEPT ![j] = LeaseRow(row[j], Skew[Inline])] /\ sel' = sel
          /\ stage' = [stage EXCEPT ![j] = "over"] /\ row[j].status = "pending" /\ ~Locked(j)
      BY <1>31 DEF InlineStart
    <2>4. row'[j] = LeaseRow(row[j], Skew[Inline]) /\ \A i \in Jobs \ {j} : row'[i] = row[i]
      BY <1>1, <2>3
    <2>5. row'[j].status = "running" /\ row'[j].epoch = row[j].epoch + 1
      <3>1. row[j] \in RowType /\ Skew[Inline] \in Int
        BY <1>1
      <3>2. /\ LeaseRow(row[j], Skew[Inline]).status = "running"
            /\ LeaseRow(row[j], Skew[Inline]).epoch = row[j].epoch + 1
        BY <3>1, LeaseRowType
      <3> QED
        BY <2>4, <3>2
    <2>6. OneLeaseHolder'
      BY <1>0, <2>2, <2>4, <2>5, LeaseTaken
    <2>7. \A v \in Runners : sel'[v] # NoJob => sel[v] \in Jobs \ {j}
      BY <1>1, <2>3 DEF Locked
    <2>8. SelPending'
      BY <2>3, <2>4, <2>7 DEF SelPending, LeaseInv
    <2>9. AbsentBlank' /\ StageFresh'
      BY <1>1, <2>3, <2>4, <2>5 DEF AbsentBlank, StageFresh, LeaseInv
    <2> QED
      BY <2>6, <2>8, <2>9 DEF Table
  <1>32. ASSUME NEW j \in Jobs, InlineRefused(j)
         PROVE  Table /\ OneLeaseHolder'
    <2>1. SafeRows
      BY <1>0, <1>32, SameRowsSafe DEF InlineRefused
    <2>2. StageKept
      BY <1>1, <1>32 DEF InlineRefused, StageKept
    <2> QED
      BY <1>5, <1>6, <1>7, <1>32, <2>1, <2>2 DEF InlineRefused
  <1>33. ASSUME NEW p \in Procs, Crash(p)
         PROVE  Table /\ OneLeaseHolder'
    <2>1. SafeRows
      BY <1>0, <1>33, SameRowsSafe DEF Crash
    <2>2. SelKept /\ StageKept
      BY <1>1, <1>33 DEF Crash, SelKept, StageKept
    <2> QED
      BY <1>5, <1>6, <1>33, <2>1, <2>2 DEF Crash
  <1>34. CASE UNCHANGED vars
    <2>1. SafeRows
      BY <1>0, <1>34, SameRowsSafe DEF vars
    <2> QED
      BY <1>5, <1>6, <1>7, <1>8, <1>34, <2>1 DEF vars
  <1> QED
    BY <1>10, <1>11, <1>12, <1>13, <1>14, <1>15, <1>16, <1>17, <1>18, <1>22, <1>23, <1>24,
       <1>25, <1>26, <1>28, <1>29, <1>30, <1>31, <1>32, <1>33, <1>34
    DEF Next, RunnerStep, TaskStep, JobStep

(* A lease has one holder: no two tasks, in one process or in two, ever carry *)
(* the same epoch of a job, and none carries an epoch not yet issued.         *)
THEOREM LeaseHolderUnique == Spec => []OneLeaseHolder
  <1>1. LeaseInv => OneLeaseHolder
    BY DEF LeaseInv
  <1> QED
    BY <1>1, LeaseInit, LeaseStep, PTL DEF Spec

-----------------------------------------------------------------------------
(* The tenant cap.  Every runner that is choosing a row counts against the    *)
(* cap in advance: those rows and the running ones of a tenant, inline stages *)
(* aside, never exceed the limit by more than the other runners.              *)
RunningQueued(o) == {j \in Jobs \ InlineJobs : row[j].status = "running" /\ Tenant[j] = o}
Choosing(o) == {w \in Runners : sel[w] \in Jobs \ InlineJobs /\ Tenant[sel[w]] = o}

CapInv ==
    TenantLimit > 0 =>
        \A o \in {Tenant[j] : j \in Jobs} \ {NoTenant} :
            Cardinality(RunningQueued(o)) + Cardinality(Choosing(o))
               <= TenantLimit + Cardinality(Runners) - 1

LEMMA CapSets ==
    ASSUME NEW o
    PROVE  /\ IsFiniteSet(RunningQueued(o)) /\ IsFiniteSet(Choosing(o)) /\ IsFiniteSet(Runners)
           /\ Cardinality(RunningQueued(o)) \in Nat /\ Cardinality(Choosing(o)) \in Nat
           /\ Cardinality(Runners) \in Nat /\ Cardinality(Choosing(o)) <= Cardinality(Runners)
           /\ TenantLimit \in Nat
  <1>1. RunningQueued(o) \in SUBSET Jobs /\ Choosing(o) \in SUBSET Runners
    BY DEF RunningQueued, Choosing
  <1> QED
    BY <1>1, JobsAssumption, RunnersAssumption, TableAssumption, FS_Subset, FS_CardinalityType

LEMMA CapInit == Init => CapInv
  <1> SUFFICES ASSUME Init, TenantLimit > 0, NEW o
               PROVE  Cardinality(RunningQueued(o)) + Cardinality(Choosing(o))
                         <= TenantLimit + Cardinality(Runners) - 1
    BY DEF CapInv
  <1>1. RunningQueued(o) = {} /\ Choosing(o) = {}
    BY JobSetsAssumption DEF Init, NoRow, RunningQueued, Choosing
  <1> QED
    BY <1>1, CapSets, FS_EmptySet

(* Nobody starts running and nobody chooses: the sets only shrink.            *)
NobodyStarts == \A i \in Jobs : row'[i].status = "running" => row[i].status = "running"
NobodyChooses == \A w \in Runners : sel'[w] = sel[w] \/ sel'[w] = NoJob

LEMMA Shrinks ==
    ASSUME CapInv, \A i \in Jobs \ InlineJobs : row'[i].status = "running" => row[i].status = "running",
           NobodyChooses
    PROVE  CapInv'
  <1> SUFFICES ASSUME TenantLimit > 0, NEW o \in {Tenant[j] : j \in Jobs} \ {NoTenant}
               PROVE  Cardinality(RunningQueued(o)') + Cardinality(Choosing(o)')
                         <= TenantLimit + Cardinality(Runners) - 1
    BY DEF CapInv
  <1>1. RunningQueued(o)' \in SUBSET RunningQueued(o) /\ Choosing(o)' \in SUBSET Choosing(o)
    BY JobSetsAssumption DEF RunningQueued, Choosing, NobodyChooses
  <1>2. /\ Cardinality(RunningQueued(o)') <= Cardinality(RunningQueued(o))
        /\ Cardinality(Choosing(o)') <= Cardinality(Choosing(o))
        /\ Cardinality(RunningQueued(o)') \in Nat /\ Cardinality(Choosing(o)') \in Nat
    BY <1>1, CapSets, FS_Subset, FS_CardinalityType
  <1> QED
    BY <1>2, CapSets DEF CapInv

LEMMA OneRowNoStart ==
    ASSUME TypeOK, NEW j \in Jobs, NEW x, row' = [row EXCEPT ![j] = x],
           x.status = row[j].status \/ x.status # "running" \/ row[j].status = "running"
    PROVE  NobodyStarts
  <1>1. \A i \in Jobs : row'[i] = IF i = j THEN x ELSE row[i]
    BY DEF TypeOK
  <1> QED
    BY <1>1 DEF NobodyStarts

(* Every step but the three that claim or start leaves the sets to shrink.    *)
LEMMA OthersShrink ==
    ASSUME TypeOK, [Next]_vars,
           \A w \in Runners : ~ClaimSelect(w) /\ ~ClaimCommit(w),
           \A j \in Jobs : ~InlineStart(j)
    PROVE  NobodyStarts /\ NobodyChooses
  <1> USE ClockFacts, JobSetsAssumption
  <1>0. /\ \A i \in Jobs : row[i] \in RowType
        /\ \A t \in tasks : t \in TaskType /\ t.job \in Jobs /\ t.epoch \in Nat /\ row[t.job] \in RowType
    BY TaskFields DEF TypeOK
  <1>1. row' = row => NobodyStarts
    BY DEF NobodyStarts
  <1>2. sel' = sel => NobodyChooses
    BY DEF NobodyChooses
  <1>3. CASE Tick
    <2>1. ASSUME NEW i \in Jobs PROVE row'[i].status = row[i].status
      <3>1. row[i] \in RowType
        BY <1>0
      <3>2. \/ row'[i] = [row[i] EXCEPT !.age = row[i].age + 1]
            \/ row'[i] = [row[i] EXCEPT !.delay = row[i].delay - 1]
            \/ row'[i] = row[i]
        BY <1>3 DEF Tick
      <3> QED
        BY <3>1, <3>2 DEF RowType
    <2> QED
      BY <1>2, <1>3, <2>1 DEF Tick, NobodyStarts
  <1>4. ASSUME NEW w \in Runners, TickSweep(w) PROVE NobodyStarts /\ NobodyChooses
    <2>1. ASSUME NEW i \in Jobs, row'[i].status = "running" PROVE row[i].status = "running"
      <3>1. row'[i] = SweepRow(i, row[i], Skew[w]) /\ row[i] \in RowType /\ Skew[w] \in Int
        BY <1>0, <1>4 DEF TickSweep
      <3> QED
        BY <2>1, <3>1, SweepRowType DEF Expired
    <2> QED
      BY <1>2, <1>4, <2>1 DEF TickSweep, NobodyStarts
  <1>5. ASSUME NEW w \in Runners, Drain(w) \/ TickEnds(w) PROVE NobodyStarts /\ NobodyChooses
    BY <1>1, <1>2, <1>5 DEF Drain, TickEnds
  <1>6. ASSUME NEW w \in Runners, ClaimThrows(w) PROVE NobodyStarts /\ NobodyChooses
    <2>1. NobodyChooses
      BY <1>6 DEF ClaimThrows, NobodyChooses, TypeOK
    <2> QED
      BY <1>1, <1>6, <2>1 DEF ClaimThrows
  <1>7. ASSUME NEW p \in Procs, Crash(p) PROVE NobodyStarts /\ NobodyChooses
    <2>1. NobodyChooses
      BY <1>7 DEF Crash, NobodyChooses
    <2> QED
      BY <1>1, <1>7, <2>1 DEF Crash
  <1>8. ASSUME NEW j \in Jobs, NEW d \in Int, row' = [row EXCEPT ![j] = InsertRow(d)] PROVE NobodyStarts
    <2>1. InsertRow(d).status = "pending"
      BY InsertRowType, LifeParts
    <2> QED
      BY <1>8, <2>1, OneRowNoStart
  <1>9. ASSUME NEW j \in Jobs, Enqueue(j) \/ InlineEnqueue(j) PROVE NobodyStarts /\ NobodyChooses
    <2>1. 0 \in Int /\ Skew[Inline] \in Int
      OBVIOUS
    <2> QED
      BY <1>2, <1>8, <1>9, <2>1 DEF Enqueue, InlineEnqueue
  <1>10. ASSUME NEW j \in Jobs, Retry(j) PROVE NobodyStarts /\ NobodyChooses
    <2>1. row[j].status \in {"failed", "cancelled"} /\ row' = [row EXCEPT ![j] = RetryRow(row[j], 0)]
      BY <1>10 DEF Retry
    <2>2. row[j] \in RowType /\ 0 \in Int
      BY <1>0
    <2>3. RetryRow(row[j], 0).status = "pending"
      BY <2>1, <2>2, RetryRowType
    <2>4. NobodyStarts
      BY <2>1, <2>3, OneRowNoStart
    <2> QED
      BY <1>2, <1>10, <2>4 DEF Retry
  <1>11. ASSUME NEW j \in Jobs, InlineRefused(j) PROVE NobodyStarts /\ NobodyChooses
    BY <1>1, <1>2, <1>11 DEF InlineRefused
  <1>12. ASSUME NEW t \in tasks, Renew(t) PROVE NobodyStarts /\ NobodyChooses
    <2>1. RenewalEpoch(t) \in Nat /\ Skew[t.proc] \in Int
      BY <1>0, TaskFields DEF RenewalEpoch
    <2>2. RenewRow(row[t.job], RenewalEpoch(t), Skew[t.proc]).status = row[t.job].status
      BY <1>0, <2>1, WriteBacks
    <2>3. row' = [row EXCEPT ![t.job] = RenewRow(row[t.job], RenewalEpoch(t), Skew[t.proc])]
      BY <1>12 DEF Renew
    <2>4. NobodyStarts
      BY <1>0, <2>2, <2>3, OneRowNoStart
    <2> QED
      BY <1>2, <1>12, <2>4 DEF Renew
  <1>13. ASSUME NEW t \in tasks, row' = [row EXCEPT ![t.job] = CompleteRow(row[t.job], t.epoch, t.epoch)]
         PROVE  NobodyStarts
    <2> DEFINE y == CompleteRow(row[t.job], t.epoch, t.epoch)
    <2>1. 0 \in Int
      OBVIOUS
    <2>2. y = row[t.job] \/ y.status = "done"
      BY <1>0, <2>1, WriteBacks
    <2>3. row' = [row EXCEPT ![t.job] = y]
      BY <1>13
    <2> HIDE DEF y
    <2> QED
      BY <1>0, <2>2, <2>3, OneRowNoStart
  <1>14. ASSUME NEW t \in tasks, NEW d \in Delays(t),
                row' = [row EXCEPT ![t.job] = FailRow(t.job, row[t.job], t.epoch, d)]
         PROVE  NobodyStarts
    <2> DEFINE y == FailRow(t.job, row[t.job], t.epoch, d)
    <2>1. d \in Int
      BY <1>0
    <2>2. y = row[t.job] \/ y.status \in {"pending", "failed"}
      BY <1>0, <2>1, WriteBacks
    <2>3. row' = [row EXCEPT ![t.job] = y]
      BY <1>14
    <2> HIDE DEF y
    <2> QED
      BY <1>0, <2>2, <2>3, OneRowNoStart
  <1>15. ASSUME NEW t \in tasks, row' = [row EXCEPT ![t.job] = CancelRow(row[t.job])]
         PROVE  NobodyStarts
    <2> DEFINE y == CancelRow(row[t.job])
    <2>1. 0 \in Int /\ 0 \in Nat
      OBVIOUS
    <2>2. y = row[t.job] \/ y.status = "cancelled"
      BY <1>0, <2>1, WriteBacks
    <2>3. row' = [row EXCEPT ![t.job] = y]
      BY <1>15
    <2> HIDE DEF y
    <2> QED
      BY <1>0, <2>2, <2>3, OneRowNoStart
  <1>16. ASSUME NEW t \in tasks,
                Execute(t) \/ Complete(t) \/ CompleteThrows(t) \/ Fail(t) \/ Cancel(t) \/ EndThrows(t)
         PROVE  NobodyStarts /\ NobodyChooses
    <2>1. sel' = sel
      BY <1>16 DEF Execute, Complete, CompleteThrows, Fail, Cancel, EndThrows
    <2>2. NobodyStarts
      BY <1>1, <1>13, <1>14, <1>15, <1>16 DEF Execute, Complete, CompleteThrows, Fail, Cancel, EndThrows
    <2> QED
      BY <1>2, <2>1, <2>2
  <1>17. CASE UNCHANGED vars
    BY <1>1, <1>2, <1>17 DEF vars
  <1> QED
    BY <1>3, <1>4, <1>5, <1>6, <1>7, <1>9, <1>10, <1>11, <1>12, <1>16, <1>17
    DEF Next, RunnerStep, TaskStep, JobStep

(* A claim is chosen below the limit, whatever the other runners choose.      *)
LEMMA SelectKeepsCap ==
    ASSUME TypeOK, CapInv, NEW w \in Runners, ClaimSelect(w)
    PROVE  CapInv'
  <1> SUFFICES ASSUME TenantLimit > 0, NEW o \in {Tenant[j] : j \in Jobs} \ {NoTenant}
               PROVE  Cardinality(RunningQueued(o)') + Cardinality(Choosing(o)')
                         <= TenantLimit + Cardinality(Runners) - 1
    BY DEF CapInv
  <1>1. PICK j \in Candidates(w) : sel' = [sel EXCEPT ![w] = j]
    BY DEF ClaimSelect, ClaimOrder
  <1>2. row' = row /\ RunningQueued(o)' = RunningQueued(o)
    BY DEF ClaimSelect, RunningQueued
  <1>3. j \in Jobs /\ UnderLimit(row, j)
    BY <1>1 DEF Candidates, Claimable
  <1>4. \A v \in Runners : sel'[v] = IF v = w THEN j ELSE sel[v]
    BY <1>1 DEF TypeOK
  <1>5. CASE Tenant[j] = o
    <2>1. Cardinality(RunningOf(row, o)) < TenantLimit
      BY <1>3, <1>5, CapSets DEF UnderLimit
    <2>2. RunningQueued(o) \in SUBSET RunningOf(row, o) /\ RunningOf(row, o) \in SUBSET Jobs
      BY DEF RunningQueued, RunningOf
    <2>3. /\ IsFiniteSet(RunningOf(row, o)) /\ Cardinality(RunningOf(row, o)) \in Nat
          /\ Cardinality(RunningQueued(o)) <= Cardinality(RunningOf(row, o))
      BY <2>2, JobsAssumption, FS_Subset, FS_CardinalityType
    <2>4. Choosing(o)' \in SUBSET Runners
      BY DEF Choosing
    <2>5. Cardinality(Choosing(o)') \in Nat /\ Cardinality(Choosing(o)') <= Cardinality(Runners)
      BY <2>4, CapSets, FS_Subset, FS_CardinalityType
    <2> QED
      BY <1>2, <2>1, <2>3, <2>5, CapSets
  <1>6. CASE Tenant[j] # o
    <2>1. Choosing(o)' \in SUBSET Choosing(o)
      BY <1>4, <1>6 DEF Choosing
    <2>2. Cardinality(Choosing(o)') \in Nat /\ Cardinality(Choosing(o)') <= Cardinality(Choosing(o))
      BY <2>1, CapSets, FS_Subset, FS_CardinalityType
    <2> QED
      BY <1>2, <2>2, CapSets DEF CapInv
  <1> QED
    BY <1>5, <1>6

(* The commit turns the chosen row into a running one.                        *)
LEMMA CommitKeepsCap ==
    ASSUME TypeOK, CapInv, NEW w \in Runners, ClaimCommit(w)
    PROVE  CapInv'
  <1> SUFFICES ASSUME TenantLimit > 0, NEW o \in {Tenant[i] : i \in Jobs} \ {NoTenant}
               PROVE  Cardinality(RunningQueued(o)') + Cardinality(Choosing(o)')
                         <= TenantLimit + Cardinality(Runners) - 1
    BY DEF CapInv
  <1> DEFINE j == sel[w]
  <1>1. /\ j \in Jobs /\ sel' = [sel EXCEPT ![w] = NoJob]
        /\ row' = [row EXCEPT ![j] = LeaseRow(row[j], Skew[w])]
    BY DEF ClaimCommit, TypeOK
  <1>2. /\ \A i \in Jobs : i # j => row'[i] = row[i]
        /\ \A v \in Runners : sel'[v] = IF v = w THEN NoJob ELSE sel[v]
    BY <1>1 DEF TypeOK
  <1>3. CASE j \notin InlineJobs /\ Tenant[j] = o
    <2>1. RunningQueued(o)' \in SUBSET (RunningQueued(o) \cup {j})
      BY <1>2 DEF RunningQueued
    <2>2. w \in Choosing(o) /\ Choosing(o)' = Choosing(o) \ {w}
      BY <1>1, <1>2, <1>3, JobSetsAssumption DEF Choosing
    <2>3. /\ IsFiniteSet(RunningQueued(o) \cup {j})
          /\ Cardinality(RunningQueued(o) \cup {j}) <= Cardinality(RunningQueued(o)) + 1
          /\ Cardinality(RunningQueued(o) \cup {j}) \in Nat
      <3>1. /\ IsFiniteSet(RunningQueued(o) \cup {j})
            /\ Cardinality(RunningQueued(o) \cup {j}) =
                 IF j \in RunningQueued(o) THEN Cardinality(RunningQueued(o))
                                          ELSE Cardinality(RunningQueued(o)) + 1
        BY CapSets, FS_AddElement
      <3>2. Cardinality(RunningQueued(o)) \in Nat
        BY CapSets
      <3> QED
        BY <3>1, <3>2
    <2>4. /\ Cardinality(RunningQueued(o)') \in Nat
          /\ Cardinality(RunningQueued(o)') <= Cardinality(RunningQueued(o) \cup {j})
      BY <2>1, <2>3, FS_Subset, FS_CardinalityType
    <2>5. Cardinality(Choosing(o)') = Cardinality(Choosing(o)) - 1
      BY <2>2, CapSets, FS_RemoveElement
    <2> QED
      BY <2>3, <2>4, <2>5, CapSets DEF CapInv
  <1>4. CASE ~(j \notin InlineJobs /\ Tenant[j] = o)
    <2>1. RunningQueued(o)' \in SUBSET RunningQueued(o) /\ Choosing(o)' \in SUBSET Choosing(o)
      BY <1>2, <1>4, JobSetsAssumption DEF RunningQueued, Choosing
    <2>2. /\ Cardinality(RunningQueued(o)') <= Cardinality(RunningQueued(o))
          /\ Cardinality(Choosing(o)') <= Cardinality(Choosing(o))
          /\ Cardinality(RunningQueued(o)') \in Nat /\ Cardinality(Choosing(o)') \in Nat
      BY <2>1, CapSets, FS_Subset, FS_CardinalityType
    <2> QED
      BY <2>2, CapSets DEF CapInv
  <1> QED
    BY <1>3, <1>4

LEMMA CapStep == TypeOK /\ CapInv /\ [Next]_vars => CapInv'
  <1> SUFFICES ASSUME TypeOK, CapInv, [Next]_vars PROVE CapInv'
    OBVIOUS
  <1>1. ASSUME NEW w \in Runners, ClaimSelect(w) PROVE CapInv'
    BY <1>1, SelectKeepsCap
  <1>2. ASSUME NEW w \in Runners, ClaimCommit(w) PROVE CapInv'
    BY <1>2, CommitKeepsCap
  <1>3. ASSUME NEW j \in Jobs, InlineStart(j) PROVE CapInv'
    <2>1. j \in InlineJobs /\ row' = [row EXCEPT ![j] = LeaseRow(row[j], Skew[Inline])] /\ sel' = sel
      BY <1>3 DEF InlineStart
    <2>2. \A i \in Jobs \ InlineJobs : row'[i] = row[i]
      BY <2>1 DEF TypeOK
    <2> QED
      BY <2>1, <2>2, Shrinks DEF NobodyChooses
  <1>4. CASE /\ \A w \in Runners : ~ClaimSelect(w) /\ ~ClaimCommit(w)
             /\ \A j \in Jobs : ~InlineStart(j)
    BY <1>4, OthersShrink, Shrinks DEF NobodyStarts
  <1> QED
    BY <1>1, <1>2, <1>3, <1>4

(* The per-tenant cap is soft by one per further runner, and by the tenant's  *)
(* inline stages, and by no more: whatever the claims that counted together   *)
(* (claimNextMemoryJob), the sweeps, the crashes and the retries.             *)
THEOREM TenantCapKept == Spec => []TenantCapSoft
  <1>1. CapInv => TenantCapSoft
    <2> SUFFICES ASSUME CapInv, TenantLimit > 0, NEW j \in Jobs, Tenant[j] # NoTenant
                 PROVE  Cardinality(RunningOf(row, Tenant[j]))
                           <= TenantLimit + Cardinality(Runners) - 1
                              + Cardinality({i \in InlineJobs : Tenant[i] = Tenant[j]})
      BY DEF TenantCapSoft
    <2> DEFINE o == Tenant[j]
               I == {i \in InlineJobs : Tenant[i] = o}
               U == RunningQueued(o) \cup I
    <2>1. RunningOf(row, o) \in SUBSET U /\ I \in SUBSET Jobs
      BY JobSetsAssumption DEF RunningOf, RunningQueued
    <2>2. IsFiniteSet(I) /\ Cardinality(I) \in Nat
      BY <2>1, JobsAssumption, FS_Subset, FS_CardinalityType
    <2>3. RunningQueued(o) \cap I = {}
      BY DEF RunningQueued
    <2>4. IsFiniteSet(U) /\ Cardinality(U) = Cardinality(RunningQueued(o)) + Cardinality(I)
      <3>1. /\ IsFiniteSet(U)
            /\ Cardinality(U) = Cardinality(RunningQueued(o)) + Cardinality(I) - Cardinality(RunningQueued(o) \cap I)
        BY <2>2, CapSets, FS_Union
      <3>2. Cardinality(RunningQueued(o) \cap I) = 0
        BY <2>3, FS_EmptySet
      <3>3. Cardinality(RunningQueued(o)) \in Nat
        BY CapSets
      <3> HIDE DEF U, I
      <3> QED
        BY <2>2, <3>1, <3>2, <3>3
    <2>5. Cardinality(RunningOf(row, o)) <= Cardinality(U) /\ Cardinality(RunningOf(row, o)) \in Nat
      BY <2>1, <2>4, FS_Subset, FS_CardinalityType
    <2>6. Cardinality(RunningQueued(o)) + Cardinality(Choosing(o)) <= TenantLimit + Cardinality(Runners) - 1
      BY DEF CapInv
    <2> HIDE DEF o, I, U
    <2>7. Cardinality(RunningOf(row, o)) <= TenantLimit + Cardinality(Runners) - 1 + Cardinality(I)
      BY <2>2, <2>4, <2>5, <2>6, CapSets
    <2> QED
      BY <2>7 DEF o, I
  <1> QED
    BY <1>1, CapInit, CapStep, JobsTypeCorrect, PTL DEF Spec

-----------------------------------------------------------------------------
(* The refinement: the runners, stages, faults and clocks of JobRunner         *)
(* implement the abstract job lifecycle, and inherit what follows from it.     *)

Lives == [j \in Jobs |-> LifeOf(row[j])]

(* Where a job goes when an attempt is used up.                               *)
Rearmed(j, r) == IF r.attempts + 1 < MaxAttempts[j] THEN "pending" ELSE "failed"

(* The abstract steps, written on the fields of a row.                        *)
RowMove(j, r, x) ==
    \/ r = NoRow /\ x = Life("pending", 0, 0, 0)
    \/ r.status = "pending" /\ x = Life("running", r.attempts, r.epoch + 1, r.output)
    \/ r.status = "running" /\ x = Life("done", r.attempts, r.epoch, r.epoch)
    \/ r.status = "running" /\ x = Life(Rearmed(j, r), r.attempts + 1, r.epoch, r.output)
    \/ r.status \in InFlightStatuses /\ x = Life("cancelled", r.attempts, r.epoch, r.output)
    \/ r.status \in {"failed", "cancelled"} /\ x = Life("pending", 0, r.epoch, r.output)

Swept(S) ==
    /\ \A j \in S : row[j].status = "running"
    /\ Lives' = [j \in Jobs |->
          IF j \in S
          THEN Life(Rearmed(j, row[j]), row[j].attempts + 1, row[j].epoch + 1, row[j].output)
          ELSE Lives[j]]

TableStep ==
    \/ Lives' = Lives
    \/ \E j \in Jobs : \E x : RowMove(j, row[j], x) /\ Lives' = [Lives EXCEPT ![j] = x]
    \/ \E S \in SUBSET Jobs : Swept(S)

-----------------------------------------------------------------------------
LEMMA LivesOf ==
    /\ \A j \in Jobs : Lives[j] = LifeOf(row[j]) /\ Lives'[j] = LifeOf(row'[j])
    /\ \A r : LifeOf(r) = Life(r.status, r.attempts, r.epoch, r.output)
  BY DEF Lives, LifeOf, Life

LEMMA OneLife ==
    ASSUME TypeOK, NEW j \in Jobs, NEW y, row' = [row EXCEPT ![j] = y]
    PROVE  Lives' = [Lives EXCEPT ![j] = LifeOf(y)]
  <1>1. \A i \in Jobs : row'[i] = IF i = j THEN y ELSE row[i]
    BY DEF TypeOK
  <1>2. \A i \in Jobs : LifeOf(row'[i]) = IF i = j THEN LifeOf(y) ELSE LifeOf(row[i])
    BY <1>1
  <1>3. Lives' = [i \in Jobs |-> IF i = j THEN LifeOf(y) ELSE LifeOf(row[i])]
    BY <1>2 DEF Lives
  <1>4. [Lives EXCEPT ![j] = LifeOf(y)] = [i \in Jobs |-> IF i = j THEN LifeOf(y) ELSE LifeOf(row[i])]
    BY DEF Lives
  <1> QED
    BY <1>3, <1>4

(* A row replaced by one with the same abstract record, or by a legal move.   *)
LEMMA OneMove ==
    ASSUME TypeOK, NEW j \in Jobs, NEW y, row' = [row EXCEPT ![j] = y],
           LifeOf(y) = LifeOf(row[j]) \/ RowMove(j, row[j], LifeOf(y))
    PROVE  TableStep
  <1>1. Lives' = [Lives EXCEPT ![j] = LifeOf(y)]
    BY OneLife
  <1>2. CASE LifeOf(y) = LifeOf(row[j])
    <2>1. Lives' = Lives
      BY <1>1, <1>2 DEF Lives
    <2> QED
      BY <2>1 DEF TableStep
  <1>3. CASE RowMove(j, row[j], LifeOf(y))
    BY <1>1, <1>3 DEF TableStep
  <1> QED
    BY <1>2, <1>3

(* Every step of every process is, on the table, a stutter or one move.       *)
LEMMA StepOnTable == LeaseInv /\ [Next]_vars => TableStep
  <1> SUFFICES ASSUME LeaseInv, [Next]_vars
               PROVE  TableStep
    OBVIOUS
  <1> USE ClockFacts, JobSetsAssumption
  <1>0. TypeOK
    BY DEF LeaseInv
  <1>1. /\ row \in [Jobs -> RowType] /\ \A j \in Jobs : row[j] \in RowType
        /\ \A t \in tasks : t \in TaskType /\ t.job \in Jobs /\ t.epoch \in Nat /\ row[t.job] \in RowType
        /\ sel \in [Runners -> Jobs \cup {NoJob}]
    BY <1>0, TaskFields DEF TypeOK
  <1>2. ASSUME row' = row
        PROVE  TableStep
    BY <1>2 DEF TableStep, Lives
  <1>3. CASE Tick
    <2>1. ASSUME NEW i \in Jobs
          PROVE  LifeOf(row'[i]) = LifeOf(row[i])
      <3>1. row[i] \in RowType
        BY <1>1
      <3>2. \/ row'[i] = [row[i] EXCEPT !.age = row[i].age + 1]
            \/ row'[i] = [row[i] EXCEPT !.delay = row[i].delay - 1]
            \/ row'[i] = row[i]
        BY <1>3 DEF Tick
      <3> QED
        BY <3>1, <3>2 DEF RowType, LifeOf
    <2>2. Lives' = Lives
      BY <2>1 DEF Lives
    <2> QED
      BY <2>2 DEF TableStep
  <1>4. ASSUME NEW w \in Runners, TickSweep(w)
        PROVE  TableStep
    <2> DEFINE S == {j \in Jobs : Expired(row[j])}
    <2>1. \A j \in Jobs : row'[j] = SweepRow(j, row[j], Skew[w])
      BY <1>4 DEF TickSweep
    <2>2. ASSUME NEW j \in Jobs
          PROVE  /\ Expired(row[j]) => LifeOf(row'[j]) =
                      Life(Rearmed(j, row[j]), row[j].attempts + 1, row[j].epoch + 1, row[j].output)
                 /\ ~Expired(row[j]) => LifeOf(row'[j]) = LifeOf(row[j])
      <3>1. row[j] \in RowType /\ Skew[w] \in Int
        BY <1>1
      <3> QED
        BY <2>1, <3>1, SweepRowType DEF Rearmed
    <2>3. Swept(S)
      BY <2>2 DEF Swept, Lives, Expired
    <2>4. S \in SUBSET Jobs
      OBVIOUS
    <2> QED
      BY <2>3, <2>4 DEF TableStep
  <1>5. ASSUME NEW w \in Runners, ClaimCommit(w)
        PROVE  TableStep
    <2>1. /\ sel[w] \in Jobs /\ row[sel[w]].status = "pending"
          /\ row' = [row EXCEPT ![sel[w]] = LeaseRow(row[sel[w]], Skew[w])]
      BY <1>1, <1>5 DEF ClaimCommit, LeaseInv, SelPending
    <2>2. row[sel[w]] \in RowType /\ Skew[w] \in Int
      BY <1>1, <2>1
    <2>3. RowMove(sel[w], row[sel[w]], LifeOf(LeaseRow(row[sel[w]], Skew[w])))
      BY <2>1, <2>2, LeaseRowType DEF RowMove
    <2> QED
      BY <1>0, <2>1, <2>3, OneMove
  <1>6. ASSUME NEW j \in Jobs, InlineStart(j)
        PROVE  TableStep
    <2>1. row[j].status = "pending" /\ row' = [row EXCEPT ![j] = LeaseRow(row[j], Skew[Inline])]
      BY <1>6 DEF InlineStart
    <2>2. row[j] \in RowType /\ Skew[Inline] \in Int
      BY <1>1
    <2>3. RowMove(j, row[j], LifeOf(LeaseRow(row[j], Skew[Inline])))
      BY <2>1, <2>2, LeaseRowType DEF RowMove
    <2> QED
      BY <1>0, <2>1, <2>3, OneMove
  <1>7. ASSUME NEW j \in Jobs, NEW d \in Int, row[j].status = "absent", row' = [row EXCEPT ![j] = InsertRow(d)]
        PROVE  TableStep
    <2>1. row[j] = NoRow
      BY <1>7 DEF LeaseInv, AbsentBlank
    <2>2. RowMove(j, row[j], LifeOf(InsertRow(d)))
      BY <2>1, InsertRowType DEF RowMove
    <2> QED
      BY <1>0, <1>7, <2>2, OneMove
  <1>8. ASSUME NEW j \in Jobs, Enqueue(j)
        PROVE  TableStep
    <2>1. 0 \in Int
      OBVIOUS
    <2> QED
      BY <1>7, <1>8, <2>1 DEF Enqueue
  <1>9. ASSUME NEW j \in Jobs, InlineEnqueue(j)
        PROVE  TableStep
    BY <1>7, <1>9 DEF InlineEnqueue, LeaseInv, StageFresh
  <1>10. ASSUME NEW j \in Jobs, Retry(j)
         PROVE  TableStep
    <2>1. row[j].status \in {"failed", "cancelled"} /\ row' = [row EXCEPT ![j] = RetryRow(row[j], 0)]
      BY <1>10 DEF Retry
    <2>2. row[j] \in RowType /\ 0 \in Int
      BY <1>1
    <2>3. RowMove(j, row[j], LifeOf(RetryRow(row[j], 0)))
      BY <2>1, <2>2, RetryRowType DEF RowMove
    <2> QED
      BY <1>0, <2>1, <2>3, OneMove
  <1>11. ASSUME NEW t \in tasks, Renew(t)
         PROVE  TableStep
    <2>1. RenewalEpoch(t) \in Nat /\ Skew[t.proc] \in Int
      BY <1>1, TaskFields DEF RenewalEpoch
    <2>2. LifeOf(RenewRow(row[t.job], RenewalEpoch(t), Skew[t.proc])) = LifeOf(row[t.job])
      BY <1>1, <2>1, RenewRowType
    <2>3. row' = [row EXCEPT ![t.job] = RenewRow(row[t.job], RenewalEpoch(t), Skew[t.proc])]
      BY <1>11 DEF Renew
    <2> QED
      BY <1>0, <1>1, <2>2, <2>3, OneMove
  (* Publishing takes the lease: a task's epoch is never 0, so an owned row   *)
  (* carries exactly that epoch.                                              *)
  <1>12. ASSUME NEW t \in tasks, row' = [row EXCEPT ![t.job] = CompleteRow(row[t.job], t.epoch, t.epoch)]
         PROVE  TableStep
    <2> DEFINE y == CompleteRow(row[t.job], t.epoch, t.epoch)
    <2>1. CASE Owned(row[t.job], t.epoch)
      <3>1. 1 <= t.epoch
        BY DEF LeaseInv, OneLeaseHolder
      <3>2. row[t.job].status = "running" /\ row[t.job].epoch = t.epoch
        BY <1>1, <2>1, <3>1 DEF Owned, LeaseGuard
      <3>3. LifeOf(y) = Life("done", row[t.job].attempts, row[t.job].epoch, t.epoch)
        BY <1>1, <2>1, CompleteRowType
      <3>4. RowMove(t.job, row[t.job], LifeOf(y))
        BY <3>2, <3>3 DEF RowMove
      <3> QED
        BY <1>0, <1>1, <1>12, <3>4, OneMove
    <2>2. CASE ~Owned(row[t.job], t.epoch)
      <3>1. y = row[t.job]
        BY <1>1, <2>2, CompleteRowType
      <3> HIDE DEF y
      <3>2. row' = [row EXCEPT ![t.job] = y]
        BY <1>12 DEF y
      <3> QED
        BY <1>0, <1>1, <3>1, <3>2, OneMove
    <2> QED
      BY <2>1, <2>2
  <1>13. ASSUME NEW t \in tasks, NEW d \in Delays(t),
                row' = [row EXCEPT ![t.job] = FailRow(t.job, row[t.job], t.epoch, d)]
         PROVE  TableStep
    <2> DEFINE y == FailRow(t.job, row[t.job], t.epoch, d)
    <2>0. d \in Int
      BY <1>1
    <2>1. CASE Owned(row[t.job], t.epoch)
      <3>1. y = UseAttempt(t.job, row[t.job], d) /\ row[t.job].status = "running"
        BY <1>1, <2>0, <2>1, FailRowType DEF Owned
      <3>2. LifeOf(y) = Life(Rearmed(t.job, row[t.job]), row[t.job].attempts + 1,
                             row[t.job].epoch, row[t.job].output)
        BY <1>1, <2>0, <3>1, UseAttemptType DEF Rearmed
      <3>3. RowMove(t.job, row[t.job], LifeOf(y))
        BY <3>1, <3>2 DEF RowMove
      <3> QED
        BY <1>0, <1>1, <1>13, <3>3, OneMove
    <2>2. CASE ~Owned(row[t.job], t.epoch)
      <3>1. y = row[t.job]
        BY <1>1, <2>0, <2>2, FailRowType
      <3> HIDE DEF y
      <3>2. row' = [row EXCEPT ![t.job] = y]
        BY <1>13 DEF y
      <3> QED
        BY <1>0, <1>1, <3>1, <3>2, OneMove
    <2> QED
      BY <2>1, <2>2
  <1>14. ASSUME NEW t \in tasks, row' = [row EXCEPT ![t.job] = CancelRow(row[t.job])]
         PROVE  TableStep
    <2> DEFINE y == CancelRow(row[t.job])
    <2>1. y = row[t.job] \/ RowMove(t.job, row[t.job], LifeOf(y))
      BY <1>1, CancelRowType DEF RowMove
    <2> HIDE DEF y
    <2>2. row' = [row EXCEPT ![t.job] = y]
      BY <1>14 DEF y
    <2> QED
      BY <1>0, <1>1, <2>1, <2>2, OneMove
  <1>15. ASSUME NEW t \in tasks, Complete(t) \/ CompleteThrows(t) \/ Fail(t) \/ Cancel(t) \/ EndThrows(t) \/ Execute(t)
         PROVE  TableStep
    BY <1>2, <1>12, <1>13, <1>14, <1>15 DEF Complete, CompleteThrows, Fail, Cancel, EndThrows, Execute
  <1>16. ASSUME NEW w \in Runners, ClaimSelect(w) \/ Drain(w) \/ ClaimThrows(w) \/ TickEnds(w)
         PROVE  TableStep
    BY <1>2, <1>16 DEF ClaimSelect, Drain, ClaimThrows, TickEnds
  <1>17. ASSUME NEW j \in Jobs, InlineRefused(j)
         PROVE  TableStep
    BY <1>2, <1>17 DEF InlineRefused
  <1>18. ASSUME NEW p \in Procs, Crash(p)
         PROVE  TableStep
    BY <1>2, <1>18 DEF Crash
  <1>19. CASE UNCHANGED vars
    BY <1>2, <1>19 DEF vars
  <1> QED
    BY <1>3, <1>4, <1>5, <1>6, <1>8, <1>9, <1>10, <1>11, <1>15, <1>16, <1>17, <1>18, <1>19
    DEF Next, RunnerStep, TaskStep, JobStep

-----------------------------------------------------------------------------
(* The same moves, as JobLifecycle writes them.                               *)
LEMMA LifeEdits ==
    ASSUME NEW l, NEW s, NEW n, NEW g, NEW o, l = Life(s, n, g, o)
    PROVE  /\ Lifecycle!Leased(l) = Life("running", n, g + 1, o)
           /\ Lifecycle!Published(l) = Life("done", n, g, g)
           /\ Lifecycle!StartOver(l) = Life("pending", 0, g, o)
  <1>0. l.status = s /\ l.tries = n /\ l.gen = g /\ l.result = o
    BY LifeUpdates
  <1>1. Lifecycle!Leased(l) = Life("running", n, g + 1, o)
    <2> DEFINE m == [l EXCEPT !.status = "running"]
    <2>1. m = Life("running", n, g, o)
      BY LifeUpdates
    <2>2. Lifecycle!Leased(l) = [m EXCEPT !.gen = @ + 1]
      BY DEF Lifecycle!Leased
    <2> HIDE DEF m
    <2>3. m.gen = g
      BY <2>1, LifeUpdates
    <2>4. [m EXCEPT !.gen = g + 1] = Life("running", n, g + 1, o)
      BY <2>1, LifeUpdates
    <2> QED
      BY <2>2, <2>3, <2>4
  <1>2. Lifecycle!Published(l) = Life("done", n, g, g)
    <2> DEFINE m == [l EXCEPT !.status = "done"]
    <2>1. m = Life("done", n, g, o)
      BY LifeUpdates
    <2>2. Lifecycle!Published(l) = [m EXCEPT !.result = g]
      BY <1>0 DEF Lifecycle!Published
    <2> HIDE DEF m
    <2> QED
      BY <2>1, <2>2, LifeUpdates
  <1>3. Lifecycle!StartOver(l) = Life("pending", 0, g, o)
    <2> DEFINE m == [l EXCEPT !.status = "pending"]
    <2>1. m = Life("pending", n, g, o)
      BY LifeUpdates
    <2>2. Lifecycle!StartOver(l) = [m EXCEPT !.tries = 0]
      BY DEF Lifecycle!StartOver
    <2> HIDE DEF m
    <2> QED
      BY <2>1, <2>2, LifeUpdates
  <1> QED
    BY <1>1, <1>2, <1>3

LEMMA LifeUsed ==
    ASSUME NEW l, NEW s, NEW n, NEW g, NEW o, l = Life(s, n, g, o), NEW j \in Jobs
    PROVE  Lifecycle!Used(j, l) = Life(IF n + 1 < MaxAttempts[j] THEN "pending" ELSE "failed", n + 1, g, o)
  <1>0. l.tries = n
    BY LifeUpdates
  <1> DEFINE m == [l EXCEPT !.tries = @ + 1]
             x == IF n + 1 < MaxAttempts[j] THEN "pending" ELSE "failed"
  <1>1. m = Life(s, n + 1, g, o)
    BY <1>0, LifeUpdates
  <1>2. Lifecycle!Used(j, l) = [m EXCEPT !.status = x]
    BY <1>0 DEF Lifecycle!Used
  <1> HIDE DEF m, x
  <1>3. [m EXCEPT !.status = x] = Life(x, n + 1, g, o)
    BY <1>1, LifeUpdates
  <1> QED
    BY <1>2, <1>3 DEF x

LEMMA LifecycleInit == Init => Lifecycle!LifeInit
  BY DEF Init, Lifecycle!LifeInit, Lifecycle!Unborn, LifeOf, NoRow

LEMMA TableIsLifecycle == TypeOK /\ TableStep => [Lifecycle!LifeNext]_Lives
  <1> SUFFICES ASSUME TypeOK, TableStep
               PROVE  [Lifecycle!LifeNext]_Lives
    OBVIOUS
  <1>1. CASE Lives' = Lives
    BY <1>1
  <1>2. ASSUME NEW j \in Jobs, NEW x, RowMove(j, row[j], x), Lives' = [Lives EXCEPT ![j] = x]
        PROVE  Lifecycle!LifeNext
    <2> DEFINE r == row[j]
    <2>0. Lives[j] = Life(r.status, r.attempts, r.epoch, r.output)
      BY LivesOf
    <2>1. /\ Lives[j].status = r.status /\ Lives[j].gen = r.epoch /\ Lives[j].tries = r.attempts
      BY <2>0, LifeUpdates
    <2> SUFFICES \/ Lifecycle!Submit(j) \/ Lifecycle!Lease(j) \/ Lifecycle!Publish(j)
                 \/ Lifecycle!GiveUp(j) \/ Lifecycle!Resubmit(j) \/ Lifecycle!Drop({j})
      BY DEF Lifecycle!LifeNext
    <2>2. CASE r = NoRow /\ x = Life("pending", 0, 0, 0)
      <3>1. Lives[j] = Life("absent", 0, 0, 0)
        BY <2>0, <2>2 DEF NoRow
      <3>2. x = [Lives[j] EXCEPT !.status = "pending"]
        BY <2>2, <3>1, LifeUpdates
      <3>3. Lives[j].status = "absent"
        BY <3>1, LifeUpdates
      <3>4. Lifecycle!Submit(j)
        BY <1>2, <3>2, <3>3 DEF Lifecycle!Submit, Lifecycle!IsIn, Lives
      <3> QED
        BY <3>4
    <2>3. CASE r.status = "pending" /\ x = Life("running", r.attempts, r.epoch + 1, r.output)
      <3>1. x = Lifecycle!Leased(Lives[j])
        BY <2>0, <2>3, LifeEdits
      <3>2. Lifecycle!Lease(j)
        BY <1>2, <2>1, <2>3, <3>1 DEF Lifecycle!Lease, Lifecycle!IsIn, Lives
      <3> QED
        BY <3>2
    <2>4. CASE r.status = "running" /\ x = Life("done", r.attempts, r.epoch, r.epoch)
      <3>1. x = Lifecycle!Published(Lives[j])
        BY <2>0, <2>1, <2>4, LifeEdits
      <3>2. Lifecycle!Publish(j)
        BY <1>2, <2>1, <2>4, <3>1 DEF Lifecycle!Publish, Lifecycle!IsIn, Lives
      <3> QED
        BY <3>2
    <2>5. CASE r.status = "running" /\ x = Life(Rearmed(j, r), r.attempts + 1, r.epoch, r.output)
      <3>1. x = Lifecycle!Used(j, Lives[j])
        BY <2>0, <2>5, LifeUsed DEF Rearmed
      <3>2. Lifecycle!GiveUp(j)
        BY <1>2, <2>1, <2>5, <3>1 DEF Lifecycle!GiveUp, Lifecycle!IsIn, Lives
      <3> QED
        BY <3>2
    <2>6. CASE r.status \in InFlightStatuses /\ x = Life("cancelled", r.attempts, r.epoch, r.output)
      <3>1. x = [Lives[j] EXCEPT !.status = "cancelled"]
        BY <2>0, <2>6, LifeUpdates
      <3>2. Lives' = [i \in Jobs |-> IF i \in {j} THEN [Lives[i] EXCEPT !.status = "cancelled"] ELSE Lives[i]]
        BY <1>2, <3>1 DEF Lives
      <3>3. Lifecycle!Drop({j})
        BY <2>1, <2>6, <3>2 DEF Lifecycle!Drop, Lifecycle!InFlight, Lifecycle!IsIn, Lives, InFlightStatuses
      <3> QED
        BY <3>3
    <2>7. CASE r.status \in {"failed", "cancelled"} /\ x = Life("pending", 0, r.epoch, r.output)
      <3>1. x = Lifecycle!StartOver(Lives[j])
        BY <2>0, <2>7, LifeEdits
      <3>2. Lifecycle!Resubmit(j)
        BY <1>2, <2>1, <2>7, <3>1 DEF Lifecycle!Resubmit, Lifecycle!IsIn, Lives
      <3> QED
        BY <3>2
    <2> QED
      BY <1>2, <2>2, <2>3, <2>4, <2>5, <2>6, <2>7 DEF RowMove
  <1>3. ASSUME NEW S \in SUBSET Jobs, Swept(S)
        PROVE  Lifecycle!LifeNext
    <2>1. ASSUME NEW j \in S
          PROVE  /\ Lives[j].status = "running"
                 /\ Life(Rearmed(j, row[j]), row[j].attempts + 1, row[j].epoch + 1, row[j].output)
                      = [Lifecycle!Used(j, Lives[j]) EXCEPT !.gen = @ + 1]
      <3> DEFINE r == row[j]
                 u == Life(Rearmed(j, r), r.attempts + 1, r.epoch, r.output)
      <3>1. Lives[j] = Life(r.status, r.attempts, r.epoch, r.output) /\ r.status = "running"
        BY <1>3, LivesOf DEF Swept
      <3>2. Lives[j].status = r.status /\ Lives[j].tries = r.attempts
        BY <3>1, LifeUpdates
      <3>4. u = Lifecycle!Used(j, Lives[j])
        BY <3>1, LifeUsed DEF Rearmed
      <3>5. u.gen = r.epoch /\ [u EXCEPT !.gen = r.epoch + 1] =
              Life(Rearmed(j, r), r.attempts + 1, r.epoch + 1, r.output)
        BY LifeUpdates
      <3> HIDE DEF u, r
      <3>6. [u EXCEPT !.gen = @ + 1] = Life(Rearmed(j, r), r.attempts + 1, r.epoch + 1, r.output)
        BY <3>5
      <3> QED
        BY <3>1, <3>2, <3>4, <3>6 DEF r
    <2>2. Lives' = [j \in Jobs |-> IF j \in S THEN [Lifecycle!Used(j, Lives[j]) EXCEPT !.gen = @ + 1] ELSE Lives[j]]
      BY <1>3, <2>1 DEF Swept
    <2>3. Lifecycle!Expire(S)
      BY <2>1, <2>2 DEF Lifecycle!Expire, Lifecycle!IsIn, Lives
    <2> QED
      BY <2>3 DEF Lifecycle!LifeNext
  <1> QED
    BY <1>1, <1>2, <1>3 DEF TableStep

(* Refinement: the job table, driven by any number of runners, inline stages, *)
(* operators, faults and skewed clocks, is an implementation of JobLifecycle. *)
THEOREM RunnersImplementLifecycle == Spec => ImplementsLifecycle
  <1>1. TypeOK /\ TableStep => [Lifecycle!LifeNext]_([j \in Jobs |-> LifeOf(row[j])])
    BY TableIsLifecycle DEF Lives
  <1>2. LeaseInv => TypeOK
    BY DEF LeaseInv
  <1> QED
    BY <1>1, <1>2, LifecycleInit, LeaseInit, LeaseStep, StepOnTable, PTL
    DEF Spec, ImplementsLifecycle, Lifecycle!LifeSpec

-----------------------------------------------------------------------------
(* What a step does to one row, and what follows for results and attempts.    *)
LEMMA TableEffect ==
    ASSUME TableStep, NEW i \in Jobs
    PROVE  \/ LifeOf(row'[i]) = LifeOf(row[i])
           \/ RowMove(i, row[i], LifeOf(row'[i]))
           \/ /\ row[i].status = "running"
              /\ LifeOf(row'[i]) = Life(Rearmed(i, row[i]), row[i].attempts + 1,
                                        row[i].epoch + 1, row[i].output)
  <1>1. CASE Lives' = Lives
    BY <1>1, LivesOf
  <1>2. ASSUME NEW j \in Jobs, NEW x, RowMove(j, row[j], x), Lives' = [Lives EXCEPT ![j] = x]
        PROVE  LifeOf(row'[i]) = LifeOf(row[i]) \/ RowMove(i, row[i], LifeOf(row'[i]))
    <2>1. Lives'[i] = IF i = j THEN x ELSE Lives[i]
      BY <1>2 DEF Lives
    <2>2. CASE i = j
      <3>1. LifeOf(row'[i]) = x
        BY <2>1, <2>2, LivesOf
      <3> QED
        BY <1>2, <2>2, <3>1
    <2>3. CASE i # j
      BY <2>1, <2>3, LivesOf
    <2> QED
      BY <2>2, <2>3
  <1>3. ASSUME NEW S \in SUBSET Jobs, Swept(S)
        PROVE  \/ LifeOf(row'[i]) = LifeOf(row[i])
               \/ /\ row[i].status = "running"
                  /\ LifeOf(row'[i]) = Life(Rearmed(i, row[i]), row[i].attempts + 1,
                                            row[i].epoch + 1, row[i].output)
    BY <1>3, LivesOf DEF Swept
  <1> QED
    BY <1>1, <1>2, <1>3 DEF TableStep

LEMMA FencedStep == TypeOK /\ FencedResult /\ TableStep => FencedResult'
  <1> SUFFICES ASSUME TypeOK, FencedResult, TableStep, NEW i \in Jobs, row'[i].status = "done"
               PROVE  row'[i].output = row'[i].epoch
    BY DEF FencedResult
  <1> DEFINE r == row[i]
             y == row'[i]
  <1>1. r.status = "done" => r.output = r.epoch
    BY DEF FencedResult
  <1>2. \/ LifeOf(y) = LifeOf(r)
        \/ RowMove(i, r, LifeOf(y))
        \/ r.status = "running" /\ LifeOf(y) = Life(Rearmed(i, r), r.attempts + 1, r.epoch + 1, r.output)
    BY TableEffect
  <1> HIDE DEF r, y
  <1>3. CASE LifeOf(y) = LifeOf(r)
    <2>1. y.status = r.status /\ y.epoch = r.epoch /\ y.output = r.output
      BY <1>3, LivesOf, LifeParts
    <2> QED
      BY <1>1, <2>1 DEF y
  <1>4. ASSUME NEW s, NEW n, NEW g, NEW o, LifeOf(y) = Life(s, n, g, o), s # "done"
        PROVE  FALSE
    BY <1>4, LifeParts DEF y
  <1>5. Rearmed(i, r) # "done"
    BY DEF Rearmed
  <1>6. CASE LifeOf(y) = Life("done", r.attempts, r.epoch, r.epoch)
    BY <1>6, LifeParts DEF y
  <1> QED
    BY <1>2, <1>3, <1>4, <1>5, <1>6 DEF RowMove

(* Fencing: the result a done job carries comes from the last lease issued.   *)
THEOREM ResultsFenced == Spec => []FencedResult
  <1>1. Init => FencedResult
    BY DEF Init, FencedResult, NoRow
  <1>2. LeaseInv => TypeOK
    BY DEF LeaseInv
  <1> QED
    BY <1>1, <1>2, LeaseInit, LeaseStep, StepOnTable, FencedStep, PTL DEF Spec

LEMMA AttemptsStep == TypeOK /\ AttemptsBounded /\ TableStep => AttemptsBounded'
  <1> DEFINE Fine(i, s, n) == /\ s \in InFlightStatuses => n < MaxAttempts[i]
                              /\ s = "failed" => n = MaxAttempts[i]
                              /\ n <= MaxAttempts[i]
  <1> SUFFICES ASSUME TypeOK, AttemptsBounded, TableStep, NEW i \in Jobs
               PROVE  Fine(i, row'[i].status, row'[i].attempts)
    BY DEF AttemptsBounded
  <1> DEFINE r == row[i]
             y == row'[i]
  <1>0. MaxAttempts[i] \in Nat /\ MaxAttempts[i] > 0 /\ r.attempts \in Nat
    BY MaxAttemptsAssumption, RowFields DEF TypeOK
  <1>1. Fine(i, r.status, r.attempts)
    BY DEF AttemptsBounded
  <1>2. \/ LifeOf(y) = LifeOf(r)
        \/ RowMove(i, r, LifeOf(y))
        \/ r.status = "running" /\ LifeOf(y) = Life(Rearmed(i, r), r.attempts + 1, r.epoch + 1, r.output)
    BY TableEffect
  <1> HIDE DEF r, y, Fine
  <1>3. ASSUME NEW s, NEW n, NEW g, NEW o, LifeOf(y) = Life(s, n, g, o), Fine(i, s, n)
        PROVE  Fine(i, y.status, y.attempts)
    BY <1>3, LifeParts
  <1>4. Fine(i, "pending", 0)
    BY <1>0 DEF Fine, InFlightStatuses
  <1>5. r.status \in InFlightStatuses =>
          /\ Fine(i, "running", r.attempts) /\ Fine(i, "done", r.attempts)
          /\ Fine(i, "cancelled", r.attempts) /\ Fine(i, Rearmed(i, r), r.attempts + 1)
    BY <1>0, <1>1 DEF Fine, InFlightStatuses, Rearmed
  <1>6. "pending" \in InFlightStatuses /\ "running" \in InFlightStatuses
    BY DEF InFlightStatuses
  <1>7. CASE LifeOf(y) = LifeOf(r)
    <2>1. LifeOf(y) = Life(r.status, r.attempts, r.epoch, r.output)
      BY <1>7, LivesOf
    <2> QED
      BY <1>1, <1>3, <2>1 DEF y
  <1>8. CASE RowMove(i, r, LifeOf(y))
    BY <1>3, <1>4, <1>5, <1>6, <1>8 DEF RowMove, y
  <1>9. CASE r.status = "running" /\ LifeOf(y) = Life(Rearmed(i, r), r.attempts + 1, r.epoch + 1, r.output)
    BY <1>3, <1>5, <1>6, <1>9 DEF y
  <1> QED
    BY <1>2, <1>7, <1>8, <1>9

(* Attempts never pass max_attempts, a job that may still run has one left,   *)
(* and a failed job has used them all.                                        *)
THEOREM AttemptsAlwaysBounded == Spec => []AttemptsBounded
  <1>1. Init => AttemptsBounded
    BY MaxAttemptsAssumption DEF Init, AttemptsBounded, NoRow, InFlightStatuses
  <1>2. LeaseInv => TypeOK
    BY DEF LeaseInv
  <1> QED
    BY <1>1, <1>2, LeaseInit, LeaseStep, StepOnTable, AttemptsStep, PTL DEF Spec

-----------------------------------------------------------------------------
(* No statement applies to a done row.                                        *)
LEMMA DoneStep ==
    LeaseInv /\ [Next]_vars => [\A j \in Jobs : row[j].status = "done" => row'[j] = row[j]]_vars
  <1> SUFFICES ASSUME LeaseInv, Next, NEW i \in Jobs, row[i].status = "done"
               PROVE  row'[i] = row[i]
    OBVIOUS
  <1> USE ClockFacts, JobSetsAssumption
  <1>0. TypeOK
    BY DEF LeaseInv
  <1>1. /\ row \in [Jobs -> RowType] /\ \A j \in Jobs : row[j] \in RowType
        /\ \A t \in tasks : t \in TaskType /\ t.job \in Jobs /\ t.epoch \in Nat /\ row[t.job] \in RowType
        /\ sel \in [Runners -> Jobs \cup {NoJob}]
    BY <1>0, TaskFields DEF TypeOK
  <1>2. ASSUME NEW j \in Jobs, NEW y, row' = [row EXCEPT ![j] = y], y = row[j] \/ row[j].status # "done"
        PROVE  row'[i] = row[i]
    BY <1>1, <1>2
  <1>3. CASE Tick
    BY <1>3 DEF Tick
  <1>4. ASSUME NEW w \in Runners, TickSweep(w)
        PROVE  row'[i] = row[i]
    <2>1. row'[i] = SweepRow(i, row[i], Skew[w])
      BY <1>4 DEF TickSweep
    <2> QED
      BY <1>1, <2>1, SweepRowType DEF Expired
  <1>5. ASSUME NEW w \in Runners, ClaimCommit(w)
        PROVE  row'[i] = row[i]
    <2>1. sel[w] \in Jobs /\ row[sel[w]].status = "pending"
      BY <1>1, <1>5 DEF ClaimCommit, LeaseInv, SelPending
    <2> QED
      BY <1>2, <1>5, <2>1 DEF ClaimCommit
  <1>6. ASSUME NEW j \in Jobs, InlineStart(j) \/ Enqueue(j) \/ Retry(j) \/ InlineEnqueue(j)
        PROVE  row'[i] = row[i]
    <2>1. row[j].status # "done"
      BY <1>6 DEF InlineStart, Enqueue, Retry, InlineEnqueue, LeaseInv, StageFresh
    <2> QED
      BY <1>2, <1>6, <2>1 DEF InlineStart, Enqueue, Retry, InlineEnqueue
  <1>7. ASSUME NEW t \in tasks, Renew(t)
        PROVE  row'[i] = row[i]
    BY <1>1, <1>2, <1>7 DEF Renew, Owned
  <1>8. ASSUME NEW t \in tasks, row' = [row EXCEPT ![t.job] = CompleteRow(row[t.job], t.epoch, t.epoch)]
        PROVE  row'[i] = row[i]
    <2>1. CompleteRow(row[t.job], t.epoch, t.epoch) = row[t.job] \/ row[t.job].status = "running"
      BY DEF CompleteRow, Owned
    <2> QED
      BY <1>1, <1>2, <1>8, <2>1
  <1>9. ASSUME NEW t \in tasks, NEW d \in Delays(t),
               row' = [row EXCEPT ![t.job] = FailRow(t.job, row[t.job], t.epoch, d)]
        PROVE  row'[i] = row[i]
    <2>1. FailRow(t.job, row[t.job], t.epoch, d) = row[t.job] \/ row[t.job].status = "running"
      BY DEF FailRow, Owned
    <2> QED
      BY <1>1, <1>2, <1>9, <2>1
  <1>10. ASSUME NEW t \in tasks, row' = [row EXCEPT ![t.job] = CancelRow(row[t.job])]
         PROVE  row'[i] = row[i]
    <2>1. CancelRow(row[t.job]) = row[t.job] \/ row[t.job].status # "done"
      BY DEF CancelRow, InFlightStatuses
    <2> QED
      BY <1>1, <1>2, <1>10, <2>1
  <1>11. ASSUME NEW t \in tasks, TaskStep(t)
         PROVE  row'[i] = row[i]
    BY <1>7, <1>8, <1>9, <1>10, <1>11
    DEF TaskStep, Complete, CompleteThrows, Fail, Cancel, EndThrows, Execute
  <1>12. ASSUME NEW w \in Runners, ClaimSelect(w) \/ Drain(w) \/ ClaimThrows(w) \/ TickEnds(w)
         PROVE  row'[i] = row[i]
    BY <1>12 DEF ClaimSelect, Drain, ClaimThrows, TickEnds
  <1>13. ASSUME NEW j \in Jobs, InlineRefused(j)
         PROVE  row'[i] = row[i]
    BY <1>13 DEF InlineRefused
  <1>14. ASSUME NEW p \in Procs, Crash(p)
         PROVE  row'[i] = row[i]
    BY <1>14 DEF Crash
  <1> QED
    BY <1>3, <1>4, <1>5, <1>6, <1>11, <1>12, <1>13, <1>14 DEF Next, RunnerStep, JobStep

(* A result is final: no sweep, late write-back, cancel or retry ever touches *)
(* a done job again.                                                          *)
THEOREM DoneStaysDone == Spec => DoneIsFinal
  BY LeaseInit, LeaseStep, DoneStep, PTL DEF Spec, DoneIsFinal

=============================================================================
