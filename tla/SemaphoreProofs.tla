-------------------------- MODULE SemaphoreProofs --------------------------
(* Proofs about Semaphore for every number of callers, cap and queue bound.   *)
EXTENDS Semaphore, FiniteSetTheorems, SequenceTheorems, TLAPS

(* What is left of the queue after shedStale(): a suffix.                     *)
LEMMA FreshProperties ==
    ASSUME TypeOK
    PROVE  /\ Fresh \in Seq(Callers)
           /\ Len(Fresh) = Len(waiters) - stale
           /\ \A i \in 1..Len(Fresh) : i + stale \in 1..Len(waiters) /\ Fresh[i] = waiters[i + stale]
  <1> DEFINE n == Len(waiters)
  <1>1. n \in Nat /\ stale \in Nat /\ stale <= n /\ waiters \in Seq(Callers)
    BY DEF TypeOK
  <1>2. Fresh = SubSeq(waiters, stale + 1, n)
    BY DEF Fresh
  <1>3. Len(Fresh) = n - stale
    BY <1>1, <1>2
  <1>4. \A i \in 1..Len(Fresh) : Fresh[i] = waiters[i + stale]
    BY <1>1, <1>2
  <1>5. Fresh \in Seq(Callers)
    BY <1>1, <1>2
  <1> QED
    BY <1>1, <1>3, <1>4, <1>5

(* Taking one entry out of a sequence shifts the entries behind it.           *)
LEMMA RemoveAtProperties ==
    ASSUME NEW S, NEW s \in Seq(S), NEW i \in 1..Len(s)
    PROVE  /\ RemoveAt(s, i) \in Seq(S)
           /\ Len(RemoveAt(s, i)) = Len(s) - 1
           /\ \A k \in 1..(Len(s) - 1) : RemoveAt(s, i)[k] = IF k < i THEN s[k] ELSE s[k + 1]
  <1> DEFINE a == SubSeq(s, 1, i - 1)
             b == SubSeq(s, i + 1, Len(s))
  <1>0. Len(s) \in Nat /\ i \in Nat /\ 1 <= i /\ i <= Len(s)
    OBVIOUS
  <1>1. a \in Seq(S) /\ Len(a) = i - 1 /\ \A k \in 1..(i - 1) : a[k] = s[k]
    BY <1>0, SubSeqProperties
  <1>2. b \in Seq(S) /\ Len(b) = Len(s) - i
    <2>1. CASE i < Len(s)
      BY <1>0, <2>1, SubSeqProperties
    <2>2. CASE i = Len(s)
      BY <1>0, <2>2, SubSeqEmpty
    <2> QED
      BY <1>0, <2>1, <2>2
  <1>3. \A k \in 1..(Len(s) - i) : b[k] = s[k + i]
    BY <1>0
  <1>4. RemoveAt(s, i) = a \o b
    BY DEF RemoveAt
  <1> HIDE DEF a, b
  <1>5. a \o b \in Seq(S) /\ Len(a \o b) = Len(s) - 1
    <2>1. a \o b \in Seq(S) /\ Len(a \o b) = Len(a) + Len(b)
      BY <1>1, <1>2, ConcatProperties
    <2> QED
      BY <1>0, <1>1, <1>2, <2>1
  <1>6. ASSUME NEW k \in 1..(Len(s) - 1)
        PROVE  (a \o b)[k] = IF k < i THEN s[k] ELSE s[k + 1]
    <2>0. (a \o b)[k] = IF k <= Len(a) THEN a[k] ELSE b[k - Len(a)]
      BY <1>0, <1>1, <1>2, ConcatProperties
    <2>1. CASE k < i
      BY <1>0, <1>1, <2>0, <2>1
    <2>2. CASE ~(k < i)
      <3>1. (a \o b)[k] = b[k - (i - 1)]
        BY <1>0, <1>1, <2>0, <2>2
      <3>2. k - (i - 1) \in 1..(Len(s) - i) /\ (k - (i - 1)) + i = k + 1
        BY <1>0, <2>2
      <3>3. b[k - (i - 1)] = s[k + 1]
        BY <1>3, <3>2
      <3> QED
        BY <2>2, <3>1, <3>3
    <2> QED
      BY <2>1, <2>2
  <1> QED
    BY <1>4, <1>5, <1>6

(* How many callers are in a given state, and how that changes.               *)
Count(f, s) == Cardinality({c \in Callers : f[c] = s})

LEMMA CountType ==
    ASSUME NEW f, NEW s
    PROVE  IsFiniteSet({c \in Callers : f[c] = s}) /\ Count(f, s) \in Nat
  <1>1. IsFiniteSet({c \in Callers : f[c] = s})
    BY CallersAssumption, FS_Subset
  <1> QED
    BY <1>1, FS_CardinalityType DEF Count

LEMMA CountSame ==
    ASSUME NEW f, NEW g, NEW s, \A d \in Callers : f[d] = s <=> g[d] = s
    PROVE  Count(g, s) = Count(f, s)
  <1>1. {c \in Callers : f[c] = s} = {c \in Callers : g[c] = s}
    OBVIOUS
  <1> QED
    BY <1>1 DEF Count

LEMMA CountGain ==
    ASSUME NEW f, NEW g, NEW s, NEW c \in Callers, f[c] # s, g[c] = s,
           \A d \in Callers \ {c} : f[d] = s <=> g[d] = s
    PROVE  Count(g, s) = Count(f, s) + 1
  <1> DEFINE F == {d \in Callers : f[d] = s}
             G == {d \in Callers : g[d] = s}
  <1>1. G = F \cup {c} /\ c \notin F
    OBVIOUS
  <1>2. IsFiniteSet(F)
    BY CountType
  <1>3. Cardinality(F \cup {c}) = Cardinality(F) + 1
    BY <1>1, <1>2, FS_AddElement
  <1> QED
    BY <1>1, <1>3 DEF Count

-----------------------------------------------------------------------------
(* Type correctness.                                                          *)
LEMMA TypeInit == Init => TypeOK
  BY CapsAssumption, BoundsAssumption DEF Init, TypeOK, CallerStates

LEMMA TypeStep == TypeOK /\ [Next]_vars => TypeOK'
  <1> SUFFICES ASSUME TypeOK, [Next]_vars
               PROVE  TypeOK'
    OBVIOUS
  <1> USE CapsAssumption, BoundsAssumption
  <1>0. /\ cap \in Nat /\ inFlight \in Nat /\ waiters \in Seq(Callers)
        /\ Len(waiters) \in Nat /\ stale \in Nat /\ stale <= Len(waiters)
        /\ caller \in [Callers -> CallerStates] /\ resets \in Nat /\ resets <= MaxResets
    BY DEF TypeOK
  <1>1. /\ Fresh \in Seq(Callers) /\ Len(Fresh) \in Nat
        /\ AfterShed \in [Callers -> CallerStates]
    BY <1>0, FreshProperties DEF AfterShed, CallerStates
  <1>2. Left \in Nat
    BY <1>0 DEF Left
  <1>3. CASE Age
    BY <1>0, <1>3 DEF Age, TypeOK
  <1>4. CASE Reset
    BY <1>0, <1>4 DEF Reset, TypeOK, CallerStates
  <1>5. ASSUME NEW c \in Callers, Passthrough(c)
        PROVE  TypeOK'
    BY <1>0, <1>5 DEF Passthrough, TypeOK, CallerStates
  <1>6. ASSUME NEW c \in Callers, AcquireFast(c)
        PROVE  TypeOK'
    BY <1>0, <1>6 DEF AcquireFast, TypeOK, CallerStates
  <1>7. ASSUME NEW c \in Callers, AcquireSlow(c)
        PROVE  TypeOK'
    <2>1. waiters' \in Seq(Callers) /\ Len(waiters') \in Nat
      BY <1>1, <1>7 DEF AcquireSlow
    <2>2. caller' \in [Callers -> CallerStates]
      BY <1>1, <1>7 DEF AcquireSlow, CallerStates
    <2> QED
      BY <1>0, <1>7, <2>1, <2>2 DEF AcquireSlow, TypeOK
  <1>8. ASSUME NEW c \in Callers, Continue(c)
        PROVE  TypeOK'
    BY <1>0, <1>8 DEF Continue, TypeOK, CallerStates
  <1>9. ASSUME NEW c \in Callers, TimeoutOrNull(c)
        PROVE  TypeOK'
    <2>1. PICK i \in 1..Len(waiters) :
            /\ waiters[i] = c
            /\ waiters' = RemoveAt(waiters, i)
            /\ stale' = IF i <= stale THEN stale - 1 ELSE stale
      BY <1>9 DEF TimeoutOrNull
    <2>2. waiters' \in Seq(Callers) /\ Len(waiters') = Len(waiters) - 1
      BY <1>0, <2>1, RemoveAtProperties
    <2>3. stale' \in 0..Len(waiters')
      BY <1>0, <2>1, <2>2
    <2> QED
      BY <1>0, <1>9, <2>2, <2>3 DEF TimeoutOrNull, TypeOK, CallerStates
  <1>10. ASSUME NEW c \in Callers, Release(c)
         PROVE  TypeOK'
    <2>1. CASE Fresh = <<>>
      BY <1>0, <1>1, <1>2, <1>10, <2>1 DEF Release, TypeOK, CallerStates
    <2>2. CASE Fresh # <<>>
      <3>1. Tail(Fresh) \in Seq(Callers) /\ Len(Tail(Fresh)) \in Nat /\ Head(Fresh) \in Callers
        BY <1>1, <2>2
      <3>2. waiters' = Tail(Fresh) /\ stale' = 0 /\ inFlight' \in Nat
        BY <1>2, <1>10, <2>2 DEF Release
      <3>3. caller' \in [Callers -> CallerStates]
        BY <1>1, <1>10, <2>2 DEF Release, CallerStates
      <3> QED
        BY <1>0, <1>10, <3>1, <3>2, <3>3 DEF Release, TypeOK
    <2> QED
      BY <2>1, <2>2
  <1>11. ASSUME NEW c \in Callers, ReleaseFree(c)
         PROVE  TypeOK'
    BY <1>0, <1>11 DEF ReleaseFree, TypeOK, CallerStates
  <1>12. CASE UNCHANGED vars
    BY <1>12 DEF vars, TypeOK
  <1> QED
    BY <1>3, <1>4, <1>5, <1>6, <1>7, <1>8, <1>9, <1>10, <1>11, <1>12 DEF Next

(* Type correctness: the pool's counters, queue and callers stay in their     *)
(* types; in particular the count never goes below zero, resets included.     *)
THEOREM TypeCorrect == Spec => []TypeOK
  BY TypeInit, TypeStep, PTL DEF Spec

-----------------------------------------------------------------------------
(* What shedStale() leaves: the queue and the callers still agree, and nobody *)
(* who holds or was granted a slot is touched.                                *)
LEMMA ShedProperties ==
    ASSUME TypeOK, QueueExact
    PROVE  /\ \A i \in 1..Len(Fresh) : AfterShed[Fresh[i]] = "waiting"
           /\ \A i, j \in 1..Len(Fresh) : Fresh[i] = Fresh[j] => i = j
           /\ \A d \in Callers : AfterShed[d] = "waiting" => \E i \in 1..Len(Fresh) : Fresh[i] = d
           /\ \A d \in Callers : AfterShed[d] = "granted" <=> caller[d] = "granted"
           /\ \A d \in Callers : AfterShed[d] = "holding" <=> caller[d] = "holding"
           /\ \A d \in Callers : caller[d] # "waiting" => AfterShed[d] = caller[d]
  <1>0. /\ waiters \in Seq(Callers) /\ Len(waiters) \in Nat
        /\ stale \in Nat /\ stale <= Len(waiters)
    BY DEF TypeOK
  <1>1. /\ Fresh \in Seq(Callers)
        /\ Len(Fresh) = Len(waiters) - stale
        /\ \A i \in 1..Len(Fresh) : i + stale \in 1..Len(waiters) /\ Fresh[i] = waiters[i + stale]
    BY FreshProperties
  <1>2. \A d \in Callers : d \in Stale => caller[d] = "waiting"
    BY <1>0 DEF Stale, QueueExact
  <1>3. \A i \in 1..Len(Fresh) : Fresh[i] \notin Stale
    <2> SUFFICES ASSUME NEW i \in 1..Len(Fresh), NEW k \in 1..stale, waiters[k] = Fresh[i]
                 PROVE  FALSE
      BY DEF Stale
    <2>1. waiters[k] = waiters[i + stale] /\ k \in 1..Len(waiters) /\ i + stale \in 1..Len(waiters)
      BY <1>0, <1>1
    <2>2. k = i + stale
      BY <2>1 DEF QueueExact
    <2> QED
      BY <1>0, <1>1, <2>2
  <1>4. ASSUME NEW i \in 1..Len(Fresh)
        PROVE  Fresh[i] \in Callers /\ AfterShed[Fresh[i]] = "waiting"
    <2>1. Fresh[i] \in Callers
      BY <1>1
    <2>2. caller[Fresh[i]] = "waiting"
      BY <1>1 DEF QueueExact
    <2>3. AfterShed[Fresh[i]] = IF Fresh[i] \in Stale THEN "done" ELSE caller[Fresh[i]]
      BY <2>1 DEF AfterShed
    <2> QED
      BY <1>3, <2>1, <2>2, <2>3
  <1>5. \A i, j \in 1..Len(Fresh) : Fresh[i] = Fresh[j] => i = j
    <2> SUFFICES ASSUME NEW i \in 1..Len(Fresh), NEW j \in 1..Len(Fresh), Fresh[i] = Fresh[j]
                 PROVE  i = j
      OBVIOUS
    <2>1. i + stale = j + stale
      BY <1>1 DEF QueueExact
    <2> QED
      BY <1>0, <1>1, <2>1
  <1>6. ASSUME NEW d \in Callers, AfterShed[d] = "waiting"
        PROVE  \E i \in 1..Len(Fresh) : Fresh[i] = d
    <2>1. caller[d] = "waiting" /\ d \notin Stale
      BY <1>6 DEF AfterShed
    <2>2. PICK k \in 1..Len(waiters) : waiters[k] = d
      BY <2>1 DEF QueueExact
    <2>3. k > stale
      BY <1>0, <2>1, <2>2 DEF Stale
    <2>4. k - stale \in 1..Len(Fresh) /\ (k - stale) + stale = k
      BY <1>0, <1>1, <2>2, <2>3
    <2>5. Fresh[k - stale] = d
      BY <1>1, <2>2, <2>4
    <2> QED
      BY <2>4, <2>5
  <1>7. \A d \in Callers : AfterShed[d] = IF d \in Stale THEN "done" ELSE caller[d]
    BY DEF AfterShed
  <1> QED
    BY <1>2, <1>4, <1>5, <1>6, <1>7

LEMMA QueueInit == Init => QueueExact
  BY DEF Init, QueueExact

LEMMA QueueStep == TypeOK /\ QueueExact /\ [Next]_vars => QueueExact'
  <1> SUFFICES ASSUME TypeOK, QueueExact, [Next]_vars
               PROVE  QueueExact'
    OBVIOUS
  <1>0. /\ waiters \in Seq(Callers) /\ Len(waiters) \in Nat
        /\ stale \in Nat /\ stale <= Len(waiters)
        /\ caller \in [Callers -> CallerStates]
    BY DEF TypeOK
  <1>1. /\ Fresh \in Seq(Callers) /\ Len(Fresh) \in Nat
        /\ \A i \in 1..Len(Fresh) : Fresh[i] \in Callers
        /\ DOMAIN AfterShed = Callers
    BY <1>0, FreshProperties DEF AfterShed
  <1>2. CASE Age
    BY <1>2 DEF Age, QueueExact
  <1>3. CASE Reset
    BY <1>3 DEF Reset, QueueExact
  <1>4. ASSUME NEW c \in Callers, Passthrough(c)
        PROVE  QueueExact'
    BY <1>0, <1>4 DEF Passthrough, QueueExact
  <1>5. ASSUME NEW c \in Callers, AcquireFast(c)
        PROVE  QueueExact'
    BY <1>0, <1>5 DEF AcquireFast, QueueExact
  <1>6. ASSUME NEW c \in Callers, AcquireSlow(c)
        PROVE  QueueExact'
    <2>1. caller[c] # "waiting" /\ AfterShed[c] # "waiting"
      BY <1>6, ShedProperties DEF AcquireSlow
    <2>2. \A i \in 1..Len(Fresh) : Fresh[i] # c
      BY <2>1, ShedProperties
    <2>3. CASE QueueFull
      <3>1. waiters' = Fresh /\ caller' = [AfterShed EXCEPT ![c] = "done"]
        BY <1>6, <2>3 DEF AcquireSlow
      <3> QED
        BY <1>1, <2>1, <2>2, <3>1, ShedProperties DEF QueueExact
    <2>4. CASE ~QueueFull
      <3>1. waiters' = Append(Fresh, c) /\ caller' = [AfterShed EXCEPT ![c] = "waiting"]
        BY <1>6, <2>4 DEF AcquireSlow
      <3>2. /\ Len(waiters') = Len(Fresh) + 1
            /\ \A i \in 1..Len(Fresh) : waiters'[i] = Fresh[i]
            /\ waiters'[Len(Fresh) + 1] = c
        BY <1>1, <3>1
      <3>3. \A i \in 1..Len(waiters') : i \in 1..Len(Fresh) \/ i = Len(Fresh) + 1
        BY <1>1, <3>2
      <3>4. \A i \in 1..Len(waiters') : caller'[waiters'[i]] = "waiting"
        BY <1>1, <2>2, <3>1, <3>2, <3>3, ShedProperties
      <3>5. \A i, j \in 1..Len(waiters') : waiters'[i] = waiters'[j] => i = j
        BY <2>2, <3>2, <3>3, ShedProperties
      <3>6. ASSUME NEW d \in Callers, caller'[d] = "waiting"
            PROVE  \E i \in 1..Len(waiters') : waiters'[i] = d
        <4>1. CASE d = c
          BY <1>1, <3>2, <4>1
        <4>2. CASE d # c
          <5>1. AfterShed[d] = "waiting"
            BY <1>1, <3>1, <3>6, <4>2
          <5>2. PICK i \in 1..Len(Fresh) : Fresh[i] = d
            BY <5>1, ShedProperties
          <5> QED
            BY <1>1, <3>2, <5>2
        <4> QED
          BY <4>1, <4>2
      <3> QED
        BY <3>4, <3>5, <3>6 DEF QueueExact
    <2> QED
      BY <2>3, <2>4
  <1>7. ASSUME NEW c \in Callers, Continue(c)
        PROVE  QueueExact'
    BY <1>0, <1>7 DEF Continue, QueueExact
  <1>8. ASSUME NEW c \in Callers, TimeoutOrNull(c)
        PROVE  QueueExact'
    <2>1. PICK i \in 1..Len(waiters) : waiters[i] = c /\ waiters' = RemoveAt(waiters, i)
      BY <1>8 DEF TimeoutOrNull
    <2>2. caller' = [caller EXCEPT ![c] = "done"]
      BY <1>8 DEF TimeoutOrNull
    <2>3. /\ Len(waiters') = Len(waiters) - 1
          /\ \A k \in 1..Len(waiters') : waiters'[k] = IF k < i THEN waiters[k] ELSE waiters[k + 1]
      BY <1>0, <2>1, RemoveAtProperties
    <2> DEFINE old(k) == IF k < i THEN k ELSE k + 1
    <2>4. \A k \in 1..Len(waiters') :
            /\ old(k) \in 1..Len(waiters) /\ old(k) # i
            /\ waiters'[k] = waiters[old(k)]
      BY <1>0, <2>1, <2>3
    <2>5. \A k, m \in 1..Len(waiters') : old(k) = old(m) => k = m
      BY <1>0, <2>1, <2>3
    <2>6. \A k \in 1..Len(waiters) : k # i => \E m \in 1..Len(waiters') : old(m) = k
      <3> SUFFICES ASSUME NEW k \in 1..Len(waiters), k # i
                   PROVE  \E m \in 1..Len(waiters') : old(m) = k
        OBVIOUS
      <3>1. CASE k < i
        BY <1>0, <2>1, <2>3, <3>1
      <3>2. CASE k > i
        <4>1. k - 1 \in 1..Len(waiters') /\ old(k - 1) = k
          BY <1>0, <2>1, <2>3, <3>2
        <4> QED
          BY <4>1
      <3> QED
        BY <1>0, <2>1, <3>1, <3>2
    <2>7. \A k \in 1..Len(waiters) : waiters[k] \in Callers
      BY <1>0
    <2> HIDE DEF old
    <2>8. ASSUME NEW k \in 1..Len(waiters')
          PROVE  caller'[waiters'[k]] = "waiting"
      <3>1. waiters'[k] # c
        BY <2>1, <2>4 DEF QueueExact
      <3>2. waiters'[k] \in Callers /\ caller[waiters'[k]] = "waiting"
        BY <2>4, <2>7 DEF QueueExact
      <3> QED
        BY <1>0, <2>2, <3>1, <3>2
    <2>9. \A k, m \in 1..Len(waiters') : waiters'[k] = waiters'[m] => k = m
      BY <2>4, <2>5 DEF QueueExact
    <2>10. ASSUME NEW d \in Callers, caller'[d] = "waiting"
           PROVE  \E k \in 1..Len(waiters') : waiters'[k] = d
      <3>1. d # c /\ caller[d] = "waiting"
        BY <1>0, <2>2, <2>10
      <3>2. PICK k \in 1..Len(waiters) : waiters[k] = d
        BY <3>1 DEF QueueExact
      <3>3. PICK m \in 1..Len(waiters') : old(m) = k
        BY <2>1, <2>6, <3>1, <3>2
      <3> QED
        BY <2>4, <3>2, <3>3
    <2> QED
      BY <2>8, <2>9, <2>10 DEF QueueExact
  <1>9. ASSUME NEW c \in Callers, Release(c)
        PROVE  QueueExact'
    <2>1. caller[c] = "holding" /\ AfterShed[c] = "holding"
      BY <1>9, ShedProperties DEF Release
    <2>2. \A i \in 1..Len(Fresh) : Fresh[i] # c
      BY <2>1, ShedProperties
    <2>3. CASE Fresh = <<>>
      <3>1. waiters' = Fresh /\ caller' = [AfterShed EXCEPT ![c] = "done"]
        BY <1>9, <2>3 DEF Release
      <3> QED
        BY <1>1, <2>1, <2>2, <3>1, ShedProperties DEF QueueExact
    <2>4. CASE Fresh # <<>>
      <3> DEFINE h == Head(Fresh)
      <3>1. h = Fresh[1] /\ 1 \in 1..Len(Fresh) /\ h \in Callers
        BY <1>1, <2>4
      <3>2. /\ waiters' = Tail(Fresh)
            /\ caller' = [[AfterShed EXCEPT ![c] = "done"] EXCEPT ![h] =
                            IF h \in Blocking THEN "granted" ELSE "holding"]
        BY <1>9, <2>4 DEF Release
      <3>3. /\ Len(waiters') = Len(Fresh) - 1
            /\ \A i \in 1..Len(waiters') : i + 1 \in 1..Len(Fresh) /\ waiters'[i] = Fresh[i + 1]
        BY <1>1, <2>4, <3>2
      <3> HIDE DEF h
      <3>4. \A i \in 1..Len(waiters') : waiters'[i] # h /\ waiters'[i] # c /\ waiters'[i] \in Callers
        <4> SUFFICES ASSUME NEW i \in 1..Len(waiters'), waiters'[i] = h
                     PROVE  FALSE
          BY <1>1, <2>2, <3>3
        <4>1. i + 1 = 1
          BY <3>1, <3>3, ShedProperties
        <4> QED
          BY <1>1, <3>3, <4>1
      <3>5. \A i \in 1..Len(waiters') : caller'[waiters'[i]] = "waiting"
        BY <1>1, <3>1, <3>2, <3>3, <3>4, ShedProperties
      <3>6. \A i, j \in 1..Len(waiters') : waiters'[i] = waiters'[j] => i = j
        <4> SUFFICES ASSUME NEW i \in 1..Len(waiters'), NEW j \in 1..Len(waiters'), waiters'[i] = waiters'[j]
                     PROVE  i = j
          OBVIOUS
        <4>1. i + 1 = j + 1
          BY <3>3, ShedProperties
        <4> QED
          BY <1>1, <3>3, <4>1
      <3>7. ASSUME NEW d \in Callers, caller'[d] = "waiting"
            PROVE  \E i \in 1..Len(waiters') : waiters'[i] = d
        <4>1. d # h /\ d # c /\ AfterShed[d] = "waiting"
          BY <1>1, <3>1, <3>2, <3>7
        <4>2. PICK k \in 1..Len(Fresh) : Fresh[k] = d
          BY <4>1, ShedProperties
        <4>3. k # 1
          BY <3>1, <4>1, <4>2
        <4>4. k - 1 \in 1..Len(waiters') /\ (k - 1) + 1 = k
          BY <1>1, <3>3, <4>2, <4>3
        <4> QED
          BY <3>3, <4>2, <4>4
      <3> QED
        BY <3>5, <3>6, <3>7 DEF QueueExact
    <2> QED
      BY <2>3, <2>4
  <1>10. ASSUME NEW c \in Callers, ReleaseFree(c)
         PROVE  QueueExact'
    BY <1>0, <1>10 DEF ReleaseFree, QueueExact
  <1>11. CASE UNCHANGED vars
    BY <1>11 DEF vars, QueueExact
  <1> QED
    BY <1>2, <1>3, <1>4, <1>5, <1>6, <1>7, <1>8, <1>9, <1>10, <1>11 DEF Next

(* No waiter is abandoned and no phantom waiter is served: the queue holds    *)
(* exactly the callers that wait, through sheds, timeouts and resets.         *)
THEOREM QueueAlwaysExact == Spec => []QueueExact
  BY TypeInit, TypeStep, QueueInit, QueueStep, PTL DEF Spec

-----------------------------------------------------------------------------
(* Slots.  The count, the held slots and the grants in flight move together,  *)
(* so the three facts about them are proved together: that is the inductive   *)
(* invariant, with the queue agreement above as its context.                  *)
Held == Count(caller, "holding")
Granted == Count(caller, "granted")

(* Only acquire() leaves a gap between its grant and its count.               *)
GrantsBlocking == \A c \in Callers : caller[c] = "granted" => c \in Blocking

SlotInv == NoLostWakeup /\ NoLeakedSlot /\ GrantsBlocking

LEMMA SlotCounts ==
    /\ Cardinality(In("holding")) = Held /\ Cardinality(In("granted")) = Granted
    /\ Cardinality(In("holding"))' = Held' /\ Cardinality(In("granted"))' = Granted'
    /\ Held \in Nat /\ Granted \in Nat /\ Held' \in Nat /\ Granted' \in Nat
  BY CountType DEF Held, Granted, Count, In

LEMMA SlotInit == Init => SlotInv
  <1> SUFFICES ASSUME Init
               PROVE  SlotInv
    OBVIOUS
  <1>1. In("holding") = {}
    BY DEF Init, In
  <1>2. Cardinality(In("holding")) = 0
    BY <1>1, FS_EmptySet
  <1> QED
    BY <1>2 DEF Init, SlotInv, NoLostWakeup, NoLeakedSlot, GrantsBlocking

(* A caller that holds a slot is counted.                                     *)
LEMMA HolderCounted ==
    ASSUME NEW c \in Callers, caller[c] = "holding"
    PROVE  Held >= 1
  <1> DEFINE f == [d \in Callers |-> IF d = c THEN "done" ELSE caller[d]]
  <1>1. Count(caller, "holding") = Count(f, "holding") + 1
    BY CountGain
  <1>2. Count(f, "holding") \in Nat
    BY CountType
  <1> QED
    BY <1>1, <1>2 DEF Held

LEMMA SlotStep == TypeOK /\ QueueExact /\ SlotInv /\ [Next]_vars => SlotInv'
  <1> SUFFICES ASSUME TypeOK, QueueExact, SlotInv, [Next]_vars
               PROVE  SlotInv'
    OBVIOUS
  <1>0. /\ cap \in Nat /\ inFlight \in Nat /\ resets \in Nat
        /\ waiters \in Seq(Callers) /\ caller \in [Callers -> CallerStates]
        /\ DOMAIN AfterShed = Callers
    BY CapsAssumption DEF TypeOK, AfterShed
  <1>1. /\ waiters # <<>> => cap # 0 /\ inFlight + Granted >= cap
        /\ inFlight <= Held
        /\ resets = 0 => inFlight = Held
        /\ \A d \in Callers : caller[d] = "granted" => d \in Blocking
        /\ Held \in Nat /\ Granted \in Nat /\ Held' \in Nat /\ Granted' \in Nat
    BY SlotCounts DEF SlotInv, NoLostWakeup, NoLeakedSlot, GrantsBlocking
  <1> DEFINE Goal == /\ waiters' # <<>> => cap' # 0 /\ inFlight' + Granted' >= cap'
                     /\ inFlight' <= Held'
                     /\ resets' = 0 => inFlight' = Held'
                     /\ \A d \in Callers : caller'[d] = "granted" => d \in Blocking
  <1>2. SUFFICES Goal
    BY SlotCounts DEF SlotInv, NoLostWakeup, NoLeakedSlot, GrantsBlocking
  <1>3. CASE Age
    BY <1>0, <1>1, <1>3 DEF Age, Held, Granted
  <1>4. CASE Reset
    BY <1>0, <1>1, <1>4 DEF Reset
  <1>5. ASSUME NEW c \in Callers, Passthrough(c)
        PROVE  Goal
    <2>1. Held' = Held /\ Granted' = Granted
      BY <1>0, <1>5, CountSame DEF Passthrough, Held, Granted
    <2> QED
      BY <1>0, <1>1, <1>5, <2>1 DEF Passthrough
  <1>6. ASSUME NEW c \in Callers, AcquireFast(c)
        PROVE  Goal
    <2>1. Held' = Held + 1
      BY <1>0, <1>6, CountGain DEF AcquireFast, Held
    <2>2. Granted' = Granted
      BY <1>0, <1>6, CountSame DEF AcquireFast, Granted
    <2> QED
      BY <1>0, <1>1, <1>6, <2>1, <2>2 DEF AcquireFast
  <1>7. ASSUME NEW c \in Callers, AcquireSlow(c)
        PROVE  Goal
    <2>1. /\ caller[c] = "new" /\ cap # 0 /\ inFlight >= cap
          /\ cap' = cap /\ inFlight' = inFlight /\ resets' = resets
          /\ \E s \in {"done", "waiting"} : caller' = [AfterShed EXCEPT ![c] = s]
      BY <1>7 DEF AcquireSlow
    <2>2. \A d \in Callers : /\ caller'[d] = "holding" <=> caller[d] = "holding"
                             /\ caller'[d] = "granted" <=> caller[d] = "granted"
      BY <1>0, <2>1, ShedProperties
    <2>3. Held' = Held /\ Granted' = Granted
      BY <2>2, CountSame DEF Held, Granted
    <2> QED
      BY <1>0, <1>1, <2>1, <2>2, <2>3
  <1>8. ASSUME NEW c \in Callers, Continue(c)
        PROVE  Goal
    <2>1. Held' = Held + 1
      BY <1>0, <1>8, CountGain DEF Continue, Held
    <2>2. Granted = Granted' + 1
      BY <1>0, <1>8, CountGain DEF Continue, Granted
    <2>3. \A d \in Callers : caller'[d] = "granted" => d \in Blocking
      BY <1>0, <1>1, <1>8 DEF Continue
    <2>4. cap' = cap /\ waiters' = waiters /\ resets' = resets /\ inFlight' = inFlight + 1
      BY <1>8 DEF Continue
    <2>5. inFlight' + Granted' = inFlight + Granted
      BY <1>0, <1>1, <2>2, <2>4
    <2>6. waiters' # <<>> => cap' # 0 /\ inFlight' + Granted' >= cap'
      BY <1>1, <2>4, <2>5
    <2>7. inFlight' <= Held' /\ (resets' = 0 => inFlight' = Held')
      BY <1>0, <1>1, <2>1, <2>4
    <2> QED
      BY <2>3, <2>6, <2>7
  <1>9. ASSUME NEW c \in Callers, TimeoutOrNull(c)
        PROVE  Goal
    <2>1. waiters # <<>> /\ caller[c] = "waiting"
      BY <1>0, <1>9 DEF TimeoutOrNull, QueueExact
    <2>2. Held' = Held /\ Granted' = Granted
      BY <1>0, <1>9, <2>1, CountSame DEF TimeoutOrNull, Held, Granted
    <2> QED
      BY <1>0, <1>1, <1>9, <2>1, <2>2 DEF TimeoutOrNull
  <1>10. ASSUME NEW c \in Callers, Release(c)
         PROVE  Goal
    <2> DEFINE freed == [AfterShed EXCEPT ![c] = "done"]
    <2>1. caller[c] = "holding" /\ cap' = cap /\ resets' = resets
      BY <1>10 DEF Release
    <2>2. /\ freed[c] = "done" /\ DOMAIN freed = Callers
          /\ \A d \in Callers \ {c} : /\ freed[d] = "holding" <=> caller[d] = "holding"
                                      /\ freed[d] = "granted" <=> caller[d] = "granted"
      BY <1>0, <2>1, ShedProperties
    <2> HIDE DEF freed
    <2>3. Held = Count(freed, "holding") + 1 /\ Granted = Count(freed, "granted")
      <3>1. Count(caller, "holding") = Count(freed, "holding") + 1
        BY <2>1, <2>2, CountGain
      <3>2. Count(freed, "granted") = Count(caller, "granted")
        BY <2>1, <2>2, CountSame
      <3> QED
        BY <3>1, <3>2 DEF Held, Granted
    <2>4. Count(freed, "holding") \in Nat /\ Count(freed, "granted") \in Nat
      BY CountType
    <2>5. /\ Left \in Nat /\ Left + 1 >= inFlight /\ Left <= Count(freed, "holding")
          /\ resets = 0 => Left = Count(freed, "holding")
      BY <1>0, <1>1, <2>3, <2>4 DEF Left
    <2>6. CASE Fresh = <<>>
      <3>1. waiters' = <<>> /\ inFlight' = Left /\ caller' = freed
        BY <1>10, <2>6 DEF Release, freed
      <3> QED
        BY <1>1, <2>1, <2>2, <2>5, <3>1 DEF Held
    <2>7. CASE Fresh # <<>>
      <3> DEFINE h == Head(Fresh)
      <3>1. /\ h \in Callers /\ AfterShed[h] = "waiting" /\ waiters # <<>>
        <4>1. 1 \in 1..Len(Fresh) /\ h = Fresh[1] /\ h \in Callers
          BY <2>7, FreshProperties
        <4>2. waiters # <<>>
          BY <4>1, FreshProperties
        <4> QED
          BY <4>1, <4>2, ShedProperties
      <3>2. /\ inFlight' = IF h \in Blocking THEN Left ELSE Left + 1
            /\ caller' = [freed EXCEPT ![h] = IF h \in Blocking THEN "granted" ELSE "holding"]
        BY <1>10, <2>7 DEF Release, freed
      <3>3. h # c /\ freed[h] = "waiting"
        BY <1>0, <2>1, <3>1, ShedProperties DEF freed
      <3> HIDE DEF h
      <3>4. CASE h \in Blocking
        <4>1. caller' = [freed EXCEPT ![h] = "granted"]
          BY <3>2, <3>4
        <4>2. Held' = Count(freed, "holding")
          <5>1. \A d \in Callers : freed[d] = "holding" <=> caller'[d] = "holding"
            BY <2>2, <3>1, <3>3, <4>1
          <5> QED
            BY <5>1, CountSame DEF Held
        <4>3. Granted' = Count(freed, "granted") + 1
          BY <2>2, <3>1, <3>3, <4>1, CountGain DEF Granted
        <4>4. \A d \in Callers : caller'[d] = "granted" => d \in Blocking
          BY <1>1, <2>2, <3>1, <3>4, <4>1
        <4> QED
          BY <1>0, <1>1, <2>1, <2>3, <2>4, <2>5, <3>1, <3>2, <3>4, <4>2, <4>3, <4>4
      <3>5. CASE h \notin Blocking
        <4>1. caller' = [freed EXCEPT ![h] = "holding"]
          BY <3>2, <3>5
        <4>2. Held' = Count(freed, "holding") + 1
          BY <2>2, <3>1, <3>3, <4>1, CountGain DEF Held
        <4>3. Granted' = Count(freed, "granted")
          <5>1. \A d \in Callers : freed[d] = "granted" <=> caller'[d] = "granted"
            BY <2>2, <3>1, <3>3, <4>1
          <5> QED
            BY <5>1, CountSame DEF Granted
        <4>4. \A d \in Callers : caller'[d] = "granted" => d \in Blocking
          BY <1>1, <2>2, <3>1, <3>5, <4>1
        <4> QED
          BY <1>0, <1>1, <2>1, <2>3, <2>4, <2>5, <3>1, <3>2, <3>5, <4>2, <4>3, <4>4
      <3> QED
        BY <3>4, <3>5
    <2> QED
      BY <2>6, <2>7
  <1>11. ASSUME NEW c \in Callers, ReleaseFree(c)
         PROVE  Goal
    <2>1. Held' = Held /\ Granted' = Granted
      BY <1>0, <1>11, CountSame DEF ReleaseFree, Held, Granted
    <2> QED
      BY <1>0, <1>1, <1>11, <2>1 DEF ReleaseFree
  <1>12. CASE UNCHANGED vars
    BY <1>1, <1>12 DEF vars, Held, Granted
  <1> QED
    BY <1>3, <1>4, <1>5, <1>6, <1>7, <1>8, <1>9, <1>10, <1>11, <1>12 DEF Next

(* No lost wake-up: a caller waits only while the whole cap is in use or on   *)
(* its way to a granted caller, whatever sheds, timeouts and resets happened. *)
THEOREM WakeupNeverLost == Spec => []NoLostWakeup
  <1>1. SlotInv => NoLostWakeup
    BY DEF SlotInv
  <1> QED
    BY <1>1, TypeInit, TypeStep, QueueInit, QueueStep, SlotInit, SlotStep, PTL DEF Spec

(* The count is never above the slots really held and, until a reset(), is    *)
(* exactly their number: the pool cannot shrink for good.                     *)
THEOREM SlotNeverLeaked == Spec => []NoLeakedSlot
  <1>1. SlotInv => NoLeakedSlot
    BY DEF SlotInv
  <1> QED
    BY <1>1, TypeInit, TypeStep, QueueInit, QueueStep, SlotInit, SlotStep, PTL DEF Spec

-----------------------------------------------------------------------------
(* The bounds.                                                                *)
LEMMA BoundStep == TypeOK /\ QueueBounded /\ [Next]_vars => QueueBounded'
  <1> SUFFICES ASSUME TypeOK, QueueBounded, [Next]_vars
               PROVE  QueueBounded'
    OBVIOUS
  <1>0. /\ waiters \in Seq(Callers) /\ Len(waiters) \in Nat /\ Len(waiters) <= MaxQueue
        /\ MaxQueue \in Nat /\ Fresh \in Seq(Callers) /\ Len(Fresh) \in Nat
        /\ Len(Fresh) <= Len(waiters)
    BY BoundsAssumption, FreshProperties DEF TypeOK, QueueBounded
  <1>1. CASE UNCHANGED waiters
    BY <1>0, <1>1 DEF QueueBounded
  <1>2. CASE Reset
    BY <1>0, <1>2 DEF Reset, QueueBounded
  <1>3. ASSUME NEW c \in Callers, AcquireSlow(c)
        PROVE  QueueBounded'
    <2>1. CASE QueueFull
      BY <1>0, <1>3, <2>1 DEF AcquireSlow, QueueBounded
    <2>2. CASE ~QueueFull
      <3>1. Len(Fresh) < MaxQueue /\ waiters' = Append(Fresh, c)
        BY <1>0, <1>3, <2>2 DEF AcquireSlow, QueueFull
      <3> QED
        BY <1>0, <3>1 DEF QueueBounded
    <2> QED
      BY <2>1, <2>2
  <1>4. ASSUME NEW c \in Callers, TimeoutOrNull(c)
        PROVE  QueueBounded'
    <2>1. PICK i \in 1..Len(waiters) : waiters' = RemoveAt(waiters, i)
      BY <1>4 DEF TimeoutOrNull
    <2>2. Len(waiters') = Len(waiters) - 1
      BY <1>0, <2>1, RemoveAtProperties
    <2> QED
      BY <1>0, <2>2 DEF QueueBounded
  <1>5. ASSUME NEW c \in Callers, Release(c)
        PROVE  QueueBounded'
    <2>1. CASE Fresh = <<>>
      BY <1>0, <1>5, <2>1 DEF Release, QueueBounded
    <2>2. CASE Fresh # <<>>
      <3>1. waiters' = Tail(Fresh) /\ Len(Tail(Fresh)) = Len(Fresh) - 1
        BY <1>0, <1>5, <2>2 DEF Release
      <3> QED
        BY <1>0, <3>1 DEF QueueBounded
    <2> QED
      BY <2>1, <2>2
  <1> QED
    BY <1>1, <1>2, <1>3, <1>4, <1>5
    DEF Next, vars, Age, Passthrough, AcquireFast, Continue, ReleaseFree

(* The wait queue never grows past BRAINROUTER_LLM_MAX_QUEUE.                 *)
THEOREM QueueStaysBounded == Spec => []QueueBounded
  <1>1. Init => QueueBounded
    BY BoundsAssumption DEF Init, QueueBounded
  <1> QED
    BY <1>1, TypeInit, TypeStep, BoundStep, PTL DEF Spec

LEMMA OrNullStep ==
    TypeOK /\ QueueExact /\ SlotInv /\ OrNullWithinCap /\ [Next]_vars => OrNullWithinCap'
  <1> SUFFICES ASSUME TypeOK, QueueExact, SlotInv, OrNullWithinCap, [Next]_vars,
                      Blocking = {}, cap' # 0, resets' = 0
               PROVE  Cardinality(In("holding"))' <= cap'
    BY DEF OrNullWithinCap
  <1>0. /\ cap \in Nat /\ inFlight \in Nat /\ resets \in Nat
        /\ Held \in Nat /\ Held' \in Nat /\ Cardinality(In("holding"))' = Held'
        /\ caller \in [Callers -> CallerStates] /\ DOMAIN AfterShed = Callers
    BY CapsAssumption, SlotCounts DEF TypeOK, AfterShed
  <1>1. \A d \in Callers : caller[d] # "granted"
    BY DEF SlotInv, GrantsBlocking
  <1>2. resets = 0 /\ cap' = cap
    BY <1>0 DEF Next, vars, Age, Reset, Passthrough, AcquireFast, AcquireSlow, Continue,
                TimeoutOrNull, Release, ReleaseFree
  <1>3. inFlight = Held /\ Held <= cap
    BY <1>2, SlotCounts DEF SlotInv, NoLeakedSlot, OrNullWithinCap
  <1>4. SlotInv' /\ inFlight' = Held'
    <2>1. SlotInv'
      BY SlotStep
    <2> QED
      BY <2>1, SlotCounts DEF SlotInv, NoLeakedSlot
  <1>5. SUFFICES inFlight' <= cap
    BY <1>0, <1>2, <1>4
  <1>6. ASSUME NEW c \in Callers, Release(c)
        PROVE  inFlight' <= cap
    <2>1. Held >= 1
      BY <1>6, HolderCounted DEF Release
    <2>2. Left = inFlight - 1
      BY <1>0, <1>3, <2>1 DEF Left
    <2> QED
      BY <1>0, <1>3, <1>6, <2>2 DEF Release
  <1>7. ASSUME NEW c \in Callers, AcquireFast(c)
        PROVE  inFlight' <= cap
    BY <1>0, <1>7 DEF AcquireFast
  <1>8. ASSUME NEW c \in Callers, Continue(c)
        PROVE  inFlight' <= cap
    BY <1>1, <1>8 DEF Continue
  <1>9. CASE inFlight' = inFlight
    BY <1>3, <1>9
  <1>10. ~Reset
    BY <1>2 DEF Reset
  <1> QED
    BY <1>6, <1>7, <1>8, <1>9, <1>10
    DEF Next, vars, Age, Passthrough, AcquireSlow, TimeoutOrNull, ReleaseFree

(* A pool used only through acquireOrNull keeps its cap until a reset(),      *)
(* because grant() counts the new holder before anyone else runs.             *)
THEOREM OrNullKeepsCap == Spec => []OrNullWithinCap
  <1>1. Init => OrNullWithinCap
    <2> SUFFICES ASSUME Init
                 PROVE  Cardinality(In("holding")) <= cap
      BY DEF OrNullWithinCap
    <2>1. In("holding") = {}
      BY DEF Init, In
    <2>2. Cardinality(In("holding")) = 0 /\ cap \in Nat
      BY <2>1, FS_EmptySet, CapsAssumption DEF Init
    <2> QED
      BY <2>2
  <1> QED
    BY <1>1, TypeInit, TypeStep, QueueInit, QueueStep, SlotInit, SlotStep, OrNullStep, PTL DEF Spec

=============================================================================
