---------------------- MODULE DiffusionScheduler_proofs ----------------------
(* Proofs about DiffusionScheduler for any set of requests, keys, capacity   *)
(* and number of steps: the type invariant, the agreement of the queues with *)
(* the request states, and what one scheduler output can do.                 *)
EXTENDS DiffusionScheduler, SequenceTheorems, FiniteSetTheorems, TLAPS

Injective(s) == \A i, j \in DOMAIN s : s[i] = s[j] => i = j
Members(s) == {s[i] : i \in DOMAIN s}

-----------------------------------------------------------------------------
(* Lemmas about the operators the queues are built from.                     *)

\* Ranks number the kept positions: a bijection from K to 1..Cardinality(K).
LEMMA RankBijective ==
  ASSUME NEW n \in Nat, NEW K \in SUBSET (1..n)
  PROVE  /\ Cardinality(K) \in Nat
         /\ \A i \in K : Rank(K, i) \in 1..Cardinality(K)
         /\ \A i, j \in K : Rank(K, i) = Rank(K, j) => i = j
         /\ \A m \in 1..Cardinality(K) : \E i \in K : Rank(K, i) = m
<1> DEFINE below(i) == {k \in K : k <= i}
           c == Cardinality(K)
           f == [i \in K |-> Rank(K, i)]
<1>1. IsFiniteSet(1..n)
  BY FS_Interval
<1>2. IsFiniteSet(K) /\ c \in Nat
  BY <1>1, FS_Subset, FS_CardinalityType
<1>3. \A i \in K : /\ IsFiniteSet(below(i))
                   /\ Rank(K, i) \in Nat
                   /\ Rank(K, i) <= c
                   /\ Rank(K, i) >= 1
  <2> SUFFICES ASSUME NEW i \in K
               PROVE  /\ IsFiniteSet(below(i)) /\ Rank(K, i) \in Nat
                      /\ Rank(K, i) <= c /\ Rank(K, i) >= 1
    OBVIOUS
  <2>1. below(i) \in SUBSET K /\ {i} \in SUBSET below(i)
    OBVIOUS
  <2> HIDE DEF below
  <2>2. IsFiniteSet(below(i)) /\ Cardinality(below(i)) <= c /\ Cardinality(below(i)) \in Nat
    BY <2>1, <1>2, FS_Subset, FS_CardinalityType
  <2>3. Cardinality({i}) = 1 /\ Cardinality({i}) <= Cardinality(below(i))
    BY <2>1, <2>2, FS_Subset, FS_Singleton
  <2>4. Rank(K, i) = Cardinality(below(i))
    BY DEF Rank, below
  <2> QED
    BY <2>2, <2>3, <2>4
<1>4. \A i \in K : Rank(K, i) \in 1..c
  <2>1. \A a, b \in Nat : a <= b /\ a >= 1 => a \in 1..b
    OBVIOUS
  <2> QED
    BY <2>1, <1>2, <1>3
<1>5. \A i, j \in K : i < j => Rank(K, i) # Rank(K, j)
  <2> SUFFICES ASSUME NEW i \in K, NEW j \in K, i < j, Rank(K, i) = Rank(K, j)
               PROVE  FALSE
    OBVIOUS
  <2>1. i \in Int /\ j \in Int
    OBVIOUS
  <2>2. below(i) \in SUBSET below(j)
    <3>1. \A k \in K : k \in Int
      OBVIOUS
    <3>2. \A k \in K : k <= i => k <= j
      BY <2>1, <3>1
    <3> QED
      BY <3>2
  <2>3. j \in below(j) /\ j \notin below(i)
    BY <2>1
  <2>4. Cardinality(below(i)) = Cardinality(below(j))
    BY DEF Rank
  <2>5. IsFiniteSet(below(j))
    BY <1>3
  <2> HIDE DEF below
  <2>6. below(j) = below(i)
    BY <2>2, <2>4, <2>5, FS_Subset
  <2> QED
    BY <2>3, <2>6
<1>6. \A i, j \in K : Rank(K, i) = Rank(K, j) => i = j
  <2> SUFFICES ASSUME NEW i \in K, NEW j \in K, Rank(K, i) = Rank(K, j), i # j
               PROVE  FALSE
    OBVIOUS
  <2>1. i < j \/ j < i
    OBVIOUS
  <2> QED
    BY <2>1, <1>5
<1>7. f \in Surjection(K, 1..c)
  <2>1. f \in Injection(K, 1..c)
    BY <1>4, <1>6 DEF Injection, IsInjective
  <2>2. IsFiniteSet(1..c) /\ Cardinality(1..c) = c
    BY <1>2, FS_Interval
  <2> HIDE DEF f
  <2> QED
    BY <2>1, <2>2, FS_Injection
<1>8. \A m \in 1..c : \E i \in K : Rank(K, i) = m
  BY <1>7 DEF Surjection
<1> QED
  BY <1>2, <1>4, <1>6, <1>8

\* Filtering a queue without duplicates removes the members of S and no others.
LEMMA WithoutFilters ==
  ASSUME NEW T, NEW s \in Seq(T), NEW S, Injective(s)
  PROVE  /\ Without(s, S) \in Seq(T)
         /\ Injective(Without(s, S))
         /\ Members(Without(s, S)) = Members(s) \ S
<1> DEFINE K == Kept(s, S)
           c == Cardinality(K)
           pos(j) == CHOOSE i \in K : Rank(K, i) = j
           t == [j \in 1..c |-> s[pos(j)]]
<1>1. Len(s) \in Nat /\ DOMAIN s = 1..Len(s) /\ \A i \in 1..Len(s) : s[i] \in T
  OBVIOUS
<1>2. K \in SUBSET (1..Len(s)) /\ \A i \in K : s[i] \notin S
  BY <1>1 DEF Kept
<1>3. /\ c \in Nat
      /\ \A i \in K : Rank(K, i) \in 1..c
      /\ \A i, j \in K : Rank(K, i) = Rank(K, j) => i = j
      /\ \A m \in 1..c : \E i \in K : Rank(K, i) = m
  <2> HIDE DEF K
  <2> QED
    BY <1>1, <1>2, RankBijective
<1>4. Without(s, S) = t
  BY DEF Without
<1> HIDE DEF K
<1>5. \A j \in 1..c : pos(j) \in K /\ Rank(K, pos(j)) = j
  BY <1>3
<1>6. \A i \in K : Rank(K, i) \in 1..c /\ pos(Rank(K, i)) = i
  BY <1>3, <1>5
<1> HIDE DEF pos, c
<1>7. t \in Seq(T) /\ DOMAIN t = 1..c
  <2>1. \A j \in 1..c : s[pos(j)] \in T
    BY <1>1, <1>2, <1>5
  <2>2. t \in [1..c -> T] /\ c \in Nat
    BY <2>1, <1>3
  <2> QED
    BY <2>2, SeqDef
<1>8. Injective(t)
  <2> SUFFICES ASSUME NEW a \in 1..c, NEW b \in 1..c, s[pos(a)] = s[pos(b)]
               PROVE  a = b
    BY DEF Injective
  <2>1. pos(a) = pos(b)
    BY <1>1, <1>2, <1>5 DEF Injective
  <2> QED
    BY <2>1, <1>5
<1>9. Members(t) \subseteq Members(s) \ S
  BY <1>1, <1>2, <1>5 DEF Members
<1>10. Members(s) \ S \subseteq Members(t)
  <2> SUFFICES ASSUME NEW i \in 1..Len(s), s[i] \notin S
               PROVE  s[i] \in Members(t)
    BY <1>1 DEF Members
  <2>1. i \in K
    BY <1>1 DEF K, Kept
  <2>2. Rank(K, i) \in DOMAIN t /\ t[Rank(K, i)] = s[i]
    BY <2>1, <1>6
  <2> QED
    BY <2>2 DEF Members
<1> QED
  BY <1>4, <1>7, <1>8, <1>9, <1>10

-----------------------------------------------------------------------------
(* The inductive invariant.                                                  *)

SchedInv ==
    /\ SchedTypeOK
    /\ QueuesMatchStates
    /\ HomogeneousBatch
    /\ BatchWithinCapacity
    /\ InFlightAccounted

LEMMA InitSchedInv == SchedInit => SchedInv
<1> SUFFICES ASSUME SchedInit PROVE SchedInv
  OBVIOUS
<1> USE DEF SchedInit
<1>1. SchedTypeOK
  <2>1. progress \in [Request -> 0..TotalSteps]
    BY StepAssumption
  <2>2. status \in [Request -> Status]
    BY DEF Status
  <2>3. out \in SchedulerOutput
    BY DEF SchedulerOutput, NoOutput
  <2>4. waiting \in Seq(Request)
    OBVIOUS
  <2>5. runningKey \in SamplingKey \cup {NoKey} /\ inFlight \in BOOLEAN
    OBVIOUS
  <2>6. running \in SUBSET Request /\ finishedReqIds \in SUBSET Request /\ returned \in SUBSET Request
    OBVIOUS
  <2> QED
    BY <2>1, <2>2, <2>3, <2>4, <2>5, <2>6 DEF SchedTypeOK
<1>2. QueuesMatchStates
  BY DEF QueuesMatchStates, WaitingMatchesStatus, RunningMatchesStatus, Queued
<1>3. HomogeneousBatch
  BY DEF HomogeneousBatch
<1>4. BatchWithinCapacity
  BY FS_EmptySet, MaxRunningAssumption DEF BatchWithinCapacity
<1>5. InFlightAccounted
  BY DEF InFlightAccounted
<1> QED
  BY <1>1, <1>2, <1>3, <1>4, <1>5 DEF SchedInv

LEMMA AddKeeps ==
  ASSUME SchedInv, NEW r \in Request, AddRequest(r)
  PROVE  SchedInv'
<1> USE DEF AddRequest
<1>1. SchedTypeOK'
  <2>1. progress' \in [Request -> 0..TotalSteps]
    BY StepAssumption DEF SchedInv, SchedTypeOK
  <2> QED
    BY <2>1 DEF SchedInv, SchedTypeOK, Status
<1>2. QueuesMatchStates'
  <2> DEFINE n == Len(waiting)
  <2>1. /\ waiting \in Seq(Request) /\ n \in Nat
        /\ DOMAIN waiting = 1..n
        /\ DOMAIN waiting' = 1..(n + 1)
        /\ \A i \in 1..n : waiting'[i] = waiting[i]
        /\ waiting'[n + 1] = r
    BY DEF SchedInv, SchedTypeOK
  <2>2. r \notin Queued
    BY DEF SchedInv, QueuesMatchStates, WaitingMatchesStatus
  <2>3. Queued' = Queued \cup {r}
    BY <2>1 DEF Queued
  <2>4. \A i, j \in DOMAIN waiting' : waiting'[i] = waiting'[j] => i = j
    BY <2>1, <2>2 DEF SchedInv, QueuesMatchStates, WaitingMatchesStatus, Queued
  <2>5. WaitingMatchesStatus'
    BY <2>3, <2>4 DEF SchedInv, QueuesMatchStates, WaitingMatchesStatus, SchedTypeOK
  <2>6. RunningMatchesStatus'
    BY DEF SchedInv, QueuesMatchStates, RunningMatchesStatus, SchedTypeOK
  <2> QED
    BY <2>5, <2>6 DEF QueuesMatchStates
<1>3. HomogeneousBatch' /\ BatchWithinCapacity'
  BY DEF SchedInv, HomogeneousBatch, BatchWithinCapacity
<1>4. InFlightAccounted'
  <2>1. inFlight => \A q \in Scheduled(out) : q # r
    BY DEF SchedInv, InFlightAccounted, IsFinished, Terminal, QueuesMatchStates,
           RunningMatchesStatus
  <2> QED
    BY <2>1 DEF SchedInv, InFlightAccounted, IsFinished, Terminal, IsEmpty, Scheduled, SchedTypeOK
<1> QED
  BY <1>1, <1>2, <1>3, <1>4 DEF SchedInv

\* The admitted ids are a prefix of the deque; the rest keeps its order.
LEMMA AdmittedPrefix ==
  ASSUME SchedTypeOK, WaitingMatchesStatus, NEW n \in 0..Len(waiting)
  PROVE  LET rest == SubSeq(waiting, n + 1, Len(waiting))
             admitted == {waiting[i] : i \in 1..n}
         IN  /\ rest \in Seq(Request)
             /\ Injective(rest)
             /\ Members(rest) = Queued \ admitted
             /\ admitted \subseteq Queued
<1> DEFINE rest == SubSeq(waiting, n + 1, Len(waiting))
           admitted == {waiting[i] : i \in 1..n}
<1>1. /\ waiting \in Seq(Request) /\ Len(waiting) \in Nat /\ n \in Nat
      /\ DOMAIN waiting = 1..Len(waiting) /\ n <= Len(waiting)
  BY DEF SchedTypeOK
<1>2. /\ rest \in Seq(Request) /\ Len(rest) = Len(waiting) - n
      /\ DOMAIN rest = 1..(Len(waiting) - n)
      /\ \A i \in 1..(Len(waiting) - n) : rest[i] = waiting[n + i]
  <2>1. n + 1 \in 1..(Len(waiting) + 1) /\ Len(waiting) \in n..Len(waiting)
    BY <1>1
  <2>2. /\ rest \in Seq(Request)
        /\ Len(rest) = IF n + 1 <= Len(waiting) THEN Len(waiting) - (n + 1) + 1 ELSE 0
        /\ \A i \in 1..(Len(waiting) - (n + 1) + 1) : rest[i] = waiting[n + 1 + i - 1]
    BY <1>1, <2>1, SubSeqProperties
  <2> HIDE DEF rest
  <2>3. Len(rest) = Len(waiting) - n /\ DOMAIN rest = 1..Len(rest)
    <3>1. DOMAIN rest = 1..Len(rest)
      BY <2>2, LenProperties
    <3>2. CASE n + 1 <= Len(waiting)
      BY <3>1, <3>2, <2>2, <1>1
    <3>3. CASE ~(n + 1 <= Len(waiting))
      <4>1. \A a, b \in Nat : a <= b /\ ~(a + 1 <= b) => b - a = 0
        OBVIOUS
      <4>2. Len(waiting) - n = 0
        BY <3>3, <4>1, <1>1
      <4> QED
        BY <3>1, <3>3, <4>2, <2>2
    <3> QED
      BY <3>2, <3>3
  <2>4. \A i \in 1..(Len(waiting) - n) : n + 1 + i - 1 = n + i
    BY <1>1
  <2>5. Len(waiting) - (n + 1) + 1 = Len(waiting) - n
    BY <1>1
  <2> QED
    BY <2>2, <2>3, <2>4, <2>5
<1>3. \A i \in 1..(Len(waiting) - n) : n + i \in DOMAIN waiting
  BY <1>1
<1> HIDE DEF rest
<1>4. Injective(rest)
  <2> SUFFICES ASSUME NEW i \in 1..(Len(waiting) - n), NEW j \in 1..(Len(waiting) - n),
                      rest[i] = rest[j]
               PROVE  i = j
    BY <1>2 DEF Injective
  <2>1. waiting[n + i] = waiting[n + j]
    BY <1>2
  <2>2. n + i = n + j
    BY <2>1, <1>3 DEF WaitingMatchesStatus
  <2> QED
    BY <2>2, <1>1
<1>5. Members(rest) \subseteq Queued \ admitted
  <2> SUFFICES ASSUME NEW i \in 1..(Len(waiting) - n)
               PROVE  rest[i] \in Queued /\ rest[i] \notin admitted
    BY <1>2 DEF Members
  <2>1. rest[i] = waiting[n + i] /\ n + i \in DOMAIN waiting
    BY <1>2, <1>3
  <2>2. \A k \in 1..n : k \in DOMAIN waiting /\ k # n + i
    BY <1>1
  <2>3. \A k \in 1..n : waiting[k] # waiting[n + i]
    BY <2>1, <2>2 DEF WaitingMatchesStatus
  <2> QED
    BY <2>1, <2>3 DEF Queued
<1>6. Queued \ admitted \subseteq Members(rest)
  <2> SUFFICES ASSUME NEW k \in 1..Len(waiting), waiting[k] \notin admitted
               PROVE  waiting[k] \in Members(rest)
    BY <1>1 DEF Queued
  <2>1. ~(k \in 1..n)
    OBVIOUS
  <2>2. k - n \in 1..(Len(waiting) - n) /\ n + (k - n) = k
    BY <2>1, <1>1
  <2>3. k - n \in DOMAIN rest /\ rest[k - n] = waiting[k]
    BY <2>2, <1>2
  <2> QED
    BY <2>3 DEF Members
<1>7. admitted \subseteq Queued
  BY <1>1 DEF Queued
<1> QED
  BY <1>2, <1>4, <1>5, <1>6, <1>7 DEF rest

LEMMA ScheduleKeeps ==
  ASSUME SchedInv, Schedule
  PROVE  SchedInv'
<1>1. PICK n \in 0..Len(waiting) :
        /\ AdmitCount(n)
        /\ LET admitted == {waiting[i] : i \in 1..n}
               new == {r \in admitted : status[r] = "WAITING"}
           IN  /\ status' = [r \in Request |-> IF r \in admitted THEN "RUNNING" ELSE status[r]]
               /\ running' = running \cup admitted
               /\ runningKey' = IF running = {} /\ n > 0 THEN WaveKey ELSE runningKey
               /\ out' = [new |-> new, cached |-> running \cup (admitted \ new),
                          finished |-> finishedReqIds]
               /\ inFlight' = (running \cup admitted # {})
        /\ waiting' = SubSeq(waiting, n + 1, Len(waiting))
  BY DEF Schedule
<1> DEFINE admitted == {waiting[i] : i \in 1..n}
           new == {r \in admitted : status[r] = "WAITING"}
<1>2. /\ waiting' \in Seq(Request) /\ Injective(waiting')
      /\ Members(waiting') = Queued \ admitted
      /\ admitted \subseteq Queued
  BY <1>1, AdmittedPrefix DEF SchedInv, QueuesMatchStates
<1>3. /\ status' = [r \in Request |-> IF r \in admitted THEN "RUNNING" ELSE status[r]]
      /\ running' = running \cup admitted
      /\ runningKey' = IF running = {} /\ n > 0 THEN WaveKey ELSE runningKey
      /\ out' = [new |-> new, cached |-> running \cup (admitted \ new), finished |-> finishedReqIds]
      /\ inFlight' = (running \cup admitted # {})
  BY <1>1
<1>4. finishedReqIds' = {} /\ returned' = {} /\ progress' = progress
  BY DEF Schedule
<1>5. n \in Nat /\ Len(waiting) \in Nat /\ n <= Len(waiting) /\ DOMAIN waiting = 1..Len(waiting)
  BY <1>1 DEF SchedInv, SchedTypeOK
<1>6. /\ n <= MaxRunning - Cardinality(running)
      /\ \A i \in 1..n : KeyOf[waiting[i]] = WaveKey
  BY <1>1 DEF AdmitCount, CanAdmit
<1>7. admitted \subseteq Request
  BY <1>2 DEF SchedInv, QueuesMatchStates, WaitingMatchesStatus
<1> HIDE DEF admitted, new
<1>8. new \subseteq admitted
  BY DEF new
<1>9. SchedTypeOK'
  <2>1. status' \in [Request -> Status]
    BY <1>3 DEF SchedInv, SchedTypeOK, Status
  <2>2. out' \in SchedulerOutput
    BY <1>3, <1>7, <1>8 DEF SchedInv, SchedTypeOK, SchedulerOutput
  <2>3. runningKey' \in SamplingKey \cup {NoKey}
    <3>1. WaveKey \in SamplingKey \cup {NoKey}
      <4>1. waiting # <<>> => waiting[1] \in Request
        BY DEF SchedInv, SchedTypeOK
      <4> QED
        BY <4>1, KeyAssumption DEF WaveKey, SchedInv, SchedTypeOK
    <3> QED
      BY <3>1, <1>3 DEF SchedInv, SchedTypeOK
  <2>4. running' \in SUBSET Request /\ inFlight' \in BOOLEAN
    BY <1>3, <1>7 DEF SchedInv, SchedTypeOK
  <2> QED
    BY <1>2, <1>4, <2>1, <2>2, <2>3, <2>4 DEF SchedInv, SchedTypeOK
<1>10. QueuesMatchStates'
  <2>1. Queued' = Queued \ admitted
    BY <1>2 DEF Queued, Members
  <2>2. WaitingMatchesStatus'
    BY <2>1, <1>2, <1>3 DEF WaitingMatchesStatus, Injective, SchedInv, SchedTypeOK, QueuesMatchStates
  <2>3. RunningMatchesStatus'
    BY <1>3, <1>7 DEF RunningMatchesStatus, SchedInv, SchedTypeOK, QueuesMatchStates
  <2> QED
    BY <2>2, <2>3 DEF QueuesMatchStates
<1>11. n = 0 => admitted = {}
  BY DEF admitted
<1>12. n > 0 => waiting[1] \in admitted /\ waiting # <<>> /\ waiting[1] \in Request
  <2>1. n > 0 => 1 \in 1..n /\ 1 \in DOMAIN waiting
    BY <1>5
  <2> QED
    BY <2>1, <1>5, <1>7 DEF admitted
<1>13. \A r \in admitted : KeyOf[r] = WaveKey
  BY <1>6 DEF admitted
<1>14. HomogeneousBatch'
  <2>1. CASE n = 0
    BY <2>1, <1>3, <1>11 DEF SchedInv, HomogeneousBatch
  <2>2. CASE n > 0 /\ running = {}
    <3>1. WaveKey = KeyOf[waiting[1]] /\ WaveKey # NoKey
      BY <2>2, <1>12, KeyAssumption DEF WaveKey
    <3> QED
      BY <2>2, <3>1, <1>3, <1>12, <1>13 DEF HomogeneousBatch
  <2>3. CASE n > 0 /\ running # {}
    <3>1. WaveKey = runningKey
      BY <2>3 DEF WaveKey
    <3> QED
      BY <2>3, <3>1, <1>3, <1>13 DEF HomogeneousBatch, SchedInv
  <2> QED
    BY <2>1, <2>2, <2>3, <1>5
<1>15. BatchWithinCapacity'
  <2> DEFINE f == [i \in 1..n |-> waiting[i]]
  <2>1. IsFiniteSet(1..n) /\ Cardinality(1..n) = n
    BY <1>5, FS_Interval
  <2>2. admitted = {f[i] : i \in 1..n}
    BY DEF admitted
  <2>3. f \in Surjection(1..n, admitted)
    BY <2>2 DEF Surjection
  <2>4. IsFiniteSet(admitted) /\ Cardinality(admitted) <= n
    BY <2>1, <2>3, FS_Surjection
  <2>5. IsFiniteSet(running) /\ Cardinality(running) \in Nat
    BY FS_CardinalityType DEF SchedInv, BatchWithinCapacity
  <2>6. /\ IsFiniteSet(running \cup admitted)
        /\ Cardinality(running \cup admitted) =
             Cardinality(running) + Cardinality(admitted) - Cardinality(running \cap admitted)
    BY <2>4, <2>5, FS_Union
  <2>7. Cardinality(running \cap admitted) \in Nat /\ Cardinality(admitted) \in Nat
    BY <2>4, <2>5, FS_Intersection, FS_CardinalityType
  <2> QED
    BY <2>4, <2>5, <2>6, <2>7, <1>3, <1>5, <1>6, MaxRunningAssumption DEF BatchWithinCapacity
<1>16. InFlightAccounted'
  <2>1. Scheduled(out') = running \cup admitted
    BY <1>3, <1>8 DEF Scheduled
  <2>2. \A r \in running' : r \in Request /\ status'[r] = "RUNNING"
    BY <1>3, <1>7 DEF SchedInv, SchedTypeOK, QueuesMatchStates, RunningMatchesStatus
  <2> QED
    BY <2>1, <2>2, <1>3, <1>4 DEF InFlightAccounted, IsEmpty, IsFinished, Terminal
<1> QED
  BY <1>9, <1>10, <1>14, <1>15, <1>16 DEF SchedInv

\* The members of an in-flight output that an update may finish are running.
LEMMA LiveIsRunning ==
  ASSUME SchedInv, inFlight
  PROVE  Live = {r \in Scheduled(out) : r \in running /\ r \notin finishedReqIds}
BY DEF SchedInv, InFlightAccounted, Live, IsFinished, Terminal, QueuesMatchStates,
       RunningMatchesStatus

\* _finish_requests keeps the queues and the batch consistent.
LEMMA FinishKeeps ==
  ASSUME SchedInv, NEW S \in SUBSET Request, NEW outcome, Finish(S, outcome),
         \A r \in S : outcome[r] \in Terminal
  PROVE  /\ status' \in [Request -> Status]
         /\ waiting' \in Seq(Request)
         /\ running' \in SUBSET Request
         /\ runningKey' \in SamplingKey \cup {NoKey}
         /\ finishedReqIds' \in SUBSET Request
         /\ QueuesMatchStates'
         /\ HomogeneousBatch'
         /\ BatchWithinCapacity'
<1>1. /\ status' = [r \in Request |-> IF r \in S THEN outcome[r] ELSE status[r]]
      /\ running' = running \ S
      /\ waiting' = Without(waiting, S)
      /\ runningKey' = IF running \ S = {} /\ running \cap S # {} THEN NoKey ELSE runningKey
      /\ finishedReqIds' = finishedReqIds \cup S
  BY DEF Finish
<1>2. /\ waiting' \in Seq(Request) /\ Injective(waiting')
      /\ Members(waiting') = Members(waiting) \ S
  <2>1. Injective(waiting) /\ waiting \in Seq(Request) /\ Members(waiting) = Queued
    BY DEF SchedInv, SchedTypeOK, QueuesMatchStates, WaitingMatchesStatus, Injective,
           Members, Queued
  <2> QED
    BY <2>1, <1>1, WithoutFilters
<1>3. status' \in [Request -> Status]
  <2>1. \A r \in Request : status[r] \in Status
    BY DEF SchedInv, SchedTypeOK
  <2> QED
    BY <2>1, <1>1 DEF Status
<1>4. Queued' = Queued \ S
  BY <1>2 DEF Queued, Members
<1>5. WaitingMatchesStatus'
  <2>1. \A r \in S : status'[r] \notin {"WAITING", "PREEMPTED"}
    BY <1>1 DEF Terminal
  <2>2. \A r \in Request \ S : status'[r] = status[r]
    BY <1>1
  <2>3. Queued' = {r \in Request : status'[r] \in {"WAITING", "PREEMPTED"}}
    BY <1>4, <2>1, <2>2 DEF SchedInv, QueuesMatchStates, WaitingMatchesStatus
  <2> QED
    BY <2>3, <1>2 DEF WaitingMatchesStatus, Injective
<1>6. RunningMatchesStatus'
  <2>1. \A r \in S : status'[r] # "RUNNING"
    BY <1>1 DEF Terminal
  <2>2. \A r \in Request \ S : status'[r] = status[r]
    BY <1>1
  <2> QED
    BY <2>1, <2>2, <1>1 DEF SchedInv, QueuesMatchStates, RunningMatchesStatus
<1>7. HomogeneousBatch'
  BY <1>1 DEF SchedInv, HomogeneousBatch
<1>8. BatchWithinCapacity'
  <2>1. /\ IsFiniteSet(running \ S)
        /\ Cardinality(running \ S) <= Cardinality(running)
        /\ Cardinality(running) \in Nat /\ Cardinality(running \ S) \in Nat
    BY FS_Subset, FS_CardinalityType, running \ S \subseteq running
       DEF SchedInv, BatchWithinCapacity
  <2> QED
    BY <2>1, <1>1, MaxRunningAssumption DEF SchedInv, BatchWithinCapacity
<1> QED
  BY <1>1, <1>2, <1>3, <1>5, <1>6, <1>7, <1>8 DEF SchedInv, SchedTypeOK, QueuesMatchStates

LEMMA UpdateKeeps ==
  ASSUME SchedInv, NEW res \in [Scheduled(out) -> RunnerResult],
         \A r \in Live : RunnerMayReport(r, res[r]), UpdateFromOutput(res, StepReported)
  PROVE  /\ SchedInv'
         /\ returned' = {r \in Scheduled(out) : status'[r] \in Terminal}
<1> DEFINE outcome == [r \in Live |-> StatusFrom(res[r])]
           done == {r \in Live : outcome[r] # "RUNNING"}
<1>1. /\ inFlight
      /\ Finish(done, outcome)
      /\ returned' = (Scheduled(out) \cap finishedReqIds) \cup done
      /\ progress' = [r \in Request |->
                        IF StepExecution /\ r \in Live /\ res[r] \in {"partial", "final"}
                        THEN StepReported[r] ELSE progress[r]]
      /\ inFlight' = FALSE
      /\ out' = NoOutput
  BY DEF UpdateFromOutput
<1>2. Live = {r \in Scheduled(out) : r \in running /\ r \notin finishedReqIds}
  BY <1>1, LiveIsRunning
<1>3. \A r \in Live : outcome[r] \in Terminal \cup {"RUNNING"}
  <2> SUFFICES ASSUME NEW r \in Live PROVE StatusFrom(res[r]) \in Terminal \cup {"RUNNING"}
    OBVIOUS
  <2>1. res[r] \in RunnerResult
    BY DEF Live
  <2> QED
    BY <2>1 DEF StatusFrom, RunnerResult, Terminal
<1>4. \A r \in done : outcome[r] \in Terminal
  BY <1>3
<1>5. done \subseteq Live /\ Live \subseteq running /\ Live \subseteq Scheduled(out)
  BY <1>2
<1>6. running \subseteq Request /\ Scheduled(out) \subseteq Request
  BY DEF SchedInv, SchedTypeOK, Scheduled, SchedulerOutput
<1>7. /\ status' = [r \in Request |-> IF r \in done THEN outcome[r] ELSE status[r]]
      /\ finishedReqIds' = finishedReqIds \cup done
  BY <1>1 DEF Finish
<1>8. /\ status' \in [Request -> Status]
      /\ waiting' \in Seq(Request)
      /\ running' \in SUBSET Request
      /\ runningKey' \in SamplingKey \cup {NoKey}
      /\ finishedReqIds' \in SUBSET Request
      /\ QueuesMatchStates' /\ HomogeneousBatch' /\ BatchWithinCapacity'
  <2>1. done \subseteq running /\ done \in SUBSET Request
    BY <1>5, <1>6
  <2>2. Finish(done, outcome)
    BY <1>1
  <2> HIDE DEF done, outcome
  <2> QED
    BY <2>1, <2>2, <1>4, FinishKeeps
<1>9. progress' \in [Request -> 0..TotalSteps]
  <2> SUFFICES ASSUME NEW r \in Request
               PROVE  progress'[r] \in 0..TotalSteps
    BY <1>1
  <2>1. progress[r] \in 0..TotalSteps
    BY DEF SchedInv, SchedTypeOK
  <2>2. CASE StepExecution /\ r \in Live /\ res[r] \in {"partial", "final"}
    <3>1. StepReported[r] \in Nat
      BY <2>1, StepAssumption DEF StepReported
    <3>2. StepReported[r] <= TotalSteps
      BY <2>2, <3>1, StepAssumption DEF RunnerMayReport
    <3> QED
      BY <3>1, <3>2, <2>2, <1>1, StepAssumption
  <2>3. CASE ~(StepExecution /\ r \in Live /\ res[r] \in {"partial", "final"})
    BY <2>1, <2>3, <1>1
  <2> QED
    BY <2>2, <2>3
<1>10. returned' = {r \in Scheduled(out) : status'[r] \in Terminal}
  <2>1. \A r \in Scheduled(out) : r \in finishedReqIds <=> status[r] \in Terminal
    BY <1>1 DEF SchedInv, InFlightAccounted, IsFinished
  <2>2. \A r \in Scheduled(out) \cap done : status'[r] \in Terminal
    BY <1>4, <1>6, <1>7
  <2>3. \A r \in Scheduled(out) \ done : status'[r] = status[r]
    BY <1>6, <1>7
  <2> HIDE DEF done
  <2> QED
    BY <1>1, <1>5, <2>1, <2>2, <2>3
<1>11. returned' \in SUBSET Request
  BY <1>6, <1>10
<1>12. SchedInv'
  BY <1>1, <1>8, <1>9, <1>11 DEF SchedInv, SchedTypeOK, InFlightAccounted, NoOutput, SchedulerOutput
<1> QED
  BY <1>10, <1>12

LEMMA AbortKeeps ==
  ASSUME SchedInv, NEW ids \in SUBSET Request, FinishRequests(ids)
  PROVE  SchedInv'
<1> DEFINE live == {r \in ids : status[r] # "NONE" /\ ~IsFinished(r)}
           outcome == [r \in live |-> "FINISHED_ABORTED"]
<1>1. Finish(live, outcome) /\ UNCHANGED <<progress, out, inFlight, returned>>
  BY DEF FinishRequests
<1>2. \A q \in live : outcome[q] \in Terminal
  BY DEF Terminal
<1>3. live \in SUBSET Request
  OBVIOUS
<1>4. /\ status' = [q \in Request |-> IF q \in live THEN "FINISHED_ABORTED" ELSE status[q]]
      /\ running' = running \ live
      /\ finishedReqIds' = finishedReqIds \cup live
  BY <1>1 DEF Finish
<1>5. \A q \in live : ~IsFinished(q)
  OBVIOUS
<1> HIDE DEF outcome, live
<1>6. /\ status' \in [Request -> Status]
      /\ waiting' \in Seq(Request)
      /\ running' \in SUBSET Request
      /\ runningKey' \in SamplingKey \cup {NoKey}
      /\ finishedReqIds' \in SUBSET Request
      /\ QueuesMatchStates' /\ HomogeneousBatch' /\ BatchWithinCapacity'
  BY <1>1, <1>2, <1>3, FinishKeeps
<1>7. InFlightAccounted'
  <2>1. Scheduled(out) \subseteq Request
    BY DEF SchedInv, SchedTypeOK, Scheduled, SchedulerOutput
  <2> QED
    BY <2>1, <1>1, <1>4, <1>5 DEF SchedInv, InFlightAccounted, IsFinished, Terminal, IsEmpty, Scheduled
<1> QED
  BY <1>1, <1>6, <1>7 DEF SchedInv, SchedTypeOK

LEMMA PreemptKeeps ==
  ASSUME SchedInv, NEW r \in Request, PreemptRequest(r)
  PROVE  SchedInv'
<1> USE DEF PreemptRequest
<1>1. waiting \in Seq(Request) /\ <<r>> \in Seq(Request)
  BY DEF SchedInv, SchedTypeOK
<1>2. /\ waiting' \in Seq(Request)
      /\ Len(waiting) \in Nat /\ Len(waiting') = Len(waiting) + 1
      /\ DOMAIN waiting = 1..Len(waiting) /\ DOMAIN waiting' = 1..(Len(waiting) + 1)
      /\ waiting'[1] = r
      /\ \A i \in 1..Len(waiting) : waiting'[i + 1] = waiting[i]
  BY <1>1
<1>3. r \notin Queued
  BY DEF SchedInv, QueuesMatchStates, WaitingMatchesStatus, RunningMatchesStatus
<1>4. \A k \in DOMAIN waiting' :
        k = 1 \/ (k - 1 \in DOMAIN waiting /\ waiting'[k] = waiting[k - 1])
  <2> SUFFICES ASSUME NEW k \in 1..(Len(waiting) + 1), k # 1
               PROVE  k - 1 \in 1..Len(waiting) /\ waiting'[k] = waiting[k - 1]
    BY <1>2
  <2>1. k - 1 \in 1..Len(waiting) /\ (k - 1) + 1 = k
    BY <1>2
  <2> QED
    BY <2>1, <1>2
<1>5. Injective(waiting')
  <2> SUFFICES ASSUME NEW i \in DOMAIN waiting', NEW j \in DOMAIN waiting',
                      waiting'[i] = waiting'[j]
               PROVE  i = j
    BY DEF Injective
  <2>1. \A k \in DOMAIN waiting : waiting[k] # r
    BY <1>3 DEF Queued
  <2>2. CASE i = 1 \/ j = 1
    BY <2>1, <2>2, <1>2, <1>4
  <2>3. CASE i # 1 /\ j # 1
    <3>1. i - 1 = j - 1
      BY <2>3, <1>4 DEF SchedInv, QueuesMatchStates, WaitingMatchesStatus
    <3> QED
      BY <3>1, <1>2
  <2> QED
    BY <2>2, <2>3
<1>6. Queued' = Queued \cup {r}
  <2>1. Queued' \subseteq Queued \cup {r}
    BY <1>2, <1>4 DEF Queued
  <2>2. \A i \in DOMAIN waiting : i + 1 \in DOMAIN waiting' /\ waiting'[i + 1] = waiting[i]
    BY <1>2
  <2>3. 1 \in DOMAIN waiting' /\ waiting'[1] = r
    BY <1>2
  <2>4. Queued \subseteq Queued'
    <3> SUFFICES ASSUME NEW i \in DOMAIN waiting
                 PROVE  waiting[i] \in Queued'
      BY DEF Queued
    <3> QED
      BY <2>2 DEF Queued
  <2>5. r \in Queued'
    BY <2>3 DEF Queued
  <2> QED
    BY <2>1, <2>4, <2>5
<1>7. SchedTypeOK'
  BY <1>2 DEF SchedInv, SchedTypeOK, Status
<1>8. QueuesMatchStates'
  <2>1. status' = [status EXCEPT ![r] = "PREEMPTED"] /\ status \in [Request -> Status]
    BY DEF SchedInv, SchedTypeOK
  <2>2. WaitingMatchesStatus'
    BY <1>5, <1>6, <2>1 DEF SchedInv, QueuesMatchStates, WaitingMatchesStatus, Injective
  <2>3. RunningMatchesStatus'
    BY <2>1 DEF SchedInv, QueuesMatchStates, RunningMatchesStatus
  <2> QED
    BY <2>2, <2>3 DEF QueuesMatchStates
<1>9. HomogeneousBatch'
  BY DEF SchedInv, HomogeneousBatch
<1>10. BatchWithinCapacity'
  <2>1. /\ IsFiniteSet(running \ {r})
        /\ Cardinality(running \ {r}) <= Cardinality(running)
        /\ Cardinality(running) \in Nat /\ Cardinality(running \ {r}) \in Nat
    BY FS_Subset, FS_CardinalityType, running \ {r} \subseteq running
       DEF SchedInv, BatchWithinCapacity
  <2> QED
    BY <2>1, MaxRunningAssumption DEF SchedInv, BatchWithinCapacity
<1>11. InFlightAccounted'
  BY DEF InFlightAccounted
<1> QED
  BY <1>7, <1>8, <1>9, <1>10, <1>11 DEF SchedInv

LEMMA PopKeeps ==
  ASSUME SchedInv, NEW r \in Request, PopRequestState(r)
  PROVE  SchedInv'
<1> USE DEF PopRequestState
<1>1. SchedTypeOK'
  BY StepAssumption DEF SchedInv, SchedTypeOK, Status
<1>2. QueuesMatchStates'
  BY DEF SchedInv, SchedTypeOK, QueuesMatchStates, WaitingMatchesStatus, RunningMatchesStatus,
         Queued, IsFinished, Terminal
<1>3. HomogeneousBatch' /\ BatchWithinCapacity'
  BY DEF SchedInv, HomogeneousBatch, BatchWithinCapacity
<1>4. InFlightAccounted'
  <2>1. inFlight => \A q \in Scheduled(out) : q # r
    OBVIOUS
  <2> QED
    BY <2>1 DEF SchedInv, SchedTypeOK, InFlightAccounted, IsFinished, IsEmpty, Scheduled
<1> QED
  BY <1>1, <1>2, <1>3, <1>4 DEF SchedInv

LEMMA CloseKeeps ==
  ASSUME SchedInv, SchedClose
  PROVE  SchedInv'
<1> USE DEF SchedClose
<1>1. SchedTypeOK'
  <2>1. progress' \in [Request -> 0..TotalSteps]
    BY StepAssumption
  <2>2. status' \in [Request -> Status] /\ waiting' \in Seq(Request)
    BY DEF Status
  <2> QED
    BY <2>1, <2>2 DEF SchedInv, SchedTypeOK
<1>2. QueuesMatchStates'
  BY DEF QueuesMatchStates, WaitingMatchesStatus, RunningMatchesStatus, Queued
<1>3. HomogeneousBatch'
  BY DEF HomogeneousBatch
<1>4. BatchWithinCapacity'
  BY FS_EmptySet, MaxRunningAssumption DEF BatchWithinCapacity
<1>5. InFlightAccounted'
  BY DEF InFlightAccounted
<1> QED
  BY <1>1, <1>2, <1>3, <1>4, <1>5 DEF SchedInv

\* The head of the waiting queue can always join an empty batch.
LEMMA ScheduleFindsWork ==
  ASSUME SchedInv, Schedule, HasRequests
  PROVE  ~IsEmpty(out')
<1> SUFFICES Scheduled(out') # {}
  BY DEF IsEmpty
<1>1. PICK n \in 0..Len(waiting) :
        /\ AdmitCount(n)
        /\ LET admitted == {waiting[i] : i \in 1..n}
               new == {r \in admitted : status[r] = "WAITING"}
           IN  out' = [new |-> new, cached |-> running \cup (admitted \ new),
                       finished |-> finishedReqIds]
  BY DEF Schedule
<1>2. Scheduled(out') = running \cup {waiting[i] : i \in 1..n}
  BY <1>1 DEF Scheduled
<1>3. CASE running # {}
  BY <1>2, <1>3
<1>4. CASE running = {}
  <2>1. waiting # <<>> /\ waiting \in Seq(Request)
    BY <1>4 DEF HasRequests, SchedInv, SchedTypeOK
  <2>2. Len(waiting) \in Nat /\ Len(waiting) > 0
    BY <2>1
  <2>3. Cardinality(running) = 0
    BY <1>4, FS_EmptySet
  <2>4. WaveKey = KeyOf[waiting[1]]
    BY <1>4, <2>1 DEF WaveKey
  <2>5. CanAdmit(1)
    BY <2>3, <2>4, MaxRunningAssumption DEF CanAdmit
  <2>6. n # 0
    <3> SUFFICES ASSUME n = 0 PROVE FALSE
      OBVIOUS
    <3>1. n < Len(waiting)
      BY <2>2
    <3>2. ~CanAdmit(n + 1) /\ n + 1 = 1
      BY <1>1, <3>1 DEF AdmitCount
    <3> QED
      BY <3>2, <2>5
  <2>7. 1 \in 1..n
    BY <2>6, <2>2
  <2> QED
    BY <1>2, <2>7
<1> QED
  BY <1>3, <1>4

LEMMA NextKeepsSchedInv == SchedInv /\ [SchedNext]_schedVars => SchedInv'
<1> SUFFICES ASSUME SchedInv, [SchedNext]_schedVars PROVE SchedInv'
  OBVIOUS
<1>1. CASE \E r \in Request : AddRequest(r)
  BY <1>1, AddKeeps
<1>2. CASE Schedule
  BY <1>2, ScheduleKeeps
<1>3. CASE Update
  BY <1>3, UpdateKeeps DEF Update
<1>4. CASE \E ids \in SUBSET Request : FinishRequests(ids)
  BY <1>4, AbortKeeps
<1>5. CASE \E r \in Request : PreemptRequest(r)
  BY <1>5, PreemptKeeps
<1>6. CASE \E r \in Request : PopRequestState(r)
  BY <1>6, PopKeeps
<1>7. CASE SchedClose
  BY <1>7, CloseKeeps
<1>8. CASE UNCHANGED schedVars
  BY <1>8 DEF schedVars, SchedInv, SchedTypeOK, QueuesMatchStates, WaitingMatchesStatus,
              RunningMatchesStatus, Queued, HomogeneousBatch, BatchWithinCapacity,
              InFlightAccounted, IsFinished, IsEmpty, Scheduled
<1> QED
  BY <1>1, <1>2, <1>3, <1>4, <1>5, <1>6, <1>7, <1>8 DEF SchedNext

-----------------------------------------------------------------------------
(* The theorems.                                                             *)

\* The inductive invariant holds in every reachable state.
THEOREM SchedulerInvariant == SchedSafety => []SchedInv
<1>1. SchedInit => SchedInv
  BY InitSchedInv
<1>2. SchedInv /\ [SchedNext]_schedVars => SchedInv'
  BY NextKeepsSchedInv
<1> QED
  BY <1>1, <1>2, PTL DEF SchedSafety

\* Every variable of the scheduler keeps its type.
THEOREM SchedulerTypes == SchedSafety => []SchedTypeOK
BY SchedulerInvariant, PTL DEF SchedInv

\* No id is queued without a live state, and no live id is out of both queues.
THEOREM QueuesAgreeWithStates == SchedSafety => []QueuesMatchStates
BY SchedulerInvariant, PTL DEF SchedInv

\* A batch has one sampling key, and at most max_num_running_reqs members.
THEOREM BatchIsHomogeneous == SchedSafety => []HomogeneousBatch
BY SchedulerInvariant, PTL DEF SchedInv

\* The running batch never exceeds its capacity.
THEOREM BatchIsBounded == SchedSafety => []BatchWithinCapacity
BY SchedulerInvariant, PTL DEF SchedInv

\* Each id of an output in flight is running or remembered as finished.
THEOREM InFlightIsAccounted == SchedSafety => []InFlightAccounted
BY SchedulerInvariant, PTL DEF SchedInv

\* update_from_output returns the scheduled ids that are finished, no others.
THEOREM UpdateReturnsFinished == SchedSafety => UpdateSurfacesFinished
<1>1. SchedInv /\ [SchedNext]_schedVars =>
        [Update => returned' = {r \in Scheduled(out) : status'[r] \in Terminal}]_schedVars
  BY UpdateKeeps DEF Update
<1> QED
  BY <1>1, SchedulerInvariant, PTL DEF SchedSafety, UpdateSurfacesFinished

\* With requests in its queues, schedule() never returns an empty output.
THEOREM ScheduleNeverIdles == SchedSafety => ScheduleProgresses
<1>1. SchedInv /\ Schedule /\ HasRequests => ~IsEmpty(out')
  BY ScheduleFindsWork
<1>2. SchedInv /\ [SchedNext]_schedVars => [Schedule /\ HasRequests => ~IsEmpty(out')]_schedVars
  BY <1>1
<1> QED
  BY <1>2, SchedulerInvariant, PTL DEF SchedSafety, ScheduleProgresses

\* A runner output never overwrites the terminal status an abort gave.
THEOREM TerminalStatusIsFinal == SchedSafety => TerminalIsFinal
<1>1. SchedInv /\ [SchedNext]_schedVars =>
        [\A r \in Request : IsFinished(r) => status'[r] \in {status[r], "NONE"}]_schedVars
  <2> SUFFICES ASSUME SchedInv, SchedNext, NEW r \in Request, IsFinished(r)
               PROVE  status'[r] \in {status[r], "NONE"}
    OBVIOUS
  <2> USE DEF IsFinished, Terminal
  <2>0. status \in [Request -> Status]
    BY DEF SchedInv, SchedTypeOK
  <2>1. CASE \E q \in Request : AddRequest(q)
    BY <2>0, <2>1 DEF AddRequest
  <2>2. CASE Schedule
    <3>1. r \notin Queued
      BY DEF SchedInv, QueuesMatchStates, WaitingMatchesStatus
    <3>2. PICK n \in 0..Len(waiting) :
            status' = [q \in Request |-> IF q \in {waiting[i] : i \in 1..n} THEN "RUNNING" ELSE status[q]]
      BY <2>2 DEF Schedule
    <3>3. {waiting[i] : i \in 1..n} \subseteq Queued
      BY AdmittedPrefix DEF SchedInv, QueuesMatchStates
    <3> QED
      BY <3>1, <3>2, <3>3
  <2>3. CASE Update
    <3>1. PICK res \in [Scheduled(out) -> RunnerResult] : UpdateFromOutput(res, StepReported)
      BY <2>3 DEF Update
    <3>2. r \notin Live
      BY DEF Live
    <3> QED
      BY <3>1, <3>2, <2>0 DEF UpdateFromOutput, Finish
  <2>4. CASE \E ids \in SUBSET Request : FinishRequests(ids)
    BY <2>4 DEF FinishRequests, Finish
  <2>5. CASE \E q \in Request : PreemptRequest(q)
    BY <2>0, <2>5 DEF PreemptRequest, SchedInv, QueuesMatchStates, RunningMatchesStatus
  <2>6. CASE \E q \in Request : PopRequestState(q)
    BY <2>0, <2>6 DEF PopRequestState
  <2>7. CASE SchedClose
    BY <2>7 DEF SchedClose
  <2> QED
    BY <2>1, <2>2, <2>3, <2>4, <2>5, <2>6, <2>7 DEF SchedNext
<1> QED
  BY <1>1, SchedulerInvariant, PTL DEF SchedSafety, TerminalIsFinal

\* First come, first served: a request that starts to run leaves behind no
\* request that waited ahead of it, whatever their keys.
THEOREM FirstComeFirstServed == SchedSafety => NoOvertaking
<1> DEFINE still == {waiting'[k] : k \in DOMAIN waiting'}
<1>1. SchedInv /\ [SchedNext]_schedVars =>
        [\A i, j \in DOMAIN waiting :
            i < j /\ waiting[j] \in running' => waiting[i] \notin still]_schedVars
  <2> SUFFICES ASSUME SchedInv, SchedNext, NEW i \in DOMAIN waiting, NEW j \in DOMAIN waiting,
                      i < j, waiting[j] \in running'
               PROVE  waiting[i] \notin still
    OBVIOUS
  <2>1. SchedTypeOK /\ WaitingMatchesStatus /\ RunningMatchesStatus
    BY DEF SchedInv, QueuesMatchStates
  <2>2. waiting[j] \notin running
    <3>1. waiting[j] \in Queued
      BY DEF Queued
    <3> QED
      BY <2>1, <3>1 DEF WaitingMatchesStatus, RunningMatchesStatus
  <2>3. CASE Schedule
    <3>1. PICK n \in 0..Len(waiting) :
            /\ running' = running \cup {waiting[k] : k \in 1..n}
            /\ waiting' = SubSeq(waiting, n + 1, Len(waiting))
      BY <2>3 DEF Schedule
    <3> DEFINE admitted == {waiting[k] : k \in 1..n}
    <3>2. Members(waiting') = Queued \ admitted
      BY <2>1, <3>1, AdmittedPrefix
    <3>3. PICK m \in 1..n : waiting[j] = waiting[m]
      BY <2>2, <3>1
    <3>4. /\ n \in Nat /\ Len(waiting) \in Nat /\ n <= Len(waiting)
          /\ DOMAIN waiting = 1..Len(waiting)
      BY <2>1 DEF SchedTypeOK
    <3>5. m = j
      <4>1. m \in DOMAIN waiting
        BY <3>4
      <4> QED
        BY <2>1, <3>3, <4>1 DEF WaitingMatchesStatus
    <3>6. i \in 1..n
      BY <3>4, <3>5
    <3>7. waiting[i] \in admitted
      BY <3>6
    <3> HIDE DEF admitted
    <3> QED
      BY <3>2, <3>7 DEF Members
  <2>4. CASE \E r \in Request : AddRequest(r)
    BY <2>2, <2>4 DEF AddRequest
  <2>5. CASE Update
    BY <2>2, <2>5 DEF Update, UpdateFromOutput, Finish
  <2>6. CASE \E ids \in SUBSET Request : FinishRequests(ids)
    BY <2>2, <2>6 DEF FinishRequests, Finish
  <2>7. CASE \E r \in Request : PreemptRequest(r)
    BY <2>2, <2>7 DEF PreemptRequest
  <2>8. CASE \E r \in Request : PopRequestState(r)
    BY <2>2, <2>8 DEF PopRequestState
  <2>9. CASE SchedClose
    BY <2>2, <2>9 DEF SchedClose
  <2> QED
    BY <2>3, <2>4, <2>5, <2>6, <2>7, <2>8, <2>9 DEF SchedNext
<1> QED
  BY <1>1, SchedulerInvariant, PTL DEF SchedSafety, NoOvertaking
=============================================================================
