-------------------------- MODULE SchedulerProofs --------------------------
(***************************************************************************)
(* SchedInv is inductive.  With it the heap is exact, dependency counters  *)
(* are exact, claims are fenced, the oldest due job is claimed first, and  *)
(* the scheduler implements the abstract life cycle.                       *)
(***************************************************************************)
EXTENDS SchedulerInv, TLAPS, FiniteSetTheorems

-----------------------------------------------------------------------------
\* Operators

\* The retry delay is positive: a job that lapses is not due at once.
LEMMA BackoffPositive ==
  ASSUME NEW a \in Nat
  PROVE  Backoff(a) \in Nat \ {0}
<1> DEFINE e == Least(16, Greatest(0, a - 1))
<1>1. e \in 0..16
  BY DEF Least, Greatest
<1>2. PowersOfTwo[e + 1] \in Nat \ {0}
  BY <1>1 DEF PowersOfTwo
<1>3. BaseRetry * PowersOfTwo[e + 1] \in Nat \ {0}
  BY <1>2, RetryAssumption
<1> QED
  BY <1>3, RetryAssumption DEF Backoff, Least

LEMMA RetryDelayPositive ==
  ASSUME NEW j \in Jobs, NEW a \in Nat
  PROVE  RetryDelay(j, a) \in Nat \ {0}
<1> DEFINE c == Backoff(a) \div 5
<1>1. Backoff(a) \in Nat \ {0}
  BY BackoffPositive
<1>2. c \in Nat
  BY <1>1
<1>3. Hash[j] \in Nat
  BY ConfigAssumption
<1>4. deterministic_jitter(j, c) \in Nat
  <2> HIDE DEF c
  <2>1. CASE c <= 0
    BY <2>1 DEF deterministic_jitter
  <2>2. CASE c > 0
    <3>1. Hash[j] % c \in Nat
      BY <1>2, <1>3, <2>2
    <3> QED
      BY <1>2, <2>2, <3>1 DEF deterministic_jitter
  <2> QED
    BY <1>2, <2>1, <2>2
<1> QED
  BY <1>1, <1>4 DEF RetryDelay

\* Elements removed from a finite set are counted off.
LEMMA CountRemoved ==
  ASSUME NEW S, IsFiniteSet(S), NEW T \in SUBSET S
  PROVE  /\ Cardinality(S) \in Nat /\ Cardinality(T) \in Nat
         /\ Cardinality(S \ T) = Cardinality(S) - Cardinality(T)
         /\ Cardinality(T) <= Cardinality(S)
<1>1. IsFiniteSet(T) /\ IsFiniteSet(S \ T) /\ Cardinality(T) <= Cardinality(S)
  BY FS_Subset
<1>2. /\ Cardinality(S) \in Nat /\ Cardinality(T) \in Nat
      /\ Cardinality(S \ T) \in Nat
  BY <1>1, FS_CardinalityType
<1>3. T \cup (S \ T) = S /\ T \cap (S \ T) = {}
  OBVIOUS
<1>4. Cardinality(S) = Cardinality(T) + Cardinality(S \ T) - Cardinality({})
  BY <1>1, <1>3, FS_Union
<1> QED
  BY <1>1, <1>2, <1>4, FS_EmptySet

\* Any set of positions in the list of edges is finite.
LEMMA EdgeSetsFinite ==
  ASSUME NEW E \in SUBSET DOMAIN Edges
  PROVE  IsFiniteSet(E) /\ Cardinality(E) \in Nat /\ (Cardinality(E) = 0 <=> E = {})
<1> DEFINE n == Len(Edges)
<1>1. n \in Nat /\ DOMAIN Edges = 1..n
  BY EdgesAssumption
<1>2. IsFiniteSet(DOMAIN Edges)
  BY <1>1, FS_Interval
<1>3. IsFiniteSet(E)
  BY <1>2, FS_Subset
<1> QED
  BY <1>3, FS_CardinalityType, FS_EmptySet

\* The edges into a job, their ends and their DAG.
LEMMA EdgeFacts ==
  ASSUME NEW j \in Jobs
  PROVE  /\ EdgesInto(j) \in SUBSET DOMAIN Edges
         /\ \A i \in EdgesInto(j) : Edges[i][1] \in Jobs /\ DagOf[Edges[i][1]] = DagOf[j]
<1>1. \A i \in DOMAIN Edges : Edges[i] \in Jobs \X Jobs
  BY EdgesAssumption
<1> QED
  BY <1>1, EdgesAssumption DEF EdgesInto

-----------------------------------------------------------------------------
\* The heap

\* The keys of the jobs in S.
KeySet(S, recs) == {KeyOf(j, recs) : j \in S}

\* Heap h after push_ready entered the jobs in S.
Pushed(h, S, recs) == h (+) Keys(S, recs)

\* No key of heap h names a job in S.
Keyless(h, S) == \A k \in DOMAIN h : k.job \notin S

\* Heap u is heap h and one copy of each key in K.
Grown(u, h, K) ==
  /\ IsABag(u) /\ DOMAIN u = DOMAIN h \cup K
  /\ \A k \in DOMAIN h : u[k] = h[k]
  /\ \A k \in K : u[k] = 1

\* Pushing keys of jobs that have none: the bag stays a set of keys.
LEMMA PushKeys ==
  ASSUME NEW h, IsABag(h), NEW S, NEW recs, Keyless(h, S)
  PROVE  Grown(Pushed(h, S, recs), h, KeySet(S, recs))
<1> DEFINE K == KeySet(S, recs)
           b == SetToBag(K)
           u == h (+) b
<1>1. Keys(S, recs) = b
  BY DEF Keys, KeyOf, KeySet
<1>2. DOMAIN b = K /\ \A k \in K : b[k] = 1
  BY DEF SetToBag
<1>3. \A k \in K : k \notin DOMAIN h
  BY DEF KeyOf, KeySet, Keyless
<1> HIDE DEF K, b
<1>4. u = [e \in DOMAIN h \cup K |->
             (IF e \in DOMAIN h THEN h[e] ELSE 0) + (IF e \in K THEN b[e] ELSE 0)]
  BY <1>2 DEF (+)
<1>5. \A e \in DOMAIN h : h[e] \in Nat /\ h[e] > 0
  BY DEF IsABag
<1>6. DOMAIN u = DOMAIN h \cup K /\ \A k \in DOMAIN h : u[k] = h[k]
  BY <1>3, <1>4, <1>5
<1>7. \A k \in K : u[k] = 1
  BY <1>2, <1>3, <1>4
<1>8. IsABag(u)
  <2>1. \A e \in DOMAIN u : u[e] \in {n \in Nat : n > 0}
    BY <1>5, <1>6, <1>7
  <2>2. u = [e \in DOMAIN u |-> u[e]]
    BY <1>4
  <2> QED
    BY <2>1, <2>2 DEF IsABag
<1>9. Pushed(h, S, recs) = u
  BY <1>1 DEF Pushed
<1> HIDE DEF u
<1> QED
  BY <1>6, <1>7, <1>8, <1>9 DEF K, Grown

\* Heap u is heap h without the keys in D, each key once.
Shrunk(u, h, D) ==
  /\ IsABag(u) /\ DOMAIN u = DOMAIN h \ D
  /\ \A k \in DOMAIN u : u[k] = 1

\* Popping keys, from a heap without repetitions.
LEMMA PopKeys ==
  ASSUME NEW h, IsABag(h), \A k \in DOMAIN h : h[k] = 1,
         NEW b, DOMAIN b \subseteq DOMAIN h, \A k \in DOMAIN b : b[k] = 1
  PROVE  Shrunk(h (-) b, h, DOMAIN b)
<1> DEFINE B == [e \in DOMAIN h |-> IF e \in DOMAIN b THEN h[e] - b[e] ELSE h[e]]
           D == {d \in DOMAIN B : B[d] > 0}
<1>1. h (-) b = [e \in D |-> B[e]]
  BY DEF (-)
<1>2. DOMAIN B = DOMAIN h /\ \A e \in DOMAIN h : B[e] = IF e \in DOMAIN b THEN 0 ELSE 1
  OBVIOUS
<1> HIDE DEF B
<1>3. D = DOMAIN h \ DOMAIN b /\ \A e \in D : B[e] = 1
  BY <1>2
<1> HIDE DEF D
<1> QED
  BY <1>1, <1>3 DEF IsABag, Shrunk

\* The keys of the jobs in S are pushed when these begin to wait; the others wait
\* as before, or are cancelled.
LEMMA HeapPush ==
  ASSUME NEW h, NEW recs, NEW recs2, HeapFits(h, recs), NEW S \in SUBSET Jobs,
         \A j \in S : /\ recs[j].state \notin Waiting /\ recs[j].state # "cancelled"
                      /\ recs2[j].state \in Waiting /\ recs2[j].available_at \in Nat,
         \A j \in Jobs \ S :
           /\ recs2[j].state \in Waiting =>
                recs[j].state \in Waiting /\ recs2[j].available_at = recs[j].available_at
           /\ recs[j].state \in Waiting =>
                \/ recs2[j].state = "cancelled"
                \/ recs2[j].state \in Waiting /\ recs2[j].available_at = recs[j].available_at
           /\ recs[j].state = "cancelled" => recs2[j].state = "cancelled"
  PROVE  HeapFits(Pushed(h, S, recs2), recs2)
<1> DEFINE u == Pushed(h, S, recs2)
           K == KeySet(S, recs2)
<1>1. /\ IsABag(h) /\ DOMAIN h \subseteq ReadyKey
      /\ \A k \in DOMAIN h : h[k] = 1
      /\ \A k, l \in DOMAIN h : k.job = l.job => k = l
      /\ \A k \in DOMAIN h : Matches(k, recs) \/ recs[k.job].state = "cancelled"
      /\ \A j \in Jobs : recs[j].state \in Waiting => KeyOf(j, recs) \in DOMAIN h
  BY DEF HeapFits
<1>2. \A k \in DOMAIN h : k.job \in Jobs /\ k.job \notin S
  BY <1>1 DEF ReadyKey, Matches
<1>3. /\ IsABag(u) /\ DOMAIN u = DOMAIN h \cup K
      /\ \A k \in DOMAIN h : u[k] = h[k]
      /\ \A k \in K : u[k] = 1
  <2>1. IsABag(h) /\ Keyless(h, S)
    BY <1>1, <1>2 DEF Keyless
  <2>2. Grown(Pushed(h, S, recs2), h, KeySet(S, recs2))
    BY <2>1, PushKeys
  <2> QED
    BY <2>2 DEF Grown
<1>a. (\A j \in S : KeyOf(j, recs2) \in K) /\ \A k \in K : \E j \in S : k = KeyOf(j, recs2)
  BY DEF KeySet
<1> HIDE DEF u, K
<1>4. \A j \in S : /\ KeyOf(j, recs2) \in ReadyKey /\ KeyOf(j, recs2).job = j
                   /\ Matches(KeyOf(j, recs2), recs2)
  BY DEF KeyOf, ReadyKey, Matches
<1>5. DOMAIN u \subseteq ReadyKey /\ \A k \in DOMAIN u : u[k] = 1
  BY <1>1, <1>3, <1>4, <1>a
<1>6. \A k, l \in DOMAIN u : k.job = l.job => k = l
  BY <1>1, <1>2, <1>3, <1>4, <1>a
<1>7. \A k \in DOMAIN h : Matches(k, recs2) \/ recs2[k.job].state = "cancelled"
  BY <1>1, <1>2 DEF Matches
<1>8. \A k \in DOMAIN u : Matches(k, recs2) \/ recs2[k.job].state = "cancelled"
  BY <1>3, <1>4, <1>7, <1>a
<1>9. ASSUME NEW j \in Jobs, recs2[j].state \in Waiting PROVE KeyOf(j, recs2) \in DOMAIN u
  <2>1. CASE j \in S
    BY <1>3, <1>a, <2>1
  <2>2. CASE j \notin S
    BY <1>1, <1>3, <1>9, <2>2 DEF KeyOf
  <2> QED
    BY <2>1, <2>2
<1>10. HeapFits(u, recs2)
  BY <1>3, <1>5, <1>6, <1>8, <1>9 DEF HeapFits
<1> QED
  BY <1>10 DEF u

\* A heap fits other records in which the same jobs wait, or are cancelled.
LEMMA HeapStays ==
  ASSUME NEW h, NEW recs, NEW recs2, HeapFits(h, recs),
         \A j \in Jobs :
           /\ recs2[j].state \in Waiting =>
                recs[j].state \in Waiting /\ recs2[j].available_at = recs[j].available_at
           /\ recs[j].state \in Waiting =>
                \/ recs2[j].state = "cancelled"
                \/ recs2[j].state \in Waiting /\ recs2[j].available_at = recs[j].available_at
           /\ recs[j].state = "cancelled" => recs2[j].state = "cancelled"
  PROVE  HeapFits(h, recs2)
<1>1. /\ IsABag(h) /\ DOMAIN h \subseteq ReadyKey
      /\ \A k \in DOMAIN h : h[k] = 1
      /\ \A k, l \in DOMAIN h : k.job = l.job => k = l
      /\ \A k \in DOMAIN h : Matches(k, recs) \/ recs[k.job].state = "cancelled"
      /\ \A j \in Jobs : recs[j].state \in Waiting => KeyOf(j, recs) \in DOMAIN h
  BY DEF HeapFits
<1>2. \A k \in DOMAIN h : k.job \in Jobs
  BY <1>1 DEF ReadyKey
<1>3. \A k \in DOMAIN h : Matches(k, recs2) \/ recs2[k.job].state = "cancelled"
  BY <1>1, <1>2 DEF Matches
<1>4. \A j \in Jobs : recs2[j].state \in Waiting => KeyOf(j, recs2) \in DOMAIN h
  BY <1>1 DEF KeyOf
<1> QED
  BY <1>1, <1>3, <1>4 DEF HeapFits

\* Keys are popped from a heap when their jobs no longer wait; the others wait
\* as before.
LEMMA HeapPop ==
  ASSUME NEW h, NEW recs, NEW recs2, HeapFits(h, recs),
         NEW b, DOMAIN b \subseteq DOMAIN h, \A k \in DOMAIN b : b[k] = 1,
         \A k \in DOMAIN b : recs2[k.job].state \notin Waiting,
         \A j \in Jobs :
           /\ recs2[j].state \in Waiting =>
                recs[j].state \in Waiting /\ recs2[j].available_at = recs[j].available_at
           /\ recs[j].state \in Waiting =>
                \/ KeyOf(j, recs) \in DOMAIN b
                \/ recs2[j].state \in Waiting /\ recs2[j].available_at = recs[j].available_at
           /\ recs[j].state = "cancelled" => recs2[j].state = "cancelled"
  PROVE  HeapFits(h (-) b, recs2)
<1> DEFINE u == h (-) b
<1>1. /\ IsABag(h) /\ DOMAIN h \subseteq ReadyKey
      /\ \A k \in DOMAIN h : h[k] = 1
      /\ \A k, l \in DOMAIN h : k.job = l.job => k = l
      /\ \A k \in DOMAIN h : Matches(k, recs) \/ recs[k.job].state = "cancelled"
      /\ \A j \in Jobs : recs[j].state \in Waiting => KeyOf(j, recs) \in DOMAIN h
  BY DEF HeapFits
<1>2. IsABag(u) /\ DOMAIN u = DOMAIN h \ DOMAIN b /\ \A k \in DOMAIN u : u[k] = 1
  <2>1. Shrunk(h (-) b, h, DOMAIN b)
    BY <1>1, PopKeys
  <2> QED
    BY <2>1 DEF Shrunk
<1> HIDE DEF u
<1>3. ASSUME NEW k \in DOMAIN u PROVE Matches(k, recs2) \/ recs2[k.job].state = "cancelled"
  <2>1. k \in ReadyKey /\ k.job \in Jobs /\ k \notin DOMAIN b /\ k \in DOMAIN h
    BY <1>1, <1>2 DEF ReadyKey
  <2>2. CASE recs[k.job].state = "cancelled"
    BY <2>1, <2>2
  <2>3. CASE Matches(k, recs)
    <3>1. k = KeyOf(k.job, recs)
      BY <2>1, <2>3 DEF Matches, KeyOf, ReadyKey
    <3>2. recs[k.job].state \in Waiting /\ KeyOf(k.job, recs) \notin DOMAIN b
      BY <2>1, <2>3, <3>1 DEF Matches
    <3>3. recs2[k.job].state \in Waiting /\ recs2[k.job].available_at = recs[k.job].available_at
      BY <2>1, <3>2
    <3> QED
      BY <2>3, <3>3 DEF Matches
  <2> QED
    BY <1>1, <2>1, <2>2, <2>3
<1>4. ASSUME NEW j \in Jobs, recs2[j].state \in Waiting PROVE KeyOf(j, recs2) \in DOMAIN u
  <2>1. KeyOf(j, recs2) = KeyOf(j, recs) /\ KeyOf(j, recs) \in DOMAIN h
    BY <1>1, <1>4 DEF KeyOf
  <2>2. KeyOf(j, recs).job = j
    BY DEF KeyOf
  <2> QED
    BY <1>2, <1>4, <2>1, <2>2
<1>5. DOMAIN u \subseteq ReadyKey /\ \A k, l \in DOMAIN u : k.job = l.job => k = l
  BY <1>1, <1>2
<1>6. HeapFits(u, recs2)
  BY <1>2, <1>3, <1>4, <1>5 DEF HeapFits
<1> QED
  BY <1>6 DEF u

-----------------------------------------------------------------------------
\* What a step does to one job

\* Record r after its lease ended: another state and availability, no lease.
Released(r, s, t) == [r EXCEPT !.state = s, !.available_at = t, !.lease = Null]

LEMMA ReleasedRecord ==
  ASSUME NEW r \in JobRecord, NEW s \in JobState, NEW t \in Nat
  PROVE  /\ Released(r, s, t) \in JobRecord
         /\ Released(r, s, t).state = s /\ Released(r, s, t).available_at = t
         /\ Released(r, s, t).lease = Null
         /\ Released(r, s, t).attempts = r.attempts
         /\ Released(r, s, t).remaining = r.remaining
         /\ Released(r, s, t).result = r.result
  BY DEF JobRecord, Released

\* Job j of recs is j of the state, after its lease lapsed.
LapsesTo(j, recs) ==
  /\ recs[j].state \in {"retry_wait", "dead_lettered"} /\ recs[j].lease = Null
  /\ recs[j].attempts = jobs[j].attempts /\ recs[j].remaining = jobs[j].remaining
  /\ recs[j].result = jobs[j].result
  /\ recs[j].state = "retry_wait" =>
       recs[j].attempts < MaxAttempts[j] /\ recs[j].available_at > now
  /\ recs[j].state = "dead_lettered" => recs[j].attempts >= MaxAttempts[j]

\* The records after a lapse, field by field.
LEMMA LapsedFacts ==
  ASSUME TypeOK, NEW S \in SUBSET Jobs
  PROVE  /\ LapsedJobs(S) \in [Jobs -> JobRecord]
         /\ \A j \in Jobs \ S : LapsedJobs(S)[j] = jobs[j]
         /\ \A j \in S : LapsesTo(j, LapsedJobs(S)) /\ LapsedJobs(S)[j] = Lapsed(j)
<1> DEFINE recs == LapsedJobs(S)
<1>1. recs = [j \in Jobs |-> IF j \in S THEN Lapsed(j) ELSE jobs[j]]
  BY DEF LapsedJobs
<1>2. \A j \in Jobs : jobs[j] \in JobRecord /\ jobs[j].attempts \in Nat /\ jobs[j].available_at \in Nat
  BY DEF TypeOK, JobRecord
<1>3. ASSUME NEW j \in Jobs
      PROVE  /\ Lapsed(j) \in JobRecord
             /\ Lapsed(j).state \in {"retry_wait", "dead_lettered"} /\ Lapsed(j).lease = Null
             /\ Lapsed(j).attempts = jobs[j].attempts
             /\ Lapsed(j).remaining = jobs[j].remaining
             /\ Lapsed(j).result = jobs[j].result
             /\ Lapsed(j).state = "retry_wait" =>
                  Lapsed(j).attempts < MaxAttempts[j] /\ Lapsed(j).available_at > now
             /\ Lapsed(j).state = "dead_lettered" => Lapsed(j).attempts >= MaxAttempts[j]
  <2> DEFINE spent == jobs[j].attempts >= MaxAttempts[j]
             s == IF spent THEN "dead_lettered" ELSE "retry_wait"
             t == IF spent THEN jobs[j].available_at ELSE now + RetryDelay(j, jobs[j].attempts)
  <2>1. Lapsed(j) = Released(jobs[j], s, t)
    BY DEF Lapsed, Released
  <2>2. RetryDelay(j, jobs[j].attempts) \in Nat \ {0} /\ MaxAttempts[j] \in Nat /\ now \in Nat
    BY <1>2, RetryDelayPositive, AttemptsAssumption DEF TypeOK
  <2>3. /\ s \in JobState /\ s \in {"retry_wait", "dead_lettered"} /\ t \in Nat
        /\ s = "retry_wait" => jobs[j].attempts < MaxAttempts[j] /\ t > now
        /\ s = "dead_lettered" => jobs[j].attempts >= MaxAttempts[j]
    BY <1>2, <2>2 DEF JobState
  <2> HIDE DEF s, t
  <2> QED
    BY <1>2, <2>1, <2>3, ReleasedRecord
<1> HIDE DEF recs
<1>4. /\ recs \in [Jobs -> JobRecord]
      /\ \A j \in Jobs \ S : recs[j] = jobs[j]
      /\ \A j \in S : recs[j] = Lapsed(j)
  BY <1>1, <1>2, <1>3
<1>5. \A j \in S : LapsesTo(j, recs)
  BY <1>3, <1>4 DEF LapsesTo
<1> QED
  BY <1>4, <1>5 DEF recs

\* The heap after a lapse fits the records after it.
LEMMA LapsedHeap ==
  ASSUME TypeOK, HeapExact, NEW S \in SUBSET Jobs, \A j \in S : jobs[j].state = "leased"
  PROVE  HeapFits(LapsedReady(S), LapsedJobs(S))
<1> DEFINE recs == LapsedJobs(S)
           R == {j \in S : Lapsed(j).state = "retry_wait"}
<1>1. /\ recs \in [Jobs -> JobRecord]
      /\ \A j \in Jobs \ S : recs[j] = jobs[j]
      /\ \A j \in S : LapsesTo(j, recs) /\ recs[j] = Lapsed(j)
  BY LapsedFacts
<1>2. HeapFits(ready, jobs)
  BY DEF HeapExact
<1>3. LapsedReady(S) = Pushed(ready, R, recs)
  BY DEF LapsedReady, Pushed
<1> HIDE DEF recs
<1>4. \A j \in R : /\ jobs[j].state \notin Waiting /\ jobs[j].state # "cancelled"
                   /\ recs[j].state \in Waiting /\ recs[j].available_at \in Nat
  BY <1>1 DEF Waiting, JobRecord
<1>5. \A j \in Jobs \ R :
        /\ recs[j].state \in Waiting =>
             jobs[j].state \in Waiting /\ recs[j].available_at = jobs[j].available_at
        /\ jobs[j].state \in Waiting =>
             \/ recs[j].state = "cancelled"
             \/ recs[j].state \in Waiting /\ recs[j].available_at = jobs[j].available_at
        /\ jobs[j].state = "cancelled" => recs[j].state = "cancelled"
  BY <1>1 DEF Waiting, LapsesTo
<1>6. R \in SUBSET Jobs
  OBVIOUS
<1> HIDE DEF R
<1>7. HeapFits(Pushed(ready, R, recs), recs)
  BY <1>2, <1>4, <1>5, <1>6, HeapPush
<1> QED
  BY <1>3, <1>7 DEF recs

-----------------------------------------------------------------------------
\* What steps preserve

\* A step that neither admits a job nor lets one succeed, and leaves the
\* dependency counters alone.
Quiet ==
  /\ dags' = dags
  /\ \A j \in Jobs :
       /\ jobs'[j].remaining = jobs[j].remaining
       /\ jobs'[j].state = "succeeded" <=> jobs[j].state = "succeeded"
       /\ jobs'[j].state = "absent" <=> jobs[j].state = "absent"
       /\ jobs'[j].state = "pending" => jobs[j].state = "pending"
       /\ jobs'[j].state \in {"ready", "retry_wait", "leased", "succeeded", "dead_lettered"} =>
            jobs[j].state \in {"ready", "retry_wait", "leased", "succeeded", "dead_lettered"}

LEMMA QuietKeeps ==
  ASSUME SchedInv, Quiet
  PROVE  Admitted' /\ RemainingExact' /\ CounterDecides'
<1>1. Admitted /\ RemainingExact /\ CounterDecides
  BY DEF SchedInv
<1>2. Admitted' /\ CounterDecides'
  BY <1>1 DEF Quiet, Admitted, CounterDecides
<1>3. RemainingExact'
  <2> SUFFICES ASSUME NEW j \in Jobs, jobs'[j].state # "absent"
               PROVE  jobs'[j].remaining =
                        Cardinality({i \in EdgesInto(j) : jobs'[Edges[i][1]].state # "succeeded"})
    BY DEF RemainingExact
  <2>1. {i \in EdgesInto(j) : jobs'[Edges[i][1]].state # "succeeded"}
          = {i \in EdgesInto(j) : jobs[Edges[i][1]].state # "succeeded"}
    BY EdgeFacts DEF Quiet
  <2> QED
    BY <1>1, <2>1 DEF RemainingExact, Quiet
<1> QED
  BY <1>2, <1>3

\* A step that grants no lease: leases keep their holder or end, attempts rest,
\* and a result is written under the latest claim of its job.
Ungranting ==
  /\ UNCHANGED <<sequence, claims>>
  /\ \A j \in Jobs :
       /\ jobs'[j].attempts = jobs[j].attempts
       /\ jobs'[j].lease # Null => /\ jobs[j].lease # Null
                                   /\ jobs'[j].lease.token = jobs[j].lease.token
                                   /\ jobs'[j].lease.owner = jobs[j].lease.owner
       /\ jobs'[j].state = "succeeded" =>
            \/ jobs[j].state = "succeeded" /\ jobs'[j].result = jobs[j].result
            \/ \E c \in claims : /\ c.job = j /\ c.attempt = jobs[j].attempts
                                 /\ c.token = jobs'[j].result

LEMMA UngrantingKeeps ==
  ASSUME SchedInv, Ungranting
  PROVE  ClaimsCounted' /\ Fenced'
<1>1. ClaimsCounted /\ Fenced /\ TypeOK
  BY DEF SchedInv
<1>2. \A c \in claims : c.job \in Jobs
  BY <1>1 DEF TypeOK, Claim
<1>3. ClaimsCounted'
  BY <1>1, <1>2 DEF Ungranting, ClaimsCounted
<1>4. Fenced'
  <2>1. \A c, e \in claims : c.token = e.token => c = e
    BY <1>1 DEF Fenced
  <2>2. ASSUME NEW j \in Jobs, jobs'[j].lease # Null
        PROVE  \E c \in claims : /\ c.job = j /\ c.attempt = jobs'[j].attempts
                                 /\ c.token = jobs'[j].lease.token
                                 /\ c.owner = jobs'[j].lease.owner
    BY <1>1, <2>2 DEF Fenced, Ungranting
  <2>3. ASSUME NEW j \in Jobs, jobs'[j].state = "succeeded"
        PROVE  \E c \in claims : /\ c.job = j /\ c.attempt = jobs'[j].attempts
                                 /\ c.token = jobs'[j].result
    BY <1>1, <2>3 DEF Fenced, Ungranting
  <2> QED
    BY <2>1, <2>2, <2>3 DEF Fenced, Ungranting
<1> QED
  BY <1>3, <1>4

-----------------------------------------------------------------------------
\* The actions

\* Leases lapse, and the heap is brought in line with the records.
LEMMA LapseKeeps ==
  ASSUME SchedInv, NEW S \in SUBSET Jobs, \A j \in S : jobs[j].state = "leased",
         jobs' = LapsedJobs(S), UNCHANGED <<now, dags, sequence, claims>>,
         HeapFits(ready', jobs')
  PROVE  SchedInv'
<1>1. TypeOK /\ WithinBudget /\ LeaseIffLeased
  BY DEF SchedInv
<1>2. /\ jobs' \in [Jobs -> JobRecord]
      /\ \A j \in Jobs \ S : jobs'[j] = jobs[j]
      /\ \A j \in S : LapsesTo(j, jobs')
  BY <1>1, LapsedFacts
<1>3. TypeOK'
  BY <1>1, <1>2 DEF TypeOK, HeapFits
<1>4. HeapExact'
  BY DEF HeapExact, HeapFits
<1>5. Quiet
  BY <1>2 DEF Quiet, LapsesTo
<1>6. WithinBudget'
  BY <1>1, <1>2 DEF WithinBudget, LapsesTo, Waiting
<1>7. LeaseIffLeased'
  BY <1>1, <1>2 DEF LeaseIffLeased, LapsesTo
<1>8. Ungranting
  BY <1>2 DEF Ungranting, LapsesTo
<1> QED
  BY <1>3, <1>4, <1>5, <1>6, <1>7, <1>8, QuietKeeps, UngrantingKeeps DEF SchedInv

LEMMA ReapKeeps ==
  ASSUME SchedInv, reap
  PROVE  SchedInv'
<1>1. Expired \in SUBSET Jobs /\ \A j \in Expired : jobs[j].state = "leased"
  BY DEF Expired
<1>2. TypeOK /\ HeapExact
  BY DEF SchedInv
<1>3. HeapFits(LapsedReady(Expired), LapsedJobs(Expired))
  BY <1>1, <1>2, LapsedHeap
<1>4. /\ jobs' = LapsedJobs(Expired) /\ UNCHANGED <<now, dags, sequence, claims>>
      /\ ready' = LapsedReady(Expired)
  BY DEF reap
<1>5. HeapFits(ready', jobs')
  BY <1>3, <1>4
<1> QED
  BY <1>1, <1>4, <1>5, LapseKeeps

LEMMA FailKeeps ==
  ASSUME SchedInv, NEW c \in claims, NEW owner \in Owners, fail(c, owner)
  PROVE  SchedInv'
<1> DEFINE S == {c.job}
<1>1. TypeOK /\ HeapExact
  BY DEF SchedInv
<1>2. S \in SUBSET Jobs /\ \A j \in S : jobs[j].state = "leased"
  BY <1>1 DEF fail, HoldsLease, TypeOK, Claim
<1>3. /\ jobs' = LapsedJobs(S) /\ UNCHANGED <<now, dags, sequence, claims>>
      /\ ready' = LapsedReady(S)
  BY DEF fail
<1> HIDE DEF S
<1>4. HeapFits(LapsedReady(S), LapsedJobs(S))
  BY <1>1, <1>2, LapsedHeap
<1>5. HeapFits(ready', jobs')
  BY <1>3, <1>4
<1> QED
  BY <1>2, <1>3, <1>5, LapseKeeps

\* claim found no job: it popped left-over keys only.
LEMMA ClaimNothingKeeps ==
  ASSUME SchedInv, ClaimNothing
  PROVE  SchedInv'
<1> DEFINE recs == LapsedJobs(Expired)
           heap == LapsedReady(Expired)
           b == [k \in Due(heap) |-> heap[k]]
<1>1. Expired \in SUBSET Jobs /\ \A j \in Expired : jobs[j].state = "leased"
  BY DEF Expired
<1>2. TypeOK /\ HeapExact
  BY DEF SchedInv
<1>3. HeapFits(heap, recs)
  BY <1>1, <1>2, LapsedHeap
<1>4. /\ Matching(heap, recs) = {}
      /\ jobs' = recs /\ ready' = heap (-) b
      /\ UNCHANGED <<now, dags, sequence, claims>>
  BY DEF ClaimNothing
<1> HIDE DEF recs, heap
<1>5. DOMAIN b \subseteq DOMAIN heap /\ \A k \in DOMAIN b : b[k] = 1
  BY <1>3 DEF Due, BagToSet, HeapFits
<1>6. \A k \in DOMAIN b : recs[k.job].state \notin Waiting
  <2>1. \A k \in DOMAIN b : k \in DOMAIN heap /\ ~ Matches(k, recs)
    BY <1>4, <1>5 DEF Matching
  <2> QED
    BY <1>3, <2>1 DEF HeapFits, Waiting
<1> HIDE DEF b
<1>7. HeapFits(heap (-) b, recs)
  BY <1>3, <1>5, <1>6, HeapPop
<1>8. HeapFits(ready', jobs')
  BY <1>4, <1>7
<1> QED
  BY <1>1, <1>4, <1>8, LapseKeeps DEF recs


\* The parts of the invariant do not depend on the clock.
LEMMA TickKeeps ==
  ASSUME SchedInv, Tick
  PROVE  SchedInv'
<1>1. now' \in Nat /\ UNCHANGED <<dags, jobs, ready, sequence, claims>>
  BY ConfigAssumption DEF Tick
<1>2. TypeOK'
  BY <1>1 DEF SchedInv, TypeOK
<1>3. HeapExact' /\ Admitted' /\ RemainingExact' /\ CounterDecides'
  BY <1>1 DEF SchedInv, HeapExact, Admitted, RemainingExact, CounterDecides
<1>4. WithinBudget' /\ LeaseIffLeased' /\ ClaimsCounted' /\ Fenced'
  BY <1>1 DEF SchedInv, WithinBudget, LeaseIffLeased, ClaimsCounted, Fenced
<1> QED
  BY <1>2, <1>3, <1>4 DEF SchedInv

\* Record r with its lease extended to t.
Extended(r, t) == [r EXCEPT !.lease.expires = t]

LEMMA ExtendedRecord ==
  ASSUME NEW r \in JobRecord, r.lease # Null, NEW t \in Nat
  PROVE  /\ Extended(r, t) \in JobRecord
         /\ Extended(r, t).state = r.state /\ Extended(r, t).available_at = r.available_at
         /\ Extended(r, t).lease # Null
         /\ Extended(r, t).lease.token = r.lease.token
         /\ Extended(r, t).lease.owner = r.lease.owner
         /\ Extended(r, t).attempts = r.attempts
         /\ Extended(r, t).remaining = r.remaining
         /\ Extended(r, t).result = r.result
<1> DEFINE l == [r.lease EXCEPT !.expires = t]
<1>1. r.lease \in Lease
  BY DEF JobRecord
<1>2. l \in Lease /\ l.token = r.lease.token /\ l.owner = r.lease.owner
  BY <1>1 DEF Lease
<1>3. l # Null
  BY <1>2, NullAssumption DEF Lease
<1>4. Extended(r, t) = [r EXCEPT !.lease = l]
  BY DEF JobRecord, Extended
<1> HIDE DEF l
<1> QED
  BY <1>2, <1>3, <1>4 DEF JobRecord

LEMMA HeartbeatKeeps ==
  ASSUME SchedInv, NEW c \in claims, NEW owner \in Owners, NEW len \in LeaseLengths,
         heartbeat(c, owner, len)
  PROVE  SchedInv'
<1> DEFINE g == c.job
<1>1. TypeOK /\ WithinBudget /\ LeaseIffLeased /\ HeapExact
  BY DEF SchedInv
<1>2. g \in Jobs /\ jobs \in [Jobs -> JobRecord] /\ now + len \in Nat
  BY <1>1, ConfigAssumption DEF TypeOK, Claim
<1>3. jobs[g] \in JobRecord /\ jobs[g].lease # Null
  BY <1>2 DEF heartbeat, HoldsLease
<1>4. jobs' = [jobs EXCEPT ![g] = Extended(jobs[g], now + len)]
  BY <1>2 DEF heartbeat, Extended
<1>5. UNCHANGED <<now, dags, ready, sequence, claims>>
  BY DEF heartbeat
<1> HIDE DEF g
<1>6. ASSUME NEW j \in Jobs
      PROVE  /\ jobs'[j] \in JobRecord
             /\ jobs'[j].state = jobs[j].state
             /\ jobs'[j].available_at = jobs[j].available_at
             /\ jobs'[j].attempts = jobs[j].attempts
             /\ jobs'[j].remaining = jobs[j].remaining
             /\ jobs'[j].result = jobs[j].result
             /\ jobs'[j].lease # Null <=> jobs[j].lease # Null
             /\ jobs'[j].lease # Null => /\ jobs'[j].lease.token = jobs[j].lease.token
                                         /\ jobs'[j].lease.owner = jobs[j].lease.owner
  <2>1. CASE j = g
    <3>1. jobs'[j] = Extended(jobs[g], now + len)
      BY <1>2, <1>4, <2>1
    <3> QED
      BY <1>2, <1>3, <2>1, <3>1, ExtendedRecord
  <2>2. CASE j # g
    BY <1>2, <1>4, <2>2
  <2> QED
    BY <2>1, <2>2
<1>7. jobs' \in [Jobs -> JobRecord]
  BY <1>2, <1>4, <1>6
<1>8. TypeOK'
  BY <1>1, <1>5, <1>7 DEF TypeOK
<1>9. HeapFits(ready, jobs')
  BY <1>1, <1>6, HeapStays DEF HeapExact
<1>10. HeapExact'
  BY <1>5, <1>9 DEF HeapExact, HeapFits
<1>11. Quiet /\ Ungranting
  BY <1>5, <1>6 DEF Quiet, Ungranting
<1>12. WithinBudget' /\ LeaseIffLeased'
  BY <1>1, <1>6 DEF WithinBudget, LeaseIffLeased
<1> QED
  BY <1>8, <1>10, <1>11, <1>12, QuietKeeps, UngrantingKeeps DEF SchedInv

\* Record r cancelled.
Halted(r) == [r EXCEPT !.state = "cancelled", !.lease = Null]

LEMMA HaltedRecord ==
  ASSUME NEW r \in JobRecord
  PROVE  /\ Halted(r) \in JobRecord
         /\ Halted(r).state = "cancelled" /\ Halted(r).lease = Null
         /\ Halted(r).attempts = r.attempts /\ Halted(r).remaining = r.remaining
         /\ Halted(r).result = r.result
  BY DEF JobRecord, Halted, JobState

LEMMA CancelKeeps ==
  ASSUME SchedInv, NEW d \in Dags, cancel(d)
  PROVE  SchedInv'
<1> DEFINE S == {j \in Jobs : DagOf[j] = d /\ jobs[j].state \notin Terminal}
<1>1. TypeOK /\ WithinBudget /\ LeaseIffLeased /\ HeapExact /\ Admitted
  BY DEF SchedInv
<1>2. jobs \in [Jobs -> JobRecord]
  BY <1>1 DEF TypeOK
<1>3. UNCHANGED <<now, dags, ready, sequence, claims>>
  BY DEF cancel
<1>4. jobs' = [j \in Jobs |-> IF j \in S THEN Halted(jobs[j]) ELSE jobs[j]]
  BY DEF cancel, Halted
<1>5. \A j \in S : jobs[j].state \notin {"absent", "succeeded", "dead_lettered", "cancelled"}
  BY <1>1 DEF cancel, Admitted, Terminal
<1>6. S \in SUBSET Jobs
  OBVIOUS
<1> HIDE DEF S
<1>7. /\ jobs' \in [Jobs -> JobRecord]
      /\ \A j \in Jobs \ S : jobs'[j] = jobs[j]
      /\ \A j \in S : /\ jobs'[j].state = "cancelled" /\ jobs'[j].lease = Null
                      /\ jobs'[j].attempts = jobs[j].attempts
                      /\ jobs'[j].remaining = jobs[j].remaining
                      /\ jobs'[j].result = jobs[j].result
  BY <1>2, <1>4, <1>6, HaltedRecord
<1>8. TypeOK'
  BY <1>1, <1>3, <1>7 DEF TypeOK
<1>9. HeapFits(ready, jobs')
  <2>1. HeapFits(ready, jobs)
    BY <1>1 DEF HeapExact
  <2>2. \A j \in Jobs :
          /\ jobs'[j].state \in Waiting =>
               jobs[j].state \in Waiting /\ jobs'[j].available_at = jobs[j].available_at
          /\ jobs[j].state \in Waiting =>
               \/ jobs'[j].state = "cancelled"
               \/ jobs'[j].state \in Waiting /\ jobs'[j].available_at = jobs[j].available_at
          /\ jobs[j].state = "cancelled" => jobs'[j].state = "cancelled"
    BY <1>7 DEF Waiting
  <2> QED
    BY <2>1, <2>2, HeapStays
<1>10. HeapExact'
  BY <1>3, <1>9 DEF HeapExact, HeapFits
<1>11. Quiet
  BY <1>3, <1>5, <1>7 DEF Quiet
<1>12. Ungranting
  BY <1>3, <1>7 DEF Ungranting
<1>13. WithinBudget' /\ LeaseIffLeased'
  BY <1>1, <1>7 DEF WithinBudget, LeaseIffLeased, Waiting
<1> QED
  BY <1>8, <1>10, <1>11, <1>12, <1>13, QuietKeeps, UngrantingKeeps DEF SchedInv


\* A record as submit writes it.
Fresh(s, t, n) == [AbsentRecord EXCEPT !.state = s, !.available_at = t, !.remaining = n]

LEMMA FreshRecord ==
  ASSUME NEW s \in JobState, NEW t \in Nat, NEW n \in Nat
  PROVE  /\ Fresh(s, t, n) \in JobRecord
         /\ Fresh(s, t, n).state = s /\ Fresh(s, t, n).available_at = t
         /\ Fresh(s, t, n).remaining = n
         /\ Fresh(s, t, n).attempts = 0 /\ Fresh(s, t, n).lease = Null
         /\ Fresh(s, t, n).result = Null
  BY DEF Fresh, JobRecord, AbsentRecord

\* The records after submit.
SubmittedJob(j, recs) ==
  /\ recs[j].state = (IF EdgesInto(j) = {} THEN "ready" ELSE "pending")
  /\ recs[j].available_at = now /\ recs[j].remaining = Cardinality(EdgesInto(j))
  /\ recs[j].attempts = 0 /\ recs[j].lease = Null /\ recs[j].result = Null

LEMMA SubmitFacts ==
  ASSUME TypeOK, NEW d \in Dags, submit(d)
  PROVE  /\ jobs' \in [Jobs -> JobRecord]
         /\ \A j \in Jobs : DagOf[j] # d => jobs'[j] = jobs[j]
         /\ \A j \in JobsOf(d) : SubmittedJob(j, jobs')
         /\ ready' = Pushed(ready, {j \in JobsOf(d) : EdgesInto(j) = {}}, jobs')
         /\ dags' = dags \cup {d} /\ d \notin dags
         /\ HeapLen(ready) + Cardinality({j \in JobsOf(d) : EdgesInto(j) = {}}) <= MaxReadyJobs
         /\ UNCHANGED <<now, sequence, claims>>
<1> DEFINE st(j) == IF EdgesInto(j) = {} THEN "ready" ELSE "pending"
           new == [j \in JobsOf(d) |-> Fresh(st(j), now, Cardinality(EdgesInto(j)))]
           roots == {j \in JobsOf(d) : new[j].state = "ready"}
<1>1. /\ d \notin dags /\ dags' = dags \cup {d}
      /\ HeapLen(ready) + Cardinality(roots) <= MaxReadyJobs
      /\ jobs' = [j \in Jobs |-> IF DagOf[j] = d THEN new[j] ELSE jobs[j]]
      /\ ready' = ready (+) Keys(roots, new)
      /\ UNCHANGED <<now, sequence, claims>>
  BY DEF submit, Fresh
<1>2. JobsOf(d) = {j \in Jobs : DagOf[j] = d}
  BY DEF JobsOf
<1>3. ASSUME NEW j \in JobsOf(d)
      PROVE  /\ new[j] \in JobRecord /\ new[j].state = st(j)
             /\ new[j].available_at = now /\ new[j].remaining = Cardinality(EdgesInto(j))
             /\ new[j].attempts = 0 /\ new[j].lease = Null /\ new[j].result = Null
  <2>1. Cardinality(EdgesInto(j)) \in Nat
    BY <1>2, EdgeFacts, EdgeSetsFinite
  <2>2. now \in Nat /\ st(j) \in JobState
    BY DEF TypeOK, JobState
  <2>3. new[j] = Fresh(st(j), now, Cardinality(EdgesInto(j)))
    OBVIOUS
  <2> HIDE DEF st, new
  <2> QED
    BY <2>1, <2>2, <2>3, FreshRecord
<1>4. roots = {j \in JobsOf(d) : EdgesInto(j) = {}}
  BY <1>3
<1> HIDE DEF new
<1>5. /\ \A j \in JobsOf(d) : jobs'[j] = new[j]
      /\ \A j \in Jobs : DagOf[j] # d => jobs'[j] = jobs[j]
      /\ jobs' \in [Jobs -> JobRecord]
  BY <1>1, <1>2, <1>3 DEF TypeOK
<1>6. \A j \in JobsOf(d) : SubmittedJob(j, jobs')
  BY <1>3, <1>5 DEF SubmittedJob
<1>7. Keys(roots, new) = Keys(roots, jobs')
  <2>1. \A j \in roots : jobs'[j] = new[j]
    BY <1>5
  <2> HIDE DEF roots
  <2>2. {[available_at |-> new[j].available_at, job |-> j] : j \in roots}
          = {[available_at |-> jobs'[j].available_at, job |-> j] : j \in roots}
    BY <2>1
  <2> QED
    BY <2>2 DEF Keys
<1>8. ready' = Pushed(ready, {j \in JobsOf(d) : EdgesInto(j) = {}}, jobs')
  BY <1>1, <1>4, <1>7 DEF Pushed
<1> QED
  BY <1>1, <1>4, <1>5, <1>6, <1>8

LEMMA SubmitKeeps ==
  ASSUME SchedInv, NEW d \in Dags, submit(d)
  PROVE  SchedInv'
<1> DEFINE R == {j \in JobsOf(d) : EdgesInto(j) = {}}
<1>1. /\ TypeOK /\ WithinBudget /\ LeaseIffLeased /\ HeapExact /\ Admitted
      /\ RemainingExact /\ CounterDecides
  BY DEF SchedInv
<1>2. /\ jobs' \in [Jobs -> JobRecord]
      /\ \A j \in Jobs : DagOf[j] # d => jobs'[j] = jobs[j]
      /\ \A j \in JobsOf(d) : SubmittedJob(j, jobs')
      /\ ready' = Pushed(ready, R, jobs')
      /\ dags' = dags \cup {d} /\ d \notin dags
      /\ UNCHANGED <<now, sequence, claims>>
  BY <1>1, SubmitFacts
<1>3. /\ \A j \in JobsOf(d) : jobs[j].state = "absent" /\ jobs[j].attempts = 0
      /\ \A j \in Jobs : DagOf[j] = d <=> j \in JobsOf(d)
      /\ JobsOf(d) \in SUBSET Jobs
  BY <1>1, <1>2 DEF Admitted, WithinBudget, JobsOf
<1>4. HeapFits(ready', jobs')
  <2>1. HeapFits(ready, jobs) /\ R \in SUBSET Jobs /\ now \in Nat
    BY <1>1, <1>3 DEF HeapExact, TypeOK
  <2>2. \A j \in R : /\ jobs[j].state \notin Waiting /\ jobs[j].state # "cancelled"
                     /\ jobs'[j].state \in Waiting /\ jobs'[j].available_at \in Nat
    BY <1>2, <1>3, <2>1 DEF Waiting, SubmittedJob
  <2>3. \A j \in Jobs \ R :
          /\ jobs'[j].state \in Waiting =>
               jobs[j].state \in Waiting /\ jobs'[j].available_at = jobs[j].available_at
          /\ jobs[j].state \in Waiting =>
               \/ jobs'[j].state = "cancelled"
               \/ jobs'[j].state \in Waiting /\ jobs'[j].available_at = jobs[j].available_at
          /\ jobs[j].state = "cancelled" => jobs'[j].state = "cancelled"
    BY <1>2, <1>3 DEF Waiting, SubmittedJob
  <2> HIDE DEF R
  <2>4. HeapFits(Pushed(ready, R, jobs'), jobs')
    BY <2>1, <2>2, <2>3, HeapPush
  <2> QED
    BY <1>2, <2>4
<1>5. HeapExact'
  BY <1>4 DEF HeapExact, HeapFits
<1>6. TypeOK'
  BY <1>1, <1>2, <1>4 DEF TypeOK, HeapFits
<1>7. Admitted'
  BY <1>1, <1>2, <1>3 DEF Admitted, SubmittedJob
<1>8. RemainingExact'
  <2> SUFFICES ASSUME NEW j \in Jobs, jobs'[j].state # "absent"
               PROVE  jobs'[j].remaining =
                        Cardinality({i \in EdgesInto(j) : jobs'[Edges[i][1]].state # "succeeded"})
    BY DEF RemainingExact
  <2>1. \A i \in EdgesInto(j) : Edges[i][1] \in Jobs /\ DagOf[Edges[i][1]] = DagOf[j]
    BY EdgeFacts
  <2>2. CASE DagOf[j] = d
    <3>1. {i \in EdgesInto(j) : jobs'[Edges[i][1]].state # "succeeded"} = EdgesInto(j)
      BY <1>2, <1>3, <2>1, <2>2 DEF SubmittedJob
    <3> QED
      BY <1>2, <1>3, <2>2, <3>1 DEF SubmittedJob
  <2>3. CASE DagOf[j] # d
    <3>1. {i \in EdgesInto(j) : jobs'[Edges[i][1]].state # "succeeded"}
            = {i \in EdgesInto(j) : jobs[Edges[i][1]].state # "succeeded"}
      BY <1>2, <2>1, <2>3
    <3> QED
      BY <1>1, <1>2, <2>3, <3>1 DEF RemainingExact
  <2> QED
    BY <2>2, <2>3
<1>9. CounterDecides'
  <2> SUFFICES ASSUME NEW j \in Jobs
               PROVE  /\ jobs'[j].state = "pending" => jobs'[j].remaining > 0
                      /\ jobs'[j].state \in {"ready", "retry_wait", "leased", "succeeded",
                                             "dead_lettered"} => jobs'[j].remaining = 0
    BY DEF CounterDecides
  <2>1. CASE DagOf[j] = d
    <3>1. Cardinality(EdgesInto(j)) \in Nat /\ (Cardinality(EdgesInto(j)) = 0 <=> EdgesInto(j) = {})
      BY EdgeFacts, EdgeSetsFinite
    <3> QED
      BY <1>2, <1>3, <2>1, <3>1 DEF SubmittedJob
  <2>2. CASE DagOf[j] # d
    BY <1>1, <1>2, <2>2 DEF CounterDecides
  <2> QED
    BY <2>1, <2>2
<1>10. WithinBudget' /\ LeaseIffLeased'
  BY <1>1, <1>2, <1>3, AttemptsAssumption DEF WithinBudget, LeaseIffLeased, Waiting, SubmittedJob
<1>11. Ungranting
  BY <1>2, <1>3 DEF Ungranting, SubmittedJob
<1> QED
  BY <1>5, <1>6, <1>7, <1>8, <1>9, <1>10, <1>11, UngrantingKeeps DEF SchedInv


\* Record r after a dependency ended: n left, state s, available from t.
Relieved(r, n, s, t) == [r EXCEPT !.remaining = n, !.state = s, !.available_at = t]

LEMMA RelievedRecord ==
  ASSUME NEW r \in JobRecord, NEW n \in Nat, NEW s \in JobState, NEW t \in Nat
  PROVE  /\ Relieved(r, n, s, t) \in JobRecord
         /\ Relieved(r, n, s, t).state = s /\ Relieved(r, n, s, t).available_at = t
         /\ Relieved(r, n, s, t).remaining = n
         /\ Relieved(r, n, s, t).attempts = r.attempts
         /\ Relieved(r, n, s, t).lease = r.lease
         /\ Relieved(r, n, s, t).result = r.result
  BY DEF Relieved, JobRecord

\* Record r with result t.
Done(r, t) == [r EXCEPT !.state = "succeeded", !.lease = Null, !.result = t]

LEMMA DoneRecord ==
  ASSUME NEW r \in JobRecord, NEW t \in Tokens
  PROVE  /\ Done(r, t) \in JobRecord
         /\ Done(r, t).state = "succeeded" /\ Done(r, t).lease = Null
         /\ Done(r, t).result = t
         /\ Done(r, t).attempts = r.attempts /\ Done(r, t).remaining = r.remaining
  BY DEF Done, JobRecord, JobState

\* The edges from g to k, and those of k's edges that still block it.
EdgesFrom(g, k) == {i \in EdgesInto(k) : Edges[i][1] = g}
Blocking(k) == {i \in EdgesInto(k) : jobs[Edges[i][1]].state # "succeeded"}

\* The children that the success of g releases.
FreedBy(g) ==
  {k \in Jobs : /\ k # g /\ EdgesFrom(g, k) # {} /\ jobs[k].state = "pending"
                /\ jobs[k].remaining = Cardinality(EdgesFrom(g, k))}

\* Job k of recs is k of the state after its parent g succeeded.
NotifiedOf(g, k, recs) ==
  /\ recs[k].state = (IF k \in FreedBy(g) THEN "ready" ELSE jobs[k].state)
  /\ recs[k].available_at = (IF k \in FreedBy(g) THEN now ELSE jobs[k].available_at)
  /\ recs[k].remaining = jobs[k].remaining - Cardinality(EdgesFrom(g, k))
  /\ recs[k].attempts = jobs[k].attempts /\ recs[k].lease = jobs[k].lease
  /\ recs[k].result = jobs[k].result

\* The edges from a job that has not succeeded are among the blocking ones, so
\* the subtraction in the code does not saturate.
LEMMA EdgeCounts ==
  ASSUME SchedInv, NEW g \in Jobs, jobs[g].state = "leased", NEW k \in Jobs
  PROVE  /\ EdgesFrom(g, k) \in SUBSET Blocking(k) /\ IsFiniteSet(Blocking(k))
         /\ Cardinality(EdgesFrom(g, k)) \in Nat /\ Cardinality(Blocking(k)) \in Nat
         /\ Cardinality(EdgesFrom(g, k)) = 0 <=> EdgesFrom(g, k) = {}
         /\ Cardinality(Blocking(k)) = 0 <=> Blocking(k) = {}
         /\ Cardinality(Blocking(k) \ EdgesFrom(g, k))
              = Cardinality(Blocking(k)) - Cardinality(EdgesFrom(g, k))
         /\ Cardinality(EdgesFrom(g, k)) <= jobs[k].remaining
         /\ jobs[k].state # "absent" => jobs[k].remaining = Cardinality(Blocking(k))
         /\ jobs[k].state = "absent" => EdgesFrom(g, k) = {}
         /\ jobs[k].remaining \in Nat
<1>1. TypeOK /\ Admitted /\ RemainingExact
  BY DEF SchedInv
<1>2. /\ EdgesInto(k) \in SUBSET DOMAIN Edges
      /\ \A i \in EdgesInto(k) : Edges[i][1] \in Jobs /\ DagOf[Edges[i][1]] = DagOf[k]
  BY EdgeFacts
<1>3. EdgesFrom(g, k) \in SUBSET Blocking(k)
  BY DEF EdgesFrom, Blocking
<1>4. Blocking(k) \in SUBSET DOMAIN Edges /\ EdgesFrom(g, k) \in SUBSET DOMAIN Edges
  BY <1>2 DEF Blocking, EdgesFrom
<1>5. /\ IsFiniteSet(Blocking(k)) /\ (Cardinality(Blocking(k)) = 0 <=> Blocking(k) = {})
      /\ (Cardinality(EdgesFrom(g, k)) = 0 <=> EdgesFrom(g, k) = {})
  BY <1>4, EdgeSetsFinite
<1>6. /\ Cardinality(EdgesFrom(g, k)) \in Nat /\ Cardinality(Blocking(k)) \in Nat
      /\ Cardinality(Blocking(k) \ EdgesFrom(g, k))
           = Cardinality(Blocking(k)) - Cardinality(EdgesFrom(g, k))
      /\ Cardinality(EdgesFrom(g, k)) <= Cardinality(Blocking(k))
  BY <1>3, <1>5, CountRemoved
<1>7. jobs[k].state # "absent" => jobs[k].remaining = Cardinality(Blocking(k))
  BY <1>1 DEF RemainingExact, Blocking
<1>8. jobs[k].state = "absent" => EdgesFrom(g, k) = {}
  BY <1>1, <1>2 DEF Admitted, EdgesFrom
<1>9. jobs[k].remaining \in Nat
  BY <1>1 DEF TypeOK, JobRecord
<1>10. Cardinality(EdgesFrom(g, k)) <= jobs[k].remaining
  BY <1>5, <1>6, <1>7, <1>8, <1>9
<1> QED
  BY <1>3, <1>5, <1>6, <1>7, <1>8, <1>9, <1>10

\* The records and the heap after complete.
LEMMA CompleteFacts ==
  ASSUME SchedInv, NEW c \in claims, NEW owner \in Owners, complete(c, owner)
  PROVE  /\ c.job \in Jobs /\ c.token \in Tokens
         /\ jobs[c.job].state = "leased" /\ jobs[c.job].lease # Null
         /\ jobs[c.job].lease.token = c.token
         /\ jobs' \in [Jobs -> JobRecord]
         /\ jobs'[c.job] = Done(jobs[c.job], c.token)
         /\ \A k \in Jobs \ {c.job} : NotifiedOf(c.job, k, jobs')
         /\ ready' = Pushed(ready, FreedBy(c.job), jobs')
         /\ UNCHANGED <<now, dags, sequence, claims>>
<1> DEFINE g == c.job
           C == {k \in Children(g) : jobs[k].state = "pending" /\ jobs'[k].state = "ready"}
<1>1. TypeOK
  BY DEF SchedInv
<1>2. g \in Jobs /\ c.token \in Tokens /\ jobs \in [Jobs -> JobRecord] /\ now \in Nat
  BY <1>1 DEF TypeOK, Claim
<1>3. jobs[g].state = "leased" /\ jobs[g].lease # Null /\ jobs[g].lease.token = c.token
  BY DEF complete, HoldsLease
<1>4. /\ jobs' = [k \in Jobs |-> IF k = g THEN SucceededRecord(c) ELSE Notified(g, k)]
      /\ ready' = Pushed(ready, C, jobs')
      /\ UNCHANGED <<now, dags, sequence, claims>>
  BY DEF complete, Pushed
<1>5. SucceededRecord(c) = Done(jobs[g], c.token)
  BY DEF SucceededRecord, Done
<1>6. SucceededRecord(c) \in JobRecord
  BY <1>2, <1>5, DoneRecord
<1> HIDE DEF g
<1>7. ASSUME NEW k \in Jobs, k # g
      PROVE  /\ Notified(g, k) \in JobRecord
             /\ Notified(g, k).state = (IF k \in FreedBy(g) THEN "ready" ELSE jobs[k].state)
             /\ Notified(g, k).available_at
                  = (IF k \in FreedBy(g) THEN now ELSE jobs[k].available_at)
             /\ Notified(g, k).remaining = jobs[k].remaining - Cardinality(EdgesFrom(g, k))
             /\ Notified(g, k).attempts = jobs[k].attempts
             /\ Notified(g, k).lease = jobs[k].lease
             /\ Notified(g, k).result = jobs[k].result
  <2> DEFINE E == EdgesFrom(g, k)
             n == jobs[k].remaining - Cardinality(E)
             s == IF k \in FreedBy(g) THEN "ready" ELSE jobs[k].state
             t == IF k \in FreedBy(g) THEN now ELSE jobs[k].available_at
             left == Greatest(0, n)
             release == E # {} /\ left = 0 /\ jobs[k].state = "pending"
  <2>1. /\ Cardinality(E) \in Nat /\ Cardinality(E) <= jobs[k].remaining
        /\ jobs[k].remaining \in Nat
    BY <1>2, <1>3, EdgeCounts
  <2>2. left = n /\ n \in Nat
    BY <2>1 DEF Greatest
  <2>3. release <=> k \in FreedBy(g)
    BY <1>7, <2>1, <2>2 DEF FreedBy
  <2>4. Notified(g, k) = Relieved(jobs[k], left,
                                  IF release THEN "ready" ELSE jobs[k].state,
                                  IF release THEN now ELSE jobs[k].available_at)
    BY <1>2 DEF Notified, Relieved, EdgesFrom, JobRecord
  <2>5. Notified(g, k) = Relieved(jobs[k], n, s, t)
    <3> HIDE DEF release, left
    <3> QED
      BY <2>2, <2>3, <2>4
  <2>6. jobs[k] \in JobRecord /\ s \in JobState /\ t \in Nat
    BY <1>2 DEF JobRecord, JobState
  <2> HIDE DEF n, s, t
  <2>7. /\ Relieved(jobs[k], n, s, t) \in JobRecord
        /\ Relieved(jobs[k], n, s, t).state = s /\ Relieved(jobs[k], n, s, t).available_at = t
        /\ Relieved(jobs[k], n, s, t).remaining = n
        /\ Relieved(jobs[k], n, s, t).attempts = jobs[k].attempts
        /\ Relieved(jobs[k], n, s, t).lease = jobs[k].lease
        /\ Relieved(jobs[k], n, s, t).result = jobs[k].result
    BY <2>2, <2>6, RelievedRecord
  <2> QED
    BY <2>5, <2>7 DEF n, s, t
<1>8. /\ jobs' \in [Jobs -> JobRecord]
      /\ jobs'[g] = Done(jobs[g], c.token)
      /\ \A k \in Jobs \ {g} : jobs'[k] = Notified(g, k)
  BY <1>2, <1>4, <1>5, <1>6, <1>7
<1>9. \A k \in Jobs \ {g} : NotifiedOf(g, k, jobs')
  BY <1>7, <1>8 DEF NotifiedOf
<1>10. C = FreedBy(g)
  <2>1. jobs'[g].state = "succeeded"
    BY <1>2, <1>8, DoneRecord
  <2>2. Children(g) \subseteq Jobs
    <3>1. \A i \in DOMAIN Edges : Edges[i] \in Jobs \X Jobs
      BY EdgesAssumption
    <3> QED
      BY <3>1 DEF Children
  <2>3. \A k \in C : k \in FreedBy(g)
    BY <1>9, <2>1, <2>2 DEF NotifiedOf
  <2>4. \A k \in FreedBy(g) : k \in Children(g) /\ jobs[k].state = "pending" /\ k \in Jobs \ {g}
    BY DEF FreedBy, EdgesFrom, EdgesInto, Children
  <2>5. \A k \in FreedBy(g) : k \in C
    BY <1>9, <2>4 DEF NotifiedOf
  <2> QED
    BY <2>3, <2>5
<1> QED
  BY <1>2, <1>3, <1>4, <1>8, <1>9, <1>10 DEF g

LEMMA CompleteKeeps ==
  ASSUME SchedInv, NEW c \in claims, NEW owner \in Owners, complete(c, owner)
  PROVE  SchedInv'
<1> DEFINE g == c.job
           F == FreedBy(g)
<1>1. /\ TypeOK /\ WithinBudget /\ LeaseIffLeased /\ HeapExact /\ Admitted
      /\ RemainingExact /\ CounterDecides
  BY DEF SchedInv
<1>2. /\ g \in Jobs /\ c.token \in Tokens
      /\ jobs[g].state = "leased" /\ jobs[g].lease # Null
      /\ jobs[g].lease.token = c.token
      /\ jobs' \in [Jobs -> JobRecord]
      /\ jobs'[g] = Done(jobs[g], c.token)
      /\ \A k \in Jobs \ {g} : NotifiedOf(g, k, jobs')
      /\ ready' = Pushed(ready, F, jobs')
      /\ UNCHANGED <<now, dags, sequence, claims>>
  BY CompleteFacts
<1> HIDE DEF g
<1>3. /\ jobs'[g].state = "succeeded" /\ jobs'[g].lease = Null /\ jobs'[g].result = c.token
      /\ jobs'[g].attempts = jobs[g].attempts /\ jobs'[g].remaining = jobs[g].remaining
  BY <1>1, <1>2, DoneRecord DEF TypeOK
<1>4. F \in SUBSET Jobs /\ g \notin F /\ \A k \in F : jobs[k].state = "pending"
  BY DEF FreedBy
<1>5. \A k \in Jobs \ {g} :
        /\ jobs'[k].state = IF k \in F THEN "ready" ELSE jobs[k].state
        /\ jobs'[k].available_at = IF k \in F THEN now ELSE jobs[k].available_at
        /\ jobs'[k].remaining = jobs[k].remaining - Cardinality(EdgesFrom(g, k))
        /\ jobs'[k].attempts = jobs[k].attempts /\ jobs'[k].lease = jobs[k].lease
        /\ jobs'[k].result = jobs[k].result
  BY <1>2 DEF NotifiedOf
<1>6. \A k \in F : jobs[k].remaining = Cardinality(EdgesFrom(g, k))
  BY DEF FreedBy
<1>f. \A k \in Jobs \ {g} :
        (EdgesFrom(g, k) # {} /\ jobs[k].state = "pending"
           /\ jobs[k].remaining = Cardinality(EdgesFrom(g, k))) => k \in F
  BY DEF FreedBy
<1> HIDE DEF F
<1>7. HeapFits(ready', jobs')
  <2>1. HeapFits(ready, jobs) /\ now \in Nat
    BY <1>1 DEF HeapExact, TypeOK
  <2>2. \A j \in F : /\ jobs[j].state \notin Waiting /\ jobs[j].state # "cancelled"
                     /\ jobs'[j].state \in Waiting /\ jobs'[j].available_at \in Nat
    BY <1>4, <1>5, <2>1 DEF Waiting
  <2>3. \A j \in Jobs \ F :
          /\ jobs'[j].state \in Waiting =>
               jobs[j].state \in Waiting /\ jobs'[j].available_at = jobs[j].available_at
          /\ jobs[j].state \in Waiting =>
               \/ jobs'[j].state = "cancelled"
               \/ jobs'[j].state \in Waiting /\ jobs'[j].available_at = jobs[j].available_at
          /\ jobs[j].state = "cancelled" => jobs'[j].state = "cancelled"
    BY <1>2, <1>3, <1>5 DEF Waiting
  <2>4. HeapFits(Pushed(ready, F, jobs'), jobs')
    BY <1>4, <2>1, <2>2, <2>3, HeapPush
  <2> QED
    BY <1>2, <2>4
<1>8. HeapExact'
  BY <1>7 DEF HeapExact, HeapFits
<1>9. TypeOK'
  BY <1>1, <1>2, <1>7 DEF TypeOK, HeapFits
<1>10. Admitted'
  BY <1>1, <1>2, <1>3, <1>4, <1>5 DEF Admitted
<1>11. RemainingExact'
  <2> SUFFICES ASSUME NEW k \in Jobs, jobs'[k].state # "absent"
               PROVE  jobs'[k].remaining =
                        Cardinality({i \in EdgesInto(k) : jobs'[Edges[i][1]].state # "succeeded"})
    BY DEF RemainingExact
  <2> DEFINE B == {i \in EdgesInto(k) : jobs'[Edges[i][1]].state # "succeeded"}
  <2>1. \A i \in EdgesInto(k) : Edges[i][1] \in Jobs
    BY EdgeFacts
  <2>2. \A p \in Jobs : jobs'[p].state = "succeeded" <=> p = g \/ jobs[p].state = "succeeded"
    BY <1>3, <1>4, <1>5
  <2>3. B = Blocking(k) \ EdgesFrom(g, k)
    BY <2>1, <2>2 DEF Blocking, EdgesFrom
  <2> HIDE DEF B
  <2>4. jobs[k].state # "absent"
    BY <1>2, <1>4, <1>5
  <2>5. /\ jobs[k].remaining = Cardinality(Blocking(k))
        /\ Cardinality(B) = Cardinality(Blocking(k)) - Cardinality(EdgesFrom(g, k))
    BY <1>2, <2>3, <2>4, EdgeCounts
  <2>6. CASE k = g
    <3>1. jobs[k].remaining = 0
      BY <1>1, <1>2, <2>6 DEF CounterDecides
    <3>2. Blocking(k) = {} /\ EdgesFrom(g, k) = {}
      BY <1>2, <2>5, <3>1, EdgeCounts
    <3>3. B = Blocking(k)
      BY <2>3, <3>2
    <3> QED
      BY <1>3, <2>5, <2>6, <3>3 DEF B
  <2>7. CASE k # g
    BY <1>5, <2>5, <2>7 DEF B
  <2> QED
    BY <2>6, <2>7
<1>12. CounterDecides'
  <2> SUFFICES ASSUME NEW k \in Jobs
               PROVE  /\ jobs'[k].state = "pending" => jobs'[k].remaining > 0
                      /\ jobs'[k].state \in {"ready", "retry_wait", "leased", "succeeded",
                                             "dead_lettered"} => jobs'[k].remaining = 0
    BY DEF CounterDecides
  <2> DEFINE n == Cardinality(EdgesFrom(g, k))
  <2>1. /\ n \in Nat /\ n <= jobs[k].remaining /\ jobs[k].remaining \in Nat
        /\ n = 0 <=> EdgesFrom(g, k) = {}
    BY <1>2, EdgeCounts
  <2>2. CASE k = g
    BY <1>1, <1>2, <1>3, <2>2 DEF CounterDecides
  <2>3. CASE k # g /\ k \in F
    BY <1>5, <1>6, <2>1, <2>3
  <2>4. CASE k # g /\ k \notin F
    <3>1. jobs'[k].state = jobs[k].state /\ jobs'[k].remaining = jobs[k].remaining - n
      BY <1>5, <2>4
    <3>2. jobs[k].state = "pending" => jobs[k].remaining > 0 /\ jobs[k].remaining # n
      BY <1>1, <1>f, <2>1, <2>4 DEF CounterDecides
    <3>3. jobs[k].state \in {"ready", "retry_wait", "leased", "succeeded", "dead_lettered"} =>
            jobs[k].remaining = 0
      BY <1>1 DEF CounterDecides
    <3> HIDE DEF n
    <3> QED
      BY <2>1, <3>1, <3>2, <3>3
  <2> QED
    BY <2>2, <2>3, <2>4
<1>13. WithinBudget'
  BY <1>1, <1>3, <1>4, <1>5, AttemptsAssumption DEF WithinBudget, Waiting
<1>14. LeaseIffLeased'
  BY <1>1, <1>3, <1>4, <1>5 DEF LeaseIffLeased
<1>15. Ungranting
  <2>1. \E e \in claims : /\ e.job = g /\ e.attempt = jobs[g].attempts
                          /\ e.token = jobs'[g].result
    <3>1. PICK e \in claims : /\ e.job = g /\ e.attempt = jobs[g].attempts
                              /\ e.token = jobs[g].lease.token
      BY <1>1, <1>2 DEF SchedInv, Fenced
    <3> QED
      BY <1>2, <1>3, <3>1
  <2> QED
    BY <1>2, <1>3, <1>4, <1>5, <2>1 DEF Ungranting
<1> QED
  BY <1>8, <1>9, <1>10, <1>11, <1>12, <1>13, <1>14, <1>15, UngrantingKeeps DEF SchedInv


\* An attempt is still to come for a waiting job, so the counter of tokens has
\* not reached its limit.
LEMMA CounterRoom ==
  ASSUME SchedInv, NEW g \in Jobs, jobs[g].state \in Waiting
  PROVE  sequence \in Nat /\ sequence + 1 <= MaxSequence /\ NextSequence = sequence + 1
<1> DEFINE next == <<g, jobs[g].attempts + 1>>
           rest == AllAttempts \ {next}
           f == [c \in claims |-> <<c.job, c.attempt>>]
<1>1. TypeOK /\ WithinBudget /\ ClaimsCounted
  BY DEF SchedInv
<1>2. MaxAttempts \in [Jobs -> 1..20] /\ \A j \in Jobs : jobs[j].attempts \in Nat
  BY <1>1, AttemptsAssumption DEF TypeOK, JobRecord
<1>3. next \in AllAttempts
  BY <1>1, <1>2 DEF AllAttempts, WithinBudget
<1>4. IsFiniteSet(AllAttempts)
  <2>a. IsFiniteSet(1..20)
    <3>1. 1 \in Int /\ 20 \in Int
      OBVIOUS
    <3> QED
      BY ONLY <3>1, FS_Interval
  <2>1. IsFiniteSet(1..20) /\ IsFiniteSet(Jobs)
    BY <2>a, JobsAssumption
  <2>2. IsFiniteSet(Jobs \X (1..20))
    BY <2>1, FS_Product
  <2> QED
    BY <2>2, FS_Subset DEF AllAttempts
<1>5. IsFiniteSet(rest) /\ Cardinality(rest) = Cardinality(AllAttempts) - 1
  BY <1>3, <1>4, FS_RemoveElement
<1>6. ASSUME NEW c \in claims PROVE <<c.job, c.attempt>> \in rest
  <2>1. c.job \in Jobs /\ c.attempt \in Nat
    BY <1>1 DEF TypeOK, Claim
  <2>2. c.attempt \in 1..jobs[c.job].attempts
    BY <1>1 DEF ClaimsCounted
  <2>3. jobs[c.job].attempts <= MaxAttempts[c.job] /\ MaxAttempts[c.job] \in 1..20
    BY <1>1, <1>2, <2>1 DEF WithinBudget
  <2>4. c.attempt \in 1..20 /\ c.attempt <= MaxAttempts[c.job]
    BY <1>2, <2>1, <2>2, <2>3
  <2>5. <<c.job, c.attempt>> # next
    BY <1>2, <2>1, <2>2
  <2> QED
    BY <2>1, <2>4, <2>5 DEF AllAttempts
<1>7. f \in Injection(claims, rest)
  <2>1. f \in [claims -> rest]
    BY <1>6
  <2>2. \A c, e \in claims : f[c] = f[e] => c = e
    BY <1>1 DEF ClaimsCounted
  <2> HIDE DEF f, rest
  <2> QED
    BY <2>1, <2>2 DEF Injection, IsInjective
<1>8. Cardinality(claims) <= Cardinality(rest)
  <2> HIDE DEF f, rest
  <2> QED
    BY <1>5, <1>7, FS_Injection
<1>9. Cardinality(AllAttempts) \in Nat /\ sequence \in Nat /\ sequence = Cardinality(claims)
  BY <1>1, <1>4, FS_CardinalityType, TokensAssumption DEF ClaimsCounted, TypeOK
<1>10. sequence + 1 <= MaxSequence
  BY <1>5, <1>8, <1>9, SequenceAssumption, TokensAssumption
<1> QED
  BY <1>9, <1>10, TokensAssumption DEF NextSequence, Least

\* Record r leased for another attempt.
Granted(r, l) == [r EXCEPT !.state = "leased", !.attempts = @ + 1, !.lease = l]

LEMMA GrantedRecord ==
  ASSUME NEW r \in JobRecord, NEW l \in Lease
  PROVE  /\ Granted(r, l) \in JobRecord
         /\ Granted(r, l).state = "leased" /\ Granted(r, l).lease = l
         /\ Granted(r, l).attempts = r.attempts + 1
         /\ Granted(r, l).remaining = r.remaining
         /\ Granted(r, l).available_at = r.available_at
         /\ Granted(r, l).result = r.result
<1> DEFINE n == r.attempts + 1
<1>1. n \in Nat
  BY DEF JobRecord
<1>2. Granted(r, l) = [r EXCEPT !.state = "leased", !.attempts = n, !.lease = l]
  BY DEF Granted, JobRecord
<1> HIDE DEF n
<1>3. /\ Granted(r, l) \in JobRecord
      /\ Granted(r, l).state = "leased" /\ Granted(r, l).lease = l
      /\ Granted(r, l).attempts = n
      /\ Granted(r, l).remaining = r.remaining
      /\ Granted(r, l).available_at = r.available_at
      /\ Granted(r, l).result = r.result
  BY <1>1, <1>2 DEF JobRecord, JobState
<1> QED
  BY <1>3 DEF n

\* A claim of job g: the oldest waiting job, due, gets the next token; expired
\* leases lapse; the heap fits the records again.
NewToken(g) == <<g, NextSequence>>
NewLease(g, owner, len) == [owner |-> owner, token |-> NewToken(g), expires |-> now + len]
NewClaim(g, owner) == [job |-> g, owner |-> owner, token |-> NewToken(g),
                       attempt |-> jobs[g].attempts + 1]

Claims(g, owner, len) ==
  /\ jobs[g].state \in Waiting /\ g \notin Expired
  /\ \A k \in Jobs : jobs[k].state \in Waiting => jobs[g].available_at <= jobs[k].available_at
  /\ sequence' = NextSequence /\ UNCHANGED <<now, dags>>
  /\ jobs' = [LapsedJobs(Expired) EXCEPT ![g] = Granted(jobs[g], NewLease(g, owner, len))]
  /\ claims' = claims \cup {NewClaim(g, owner)}
  /\ HeapFits(ready', jobs')

LEMMA ClaimFacts ==
  ASSUME SchedInv, NEW owner \in Owners, NEW len \in LeaseLengths, claim(owner, len)
  PROVE  \E g \in Jobs : Claims(g, owner, len)
<1> DEFINE recs == LapsedJobs(Expired)
           heap == LapsedReady(Expired)
<1>1. TypeOK /\ HeapExact
  BY DEF SchedInv
<1>2. Expired \in SUBSET Jobs /\ \A j \in Expired : jobs[j].state = "leased"
  BY DEF Expired
<1>3. /\ recs \in [Jobs -> JobRecord]
      /\ \A j \in Jobs \ Expired : recs[j] = jobs[j]
      /\ \A j \in Expired : LapsesTo(j, recs)
  BY <1>1, <1>2, LapsedFacts
<1>4. HeapFits(heap, recs)
  BY <1>1, <1>2, LapsedHeap
<1>p. PICK k \in Matching(heap, recs) :
        /\ \A l \in Matching(heap, recs) \ {k} : Before(k, l)
        /\ sequence' = NextSequence
        /\ jobs' = [recs EXCEPT ![k.job] =
                      [recs[k.job] EXCEPT !.state = "leased",
                         !.attempts = recs[k.job].attempts + 1,
                         !.lease = [owner |-> owner, token |-> <<k.job, NextSequence>>,
                                    expires |-> now + len]]]
        /\ claims' = claims \cup {[job |-> k.job, owner |-> owner,
                                    token |-> <<k.job, NextSequence>>,
                                    attempt |-> recs[k.job].attempts + 1]}
        /\ ready' = PoppedThrough(heap, k)
        /\ UNCHANGED <<now, dags>>
  BY DEF claim
<1>5. /\ k \in Matching(heap, recs)
      /\ \A l \in Matching(heap, recs) \ {k} : Before(k, l)
      /\ sequence' = NextSequence
      /\ jobs' = [recs EXCEPT ![k.job] = Granted(recs[k.job], NewLease(k.job, owner, len))]
      /\ claims' = claims \cup {[job |-> k.job, owner |-> owner, token |-> NewToken(k.job),
                                    attempt |-> recs[k.job].attempts + 1]}
      /\ ready' = PoppedThrough(heap, k)
      /\ UNCHANGED <<now, dags>>
  BY <1>3, <1>p DEF Granted, NewLease, NewToken
<1> HIDE DEF recs, heap
<1> DEFINE g == k.job
<1>6. k \in DOMAIN heap /\ k.available_at <= now /\ Matches(k, recs)
  BY DEF Matching, Due, BagToSet
<1>7. k \in ReadyKey /\ DOMAIN heap \subseteq ReadyKey
  BY <1>4, <1>6 DEF HeapFits
<1>8. g \in Jobs /\ k.available_at \in Nat /\ now \in Nat
  BY <1>1, <1>7 DEF ReadyKey, TypeOK
<1>9. recs[g].state \in Waiting /\ recs[g].available_at = k.available_at
  BY <1>6 DEF Matches
<1>10. g \notin Expired /\ recs[g] = jobs[g]
  BY <1>3, <1>6, <1>8, <1>9 DEF LapsesTo, Waiting
<1>11. ASSUME NEW j \in Jobs, jobs[j].state \in Waiting
       PROVE  jobs[g].available_at <= jobs[j].available_at
  <2>1. recs[j] = jobs[j]
    BY <1>2, <1>3, <1>11 DEF Waiting
  <2>2. KeyOf(j, recs) \in DOMAIN heap
    BY <1>4, <1>11, <2>1 DEF HeapFits
  <2>3. /\ KeyOf(j, recs).job = j /\ KeyOf(j, recs).available_at = jobs[j].available_at
        /\ jobs[j].available_at \in Nat
    BY <1>1, <2>1 DEF KeyOf, TypeOK, JobRecord
  <2>4. CASE jobs[j].available_at <= now
    <3>1. KeyOf(j, recs) \in Matching(heap, recs)
      BY <1>11, <2>1, <2>2, <2>3, <2>4 DEF Matching, Due, BagToSet, Matches
    <3>2. KeyOf(j, recs) = k \/ Before(k, KeyOf(j, recs))
      BY <1>5, <3>1
    <3> QED
      BY <1>8, <1>9, <1>10, <2>3, <3>2 DEF Before
  <2>5. CASE jobs[j].available_at > now
    BY <1>6, <1>8, <1>9, <1>10, <2>3, <2>5
  <2> QED
    BY <1>8, <2>3, <2>4, <2>5
<1>12. HeapFits(ready', jobs')
  <2> DEFINE D == {x \in DOMAIN heap : x = k \/ Before(x, k)}
             b == [l \in D |-> IF l = k THEN 1 ELSE heap[l]]
  <2>1. ready' = heap (-) b
    BY <1>5 DEF PoppedThrough, BagToSet
  <2>2. /\ \A x \in DOMAIN heap : heap[x] = 1
        /\ \A x, y \in DOMAIN heap : x.job = y.job => x = y
        /\ \A x \in DOMAIN heap : Matches(x, recs) \/ recs[x.job].state = "cancelled"
    BY <1>4 DEF HeapFits
  <2>3. DOMAIN b = D /\ D \subseteq DOMAIN heap /\ \A x \in DOMAIN b : b[x] = 1
    BY <2>2
  <2>4. /\ jobs'[g].state = "leased"
        /\ \A j \in Jobs : j # g => jobs'[j] = recs[j]
    <3>1. jobs'[g] = Granted(recs[g], NewLease(g, owner, len))
      BY <1>3, <1>5, <1>8
    <3>2. Granted(recs[g], NewLease(g, owner, len)).state = "leased"
      BY <1>3, <1>8 DEF Granted, JobRecord
    <3> QED
      BY <1>3, <1>5, <3>1, <3>2
  <2>5. ASSUME NEW x \in D, x # k PROVE recs[x.job].state = "cancelled" /\ x.job # g
    <3>1. x \in DOMAIN heap /\ Before(x, k)
      BY <2>5
    <3>2. x \in ReadyKey /\ x.available_at \in Nat /\ x.job \in Jobs
      BY <1>7, <3>1 DEF ReadyKey
    <3>3. x.available_at <= now
      BY <1>6, <1>8, <3>1, <3>2 DEF Before
    <3>4. ~ Before(k, x)
      <4>1. /\ Priority[x.job] \in Int /\ Priority[k.job] \in Int
            /\ IdRank[x.job] \in Int /\ IdRank[k.job] \in Int
        BY <1>8, <3>2, OrderAssumption
      <4> QED
        BY <1>8, <3>1, <3>2, <4>1 DEF Before
    <3>5. ~ Matches(x, recs)
      <4>1. x \notin Matching(heap, recs)
        BY <1>5, <2>5, <3>4
      <4> QED
        BY <3>1, <3>3, <4>1 DEF Matching, Due, BagToSet
    <3> QED
      BY <1>6, <2>2, <2>5, <3>1, <3>5
  <2>6. \A x \in DOMAIN b : jobs'[x.job].state \notin Waiting
    <3>1. \A x \in D : x.job \in Jobs
      BY <1>7 DEF ReadyKey
    <3> QED
      BY <2>3, <2>4, <2>5, <3>1 DEF Waiting
  <2>7. KeyOf(g, recs) \in DOMAIN b
    <3>1. KeyOf(g, recs) = k
      BY <1>7, <1>9 DEF KeyOf, ReadyKey
    <3> QED
      BY <1>6, <2>3, <3>1
  <2>8. \A j \in Jobs :
          /\ jobs'[j].state \in Waiting =>
               recs[j].state \in Waiting /\ jobs'[j].available_at = recs[j].available_at
          /\ recs[j].state \in Waiting =>
               \/ KeyOf(j, recs) \in DOMAIN b
               \/ jobs'[j].state \in Waiting /\ jobs'[j].available_at = recs[j].available_at
          /\ recs[j].state = "cancelled" => jobs'[j].state = "cancelled"
    BY <1>9, <2>4, <2>7 DEF Waiting
  <2> HIDE DEF b, D
  <2>9. HeapFits(heap (-) b, jobs')
    BY <1>4, <2>3, <2>6, <2>8, HeapPop
  <2> QED
    BY <2>1, <2>9
<1>13. Claims(g, owner, len)
  BY <1>5, <1>9, <1>10, <1>11, <1>12 DEF Claims, NewClaim, recs
<1> QED
  BY <1>8, <1>13


\* A claim writes one lease and one claim, under a token not used before.
LEMMA ClaimKeeps ==
  ASSUME SchedInv, NEW owner \in Owners, NEW len \in LeaseLengths,
         NEW g \in Jobs, Claims(g, owner, len)
  PROVE  SchedInv' /\ NewToken(g) \in Tokens /\ \A c \in claims : c.token # NewToken(g)
<1> DEFINE recs == LapsedJobs(Expired)
           l == NewLease(g, owner, len)
           n == NewClaim(g, owner)
<1>1. /\ TypeOK /\ WithinBudget /\ LeaseIffLeased /\ ClaimsCounted /\ Fenced
  BY DEF SchedInv
<1>2. /\ jobs[g].state \in Waiting /\ g \notin Expired
      /\ sequence' = NextSequence /\ UNCHANGED <<now, dags>>
      /\ jobs' = [recs EXCEPT ![g] = Granted(jobs[g], l)]
      /\ claims' = claims \cup {n}
      /\ HeapFits(ready', jobs')
  BY DEF Claims
<1>3. sequence \in Nat /\ sequence + 1 <= MaxSequence /\ sequence' = sequence + 1
  BY <1>2, CounterRoom
<1>4. Expired \in SUBSET Jobs
  BY DEF Expired
<1>5. /\ recs \in [Jobs -> JobRecord]
      /\ \A j \in Jobs \ Expired : recs[j] = jobs[j]
      /\ \A j \in Expired : LapsesTo(j, recs)
  BY <1>1, <1>4, LapsedFacts
<1>6. NewToken(g) = <<g, sequence + 1>> /\ NewToken(g) \in Tokens
  <2>1. NewToken(g) = <<g, sequence + 1>>
    BY <1>2, <1>3 DEF NewToken
  <2>2. sequence + 1 \in 1..MaxSequence
    BY <1>3, TokensAssumption
  <2> QED
    BY <2>1, <2>2, TokensAssumption
<1>7. l \in Lease /\ l.token = NewToken(g) /\ l.owner = owner /\ l # Null
  <2>1. now + len \in Nat
    BY <1>1, ConfigAssumption DEF TypeOK
  <2>2. l \in Lease /\ l.token = NewToken(g) /\ l.owner = owner
    BY <1>6, <2>1 DEF Lease, NewLease
  <2> QED
    BY <2>2, NullAssumption DEF Lease
<1>8. jobs[g] \in JobRecord /\ jobs[g].attempts \in Nat
  BY <1>1 DEF TypeOK, JobRecord
<1>9. /\ n \in Claim /\ n.job = g /\ n.owner = owner /\ n.token = NewToken(g)
      /\ n.attempt = jobs[g].attempts + 1
  BY <1>6, <1>8 DEF NewClaim, Claim
<1> HIDE DEF recs, l, n
<1>10. /\ jobs' \in [Jobs -> JobRecord]
       /\ jobs'[g] = Granted(jobs[g], l)
       /\ \A j \in Jobs : j # g => jobs'[j] = recs[j]
  BY <1>2, <1>5, <1>7, <1>8, GrantedRecord
<1>11. /\ jobs'[g].state = "leased" /\ jobs'[g].lease = l
       /\ jobs'[g].attempts = jobs[g].attempts + 1
       /\ jobs'[g].remaining = jobs[g].remaining
       /\ jobs'[g].result = jobs[g].result
  BY <1>7, <1>8, <1>10, GrantedRecord
<1>12. \A j \in Jobs : j # g =>
         \/ j \notin Expired /\ jobs'[j] = jobs[j]
         \/ j \in Expired /\ LapsesTo(j, jobs')
  BY <1>5, <1>10 DEF LapsesTo
<1>13. \A j \in Expired : jobs[j].state = "leased"
  BY DEF Expired
<1>14. TypeOK'
  <2>1. sequence' \in 0..MaxSequence /\ claims' \subseteq Claim
    BY <1>1, <1>2, <1>3, <1>9, TokensAssumption DEF TypeOK
  <2> QED
    BY <1>1, <1>2, <1>10, <2>1 DEF TypeOK, HeapFits
<1>15. HeapExact'
  BY <1>2 DEF HeapExact, HeapFits
<1>16. Quiet
  BY <1>2, <1>11, <1>12, <1>13 DEF Quiet, LapsesTo, Waiting
<1>17. WithinBudget'
  <2>1. MaxAttempts[g] \in Nat /\ jobs[g].attempts < MaxAttempts[g]
    BY <1>1, <1>2, AttemptsAssumption DEF WithinBudget
  <2>2. jobs'[g].attempts <= MaxAttempts[g]
    BY <1>8, <1>11, <2>1
  <2>3. \A j \in Jobs : j # g =>
          /\ jobs'[j].attempts <= MaxAttempts[j]
          /\ jobs'[j].state \in Waiting => jobs'[j].attempts < MaxAttempts[j]
          /\ jobs'[j].state \in {"absent", "pending"} => jobs'[j].attempts = 0
    BY <1>1, <1>12 DEF WithinBudget, LapsesTo, Waiting
  <2> QED
    BY <1>11, <2>2, <2>3 DEF WithinBudget, Waiting
<1>18. LeaseIffLeased'
  BY <1>1, <1>7, <1>11, <1>12 DEF LeaseIffLeased, LapsesTo
<1>19. ASSUME NEW c \in claims
       PROVE  /\ c.job \in Jobs /\ c.attempt \in Nat
              /\ c.attempt \in 1..jobs[c.job].attempts
              /\ c.token # NewToken(g)
              /\ \E s \in 1..(sequence + 1) : c.token = <<c.job, s>>
              /\ ~ (c.job = g /\ c.attempt = n.attempt)
  <2>1. c.job \in Jobs /\ c.attempt \in Nat /\ c.attempt \in 1..jobs[c.job].attempts
    BY <1>1 DEF TypeOK, Claim, ClaimsCounted
  <2>2. PICK s \in 1..sequence : c.token = <<c.job, s>>
    BY <1>1 DEF ClaimsCounted
  <2>3. s \in 1..(sequence + 1) /\ s # sequence + 1
    BY <1>3
  <2>4. c.token # NewToken(g)
    BY <1>6, <2>2, <2>3
  <2>5. ~ (c.job = g /\ c.attempt = n.attempt)
    BY <1>8, <1>9, <2>1
  <2> QED
    BY <2>1, <2>2, <2>3, <2>4, <2>5
<1>20. ClaimsCounted'
  <2>1. IsFiniteSet(claims') /\ Cardinality(claims') = sequence'
    <3>1. n \notin claims
      BY <1>9, <1>19
    <3> QED
      BY <1>1, <1>2, <1>3, <3>1, FS_AddElement DEF ClaimsCounted
  <2>2. \A j \in Jobs : jobs'[j].attempts = (IF j = g THEN jobs[g].attempts + 1 ELSE jobs[j].attempts)
    BY <1>11, <1>12 DEF LapsesTo
  <2>a. \A j \in Jobs : jobs[j].attempts \in Nat
    BY <1>1 DEF TypeOK, JobRecord
  <2>3. ASSUME NEW c \in claims'
        PROVE  /\ c.attempt \in 1..jobs'[c.job].attempts
               /\ \E s \in 1..sequence' : c.token = <<c.job, s>>
    <3>1. CASE c \in claims
      <4>1. c.attempt \in 1..jobs'[c.job].attempts
        BY <1>19, <2>2, <2>a, <3>1
      <4> QED
        BY <1>3, <1>19, <3>1, <4>1
    <3>2. CASE c = n
      <4>1. c.attempt \in 1..jobs'[c.job].attempts
        BY <1>8, <1>9, <2>2, <3>2
      <4>2. c.token = <<c.job, sequence'>> /\ sequence' \in 1..sequence'
        BY <1>3, <1>6, <1>9, <3>2
      <4> QED
        BY <4>1, <4>2
    <3> QED
      BY <1>2, <3>1, <3>2
  <2>4. \A c, e \in claims' : c.job = e.job /\ c.attempt = e.attempt => c = e
    BY <1>1, <1>2, <1>9, <1>19 DEF ClaimsCounted
  <2> QED
    BY <2>1, <2>3, <2>4 DEF ClaimsCounted
<1>21. Fenced'
  <2>1. \A c, e \in claims' : c.token = e.token => c = e
    BY <1>1, <1>2, <1>9, <1>19 DEF Fenced
  <2>2. ASSUME NEW j \in Jobs, jobs'[j].lease # Null
        PROVE  \E c \in claims' : /\ c.job = j /\ c.attempt = jobs'[j].attempts
                                  /\ c.token = jobs'[j].lease.token
                                  /\ c.owner = jobs'[j].lease.owner
    <3>1. CASE j = g
      BY <1>2, <1>7, <1>9, <1>11, <3>1
    <3>2. CASE j # g
      BY <1>1, <1>2, <1>12, <2>2, <3>2 DEF Fenced, LapsesTo
    <3> QED
      BY <3>1, <3>2
  <2>3. ASSUME NEW j \in Jobs, jobs'[j].state = "succeeded"
        PROVE  \E c \in claims' : /\ c.job = j /\ c.attempt = jobs'[j].attempts
                                  /\ c.token = jobs'[j].result
    BY <1>1, <1>2, <1>11, <1>12, <2>3 DEF Fenced, LapsesTo
  <2> QED
    BY <2>1, <2>2, <2>3 DEF Fenced
<1>22. SchedInv'
  BY <1>14, <1>15, <1>16, <1>17, <1>18, <1>20, <1>21, QuietKeeps DEF SchedInv
<1> QED
  BY <1>6, <1>19, <1>22

-----------------------------------------------------------------------------
\* The invariant

LEMMA InitInv == Init => SchedInv
<1> SUFFICES ASSUME Init PROVE SchedInv
  OBVIOUS
<1>1. /\ now \in Nat /\ dags = {} /\ sequence = 0 /\ claims = {}
      /\ ready = EmptyBag /\ jobs = [j \in Jobs |-> AbsentRecord]
  BY ConfigAssumption DEF Init
<1>2. AbsentRecord \in JobRecord
  BY DEF AbsentRecord, JobRecord, JobState
<1>3. /\ AbsentRecord.state = "absent" /\ AbsentRecord.lease = Null
      /\ AbsentRecord.attempts = 0
  BY DEF AbsentRecord
<1>4. \A j \in Jobs : jobs[j] = AbsentRecord
  BY <1>1
<1>5. IsABag(ready) /\ DOMAIN ready = {}
  BY <1>1 DEF EmptyBag, SetToBag, IsABag
<1>6. TypeOK
  BY <1>1, <1>2, <1>5, TokensAssumption DEF TypeOK
<1>7. HeapExact
  BY <1>3, <1>4, <1>5 DEF HeapExact, HeapFits, Waiting
<1>8. Admitted /\ RemainingExact /\ CounterDecides /\ LeaseIffLeased
  BY <1>1, <1>3, <1>4 DEF Admitted, RemainingExact, CounterDecides, LeaseIffLeased
<1>9. WithinBudget
  BY <1>3, <1>4, AttemptsAssumption DEF WithinBudget, Waiting
<1>10. ClaimsCounted
  BY <1>1, FS_EmptySet DEF ClaimsCounted
<1>11. Fenced
  BY <1>1, <1>3, <1>4 DEF Fenced
<1> QED
  BY <1>6, <1>7, <1>8, <1>9, <1>10, <1>11 DEF SchedInv

LEMMA NextInv == SchedInv /\ [Next]_vars => SchedInv'
<1> SUFFICES ASSUME SchedInv, [Next]_vars PROVE SchedInv'
  OBVIOUS
<1>1. ASSUME NEW d \in Dags, submit(d) PROVE SchedInv'
  BY <1>1, SubmitKeeps
<1>2. ASSUME NEW d \in Dags, cancel(d) PROVE SchedInv'
  BY <1>2, CancelKeeps
<1>3. ASSUME NEW owner \in Owners, NEW len \in LeaseLengths, claim(owner, len)
      PROVE  SchedInv'
  <2>1. PICK g \in Jobs : Claims(g, owner, len)
    BY <1>3, ClaimFacts
  <2> QED
    BY <2>1, ClaimKeeps
<1>4. CASE ClaimNothing
  BY <1>4, ClaimNothingKeeps
<1>5. ASSUME NEW c \in claims, NEW owner \in Owners, complete(c, owner) PROVE SchedInv'
  BY <1>5, CompleteKeeps
<1>6. ASSUME NEW c \in claims, NEW owner \in Owners, fail(c, owner) PROVE SchedInv'
  BY <1>6, FailKeeps
<1>7. ASSUME NEW c \in claims, NEW owner \in Owners, NEW len \in LeaseLengths,
             heartbeat(c, owner, len)
      PROVE  SchedInv'
  BY <1>7, HeartbeatKeeps
<1>8. CASE reap
  BY <1>8, ReapKeeps
<1>9. CASE Tick
  BY <1>9, TickKeeps
<1>10. CASE UNCHANGED vars
  <2>1. UNCHANGED <<now, dags, jobs, ready, sequence, claims>>
    BY <1>10 DEF vars
  <2>2. TypeOK' /\ HeapExact' /\ Admitted' /\ RemainingExact' /\ CounterDecides'
    BY <2>1 DEF SchedInv, TypeOK, HeapExact, Admitted, RemainingExact, CounterDecides
  <2>3. WithinBudget' /\ LeaseIffLeased' /\ ClaimsCounted' /\ Fenced'
    BY <2>1 DEF SchedInv, WithinBudget, LeaseIffLeased, ClaimsCounted, Fenced
  <2> QED
    BY <2>2, <2>3 DEF SchedInv
<1> QED
  BY <1>1, <1>2, <1>3, <1>4, <1>5, <1>6, <1>7, <1>8, <1>9, <1>10 DEF Next

\* The scheduler's inductive invariant holds: whatever calls arrive, in any order
\* and with any clock, late and repeated ones included.
THEOREM SchedInvHolds == Spec => []SchedInv
  BY InitInv, NextInv, PTL DEF Spec

\* The scheduler's variables keep their types.
THEOREM SchedulerTypes == Spec => []TypeOK
<1>1. SchedInv => TypeOK
  BY DEF SchedInv
<1> QED
  BY <1>1, SchedInvHolds, PTL

\* Every waiting job has its key in the heap once, and the other keys belong to
\* cancelled jobs: claim neither misses a job nor leases one twice.
THEOREM HeapIsExact == Spec => []ReadyExact
<1>1. SchedInv => ReadyExact
  <2> SUFFICES ASSUME SchedInv PROVE ReadyExact
    OBVIOUS
  <2>1. HeapFits(ready, jobs)
    BY DEF SchedInv, HeapExact
  <2>2. \A j \in Jobs : jobs[j].state \in Waiting =>
          KeyOf(j, jobs) \in DOMAIN ready /\ ready[KeyOf(j, jobs)] = 1
    BY <2>1 DEF HeapFits
  <2>3. \A k \in DOMAIN ready : Matches(k, jobs) \/ jobs[k.job].state = "cancelled"
    BY <2>1 DEF HeapFits
  <2> QED
    BY <2>2, <2>3 DEF ReadyExact, KeyOf, BagIn, BagToSet
<1> QED
  BY <1>1, SchedInvHolds, PTL

-----------------------------------------------------------------------------
\* The size of the heap

\* The heap has one key at most for each job that waits or was cancelled, and its
\* length is the number of its keys.
LEMMA HeapSize ==
  ASSUME SchedInv
  PROVE  /\ IsFiniteSet(DOMAIN ready)
         /\ Cardinality(DOMAIN ready) <=
              Cardinality({j \in Jobs : jobs[j].state \in Waiting \cup {"cancelled"}})
         /\ HeapLen(ready) = Cardinality(DOMAIN ready)
<1> DEFINE D == DOMAIN ready
           T == {j \in Jobs : jobs[j].state \in Waiting \cup {"cancelled"}}
           f == [k \in D |-> k.job]
<1>1. /\ D \subseteq ReadyKey
      /\ \A k \in D : ready[k] = 1
      /\ \A k, l \in D : k.job = l.job => k = l
      /\ \A k \in D : Matches(k, jobs) \/ jobs[k.job].state = "cancelled"
  BY DEF SchedInv, HeapExact, HeapFits
<1>2. \A k \in D : k.job \in T
  BY <1>1 DEF ReadyKey, Matches
<1>3. IsFiniteSet(T)
  BY JobsAssumption, FS_Subset
<1>4. f \in Injection(D, T)
  <2> HIDE DEF T
  <2>1. f \in [D -> T]
    BY <1>2
  <2>2. \A k, l \in D : f[k] = f[l] => k = l
    BY <1>1
  <2> HIDE DEF f, D
  <2> QED
    BY <2>1, <2>2 DEF Injection, IsInjective
<1>5. IsFiniteSet(D) /\ Cardinality(D) <= Cardinality(T)
  <2> HIDE DEF f, D, T
  <2> QED
    BY <1>3, <1>4, FS_Injection
<1>6. HeapLen(ready) = Cardinality(D)
  <2> DEFINE entries == UNION {{k} \X (1..ready[k]) : k \in D}
  <2>1. entries = D \X {1}
    <3>1. \A k \in D : 1..ready[k] = {1}
      BY <1>1
    <3>2. entries = UNION {{k} \X {1} : k \in D}
      BY <3>1
    <3> QED
      BY <3>2
  <2>2. IsFiniteSet({1}) /\ Cardinality({1}) = 1 /\ Cardinality(D) \in Nat
    BY <1>5, FS_Singleton, FS_CardinalityType
  <2>3. Cardinality(D \X {1}) = Cardinality(D) * 1
    <3> HIDE DEF D
    <3> QED
      BY <1>5, <2>2, FS_Product
  <2> HIDE DEF D
  <2>4. Cardinality(entries) = Cardinality(D)
    BY <2>1, <2>2, <2>3
  <2> QED
    BY <2>4 DEF HeapLen, BagToSet, D
<1> QED
  BY <1>5, <1>6

LEMMA PushDomain ==
  ASSUME NEW h, NEW S, NEW recs
  PROVE  DOMAIN (h (+) Keys(S, recs)) = DOMAIN h \cup KeySet(S, recs)
BY DEF (+), Keys, SetToBag, KeySet, KeyOf

LEMMA PopDomain ==
  ASSUME NEW h, NEW b
  PROVE  DOMAIN (h (-) b) \subseteq DOMAIN h
BY DEF (-)

\* A leased job has been attempted.
LEMMA LeasedAttempted ==
  ASSUME SchedInv, NEW j \in Jobs, jobs[j].state = "leased"
  PROVE  jobs[j].attempts # 0
<1>1. TypeOK /\ LeaseIffLeased /\ Fenced /\ ClaimsCounted
  BY DEF SchedInv
<1>2. PICK c \in claims : c.job = j
  BY <1>1 DEF LeaseIffLeased, Fenced
<1>3. c.attempt \in 1..jobs[j].attempts /\ jobs[j].attempts \in Nat
  BY <1>1, <1>2 DEF ClaimsCounted, TypeOK, JobRecord
<1> QED
  BY <1>3

\* A step that enters no key of a job without dependencies that was not attempted.
Unadmitting ==
  /\ \A k \in DOMAIN ready' \ DOMAIN ready : EdgesInto(k.job) # {} \/ jobs'[k.job].attempts # 0
  /\ \A j \in Jobs : jobs'[j].attempts = 0 => jobs[j].attempts = 0

\* The keys that a lapse of the leases of S enters are those of attempted jobs.
LEMMA LapseUnadmitting ==
  ASSUME SchedInv, NEW S \in SUBSET Jobs, \A j \in S : jobs[j].state = "leased"
  PROVE  /\ \A k \in DOMAIN LapsedReady(S) \ DOMAIN ready : k.job \in S
         /\ \A j \in S : LapsedJobs(S)[j].attempts # 0
         /\ \A j \in Jobs : LapsedJobs(S)[j].attempts = jobs[j].attempts
<1>1. TypeOK
  BY DEF SchedInv
<1>2. \A j \in Jobs : LapsedJobs(S)[j].attempts = jobs[j].attempts
  BY <1>1, LapsedFacts DEF LapsesTo
<1>3. \A j \in S : LapsedJobs(S)[j].attempts # 0
  BY <1>2, LeasedAttempted
<1> DEFINE R == {j \in S : Lapsed(j).state = "retry_wait"}
<1>4. DOMAIN LapsedReady(S) = DOMAIN ready \cup KeySet(R, LapsedJobs(S))
  BY PushDomain DEF LapsedReady
<1>5. \A k \in KeySet(R, LapsedJobs(S)) : k.job \in S
  BY DEF KeySet, KeyOf
<1> QED
  BY <1>2, <1>3, <1>4, <1>5

\* Among the steps only submit admits keys.
LEMMA NextUnadmitting ==
  ASSUME SchedInv, [Next]_vars, \A d \in Dags : ~submit(d)
  PROVE  Unadmitting
<1>1. TypeOK /\ jobs \in [Jobs -> JobRecord] /\ \A c \in claims : c.job \in Jobs
  BY DEF SchedInv, TypeOK, Claim
<1>2. ASSUME NEW S \in SUBSET Jobs, \A j \in S : jobs[j].state = "leased",
             jobs' = LapsedJobs(S), DOMAIN ready' \subseteq DOMAIN LapsedReady(S)
      PROVE  Unadmitting
  BY <1>2, LapseUnadmitting DEF Unadmitting
<1>3. Expired \in SUBSET Jobs /\ \A j \in Expired : jobs[j].state = "leased"
  BY DEF Expired
<1>4. ASSUME UNCHANGED ready, \A j \in Jobs : jobs'[j].attempts = jobs[j].attempts
      PROVE  Unadmitting
  BY <1>4 DEF Unadmitting
<1>5. CASE reap
  BY <1>2, <1>3, <1>5 DEF reap
<1>6. CASE ClaimNothing
  BY <1>2, <1>3, <1>6, PopDomain DEF ClaimNothing
<1>7. ASSUME NEW owner \in Owners, NEW len \in LeaseLengths, claim(owner, len)
      PROVE  Unadmitting
  <2>1. PICK g \in Jobs : Claims(g, owner, len)
    BY <1>7, ClaimFacts
  <2>2. DOMAIN ready' \subseteq DOMAIN LapsedReady(Expired)
    BY <1>7, PopDomain DEF claim, PoppedThrough
  <2>3. /\ jobs' = [LapsedJobs(Expired) EXCEPT ![g] = Granted(jobs[g], NewLease(g, owner, len))]
        /\ LapsedJobs(Expired) \in [Jobs -> JobRecord] /\ jobs[g].attempts \in Nat
    BY <1>1, <1>3, <2>1, LapsedFacts DEF Claims, JobRecord
  <2>4. jobs'[g].attempts = jobs[g].attempts + 1
    BY <1>1, <2>3 DEF Granted, JobRecord
  <2>5. \A j \in Jobs \ {g} : jobs'[j] = LapsedJobs(Expired)[j]
    BY <2>3
  <2>6. \A j \in Jobs : jobs'[j].attempts # 0 \/ jobs[j].attempts = 0
    BY <1>3, <2>3, <2>4, <2>5, LapseUnadmitting
  <2>7. \A j \in Expired : jobs'[j].attempts # 0
    BY <1>3, <2>3, <2>4, <2>5, LapseUnadmitting
  <2> QED
    BY <1>3, <2>2, <2>6, <2>7, LapseUnadmitting DEF Unadmitting
<1>8. ASSUME NEW c \in claims, NEW owner \in Owners, complete(c, owner) PROVE Unadmitting
  <2>1. /\ jobs' \in [Jobs -> JobRecord]
        /\ jobs'[c.job] = Done(jobs[c.job], c.token)
        /\ \A k \in Jobs \ {c.job} : NotifiedOf(c.job, k, jobs')
        /\ ready' = Pushed(ready, FreedBy(c.job), jobs')
    BY <1>8, CompleteFacts
  <2>2. jobs'[c.job].attempts = jobs[c.job].attempts
    BY <1>1, <2>1 DEF Done, JobRecord
  <2>3. \A j \in Jobs : jobs'[j].attempts = jobs[j].attempts
    BY <2>1, <2>2 DEF NotifiedOf
  <2>4. DOMAIN ready' = DOMAIN ready \cup KeySet(FreedBy(c.job), jobs')
    BY <2>1, PushDomain DEF Pushed
  <2>5. \A k \in KeySet(FreedBy(c.job), jobs') : EdgesInto(k.job) # {}
    <3>1. \A j \in FreedBy(c.job) : EdgesFrom(c.job, j) # {}
      BY DEF FreedBy
    <3>2. \A j \in FreedBy(c.job) : EdgesInto(j) # {}
      BY <3>1 DEF EdgesFrom
    <3>3. \A j \in FreedBy(c.job) : KeyOf(j, jobs').job = j
      BY DEF KeyOf
    <3> QED
      BY <3>2, <3>3 DEF KeySet
  <2> QED
    BY <2>3, <2>4, <2>5 DEF Unadmitting
<1>9. ASSUME NEW c \in claims, NEW owner \in Owners, fail(c, owner) PROVE Unadmitting
  <2>1. {c.job} \in SUBSET Jobs /\ \A j \in {c.job} : jobs[j].state = "leased"
    BY <1>1, <1>9 DEF fail, HoldsLease
  <2> QED
    BY <1>2, <1>9, <2>1 DEF fail
<1>10. ASSUME NEW c \in claims, NEW owner \in Owners, NEW len \in LeaseLengths,
              heartbeat(c, owner, len)
       PROVE  Unadmitting
  <2>1. UNCHANGED ready /\ jobs' = [jobs EXCEPT ![c.job].lease.expires = now + len]
    BY <1>10 DEF heartbeat
  <2>2. \A j \in Jobs : jobs'[j].attempts = jobs[j].attempts
    BY <1>1, <2>1 DEF JobRecord
  <2> QED
    BY <1>4, <2>1, <2>2
<1>11. ASSUME NEW d \in Dags, cancel(d) PROVE Unadmitting
  <2>1. /\ UNCHANGED ready
        /\ jobs' = [j \in Jobs |-> IF DagOf[j] = d /\ jobs[j].state \notin Terminal
                                   THEN Halted(jobs[j]) ELSE jobs[j]]
    BY <1>11 DEF cancel, Halted
  <2>2. \A j \in Jobs : Halted(jobs[j]).attempts = jobs[j].attempts
    BY <1>1 DEF Halted, JobRecord
  <2>3. \A j \in Jobs : jobs'[j].attempts = jobs[j].attempts
    BY <2>1, <2>2
  <2> QED
    BY <1>4, <2>1, <2>3
<1>12. CASE Tick \/ UNCHANGED vars
  BY <1>4, <1>12 DEF Tick, vars
<1> QED
  BY <1>5, <1>6, <1>7, <1>8, <1>9, <1>10, <1>11, <1>12 DEF Next

\* submit leaves room for the keys that it enters.
LEMMA SubmitAdmits ==
  ASSUME SchedInv, NEW d \in Dags, submit(d)
  PROVE  (Cardinality(AdmittedKeys) <= MaxReadyJobs)'
<1> DEFINE roots == {j \in JobsOf(d) : EdgesInto(j) = {}}
           D == DOMAIN ready
           K == KeySet(roots, jobs')
           f == [j \in roots |-> KeyOf(j, jobs')]
<1>1. ready' = Pushed(ready, roots, jobs') /\ HeapLen(ready) + Cardinality(roots) <= MaxReadyJobs
  BY SubmitFacts DEF SchedInv
<1>2. DOMAIN ready' = D \cup K
  BY <1>1, PushDomain DEF Pushed
<1>3. IsFiniteSet(D) /\ HeapLen(ready) = Cardinality(D)
  BY HeapSize
<1>4. IsFiniteSet(roots)
  BY JobsAssumption, FS_Subset DEF JobsOf
<1>5. f \in Surjection(roots, K)
  <2>1. f \in [roots -> K] /\ \A k \in K : \E j \in roots : f[j] = k
    BY DEF KeySet
  <2> HIDE DEF f, K, roots
  <2> QED
    BY <2>1 DEF Surjection
<1> HIDE DEF roots, K, f, D
<1>6. IsFiniteSet(K) /\ Cardinality(K) <= Cardinality(roots)
  BY <1>4, <1>5, FS_Surjection
<1>7. /\ IsFiniteSet(D \cup K)
      /\ Cardinality(D \cup K) = Cardinality(D) + Cardinality(K) - Cardinality(D \cap K)
  BY <1>3, <1>6, FS_Union
<1>8. AdmittedKeys' \in SUBSET (D \cup K)
  BY <1>2 DEF AdmittedKeys, BagToSet
<1>9. Cardinality(AdmittedKeys') <= Cardinality(D \cup K) /\ IsFiniteSet(AdmittedKeys')
  BY <1>7, <1>8, FS_Subset
<1>10. IsFiniteSet(D \cap K)
  BY <1>3, FS_Subset
<1>11. /\ Cardinality(D) \in Nat /\ Cardinality(K) \in Nat /\ Cardinality(roots) \in Nat
       /\ Cardinality(D \cap K) \in Nat /\ Cardinality(AdmittedKeys') \in Nat
  BY <1>3, <1>4, <1>6, <1>9, <1>10, FS_CardinalityType
<1> QED
  BY <1>1, <1>3, <1>6, <1>7, <1>9, <1>11, ConfigAssumption

\* max_ready_jobs limits the keys that submissions have entered.
LEMMA AdmissionNext ==
  ASSUME SchedInv, Cardinality(AdmittedKeys) <= MaxReadyJobs, [Next]_vars
  PROVE  (Cardinality(AdmittedKeys) <= MaxReadyJobs)'
<1>1. CASE \E d \in Dags : submit(d)
  BY <1>1, SubmitAdmits
<1>2. CASE \A d \in Dags : ~submit(d)
  <2>1. Unadmitting
    BY <1>2, NextUnadmitting
  <2>2. \A k \in DOMAIN ready : k.job \in Jobs
    BY DEF SchedInv, TypeOK, ReadyKey
  <2>3. AdmittedKeys' \in SUBSET AdmittedKeys
    BY <2>1, <2>2 DEF Unadmitting, AdmittedKeys, BagToSet
  <2>4. IsFiniteSet(AdmittedKeys)
    BY HeapSize, FS_Subset DEF AdmittedKeys, BagToSet
  <2>5. IsFiniteSet(AdmittedKeys') /\ Cardinality(AdmittedKeys') <= Cardinality(AdmittedKeys)
    BY <2>3, <2>4, FS_Subset
  <2>6. Cardinality(AdmittedKeys) \in Nat /\ Cardinality(AdmittedKeys') \in Nat
    BY <2>4, <2>5, FS_CardinalityType
  <2> QED
    BY <2>5, <2>6, ConfigAssumption
<1> QED
  BY <1>1, <1>2

LEMMA AdmissionInit == Init => Cardinality(AdmittedKeys) <= MaxReadyJobs
<1> SUFFICES ASSUME Init PROVE Cardinality(AdmittedKeys) <= MaxReadyJobs
  OBVIOUS
<1>1. DOMAIN ready = {}
  BY DEF Init, EmptyBag, SetToBag
<1>2. AdmittedKeys = {}
  BY <1>1 DEF AdmittedKeys, BagToSet
<1> QED
  BY <1>2, FS_EmptySet, ConfigAssumption

\* Submissions fill the heap up to max_ready_jobs, stale keys counted, and not
\* further; as a whole it stays within one key for each job that waits or was
\* cancelled, though push_ready never checks the limit.
THEOREM HeapStaysBounded == Spec => []HeapBounded
<1>1. SchedInv /\ Cardinality(AdmittedKeys) <= MaxReadyJobs => HeapBounded
  <2> SUFFICES ASSUME SchedInv, Cardinality(AdmittedKeys) <= MaxReadyJobs PROVE HeapBounded
    OBVIOUS
  <2>1. \A k \in DOMAIN ready : ready[k] = 1
    BY DEF SchedInv, HeapExact, HeapFits
  <2> QED
    BY <2>1, HeapSize DEF HeapBounded, BagToSet
<1> QED
  BY <1>1, SchedInvHolds, AdmissionInit, AdmissionNext, PTL DEF Spec

\* complete keeps the dependency counters exact, repeated edges included.
THEOREM DependencyCountersExact == Spec => []RemainingExact
<1>1. SchedInv => RemainingExact
  BY DEF SchedInv
<1> QED
  BY <1>1, SchedInvHolds, PTL

\* complete releases a child with the success of its last parent.
THEOREM NoChildStranded == Spec => []NoStrandedChild
<1>1. SchedInv => NoStrandedChild
  <2> SUFFICES ASSUME SchedInv, NEW j \in Jobs, jobs[j].state = "pending"
               PROVE  \E p \in Parents(j) : jobs[p].state # "succeeded"
    BY DEF NoStrandedChild
  <2>1. jobs[j].remaining > 0 /\ jobs[j].remaining = Cardinality(Blocking(j))
    BY DEF SchedInv, CounterDecides, RemainingExact, Blocking
  <2>2. Blocking(j) \in SUBSET DOMAIN Edges
    BY EdgeFacts DEF Blocking
  <2>3. Blocking(j) # {}
    BY <2>1, <2>2, EdgeSetsFinite
  <2> QED
    BY <2>3 DEF Blocking, Parents
<1> QED
  BY <1>1, SchedInvHolds, PTL

\* No two claims share a token, and a job's lease and result carry the token of
\* its latest claim, whatever calls arrive under earlier ones.
THEOREM SchedulerFenced == Spec => []Fenced
<1>1. SchedInv => Fenced
  BY DEF SchedInv
<1> QED
  BY <1>1, SchedInvHolds, PTL


-----------------------------------------------------------------------------
\* The order of claims

\* Only claim leases a waiting job, and it takes the oldest one.
LEMMA OldestFirst ==
  ASSUME SchedInv, Next, NEW j \in Jobs, NEW k \in Jobs,
         jobs[j].state \in Waiting, jobs'[j].state = "leased", jobs[k].state \in Waiting
  PROVE  jobs[j].available_at <= jobs[k].available_at
<1>1. TypeOK
  BY DEF SchedInv
<1>2. ASSUME NEW S \in SUBSET Jobs, jobs' = LapsedJobs(S) PROVE FALSE
  <2>1. \/ jobs'[j] = jobs[j]
        \/ jobs'[j].state \in {"retry_wait", "dead_lettered"}
    BY <1>1, <1>2, LapsedFacts DEF LapsesTo
  <2> QED
    BY <2>1 DEF Waiting
<1>3. Expired \in SUBSET Jobs
  BY DEF Expired
<1>4. ASSUME NEW d \in Dags, submit(d) PROVE FALSE
  BY <1>1, <1>4, SubmitFacts DEF SubmittedJob, JobsOf, Waiting
<1>5. ASSUME NEW d \in Dags, cancel(d) PROVE FALSE
  <2>1. jobs'[j] = jobs[j] \/ jobs'[j] = Halted(jobs[j])
    BY <1>5 DEF cancel, Halted
  <2> QED
    BY <1>1, <2>1, HaltedRecord DEF TypeOK, Waiting
<1>6. ASSUME NEW owner \in Owners, NEW len \in LeaseLengths, claim(owner, len)
      PROVE  jobs[j].available_at <= jobs[k].available_at
  <2>1. PICK g \in Jobs : Claims(g, owner, len)
    BY <1>6, ClaimFacts
  <2>2. CASE j = g
    BY <2>1, <2>2 DEF Claims
  <2>3. CASE j # g
    <3>1. jobs'[j] = LapsedJobs(Expired)[j]
      <4>1. LapsedJobs(Expired) \in [Jobs -> JobRecord]
        BY <1>1, <1>3, LapsedFacts
      <4> QED
        BY <2>1, <2>3, <4>1 DEF Claims
    <3>2. \/ jobs'[j] = jobs[j]
          \/ jobs'[j].state \in {"retry_wait", "dead_lettered"}
      BY <1>1, <1>3, <3>1, LapsedFacts DEF LapsesTo
    <3> QED
      BY <3>2 DEF Waiting
  <2> QED
    BY <2>2, <2>3
<1>7. CASE ClaimNothing
  BY <1>2, <1>3, <1>7 DEF ClaimNothing
<1>8. CASE reap
  BY <1>2, <1>3, <1>8 DEF reap
<1>9. ASSUME NEW c \in claims, NEW owner \in Owners, fail(c, owner) PROVE FALSE
  <2>1. {c.job} \in SUBSET Jobs
    BY <1>1 DEF TypeOK, Claim
  <2> QED
    BY <1>2, <1>9, <2>1 DEF fail
<1>10. ASSUME NEW c \in claims, NEW owner \in Owners, complete(c, owner) PROVE FALSE
  <2>1. j # c.job /\ NotifiedOf(c.job, j, jobs')
    BY <1>10, CompleteFacts DEF Waiting
  <2> QED
    BY <2>1 DEF NotifiedOf, Waiting
<1>11. ASSUME NEW c \in claims, NEW owner \in Owners, NEW len \in LeaseLengths,
              heartbeat(c, owner, len)
       PROVE  FALSE
  BY <1>1, <1>11 DEF heartbeat, HoldsLease, TypeOK, Claim, Waiting
<1>12. CASE Tick
  BY <1>12 DEF Tick, Waiting
<1> QED
  BY <1>4, <1>5, <1>6, <1>7, <1>8, <1>9, <1>10, <1>11, <1>12 DEF Next

\* A job that has been available for longer is never overtaken by claim.
THEOREM OldestClaimedFirst == Spec => ClaimsOldest
<1>1. SchedInv /\ [Next]_vars =>
        [\A j, k \in Jobs :
           /\ jobs[j].state \in Waiting /\ jobs'[j].state = "leased"
           /\ jobs[k].state \in Waiting
           => jobs[j].available_at <= jobs[k].available_at]_vars
  BY OldestFirst
<1> QED
  BY <1>1, SchedInvHolds, PTL DEF Spec, ClaimsOldest


-----------------------------------------------------------------------------
\* The scheduler implements the life cycle

LEMMA SameGraph ==
  /\ \A d : Abstract!JobsOf(d) = JobsOf(d)
  /\ \A j : Abstract!Parents(j) = Parents(j)
  /\ Abstract!Terminal = Terminal /\ Abstract!Waiting = Waiting
BY DEF Abstract!JobsOf, JobsOf, Abstract!Parents, Parents, Abstract!EdgesInto, EdgesInto,
       Abstract!Terminal, Terminal, Abstract!Waiting, Waiting

\* What the abstract job shows of a record.
LEMMA AbstractJob ==
  ASSUME NEW j \in Jobs
  PROVE  /\ [k \in Jobs |-> LifecycleOf(jobs[k])][j] = LifecycleOf(jobs[j])
         /\ LifecycleOf(jobs[j]).state = jobs[j].state
         /\ LifecycleOf(jobs[j]).attempts = jobs[j].attempts
BY DEF LifecycleOf

\* An abstract record, and the updates that the life cycle makes to one.
Life(s, a, t, x) == [state |-> s, attempts |-> a, token |-> t, result |-> x]
LifeGranted(r, t) == [r EXCEPT !.state = "leased", !.attempts = @ + 1, !.token = t]
LifeSucceeded(r) == [r EXCEPT !.state = "succeeded", !.result = r.token, !.token = Null]
LifeEnded(r, s) == [r EXCEPT !.state = s, !.token = Null]

LEMMA LifeGrantedIs ==
  ASSUME NEW s, NEW a, NEW k, NEW x, NEW t
  PROVE  LifeGranted(Life(s, a, k, x), t) = Life("leased", a + 1, t, x)
<1> DEFINE R == Life(s, a, k, x)
           n == a + 1
<1>1. LifeGranted(R, t) = [[[R EXCEPT !.state = "leased"] EXCEPT !.attempts = n] EXCEPT !.token = t]
  BY DEF LifeGranted, Life
<1>2. [R EXCEPT !.state = "leased"] = Life("leased", a, k, x)
  BY DEF Life
<1> HIDE DEF n
<1>3. [Life("leased", a, k, x) EXCEPT !.attempts = n] = Life("leased", n, k, x)
  BY DEF Life
<1>4. [Life("leased", n, k, x) EXCEPT !.token = t] = Life("leased", n, t, x)
  BY DEF Life
<1> QED
  BY <1>1, <1>2, <1>3, <1>4 DEF n

LEMMA LifeSucceededIs ==
  ASSUME NEW s, NEW a, NEW k, NEW x
  PROVE  LifeSucceeded(Life(s, a, k, x)) = Life("succeeded", a, Null, k)
<1> DEFINE R == Life(s, a, k, x)
<1>1. R.token = k
  BY DEF Life
<1>2. LifeSucceeded(R) = [[[R EXCEPT !.state = "succeeded"] EXCEPT !.result = k] EXCEPT !.token = Null]
  BY <1>1 DEF LifeSucceeded, Life
<1>3. [R EXCEPT !.state = "succeeded"] = Life("succeeded", a, k, x)
  BY DEF Life
<1>4. [Life("succeeded", a, k, x) EXCEPT !.result = k] = Life("succeeded", a, k, k)
  BY DEF Life
<1>5. [Life("succeeded", a, k, k) EXCEPT !.token = Null] = Life("succeeded", a, Null, k)
  BY DEF Life
<1> QED
  BY <1>2, <1>3, <1>4, <1>5

LEMMA LifeEndedIs ==
  ASSUME NEW s, NEW a, NEW k, NEW x, NEW z
  PROVE  LifeEnded(Life(s, a, k, x), z) = Life(z, a, Null, x)
<1>1. LifeEnded(Life(s, a, k, x), z) = [[Life(s, a, k, x) EXCEPT !.state = z] EXCEPT !.token = Null]
  BY DEF LifeEnded, Life
<1>2. [Life(s, a, k, x) EXCEPT !.state = z] = Life(z, a, k, x)
  BY DEF Life
<1>3. [Life(z, a, k, x) EXCEPT !.token = Null] = Life(z, a, Null, x)
  BY DEF Life
<1> QED
  BY <1>1, <1>2, <1>3

\* The abstract record of a job, without and with a lease.
LEMMA LifeOf ==
  ASSUME NEW r
  PROVE  /\ r.lease = Null => LifecycleOf(r) = Life(r.state, r.attempts, Null, r.result)
         /\ r.lease # Null => LifecycleOf(r) = Life(r.state, r.attempts, r.lease.token, r.result)
         /\ \E k : LifecycleOf(r) = Life(r.state, r.attempts, k, r.result)
BY DEF LifecycleOf, Life

\* A lease that lapses in the scheduler lapses in the life cycle.
LEMMA LapsedRefines ==
  ASSUME NEW j \in Jobs, NEW recs, LapsesTo(j, recs), jobs[j].attempts \in Nat,
         MaxAttempts[j] \in Nat
  PROVE  LifecycleOf(recs[j]) = Abstract!Lapsed(j)
<1> DEFINE z == IF jobs[j].attempts >= MaxAttempts[j] THEN "dead_lettered" ELSE "retry_wait"
<1>1. Abstract!Lapsed(j) = LifeEnded(LifecycleOf(jobs[j]), z)
  BY AbstractJob DEF Abstract!Lapsed, LifeEnded
<1>2. /\ recs[j].state = z /\ recs[j].lease = Null
      /\ recs[j].attempts = jobs[j].attempts /\ recs[j].result = jobs[j].result
  BY DEF LapsesTo
<1> HIDE DEF z
<1>3. LifeEnded(LifecycleOf(jobs[j]), z) = Life(z, jobs[j].attempts, Null, jobs[j].result)
  BY LifeOf, LifeEndedIs
<1>4. LifecycleOf(recs[j]) = Life(z, jobs[j].attempts, Null, jobs[j].result)
  BY <1>2, LifeOf
<1> QED
  BY <1>1, <1>3, <1>4

\* reap, fail, and a claim that finds no job: leases lapse.
LEMMA LapseRefines ==
  ASSUME SchedInv, NEW S \in SUBSET Jobs, \A j \in S : jobs[j].state = "leased",
         jobs' = LapsedJobs(S), claims' = claims
  PROVE  Abstract!Lapse(S)
<1>1. TypeOK
  BY DEF SchedInv
<1>2. /\ \A j \in Jobs \ S : jobs'[j] = jobs[j]
      /\ \A j \in S : LapsesTo(j, jobs')
  BY <1>1, LapsedFacts
<1>3. \A j \in S : LifecycleOf(jobs'[j]) = Abstract!Lapsed(j)
  <2>1. \A j \in Jobs : jobs[j].attempts \in Nat /\ MaxAttempts[j] \in Nat
    BY <1>1, AttemptsAssumption DEF TypeOK, JobRecord
  <2> QED
    BY <1>2, <2>1, LapsedRefines
<1>4. \A j \in S : [k \in Jobs |-> LifecycleOf(jobs[k])][j].state = "leased"
  BY AbstractJob
<1>5. [j \in Jobs |-> LifecycleOf(jobs'[j])] =
        [j \in Jobs |-> IF j \in S THEN Abstract!Lapsed(j)
                        ELSE [k \in Jobs |-> LifecycleOf(jobs[k])][j]]
  BY <1>2, <1>3
<1> QED
  BY <1>4, <1>5 DEF Abstract!Lapse

\* submit: the jobs of the DAG appear together.
LEMMA SubmitRefines ==
  ASSUME SchedInv, NEW d \in Dags, submit(d)
  PROVE  Abstract!Submit(d)
<1>1. TypeOK /\ Admitted
  BY DEF SchedInv
<1>2. /\ \A j \in Jobs : DagOf[j] # d => jobs'[j] = jobs[j]
      /\ \A j \in JobsOf(d) : SubmittedJob(j, jobs')
      /\ d \notin dags /\ claims' = claims
  BY <1>1, SubmitFacts
<1>3. \A j \in JobsOf(d) : j \in Jobs /\ jobs[j].state = "absent"
  BY <1>1, <1>2 DEF Admitted, JobsOf
<1>4. ASSUME NEW j \in Jobs, DagOf[j] = d
      PROVE  LifecycleOf(jobs'[j]) =
               [state |-> IF Parents(j) = {} THEN "ready" ELSE "pending", attempts |-> 0,
                token |-> Null, result |-> Null]
  <2>1. SubmittedJob(j, jobs')
    BY <1>2, <1>4 DEF JobsOf
  <2>2. EdgesInto(j) = {} <=> Parents(j) = {}
    BY DEF Parents
  <2> QED
    BY <2>1, <2>2 DEF SubmittedJob, LifecycleOf
<1>5. \A j \in JobsOf(d) : [k \in Jobs |-> LifecycleOf(jobs[k])][j].state = "absent"
  BY <1>3, AbstractJob
<1>6. [j \in Jobs |-> LifecycleOf(jobs'[j])] =
        [j \in Jobs |->
           IF DagOf[j] # d THEN [k \in Jobs |-> LifecycleOf(jobs[k])][j]
           ELSE [Abstract!Blank EXCEPT !.state = IF Parents(j) = {} THEN "ready" ELSE "pending"]]
  BY <1>2, <1>4 DEF Abstract!Blank
<1> QED
  BY <1>2, <1>5, <1>6, SameGraph DEF Abstract!Submit

\* cancel: every unfinished job of the DAG is cancelled.
LEMMA CancelRefines ==
  ASSUME SchedInv, NEW d \in Dags, cancel(d)
  PROVE  Abstract!Cancel(d)
<1> DEFINE J == [j \in Jobs |-> LifecycleOf(jobs[j])]
<1>1. TypeOK /\ Admitted
  BY DEF SchedInv
<1>2. /\ d \in dags /\ claims' = claims
      /\ jobs' = [j \in Jobs |-> IF DagOf[j] = d /\ jobs[j].state \notin Terminal
                                 THEN Halted(jobs[j]) ELSE jobs[j]]
  BY DEF cancel, Halted
<1>3. ASSUME NEW j \in Jobs, DagOf[j] = d, jobs[j].state \notin Terminal
      PROVE  LifecycleOf(jobs'[j]) = LifeEnded(LifecycleOf(jobs[j]), "cancelled")
  <2>1. jobs'[j] = Halted(jobs[j]) /\ jobs[j] \in JobRecord
    BY <1>1, <1>2, <1>3 DEF TypeOK
  <2>2. LifecycleOf(jobs'[j]) = Life("cancelled", jobs[j].attempts, Null, jobs[j].result)
    BY <2>1, HaltedRecord, LifeOf
  <2> QED
    BY <2>2, LifeOf, LifeEndedIs
<1>4. \A j \in Jobs : ~(DagOf[j] = d /\ jobs[j].state \notin Terminal) => jobs'[j] = jobs[j]
  BY <1>2
<1>5. /\ \A j \in JobsOf(d) : J[j].state # "absent"
      /\ \A j \in Jobs : J[j] = LifecycleOf(jobs[j]) /\ J[j].state = jobs[j].state
  BY <1>1, <1>2, AbstractJob DEF Admitted, JobsOf
<1>6. [j \in Jobs |-> LifecycleOf(jobs'[j])] =
        [j \in Jobs |->
           IF DagOf[j] = d /\ J[j].state \notin Terminal
           THEN LifeEnded(J[j], "cancelled")
           ELSE J[j]]
  <2> HIDE DEF J
  <2> QED
    BY <1>3, <1>4, <1>5
<1> QED
  BY <1>2, <1>5, <1>6, SameGraph DEF Abstract!Cancel, LifeEnded

\* heartbeat: the life cycle does not show when a lease expires.
LEMMA HeartbeatRefines ==
  ASSUME SchedInv, NEW c \in claims, NEW owner \in Owners, NEW len \in LeaseLengths,
         heartbeat(c, owner, len)
  PROVE  UNCHANGED Abstract!vars
<1> DEFINE g == c.job
<1>1. TypeOK
  BY DEF SchedInv
<1>2. /\ g \in Jobs /\ jobs \in [Jobs -> JobRecord] /\ now + len \in Nat
      /\ jobs[g].lease # Null /\ claims' = claims
      /\ jobs' = [jobs EXCEPT ![g] = Extended(jobs[g], now + len)]
  BY <1>1, ConfigAssumption DEF TypeOK, Claim, heartbeat, HoldsLease, Extended
<1> HIDE DEF g
<1>3. ASSUME NEW j \in Jobs PROVE LifecycleOf(jobs'[j]) = LifecycleOf(jobs[j])
  <2>1. CASE j = g
    <3>1. jobs'[j] = Extended(jobs[j], now + len) /\ jobs[j] \in JobRecord
      BY <1>2, <2>1
    <3>2. /\ jobs'[j].state = jobs[j].state /\ jobs'[j].attempts = jobs[j].attempts
          /\ jobs'[j].lease # Null /\ jobs'[j].lease.token = jobs[j].lease.token
          /\ jobs'[j].result = jobs[j].result
      BY <1>2, <2>1, <3>1, ExtendedRecord
    <3> QED
      BY <1>2, <2>1, <3>2, LifeOf
  <2>2. CASE j # g
    BY <1>2, <2>2
  <2> QED
    BY <2>1, <2>2
<1> QED
  BY <1>2, <1>3 DEF Abstract!vars

\* claim: a job is leased under a new token, expired leases lapse with it.
LEMMA ClaimRefines ==
  ASSUME SchedInv, NEW owner \in Owners, NEW len \in LeaseLengths,
         NEW g \in Jobs, Claims(g, owner, len)
  PROVE  NewToken(g) \in Tokens /\ \E R \in SUBSET Jobs : Abstract!Grant(g, NewToken(g), R)
<1> DEFINE t == NewToken(g)
           J == [j \in Jobs |-> LifecycleOf(jobs[j])]
<1>1. TypeOK /\ WithinBudget /\ CounterDecides /\ RemainingExact
  BY DEF SchedInv
<1>2. t \in Tokens /\ \A c \in claims : c.token # t
  BY ClaimKeeps
<1>3. /\ jobs[g].state \in Waiting /\ g \notin Expired
      /\ jobs' = [LapsedJobs(Expired) EXCEPT ![g] = Granted(jobs[g], NewLease(g, owner, len))]
      /\ claims' = claims \cup {NewClaim(g, owner)}
  BY DEF Claims
<1>4. PICK R \in SUBSET Jobs : R = Expired
  BY DEF Expired
<1>5. \A j \in R : jobs[j].state = "leased" /\ j # g
  BY <1>3, <1>4 DEF Expired
<1>6. /\ LapsedJobs(R) \in [Jobs -> JobRecord]
      /\ \A j \in Jobs \ R : LapsedJobs(R)[j] = jobs[j]
      /\ \A j \in R : LapsesTo(j, LapsedJobs(R))
  BY <1>1, LapsedFacts
<1>7. /\ jobs'[g] = Granted(jobs[g], NewLease(g, owner, len))
      /\ \A j \in Jobs : j # g => jobs'[j] = LapsedJobs(R)[j]
  BY <1>3, <1>4, <1>6
<1>8. \A j \in Jobs : jobs[j].attempts \in Nat /\ MaxAttempts[j] \in Nat
  BY <1>1, AttemptsAssumption DEF TypeOK, JobRecord
<1>9. \A j \in R : LifecycleOf(jobs'[j]) = Abstract!Lapsed(j)
  <2>1. \A j \in R : LifecycleOf(LapsedJobs(R)[j]) = Abstract!Lapsed(j)
    BY <1>6, <1>8, LapsedRefines
  <2> QED
    BY <1>5, <1>7, <2>1
<1>10. LifecycleOf(jobs'[g]) = LifeGranted(LifecycleOf(jobs[g]), t)
  <2>1. NewLease(g, owner, len) \in Lease /\ NewLease(g, owner, len).token = t
        /\ NewLease(g, owner, len) # Null
    <3>1. now + len \in Nat
      BY <1>1, ConfigAssumption DEF TypeOK
    <3>2. NewLease(g, owner, len) \in Lease /\ NewLease(g, owner, len).token = t
      BY <1>2, <3>1 DEF NewLease, Lease
    <3> QED
      BY <3>2, NullAssumption DEF Lease
  <2>2. jobs[g] \in JobRecord
    BY <1>1 DEF TypeOK
  <2>3. /\ jobs'[g].state = "leased" /\ jobs'[g].attempts = jobs[g].attempts + 1
        /\ jobs'[g].lease = NewLease(g, owner, len) /\ jobs'[g].result = jobs[g].result
    BY <1>7, <2>1, <2>2, GrantedRecord
  <2> HIDE DEF t
  <2>4. LifecycleOf(jobs'[g]) = Life("leased", jobs[g].attempts + 1, t, jobs[g].result)
    BY <2>1, <2>3, LifeOf
  <2>5. PICK k : LifecycleOf(jobs[g]) = Life(jobs[g].state, jobs[g].attempts, k, jobs[g].result)
    BY LifeOf
  <2> QED
    BY <2>4, <2>5, LifeGrantedIs
<1>11. jobs[g].attempts < MaxAttempts[g]
  BY <1>1, <1>3 DEF WithinBudget
<1>12. \A p \in Parents(g) : p \in Jobs /\ jobs[p].state = "succeeded"
  <2>1. Cardinality(Blocking(g)) = 0
    BY <1>1, <1>3 DEF CounterDecides, RemainingExact, Blocking, Waiting
  <2>2. Blocking(g) \in SUBSET DOMAIN Edges
    BY EdgeFacts DEF Blocking
  <2>3. Blocking(g) = {}
    BY <2>1, <2>2, EdgeSetsFinite
  <2> QED
    BY <2>3, EdgeFacts DEF Blocking, Parents
<1>13. {c.token : c \in claims'} = {c.token : c \in claims} \cup {t}
  <2>1. NewClaim(g, owner).token = t
    BY DEF NewClaim
  <2> QED
    BY <1>3, <2>1
<1>14. t \notin {c.token : c \in claims}
  BY <1>2
<1>15. /\ J[g].state \in Waiting /\ J[g].attempts < MaxAttempts[g]
       /\ \A p \in Parents(g) : J[p].state = "succeeded"
       /\ \A j \in R : J[j].state = "leased"
       /\ \A j \in Jobs : J[j] = LifecycleOf(jobs[j])
  BY <1>3, <1>5, <1>11, <1>12, AbstractJob
<1> HIDE DEF t
<1>16. [j \in Jobs |-> LifecycleOf(jobs'[j])] =
         [j \in Jobs |->
            CASE j = g -> LifeGranted(J[j], t)
              [] j \in R /\ j # g -> Abstract!Lapsed(j)
              [] OTHER -> J[j]]
  <2> HIDE DEF J
  <2> QED
    BY <1>5, <1>6, <1>7, <1>9, <1>10, <1>15
<1>17. Abstract!Grant(g, t, R)
  BY <1>13, <1>14, <1>15, <1>16, SameGraph DEF Abstract!Grant, LifeGranted
<1> QED
  BY <1>2, <1>17 DEF t

\* complete: the job succeeds under the token of its lease, and the children that
\* it alone still blocked become ready.
LEMMA CompleteRefines ==
  ASSUME SchedInv, NEW c \in claims, NEW owner \in Owners, complete(c, owner)
  PROVE  c.job \in Jobs /\ \E C \in SUBSET Jobs : Abstract!Succeed(c.job, C)
<1> DEFINE g == c.job
           J == [j \in Jobs |-> LifecycleOf(jobs[j])]
<1>1. TypeOK /\ LeaseIffLeased
  BY DEF SchedInv
<1>2. /\ g \in Jobs /\ c.token \in Tokens
      /\ jobs[g].state = "leased" /\ jobs[g].lease # Null /\ jobs[g].lease.token = c.token
      /\ jobs'[g] = Done(jobs[g], c.token)
      /\ \A k \in Jobs \ {g} : NotifiedOf(g, k, jobs')
      /\ claims' = claims
  BY CompleteFacts
<1> HIDE DEF g
<1>3. PICK C \in SUBSET Jobs : C = FreedBy(g)
  BY DEF FreedBy
<1>4. LifecycleOf(jobs'[g]) = LifeSucceeded(LifecycleOf(jobs[g]))
  <2>1. jobs[g] \in JobRecord
    BY <1>1, <1>2 DEF TypeOK
  <2>2. LifecycleOf(jobs'[g]) = Life("succeeded", jobs[g].attempts, Null, c.token)
    BY <1>2, <2>1, DoneRecord, LifeOf
  <2>3. LifecycleOf(jobs[g]) = Life(jobs[g].state, jobs[g].attempts, c.token, jobs[g].result)
    BY <1>2, LifeOf
  <2> QED
    BY <2>2, <2>3, LifeSucceededIs
<1>5. ASSUME NEW k \in C
      PROVE  /\ k # g /\ jobs[k].state = "pending" /\ g \in Parents(k)
             /\ \A p \in Parents(k) \ {g} : p \in Jobs /\ jobs[p].state = "succeeded"
             /\ LifecycleOf(jobs'[k]) = [LifecycleOf(jobs[k]) EXCEPT !.state = "ready"]
  <2>1. /\ k \in Jobs /\ k # g /\ jobs[k].state = "pending" /\ EdgesFrom(g, k) # {}
        /\ jobs[k].remaining = Cardinality(EdgesFrom(g, k)) /\ k \in FreedBy(g)
    BY <1>3 DEF FreedBy
  <2>2. g \in Parents(k)
    BY <2>1 DEF Parents, EdgesFrom
  <2>3. \A i \in Blocking(k) : Edges[i][1] = g
    <3>1. Cardinality(Blocking(k) \ EdgesFrom(g, k)) = 0
      BY <1>2, <2>1, EdgeCounts
    <3>2. Blocking(k) \ EdgesFrom(g, k) \in SUBSET DOMAIN Edges
      BY <2>1, EdgeFacts DEF Blocking
    <3>3. Blocking(k) \ EdgesFrom(g, k) = {}
      BY <3>1, <3>2, EdgeSetsFinite
    <3> QED
      BY <3>3 DEF EdgesFrom
  <2>4. \A p \in Parents(k) \ {g} : p \in Jobs /\ jobs[p].state = "succeeded"
    BY <2>1, <2>3, EdgeFacts DEF Blocking, Parents
  <2>5. jobs[k].lease = Null
    BY <1>1, <2>1 DEF LeaseIffLeased
  <2>6. /\ jobs'[k].state = "ready" /\ jobs'[k].lease = Null
        /\ jobs'[k].attempts = jobs[k].attempts /\ jobs'[k].result = jobs[k].result
    BY <1>2, <2>1, <2>5 DEF NotifiedOf
  <2>7. LifecycleOf(jobs'[k]) = Life("ready", jobs[k].attempts, Null, jobs[k].result)
    BY <2>6, LifeOf
  <2>8. LifecycleOf(jobs[k]) = Life(jobs[k].state, jobs[k].attempts, Null, jobs[k].result)
    BY <2>5, LifeOf
  <2>9. [LifecycleOf(jobs[k]) EXCEPT !.state = "ready"]
          = Life("ready", jobs[k].attempts, Null, jobs[k].result)
    BY <2>8 DEF Life
  <2> QED
    BY <2>1, <2>2, <2>4, <2>7, <2>9
<1>6. ASSUME NEW k \in Jobs \ C, k # g
      PROVE  LifecycleOf(jobs'[k]) = LifecycleOf(jobs[k])
  <2>1. /\ jobs'[k].state = jobs[k].state /\ jobs'[k].lease = jobs[k].lease
        /\ jobs'[k].attempts = jobs[k].attempts /\ jobs'[k].result = jobs[k].result
    BY <1>2, <1>3, <1>6 DEF NotifiedOf
  <2> QED
    BY <2>1 DEF LifecycleOf
<1>7. /\ J[g].state = "leased"
      /\ \A k \in C : /\ J[k].state = "pending" /\ g \in Parents(k)
                      /\ \A p \in Parents(k) \ {g} : J[p].state = "succeeded"
      /\ \A j \in Jobs : J[j] = LifecycleOf(jobs[j])
  BY <1>2, <1>5, AbstractJob
<1>8. [j \in Jobs |-> LifecycleOf(jobs'[j])] =
         [j \in Jobs |->
            CASE j = g -> LifeSucceeded(J[j])
              [] j \in C /\ j # g -> [J[j] EXCEPT !.state = "ready"]
              [] OTHER -> J[j]]
  <2> HIDE DEF J
  <2> QED
    BY <1>4, <1>5, <1>6, <1>7
<1>9. Abstract!Succeed(g, C)
  BY <1>2, <1>7, <1>8, SameGraph DEF Abstract!Succeed, LifeSucceeded
<1> QED
  BY <1>2, <1>9 DEF g

\* Every call is a step of the life cycle or changes nothing it shows.
LEMMA StepRefines ==
  SchedInv /\ [Next]_vars => [Abstract!Next]_Abstract!vars
<1> SUFFICES ASSUME SchedInv, [Next]_vars PROVE [Abstract!Next]_Abstract!vars
  OBVIOUS
<1>1. ASSUME NEW S \in SUBSET Jobs, \A j \in S : jobs[j].state = "leased",
             jobs' = LapsedJobs(S), claims' = claims
      PROVE  Abstract!Next
  BY <1>1, LapseRefines DEF Abstract!Next
<1>2. Expired \in SUBSET Jobs /\ \A j \in Expired : jobs[j].state = "leased"
  BY DEF Expired
<1>3. ASSUME NEW d \in Dags, submit(d) PROVE Abstract!Next
  BY <1>3, SubmitRefines DEF Abstract!Next
<1>4. ASSUME NEW d \in Dags, cancel(d) PROVE Abstract!Next
  BY <1>4, CancelRefines DEF Abstract!Next
<1>5. ASSUME NEW owner \in Owners, NEW len \in LeaseLengths, claim(owner, len)
      PROVE  Abstract!Next
  <2>1. PICK g \in Jobs : Claims(g, owner, len)
    BY <1>5, ClaimFacts
  <2> QED
    BY <2>1, ClaimRefines DEF Abstract!Next
<1>6. CASE ClaimNothing
  BY <1>1, <1>2, <1>6 DEF ClaimNothing
<1>7. CASE reap
  BY <1>1, <1>2, <1>7 DEF reap
<1>8. ASSUME NEW c \in claims, NEW owner \in Owners, fail(c, owner) PROVE Abstract!Next
  <2>1. {c.job} \in SUBSET Jobs /\ \A j \in {c.job} : jobs[j].state = "leased"
    BY <1>8 DEF SchedInv, TypeOK, Claim, fail, HoldsLease
  <2> QED
    BY <1>1, <1>8, <2>1 DEF fail
<1>9. ASSUME NEW c \in claims, NEW owner \in Owners, complete(c, owner) PROVE Abstract!Next
  BY <1>9, CompleteRefines DEF Abstract!Next
<1>10. ASSUME NEW c \in claims, NEW owner \in Owners, NEW len \in LeaseLengths,
              heartbeat(c, owner, len)
       PROVE  UNCHANGED Abstract!vars
  BY <1>10, HeartbeatRefines
<1>11. ASSUME Tick \/ UNCHANGED vars PROVE UNCHANGED Abstract!vars
  BY <1>11 DEF Tick, vars, Abstract!vars
<1> QED
  BY <1>3, <1>4, <1>5, <1>6, <1>7, <1>8, <1>9, <1>10, <1>11 DEF Next

LEMMA InitRefines == Init => Abstract!Init
<1> SUFFICES ASSUME Init PROVE Abstract!Init
  OBVIOUS
<1>1. LifecycleOf(AbsentRecord) = Abstract!Blank
  BY DEF LifecycleOf, AbsentRecord, Abstract!Blank
<1>2. \A j \in Jobs : jobs[j] = AbsentRecord
  BY DEF Init
<1> QED
  BY <1>1, <1>2 DEF Init, Abstract!Init

\* The in-memory scheduler implements the abstract life cycle: each of its calls is
\* one step of it, under the mapping of job records to abstract jobs.
THEOREM SchedulerImplementsLifecycle == Spec => ImplementsLifecycle
  BY InitRefines, StepRefines, SchedInvHolds, PTL DEF Spec, ImplementsLifecycle, Abstract!Spec
=============================================================================
