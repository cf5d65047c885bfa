----------------------------- MODULE Scheduler -----------------------------
(***************************************************************************)
(* Scheduler: the deterministic in-memory reference scheduler.  Every      *)
(* operation has exclusive access (&mut self) and is one atomic step.  The *)
(* caller passes its clock with each call; nothing in the scheduler makes  *)
(* this clock monotonic.  A call that is rejected (unknown DAG, admission  *)
(* limit, lease conflict) changes nothing and is a stuttering step.        *)
(*                                                                         *)
(* The binary heap `ready' is a bag of keys, of which claim pops the least *)
(* one.  Keys are never deleted when their job changes state: claim throws *)
(* away keys that no longer match the job they name.                       *)
(***************************************************************************)
EXTENDS JobGraph, Bags

CONSTANTS
  MaxDags,       \* config.max_dags
  MaxReadyJobs,  \* config.max_ready_jobs
  LeaseLengths,  \* lease durations callers ask for, all in 1..max_lease_ms
  Hash,          \* Hash[j]: value of the hash that spreads the retries of j
  MaxSequence,   \* largest value of the token counter (2^64 - 1 in the code)
  Times          \* clock values that callers pass

ASSUME ConfigAssumption ==
  /\ MaxDags \in Nat /\ MaxReadyJobs \in Nat /\ Times \subseteq Nat
  /\ LeaseLengths \subseteq Nat \ {0}
  /\ Hash \in [Jobs -> Nat]

\* Lease tokens are built from the job and the token counter.
ASSUME TokensAssumption ==
  /\ MaxSequence \in Nat
  /\ Jobs \X (1..MaxSequence) \subseteq Tokens

\* Every attempt that the budgets of the jobs allow.
AllAttempts == {a \in Jobs \X (1..20) : a[2] <= MaxAttempts[a[1]]}

\* The counter of 64 bits outlasts the attempts of all jobs that fit in memory:
\* its saturating addition never meets its limit.
ASSUME SequenceAssumption == Cardinality(AllAttempts) <= MaxSequence

VARIABLES
  now,       \* the clock value callers pass
  dags,      \* identifiers of the admitted DAGs
  jobs,      \* job records
  ready,     \* the heap: a bag of ready keys
  sequence,  \* counter behind the lease tokens
  claims     \* every ClaimedJob ever returned to a worker

vars == <<now, dags, jobs, ready, sequence, claims>>

JobRecord ==
  [state : JobState, attempts : Nat, available_at : Nat, remaining : Nat,
   lease : Lease \cup {Null}, result : Tokens \cup {Null}]

ReadyKey == [available_at : Nat, job : Jobs]

Claim == [job : Jobs, owner : Owners, token : Tokens, attempt : Nat]

AbsentRecord == [state |-> "absent", attempts |-> 0, available_at |-> 0,
                 remaining |-> 0, lease |-> Null, result |-> Null]

-----------------------------------------------------------------------------
\* Mutant: priority first.
UrgentBefore(k, l) ==
  \/ Priority[k.job] > Priority[l.job]
  \/ /\ Priority[k.job] = Priority[l.job]
     /\ \/ k.available_at < l.available_at
        \/ k.available_at = l.available_at /\ IdRank[k.job] < IdRank[l.job]

\* The order of the heap: availability, priority, identifiers.
Before(k, l) ==
  \/ k.available_at < l.available_at
  \/ /\ k.available_at = l.available_at
     /\ \/ Priority[k.job] > Priority[l.job]
        \/ Priority[k.job] = Priority[l.job] /\ IdRank[k.job] < IdRank[l.job]

\* One key for each job of S, as push_ready inserts it.
Keys(S, recs) == SetToBag({[available_at |-> recs[j].available_at, job |-> j] : j \in S})

\* The key still names a waiting job and the job's present availability.
Matches(k, recs) ==
  recs[k.job].state \in Waiting /\ recs[k.job].available_at = k.available_at

\* Mutant: keys of cancelled jobs are left out.
LiveLen(h) == Cardinality({k \in BagToSet(h) : Matches(k, jobs)})

\* ready.len(): the entries of heap h, each key as often as it occurs.
HeapLen(h) == Cardinality(UNION {{k} \X (1..h[k]) : k \in BagToSet(h)})

-----------------------------------------------------------------------------
submit(d) ==
  LET new == [j \in JobsOf(d) |->
                [AbsentRecord EXCEPT
                   !.state = IF EdgesInto(j) = {} THEN "ready" ELSE "pending",
                   !.available_at = now,
                   !.remaining = Cardinality(EdgesInto(j))]]
      roots == {j \in JobsOf(d) : new[j].state = "ready"}
  IN /\ d \notin dags
     /\ Cardinality(dags) < MaxDags
     /\ HeapLen(ready) + Cardinality(roots) <= MaxReadyJobs
     /\ dags' = dags \cup {d}
     /\ jobs' = [j \in Jobs |-> IF DagOf[j] = d THEN new[j] ELSE jobs[j]]
     /\ ready' = ready (+) Keys(roots, new)
     /\ UNCHANGED <<now, sequence, claims>>

-----------------------------------------------------------------------------
deterministic_jitter(j, ceiling) == IF ceiling <= 0 THEN 0 ELSE Hash[j] % ceiling

RetryDelay(j, a) == Backoff(a) + deterministic_jitter(j, Backoff(a) \div 5)

\* Mutant: one attempt too many.
LapsedLate(j) ==
  LET r == jobs[j]
      spent == r.attempts > MaxAttempts[j]
  IN [r EXCEPT !.state = IF spent THEN "dead_lettered" ELSE "retry_wait",
               !.available_at = IF spent THEN @ ELSE now + RetryDelay(j, r.attempts),
               !.lease = Null]

\* retry_or_dead_letter: the record of j after its lease ended without success.
Lapsed(j) ==
  LET r == jobs[j]
      spent == r.attempts >= MaxAttempts[j]
  IN [r EXCEPT !.state = IF spent THEN "dead_lettered" ELSE "retry_wait",
               !.available_at = IF spent THEN @ ELSE now + RetryDelay(j, r.attempts),
               !.lease = Null]

\* The records and the heap after the leases of the jobs in S have lapsed.
LapsedJobs(S) == [j \in Jobs |-> IF j \in S THEN Lapsed(j) ELSE jobs[j]]

\* Mutant: the key has the availability of the attempt that lapsed.
LapsedReadyEarly(S) ==
  ready (+) Keys({j \in S : Lapsed(j).state = "retry_wait"}, jobs)

LapsedReady(S) ==
  ready (+) Keys({j \in S : Lapsed(j).state = "retry_wait"}, LapsedJobs(S))

Expired == {j \in Jobs : /\ jobs[j].state = "leased" /\ jobs[j].lease # Null
                         /\ jobs[j].lease.expires <= now}

reap ==
  /\ Expired # {}
  /\ jobs' = LapsedJobs(Expired)
  /\ ready' = LapsedReady(Expired)
  /\ UNCHANGED <<now, dags, sequence, claims>>

-----------------------------------------------------------------------------
\* claim: reap, then pop due keys until one matches its job.

\* The keys of heap h that are due, and those of them that match.
Due(h) == {k \in BagToSet(h) : k.available_at <= now}
Matching(h, recs) == {k \in Due(h) : Matches(k, recs)}

\* Mutant: the key that is taken stays in the heap.
PoppedBefore(h, k) == h (-) [l \in {x \in BagToSet(h) : Before(x, k)} |-> h[l]]

\* The heap after popping the key k and every key before it.
PoppedThrough(h, k) ==
  h (-) [l \in {x \in BagToSet(h) : x = k \/ Before(x, k)} |-> IF l = k THEN 1 ELSE h[l]]

\* Mutant: the counter is not advanced.
SameSequence == 1

NextSequence == Least(sequence + 1, MaxSequence)

claim(owner, len) ==
  LET recs == LapsedJobs(Expired)
      heap == LapsedReady(Expired)
  IN \E k \in Matching(heap, recs) :
       /\ \A l \in Matching(heap, recs) \ {k} : Before(k, l)
       /\ sequence' = NextSequence
       /\ LET j == k.job
              token == <<j, NextSequence>>
          IN /\ jobs' = [recs EXCEPT ![j] =
                           [recs[j] EXCEPT !.state = "leased",
                                           !.attempts = recs[j].attempts + 1,
                                           !.lease = [owner |-> owner, token |-> token,
                                                      expires |-> now + len]]]
             /\ claims' = claims \cup {[job |-> j, owner |-> owner, token |-> token,
                                          attempt |-> recs[j].attempts + 1]}
       /\ ready' = PoppedThrough(heap, k)
       /\ UNCHANGED <<now, dags>>

\* No due key matches: claim returns None, having reaped and popped all of them.
ClaimNothing ==
  LET recs == LapsedJobs(Expired)
      heap == LapsedReady(Expired)
  IN /\ Matching(heap, recs) = {}
     /\ jobs' = recs
     /\ ready' = heap (-) [k \in Due(heap) |-> heap[k]]
     /\ UNCHANGED <<now, dags, sequence, claims>>

-----------------------------------------------------------------------------
\* assert_lease: the caller holds the live lease of the job it names.
HoldsLease(c, owner) ==
  /\ jobs[c.job].state = "leased" /\ jobs[c.job].lease # Null
  /\ jobs[c.job].lease.owner = owner
  /\ jobs[c.job].lease.token = c.token
  /\ jobs[c.job].lease.expires > now

heartbeat(c, owner, len) ==
  /\ HoldsLease(c, owner)
  /\ jobs' = [jobs EXCEPT ![c.job].lease.expires = now + len]
  /\ UNCHANGED <<now, dags, ready, sequence, claims>>

\* Mutant: a repeated edge counts once.
NotifiedOnce(j, c) ==
  LET edges == {i \in EdgesInto(c) : Edges[i][1] = j}
      left == Greatest(0, jobs[c].remaining - (IF edges = {} THEN 0 ELSE 1))
      release == edges # {} /\ left = 0 /\ jobs[c].state = "pending"
  IN [jobs[c] EXCEPT !.remaining = left,
                     !.state = IF release THEN "ready" ELSE @,
                     !.available_at = IF release THEN now ELSE @]

\* One dependency less for every edge from j to c; the last one releases c.
Notified(j, c) ==
  LET edges == {i \in EdgesInto(c) : Edges[i][1] = j}
      left == Greatest(0, jobs[c].remaining - Cardinality(edges))
      release == edges # {} /\ left = 0 /\ jobs[c].state = "pending"
  IN [jobs[c] EXCEPT !.remaining = left,
                     !.state = IF release THEN "ready" ELSE @,
                     !.available_at = IF release THEN now ELSE @]

\* Mutant: the wrong field.
SucceededByOwner(c) ==
  [jobs[c.job] EXCEPT !.state = "succeeded", !.lease = Null, !.result = c.owner]

SucceededRecord(c) ==
  [jobs[c.job] EXCEPT !.state = "succeeded", !.lease = Null, !.result = c.token]

complete(c, owner) ==
  /\ HoldsLease(c, owner)
  /\ jobs' = [k \in Jobs |->
                IF k = c.job
                THEN SucceededRecord(c)
                ELSE Notified(c.job, k)]
  /\ ready' = ready (+)
       Keys({k \in Children(c.job) : jobs[k].state = "pending" /\ jobs'[k].state = "ready"}, jobs')
  /\ UNCHANGED <<now, dags, sequence, claims>>

fail(c, owner) ==
  /\ HoldsLease(c, owner)
  /\ jobs' = LapsedJobs({c.job})
  /\ ready' = LapsedReady({c.job})
  /\ UNCHANGED <<now, dags, sequence, claims>>

cancel(d) ==
  /\ d \in dags
  /\ jobs' = [j \in Jobs |->
                IF DagOf[j] = d /\ jobs[j].state \notin Terminal
                THEN [jobs[j] EXCEPT !.state = "cancelled", !.lease = Null]
                ELSE jobs[j]]
  /\ UNCHANGED <<now, dags, ready, sequence, claims>>

\* The next caller's clock: any value, also an earlier one.
Tick == now' \in Times /\ UNCHANGED <<dags, jobs, ready, sequence, claims>>

-----------------------------------------------------------------------------
Init ==
  /\ now \in Times
  /\ dags = {}
  /\ jobs = [j \in Jobs |-> AbsentRecord]
  /\ ready = EmptyBag
  /\ sequence = 0
  /\ claims = {}

\* A worker may call under any claim it was ever given: late, twice, or under
\* another worker's name.
Next ==
  \/ \E d \in Dags : submit(d) \/ cancel(d)
  \/ \E owner \in Owners, len \in LeaseLengths : claim(owner, len)
  \/ ClaimNothing
  \/ \E c \in claims, owner \in Owners :
       \/ complete(c, owner)
       \/ fail(c, owner)
       \/ \E len \in LeaseLengths : heartbeat(c, owner, len)
  \/ reap
  \/ Tick

Spec == Init /\ [][Next]_vars

-----------------------------------------------------------------------------
\* Type invariant of the scheduler.
TypeOK ==
  /\ now \in Nat
  /\ dags \subseteq Dags
  /\ jobs \in [Jobs -> JobRecord]
  /\ IsABag(ready) /\ DOMAIN ready \subseteq ReadyKey
  /\ sequence \in 0..MaxSequence
  /\ claims \subseteq Claim

\* The heap is exact: a waiting job has its matching key in the heap once, and
\* any other key in the heap is left over from a job that was cancelled.  So
\* claim never misses a job and never leases one twice.
ReadyExact ==
  /\ \A j \in Jobs : jobs[j].state \in Waiting =>
       LET key == [available_at |-> jobs[j].available_at, job |-> j]
       IN BagIn(key, ready) /\ ready[key] = 1
  /\ \A k \in BagToSet(ready) :
       Matches(k, jobs) \/ jobs[k.job].state = "cancelled"

\* The keys that submit entered and no claim has popped: those of jobs without
\* dependencies that were never attempted, cancelled ones included.
AdmittedKeys ==
  {k \in BagToSet(ready) : EdgesInto(k.job) = {} /\ jobs[k.job].attempts = 0}

\* max_ready_jobs limits what submissions put into the heap, although cancelled
\* jobs leave their keys in it; releases and retries, which do not check the
\* limit, go past it.  The heap is bounded all the same: it holds no key twice, and
\* no more keys than there are jobs that wait or were cancelled, however often
\* jobs retry.
HeapBounded ==
  /\ Cardinality(AdmittedKeys) <= MaxReadyJobs
  /\ \A k \in BagToSet(ready) : ready[k] = 1
  /\ Cardinality(BagToSet(ready)) <=
       Cardinality({j \in Jobs : jobs[j].state \in Waiting \cup {"cancelled"}})

\* The dependency counter of an admitted job counts its edges from parents that
\* have not succeeded, also when the request repeats an edge.
RemainingExact ==
  \A j \in Jobs : jobs[j].state # "absent" =>
    jobs[j].remaining =
      Cardinality({i \in EdgesInto(j) : jobs[Edges[i][1]].state # "succeeded"})

\* A child is released with the success of its last parent: none waits for
\* parents that have all succeeded.
NoStrandedChild ==
  \A j \in Jobs : jobs[j].state = "pending" =>
    \E p \in Parents(j) : jobs[p].state # "succeeded"

\* No two claims share a token; the live lease of a job is that of its latest
\* claim, and a result was accepted under the latest claim only, however late or
\* often workers call under earlier ones.
Fenced ==
  /\ \A c, e \in claims : c.token = e.token => c = e
  /\ \A j \in Jobs :
       /\ jobs[j].lease # Null =>
            \E c \in claims : /\ c.job = j /\ c.attempt = jobs[j].attempts
                              /\ c.token = jobs[j].lease.token
                              /\ c.owner = jobs[j].lease.owner
       /\ jobs[j].state = "succeeded" =>
            \E c \in claims : /\ c.job = j /\ c.attempt = jobs[j].attempts
                              /\ c.token = jobs[j].result

\* Claims follow the order of the queue: a job that has been due for longer is
\* not overtaken, however many stale keys claim has to pop on the way.
ClaimsOldest ==
  [][\A j, k \in Jobs :
       /\ jobs[j].state \in Waiting /\ jobs'[j].state = "leased"
       /\ jobs[k].state \in Waiting
       => jobs[j].available_at <= jobs[k].available_at]_vars

\* A claim takes a job of the highest priority among the jobs that are due.
ClaimsHighestPriority ==
  [][\A j, k \in Jobs :
       /\ jobs[j].state \in Waiting /\ jobs'[j].state = "leased"
       /\ jobs[k].state \in Waiting /\ jobs[k].available_at <= now
       => Priority[j] >= Priority[k]]_vars

\* The scheduler implements the same abstract life cycle as the store.
LifecycleOf(r) ==
  [state |-> r.state, attempts |-> r.attempts,
   token |-> IF r.lease = Null THEN Null ELSE r.lease.token, result |-> r.result]

Abstract == INSTANCE Lifecycle WITH
  job <- [j \in Jobs |-> LifecycleOf(jobs[j])],
  granted <- {c.token : c \in claims}

ImplementsLifecycle == Abstract!Spec
=============================================================================
