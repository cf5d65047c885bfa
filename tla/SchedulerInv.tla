---------------------------- MODULE SchedulerInv ----------------------------
(***************************************************************************)
(* The inductive invariant of the in-memory scheduler.                     *)
(***************************************************************************)
EXTENDS Scheduler

\* The key under which push_ready enters job j of the records recs.
KeyOf(j, recs) == [available_at |-> recs[j].available_at, job |-> j]

\* The keys of heap h are those of the waiting jobs of recs, and left-over keys
\* of cancelled jobs; each key occurs once, and each job has one key at most.
HeapFits(h, recs) ==
  /\ IsABag(h) /\ DOMAIN h \subseteq ReadyKey
  /\ \A k \in DOMAIN h : h[k] = 1
  /\ \A k, l \in DOMAIN h : k.job = l.job => k = l
  /\ \A k \in DOMAIN h : Matches(k, recs) \/ recs[k.job].state = "cancelled"
  /\ \A j \in Jobs : recs[j].state \in Waiting => KeyOf(j, recs) \in DOMAIN h

HeapExact == HeapFits(ready, jobs)

\* A DAG is admitted as a whole.
Admitted == \A j \in Jobs : jobs[j].state = "absent" <=> DagOf[j] \notin dags

\* A job is pending while its counter is positive, and has run only at zero.
CounterDecides ==
  \A j \in Jobs :
    /\ jobs[j].state = "pending" => jobs[j].remaining > 0
    /\ jobs[j].state \in {"ready", "retry_wait", "leased", "succeeded", "dead_lettered"} =>
         jobs[j].remaining = 0

WithinBudget ==
  \A j \in Jobs :
    /\ jobs[j].attempts <= MaxAttempts[j]
    /\ jobs[j].state \in Waiting => jobs[j].attempts < MaxAttempts[j]
    /\ jobs[j].state \in {"absent", "pending"} => jobs[j].attempts = 0

LeaseIffLeased == \A j \in Jobs : jobs[j].lease # Null <=> jobs[j].state = "leased"

\* Each claim is an attempt of its own, and the counter counts the claims.
ClaimsCounted ==
  /\ IsFiniteSet(claims) /\ Cardinality(claims) = sequence
  /\ \A c \in claims : /\ c.attempt \in 1..jobs[c.job].attempts
                       /\ \E s \in 1..sequence : c.token = <<c.job, s>>
  /\ \A c, e \in claims : c.job = e.job /\ c.attempt = e.attempt => c = e

\* The inductive invariant of the scheduler: types, the heap and the records it
\* names, dependency counters, attempt budgets, and one claim per attempt.
SchedInv ==
  /\ TypeOK /\ HeapExact /\ Admitted /\ RemainingExact /\ CounterDecides
  /\ WithinBudget /\ LeaseIffLeased /\ ClaimsCounted /\ Fenced
=============================================================================
