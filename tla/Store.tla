------------------------------- MODULE Store -------------------------------
(***************************************************************************)
(* PostgresStore: the durable control plane.  Every operation is one       *)
(* PostgreSQL transaction at the default READ COMMITTED level, run by a    *)
(* session (a pooled connection of the HTTP server).  A session executes   *)
(* its statements one after the other:                                     *)
(*                                                                         *)
(*   - a statement selects its rows from what is committed when it starts, *)
(*     together with the session's own writes;                             *)
(*   - an UPDATE then visits these rows one by one, waits for the session  *)
(*     that has locked a row, and once it has the lock evaluates the       *)
(*     conditions on the row's own columns again on the latest version     *)
(*     (subqueries keep the statement's snapshot);                         *)
(*   - CURRENT_TIMESTAMP is the start of the transaction, whenever the     *)
(*     statement runs and whenever the transaction commits.                *)
(*                                                                         *)
(* wr[s] holds the row versions session s has written and not committed;   *)
(* its domain is the set of rows s has locked.  A row whose conditions no  *)
(* longer hold stays locked and is written unchanged.                      *)
(*                                                                         *)
(* Definitions introduced by "Mutant:" are plausible mistakes in the code. *)
(* No specification uses them; each one, put in the place of the definition*)
(* that follows it, makes a property fail.                                 *)
(***************************************************************************)
EXTENDS JobGraph

CONSTANTS
  Sessions,      \* concurrent database sessions
  LeaseLengths,  \* lease durations that callers ask for
  MaxTime        \* bound on the clock

ASSUME LeaseAssumption == LeaseLengths \subseteq Nat \ {0}
ASSUME TimeAssumption == MaxTime \in Nat

VARIABLES
  now,      \* database clock
  dags,     \* table dags: "absent", "running" or "cancelled"
  jobs,     \* table jobs (committed rows)
  events,   \* table job_events, by job, in order of insertion
  claims,   \* every ClaimedJob ever returned to a worker
  op,       \* operation the session executes
  arg,      \* its argument: a DAG, an owner or the claim it acts under
  pc,       \* the step the session has reached
  ts,       \* CURRENT_TIMESTAMP of the session's transaction
  todo,     \* rows the current statement has still to visit, in its order
  wr        \* uncommitted row versions, by session

tables == <<dags, jobs, events, claims>>
vars == <<now, dags, jobs, events, claims, op, arg, pc, ts, todo, wr>>

Row == [state : JobState, attempts : Nat, available_at : Nat,
        lease : Lease \cup {Null}, result : Tokens \cup {Null}]

Claim == [job : Jobs, owner : Owners, token : Tokens, attempt : Nat]

Event == [type : {"claimed", "succeeded", "retry_wait", "dead_lettered"},
          attempt : Nat]

AbsentRow == [state |-> "absent", attempts |-> 0, available_at |-> 0,
              lease |-> Null, result |-> Null]

NoWrites == [j \in {} |-> AbsentRow]

-----------------------------------------------------------------------------
\* Sessions, snapshots and row locks

\* The rows as session s sees them at this moment.
View(s) == [j \in Jobs |-> IF j \in DOMAIN wr[s] THEN wr[s][j] ELSE jobs[j]]

\* Mutant: rows are not locked.
IgnoredLocks(s, j) == FALSE

LockedByOther(s, j) == \E t \in Sessions \ {s} : j \in DOMAIN wr[t]

\* Session t has inserted or updated the dags row of d and not committed.
HoldsDag(t, d) ==
  /\ op[t] \in {"submit", "cancel"}
  /\ arg[t] = d
  /\ pc[t] \notin {"insert_dag", "cancel_dag"}

Write(s, j, r) ==
  [wr EXCEPT ![s] = [k \in DOMAIN wr[s] \cup {j} |-> IF k = j THEN r ELSE wr[s][k]]]

Begin(s, o, a, first) ==
  /\ pc[s] = "idle"
  /\ op' = [op EXCEPT ![s] = o]
  /\ arg' = [arg EXCEPT ![s] = a]
  /\ pc' = [pc EXCEPT ![s] = first]
  /\ ts' = [ts EXCEPT ![s] = now]
  /\ UNCHANGED <<now, tables, todo, wr>>

\* An UPDATE starts: it will visit the given rows, in any physical order.
Open(s, rows, step) ==
  /\ pc' = [pc EXCEPT ![s] = step]
  /\ \E q \in SetToSeqs(rows) : todo' = [todo EXCEPT ![s] = q]
  /\ UNCHANGED <<now, tables, op, arg, ts, wr>>

\* The UPDATE obtains the lock of its next row and replaces the row if it
\* still satisfies the statement's conditions.
Visit(s, Matches(_, _), New(_, _)) ==
  /\ todo[s] # <<>>
  /\ LET j == Head(todo[s])
         r == View(s)[j]
     IN /\ ~LockedByOther(s, j)
        /\ wr' = Write(s, j, IF Matches(s, r) THEN New(s, j) ELSE r)
  /\ todo' = [todo EXCEPT ![s] = Tail(@)]
  /\ UNCHANGED <<now, tables, op, arg, pc, ts>>

\* The transaction ends and the session returns to the pool.
End(s) ==
  /\ op' = [op EXCEPT ![s] = "none"]
  /\ arg' = [arg EXCEPT ![s] = Null]
  /\ pc' = [pc EXCEPT ![s] = "idle"]
  /\ ts' = [ts EXCEPT ![s] = 0]
  /\ todo' = [todo EXCEPT ![s] = <<>>]
  /\ wr' = [wr EXCEPT ![s] = NoWrites]
  /\ UNCHANGED now

\* ROLLBACK: nothing of the transaction is visible to anyone.
Rollback(s) == End(s) /\ UNCHANGED tables

-----------------------------------------------------------------------------
\* submit: INSERT the DAG, its jobs, its dependencies

SubmitBegin(s) == \E d \in Dags : Begin(s, "submit", d, "insert_dag")

\* The primary key makes the insertion wait for a concurrent one.
InsertDag(s) ==
  /\ pc[s] = "insert_dag"
  /\ \A t \in Sessions \ {s} : ~HoldsDag(t, arg[s])
  /\ dags[arg[s]] = "absent"
  /\ pc' = [pc EXCEPT ![s] = "insert_jobs"]
  /\ UNCHANGED <<now, tables, op, arg, ts, todo, wr>>

\* Mutant: the insertion does not wait for a concurrent one.
DuplicateDagAtOnce(s) ==
  /\ pc[s] = "insert_dag"
  /\ dags[arg[s]] # "absent" \/ \E t \in Sessions \ {s} : HoldsDag(t, arg[s])
  /\ Rollback(s)

\* Unique violation on dags: the id exists.
DuplicateDag(s) ==
  /\ pc[s] = "insert_dag"
  /\ \A t \in Sessions \ {s} : ~HoldsDag(t, arg[s])
  /\ dags[arg[s]] # "absent"
  /\ Rollback(s)

RepeatedEdge(d) ==
  \E i, k \in DOMAIN Edges : i # k /\ Edges[i] = Edges[k] /\ DagOf[Edges[i][1]] = d

\* New rows, available from the start of the transaction.
InsertJobs(s) ==
  /\ pc[s] = "insert_jobs"
  /\ ~RepeatedEdge(arg[s])
  /\ wr' = [wr EXCEPT ![s] = [j \in JobsOf(arg[s]) |->
              [AbsentRow EXCEPT
                 !.state = IF EdgesInto(j) = {} THEN "ready" ELSE "pending",
                 !.available_at = ts[s]]]]
  /\ pc' = [pc EXCEPT ![s] = "inserted"]
  /\ UNCHANGED <<now, tables, op, arg, ts, todo>>

\* Mutant: the DAG was inserted outside the transaction.
DuplicateEdgeKeepsDag(s) ==
  /\ pc[s] = "insert_jobs"
  /\ RepeatedEdge(arg[s])
  /\ dags' = [dags EXCEPT ![arg[s]] = "running"]
  /\ End(s)
  /\ UNCHANGED <<jobs, events, claims>>

\* Unique violation on job_dependencies: an edge is repeated in the request.
DuplicateEdge(s) ==
  /\ pc[s] = "insert_jobs"
  /\ RepeatedEdge(arg[s])
  /\ Rollback(s)

-----------------------------------------------------------------------------
\* reap_in_transaction, on its own or as the first statement of claim

Expired(s, r) == r.state = "leased" /\ r.lease # Null /\ r.lease.expires <= ts[s]

\* Mutant: one attempt too many.
LapsedLate(s, j) ==
  LET r == View(s)[j]
      spent == r.attempts > MaxAttempts[j]
  IN [r EXCEPT !.state = IF spent THEN "dead_lettered" ELSE "retry_wait",
               !.available_at = IF spent THEN @ ELSE ts[s] + Backoff(r.attempts),
               !.lease = Null]

\* The row after its lease ended without success (SET clause of fail and reap).
LapsedRow(s, j) ==
  LET r == View(s)[j]
      spent == r.attempts >= MaxAttempts[j]
  IN [r EXCEPT !.state = IF spent THEN "dead_lettered" ELSE "retry_wait",
               !.available_at = IF spent THEN @ ELSE ts[s] + Backoff(r.attempts),
               !.lease = Null]

ReapBegin(s) == Begin(s, "reap", Null, "reap")

StartReap(s) ==
  /\ pc[s] = "reap"
  /\ Open(s, {j \in Jobs : Expired(s, jobs[j])}, "reaping")

ReapRow(s) == pc[s] = "reaping" /\ Visit(s, Expired, LapsedRow)

-----------------------------------------------------------------------------
\* claim: reap, then lease one eligible job

ClaimBegin(s) == \E o \in Owners : Begin(s, "claim", o, "reap")

\* Mutant: the state filter is missing.
ClaimableAny(s, r) == r.state # "absent" /\ r.available_at <= ts[s]

Claimable(s, r) == r.state \in Waiting /\ r.available_at <= ts[s]

\* Mutant: one succeeded parent is enough.
SomeParentSucceeded(s, j) ==
  Parents(j) = {} \/ \E p \in Parents(j) : View(s)[p].state = "succeeded"

\* Mutant: the transaction does not see its own success.
CommittedParentsSucceeded(s, j) == \A p \in Parents(j) : jobs[p].state = "succeeded"

ParentsSucceeded(s, j) == \A p \in Parents(j) : View(s)[p].state = "succeeded"

Eligible(s) ==
  {j \in Jobs : /\ Claimable(s, View(s)[j])
                /\ dags[DagOf[j]] = "running"
                /\ ParentsSucceeded(s, j)}

\* ORDER BY priority DESC, available_at, dag_id, id
Precedes(s, j, k) ==
  \/ Priority[j] > Priority[k]
  \/ /\ Priority[j] = Priority[k]
     /\ \/ View(s)[j].available_at < View(s)[k].available_at
        \/ /\ View(s)[j].available_at = View(s)[k].available_at
           /\ IdRank[j] < IdRank[k]

SelectCandidates(s) ==
  /\ op[s] = "claim" /\ pc[s] = "reaping" /\ todo[s] = <<>>
  /\ pc' = [pc EXCEPT ![s] = "selecting"]
  /\ \E q \in SetToSeqs(Eligible(s)) :
       /\ \A m, n \in DOMAIN q : m < n => Precedes(s, q[m], q[n])
       /\ todo' = [todo EXCEPT ![s] = q]
  /\ UNCHANGED <<now, tables, op, arg, ts, wr>>

\* Tokens that a lease carries or carried; a new UUID is none of them.
UsedTokens ==
  {c.token : c \in claims \cup {arg[t] : t \in {x \in Sessions : pc[x] = "claimed"}}}

\* Mutant: a token that may have been used.
FixedToken == CHOOSE t \in Tokens : TRUE

FreshToken == CHOOSE t \in Tokens : t \notin UsedTokens

\* SKIP LOCKED passes over a row that another session has locked.
SkipLocked(s) ==
  /\ pc[s] = "selecting" /\ todo[s] # <<>>
  /\ LockedByOther(s, Head(todo[s]))
  /\ todo' = [todo EXCEPT ![s] = Tail(@)]
  /\ UNCHANGED <<now, tables, op, arg, pc, ts, wr>>

\* The candidate changed since the snapshot and no longer qualifies.
RejectCandidate(s) ==
  /\ pc[s] = "selecting" /\ todo[s] # <<>>
  /\ LET j == Head(todo[s])
     IN /\ ~LockedByOther(s, j)
        /\ ~Claimable(s, View(s)[j])
        /\ wr' = Write(s, j, View(s)[j])
  /\ todo' = [todo EXCEPT ![s] = Tail(@)]
  /\ UNCHANGED <<now, tables, op, arg, pc, ts>>

\* LIMIT 1: the first candidate that qualifies is leased.
TakeCandidate(s) ==
  /\ pc[s] = "selecting" /\ todo[s] # <<>>
  /\ Tokens \ UsedTokens # {}
  /\ LET j == Head(todo[s])
         r == View(s)[j]
     IN /\ ~LockedByOther(s, j)
        /\ Claimable(s, r)
        /\ \E len \in LeaseLengths :
             wr' = Write(s, j,
                     [r EXCEPT !.state = "leased",
                               !.attempts = @ + 1,
                               !.lease = [owner |-> arg[s], token |-> FreshToken,
                                          expires |-> ts[s] + len]])
        /\ arg' = [arg EXCEPT ![s] = [job |-> j, owner |-> arg[s],
                                      token |-> FreshToken,
                                      attempt |-> r.attempts + 1]]
  /\ pc' = [pc EXCEPT ![s] = "claimed"]
  /\ todo' = [todo EXCEPT ![s] = <<>>]
  /\ UNCHANGED <<now, tables, op, ts>>

-----------------------------------------------------------------------------
\* heartbeat, complete, fail: compare and set under a lease

\* A worker may call under any claim it was ever given: late, twice, or under
\* another worker's name.
LeaseCallBegin(s, o) ==
  \E c \in claims, w \in Owners : Begin(s, o, [c EXCEPT !.owner = w], "cas")

HeartbeatBegin(s) == LeaseCallBegin(s, "heartbeat")
CompleteBegin(s) == LeaseCallBegin(s, "complete")
FailBegin(s) == LeaseCallBegin(s, "fail")

\* Mutant: the token is not compared.
HoldsAnyLease(s, r) ==
  /\ r.state = "leased" /\ r.lease # Null
  /\ r.lease.owner = arg[s].owner
  /\ r.lease.expires > ts[s]

HoldsLease(s, r) ==
  /\ r.state = "leased" /\ r.lease # Null
  /\ r.lease.owner = arg[s].owner
  /\ r.lease.token = arg[s].token
  /\ r.lease.expires > ts[s]

StartCas(s) ==
  /\ pc[s] = "cas"
  /\ HoldsLease(s, jobs[arg[s].job])
  /\ Open(s, {arg[s].job}, "casing")

\* Mutant: a lease lost while waiting for the row lock goes unnoticed.
LeaseConflictAtOnce(s) ==
  /\ pc[s] = "cas"
  /\ ~HoldsLease(s, jobs[arg[s].job])
  /\ Rollback(s)

\* rows_affected() = 0: no such lease in the snapshot, or none any more when
\* the row lock is obtained.
LeaseConflict(s) ==
  /\ \/ pc[s] = "cas"
     \/ pc[s] = "casing" /\ ~LockedByOther(s, arg[s].job)
  /\ ~HoldsLease(s, jobs[arg[s].job])
  /\ Rollback(s)

\* Mutant: the wrong column.
SucceededByOwner(s, j) ==
  [View(s)[j] EXCEPT !.state = "succeeded", !.result = arg[s].owner, !.lease = Null]

SucceededRow(s, j) ==
  [View(s)[j] EXCEPT !.state = "succeeded", !.result = arg[s].token, !.lease = Null]

\* The compare-and-set succeeds: the row gets the version new.
Cas(s, o, new) ==
  /\ op[s] = o /\ pc[s] = "casing"
  /\ ~LockedByOther(s, arg[s].job)
  /\ HoldsLease(s, jobs[arg[s].job])
  /\ wr' = Write(s, arg[s].job, new)
  /\ pc' = [pc EXCEPT ![s] = "updated"]
  /\ todo' = [todo EXCEPT ![s] = <<>>]
  /\ UNCHANGED <<now, tables, op, arg, ts>>

HeartbeatRow(s) ==
  \E len \in LeaseLengths :
    Cas(s, "heartbeat", [jobs[arg[s].job] EXCEPT !.lease.expires = ts[s] + len])

CompleteRow(s) == Cas(s, "complete", SucceededRow(s, arg[s].job))

FailRow(s) == Cas(s, "fail", LapsedRow(s, arg[s].job))

-----------------------------------------------------------------------------
\* complete, second statement: release children whose parents all succeeded

IsPending(s, r) == r.state = "pending"

ReleasedRow(s, j) == [View(s)[j] EXCEPT !.state = "ready", !.available_at = ts[s]]

StartRelease(s) ==
  /\ op[s] = "complete" /\ pc[s] = "updated"
  /\ Open(s, {c \in Children(arg[s].job) :
                View(s)[c].state = "pending" /\ ParentsSucceeded(s, c)}, "releasing")

ReleaseRow(s) == pc[s] = "releasing" /\ Visit(s, IsPending, ReleasedRow)

-----------------------------------------------------------------------------
\* cancel: UPDATE the DAG, then its unfinished jobs

CancelBegin(s) == \E d \in Dags : Begin(s, "cancel", d, "cancel_dag")

CancelDag(s) ==
  /\ pc[s] = "cancel_dag"
  /\ dags[arg[s]] # "absent"
  /\ \A t \in Sessions \ {s} : ~HoldsDag(t, arg[s])
  /\ pc' = [pc EXCEPT ![s] = "cancel_jobs"]
  /\ UNCHANGED <<now, tables, op, arg, ts, todo, wr>>

DagNotFound(s) ==
  /\ pc[s] = "cancel_dag"
  /\ dags[arg[s]] = "absent"
  /\ Rollback(s)

\* Mutant: no second look at the row once it is locked.
AssumedUnfinished(s, r) == TRUE

\* Mutant: running jobs are spared.
UnfinishedIdle(s, r) == r.state \notin Terminal \cup {"leased"}

Unfinished(s, r) == r.state \notin Terminal

\* Mutant: the lease columns stay.
CancelledHolding(s, j) == [View(s)[j] EXCEPT !.state = "cancelled"]

CancelledRow(s, j) == [View(s)[j] EXCEPT !.state = "cancelled", !.lease = Null]

StartCancelJobs(s) ==
  /\ pc[s] = "cancel_jobs"
  /\ Open(s, {j \in JobsOf(arg[s]) : jobs[j].state \notin Terminal}, "cancelling")

CancelRow(s) == pc[s] = "cancelling" /\ Visit(s, Unfinished, CancelledRow)

-----------------------------------------------------------------------------
\* COMMIT, failures, time

\* The last statement of the operation is done.
Finished(s) ==
  /\ todo[s] = <<>>
  /\ <<op[s], pc[s]>> \in
       {<<"submit", "inserted">>, <<"reap", "reaping">>, <<"claim", "selecting">>,
        <<"claim", "claimed">>, <<"heartbeat", "updated">>, <<"fail", "updated">>,
        <<"complete", "releasing">>, <<"cancel", "cancelling">>}

\* Mutant: the event tells the attempt before the claim.
EventsBeforeClaim(s, j) ==
  IF /\ \/ pc[s] = "claimed"
        \/ op[s] \in {"complete", "fail"}
     /\ arg[s].job = j
  THEN <<[type |-> IF op[s] = "claim" THEN "claimed" ELSE wr[s][j].state,
          attempt |-> jobs[j].attempts]>>
  ELSE <<>>

\* The event the transaction inserted, if its operation records one.
NewEvents(s, j) ==
  IF /\ \/ pc[s] = "claimed"
        \/ op[s] \in {"complete", "fail"}
     /\ arg[s].job = j
  THEN <<[type |-> IF op[s] = "claim" THEN "claimed" ELSE wr[s][j].state,
          attempt |-> wr[s][j].attempts]>>
  ELSE <<>>

Commit(s) ==
  /\ Finished(s)
  /\ dags' = [d \in Dags |->
                IF op[s] \in {"submit", "cancel"} /\ arg[s] = d
                THEN IF op[s] = "submit" THEN "running" ELSE "cancelled"
                ELSE dags[d]]
  /\ jobs' = View(s)
  /\ events' = [j \in Jobs |-> events[j] \o NewEvents(s, j)]
  /\ claims' = IF pc[s] = "claimed" THEN claims \cup {arg[s]} ELSE claims
  /\ End(s)

\* The process or its connection dies, or the pool gives the transaction up.
Abort(s) == pc[s] # "idle" /\ Rollback(s)

WaitsFor(s, t) ==
  /\ s # t
  /\ pc[s] \in {"reaping", "casing", "releasing", "cancelling"}
  /\ todo[s] # <<>>
  /\ Head(todo[s]) \in DOMAIN wr[t]

\* The deadlock detector cancels a session of a cycle of waiting sessions.
DeadlockAbort(s) ==
  /\ \E C \in SUBSET Sessions :
       /\ s \in C
       /\ \A x \in C : (\E y \in C : WaitsFor(x, y)) /\ (\E y \in C : WaitsFor(y, x))
  /\ Rollback(s)

Tick ==
  /\ now < MaxTime
  /\ now' = now + 1
  /\ UNCHANGED <<tables, op, arg, pc, ts, todo, wr>>

-----------------------------------------------------------------------------
Init ==
  /\ now = 0
  /\ dags = [d \in Dags |-> "absent"]
  /\ jobs = [j \in Jobs |-> AbsentRow]
  /\ events = [j \in Jobs |-> <<>>]
  /\ claims = {}
  /\ op = [s \in Sessions |-> "none"]
  /\ arg = [s \in Sessions |-> Null]
  /\ pc = [s \in Sessions |-> "idle"]
  /\ ts = [s \in Sessions |-> 0]
  /\ todo = [s \in Sessions |-> <<>>]
  /\ wr = [s \in Sessions |-> NoWrites]

\* A client calls an operation.
Call(s) ==
  \/ SubmitBegin(s) \/ ClaimBegin(s) \/ ReapBegin(s) \/ CancelBegin(s)
  \/ HeartbeatBegin(s) \/ CompleteBegin(s) \/ FailBegin(s)

\* The session makes progress with the operation it executes.
Step(s) ==
  \/ InsertDag(s) \/ DuplicateDag(s) \/ InsertJobs(s) \/ DuplicateEdge(s)
  \/ StartReap(s) \/ ReapRow(s)
  \/ SelectCandidates(s) \/ SkipLocked(s) \/ RejectCandidate(s) \/ TakeCandidate(s)
  \/ StartCas(s) \/ LeaseConflict(s)
  \/ HeartbeatRow(s) \/ CompleteRow(s) \/ FailRow(s)
  \/ StartRelease(s) \/ ReleaseRow(s)
  \/ CancelDag(s) \/ DagNotFound(s) \/ StartCancelJobs(s) \/ CancelRow(s)
  \/ Commit(s) \/ DeadlockAbort(s)

Next ==
  \/ Tick
  \/ \E s \in Sessions : Call(s) \/ Step(s) \/ Abort(s)

Spec == Init /\ [][Next]_vars

\* A session that can infinitely often continue does continue: PostgreSQL
\* hands a row lock to the waiting sessions in the order of their arrival, and
\* its deadlock detector always resolves a cycle.  Nothing forces a client to
\* call, a session to die, or the clock to advance.
FairSpec == Spec /\ \A s \in Sessions : SF_vars(Step(s))

-----------------------------------------------------------------------------
\* The steps an operation goes through.
Steps ==
  [none      |-> {"idle"},
   submit    |-> {"insert_dag", "insert_jobs", "inserted"},
   reap      |-> {"reap", "reaping"},
   claim     |-> {"reap", "reaping", "selecting", "claimed"},
   heartbeat |-> {"cas", "casing", "updated"},
   fail      |-> {"cas", "casing", "updated"},
   complete  |-> {"cas", "casing", "updated", "releasing"},
   cancel    |-> {"cancel_dag", "cancel_jobs", "cancelling"}]

ArgOK(s) ==
  /\ op[s] \in {"none", "reap"} => arg[s] = Null
  /\ op[s] \in {"submit", "cancel"} => arg[s] \in Dags
  /\ op[s] = "claim" =>
       IF pc[s] = "claimed" THEN arg[s] \in Claim ELSE arg[s] \in Owners
  /\ op[s] \in {"heartbeat", "complete", "fail"} => arg[s] \in Claim

SessionTypeOK(s) ==
  /\ op[s] \in DOMAIN Steps
  /\ pc[s] \in Steps[op[s]]
  /\ ArgOK(s)
  /\ ts[s] \in Nat
  /\ todo[s] \in Seq(Jobs)
  /\ DOMAIN wr[s] \subseteq Jobs
  /\ wr[s] \in [DOMAIN wr[s] -> Row]

\* Type invariant of all tables and sessions.
TypeOK ==
  /\ now \in Nat
  /\ dags \in [Dags -> {"absent", "running", "cancelled"}]
  /\ jobs \in [Jobs -> Row]
  /\ events \in [Jobs -> Seq(Event)]
  /\ claims \subseteq Claim
  /\ DOMAIN op = Sessions /\ DOMAIN arg = Sessions /\ DOMAIN pc = Sessions
  /\ DOMAIN ts = Sessions /\ DOMAIN todo = Sessions /\ DOMAIN wr = Sessions
  /\ \A s \in Sessions : SessionTypeOK(s)

\* The CHECK constraint of the jobs table never rejects a statement of the
\* store: the lease columns are set exactly while the job is leased, in the
\* committed rows and in every version a transaction has written.
LeaseIffLeased ==
  /\ \A j \in Jobs : jobs[j].state = "leased" <=> jobs[j].lease # Null
  /\ \A s \in Sessions : \A j \in DOMAIN wr[s] :
       wr[s][j].state = "leased" <=> wr[s][j].lease # Null

\* A row never uses more attempts than its budget; one that waits for a claim
\* has an attempt left, and a dead-lettered one has none, whichever of fail,
\* reap and claim moved it and however often they raced.
BudgetOK(j, r) ==
  /\ r.attempts <= MaxAttempts[j]
  /\ r.state \in {"absent", "pending", "ready"} => r.attempts = 0
  /\ r.state = "retry_wait" => r.attempts < MaxAttempts[j]
  /\ r.state = "dead_lettered" => r.attempts = MaxAttempts[j]

WithinBudget == \A j \in Jobs : BudgetOK(j, jobs[j])

\* A job that is or was runnable has only succeeded parents: the subquery of
\* claim and the two subqueries of complete never let a child overtake one.
Started(state) ==
  state \in {"ready", "retry_wait", "leased", "succeeded", "dead_lettered"}

RunsAfterParents ==
  \A j \in Jobs : Started(jobs[j].state) =>
    \A p \in Parents(j) : jobs[p].state = "succeeded"

\* Fencing: no two claims share a token, a live lease is that of the job's
\* latest claim, and a result was written under the latest claim.  A call
\* under an older claim, however late, leaves no trace.
Fenced ==
  /\ \A c, e \in claims : c.token = e.token => c = e
  /\ \A j \in Jobs :
       /\ jobs[j].state = "leased" =>
            [job |-> j, owner |-> jobs[j].lease.owner,
             token |-> jobs[j].lease.token, attempt |-> jobs[j].attempts] \in claims
       /\ jobs[j].state = "succeeded" =>
            \E c \in claims : /\ c.job = j
                              /\ c.token = jobs[j].result
                              /\ c.attempt = jobs[j].attempts

\* Positions of the events of j of the given type, and the attempts they tell.
EventsOf(j, type) == {i \in DOMAIN events[j] : events[j][i].type = type}
AttemptsOf(j, type) == {events[j][i].attempt : i \in EventsOf(j, type)}

\* The event table tells every attempt of a job once and in order, its
\* success once, under the attempt that achieved it, and at most one outcome
\* per attempt, however many completions and failures are reported under its
\* lease and however they overlap.
AuditTrail ==
  \A j \in Jobs :
    /\ AttemptsOf(j, "claimed") = 1..jobs[j].attempts
    /\ \A i, k \in EventsOf(j, "claimed") :
         i < k => events[j][i].attempt < events[j][k].attempt
    /\ AttemptsOf(j, "succeeded") =
         IF jobs[j].state = "succeeded" THEN {jobs[j].attempts} ELSE {}
    /\ \A i, k \in DOMAIN events[j] \ EventsOf(j, "claimed") :
         events[j][i].attempt = events[j][k].attempt => i = k

\* A cancelled DAG is at rest: no claim, retry or release that raced the
\* cancellation brings one of its jobs back.
CancelledAtRest ==
  \A j \in Jobs : dags[DagOf[j]] = "cancelled" => jobs[j].state \in Terminal

\* A submission is all or nothing: the jobs of a DAG exist exactly when the
\* DAG does, whichever statement of a racing or failing submit was its last.
SubmitAtomic ==
  \A j \in Jobs : dags[DagOf[j]] = "absent" <=> jobs[j].state = "absent"

\* A finished job never changes again, not even its attempts or result.
TerminalIsFinal ==
  [][\A j \in Jobs : jobs[j].state \in Terminal => jobs'[j] = jobs[j]]_vars

\* A child with a single parent is released by the transaction that completes
\* the parent: it never waits for a parent that has succeeded.
SoleParentReleases ==
  \A j \in Jobs :
    Cardinality(Parents(j)) = 1 /\ jobs[j].state = "pending" =>
      \A p \in Parents(j) : jobs[p].state # "succeeded"

\* No child waits for parents that have all succeeded.
NoStrandedChild ==
  \A j \in Jobs : jobs[j].state = "pending" =>
    \E p \in Parents(j) : jobs[p].state # "succeeded"

\* A result is committed only while the lease it was written under lasts.
CommitsBeforeExpiry ==
  [][\A j \in Jobs : jobs[j].state = "leased" /\ jobs'[j].state = "succeeded" =>
       now < jobs[j].lease.expires]_vars

\* Every terminal transition that a worker or the reaper causes is recorded.
TerminalRecorded ==
  \A j \in Jobs : jobs[j].state \in {"succeeded", "dead_lettered"} =>
    \E i \in DOMAIN events[j] : events[j][i].type = jobs[j].state

\* A heartbeat extends the lease: the deadline of a live lease never moves
\* towards the past.
HeartbeatExtends ==
  [][\A j \in Jobs :
       /\ jobs[j].state = "leased" /\ jobs'[j].state = "leased"
       /\ jobs'[j].lease.token = jobs[j].lease.token
       => jobs'[j].lease.expires >= jobs[j].lease.expires]_vars

\* The store implements the abstract job life cycle.
LifecycleOf(r) ==
  [state |-> r.state, attempts |-> r.attempts,
   token |-> IF r.lease = Null THEN Null ELSE r.lease.token, result |-> r.result]

Abstract == INSTANCE Lifecycle WITH
  job <- [j \in Jobs |-> LifecycleOf(jobs[j])],
  granted <- {c.token : c \in claims}

ImplementsLifecycle == Abstract!Spec

\* Every call returns: no statement waits for ever, not even when operations
\* that lock several rows meet in opposite orders.
EveryCallReturns == \A s \in Sessions : pc[s] # "idle" ~> pc[s] = "idle"
=============================================================================
