------------------------------ MODULE StoreInv ------------------------------
(***************************************************************************)
(* The inductive invariant behind the safety properties of Store.  The     *)
(* properties speak of committed rows; a transaction publishes at COMMIT   *)
(* what it computed several steps earlier, so the invariant also says what *)
(* every uncommitted row version and every half-done operation relies on.  *)
(***************************************************************************)
EXTENDS Store

\* A row is locked by one session at most.
LocksExclusive ==
  \A s, t \in Sessions : s # t => DOMAIN wr[s] \cap DOMAIN wr[t] = {}

RowOK(j, r) ==
  /\ r.state = "leased" <=> r.lease # Null
  /\ BudgetOK(j, r)

\* Written versions are well formed, and no transaction has changed a row
\* whose committed version is terminal.
WritesOK(s) ==
  \A j \in DOMAIN wr[s] :
    /\ RowOK(j, wr[s][j])
    /\ jobs[j].state \in Terminal => wr[s][j] = jobs[j]

\* Which steps may have rows to visit or rows written.
Visiting == {"reaping", "selecting", "casing", "releasing", "cancelling"}
Unwritten ==
  {"idle", "insert_dag", "insert_jobs", "reap", "cas", "casing", "cancel_dag", "cancel_jobs"}

StepOK(s) ==
  /\ pc[s] \notin Visiting => todo[s] = <<>>
  /\ pc[s] \in Unwritten => DOMAIN wr[s] = {}

Inserting(s) == pc[s] \in {"insert_jobs", "inserted"}

\* Rows exist from the commit of their submission on; until then only the one
\* submitting session has them.
PresenceOK(s) ==
  /\ Inserting(s) => dags[arg[s]] = "absent"
  /\ pc[s] = "inserted" =>
       /\ DOMAIN wr[s] = JobsOf(arg[s])
       /\ \A j \in DOMAIN wr[s] : wr[s][j].state \in {"ready", "pending"}
  /\ pc[s] # "inserted" =>
       \A j \in DOMAIN wr[s] : jobs[j].state # "absent" /\ wr[s][j].state # "absent"
  /\ \A i \in DOMAIN todo[s] : jobs[todo[s][i]].state # "absent"
  /\ pc[s] \in {"cancel_jobs", "cancelling"} => dags[arg[s]] # "absent"

InsertsExclusive ==
  \A s, t \in Sessions : s # t /\ Inserting(s) /\ Inserting(t) => arg[s] # arg[t]

\* What the row under a claim looks like between the statement that wrote it
\* and the commit.
WorkOK(s) ==
  /\ pc[s] = "claimed" =>
       /\ arg[s].job \in DOMAIN wr[s]
       /\ wr[s][arg[s].job].state = "leased"
       /\ wr[s][arg[s].job].lease.owner = arg[s].owner
       /\ wr[s][arg[s].job].lease.token = arg[s].token
       /\ wr[s][arg[s].job].attempts = arg[s].attempt
  /\ pc[s] \in {"updated", "releasing"} => arg[s].job \in DOMAIN wr[s]
  /\ op[s] = "complete" /\ pc[s] \in {"updated", "releasing"} =>
       wr[s][arg[s].job].state = "succeeded"
  /\ op[s] = "fail" /\ pc[s] = "updated" =>
       wr[s][arg[s].job].state \in {"retry_wait", "dead_lettered"}

SessionOK(s) == WritesOK(s) /\ StepOK(s) /\ PresenceOK(s) /\ WorkOK(s)

\* First layer: types, locks and the shape of rows.
CoreInv ==
  /\ TypeOK
  /\ \A j \in Jobs : RowOK(j, jobs[j])
  /\ SubmitAtomic
  /\ LocksExclusive
  /\ InsertsExclusive
  /\ \A s \in Sessions : SessionOK(s)

-----------------------------------------------------------------------------
ViewSucceeded(s, j) == \A p \in Parents(j) : View(s)[p].state = "succeeded"

\* Parents have succeeded in the view of the session that relies on it.
ReliesOK(s) ==
  /\ \A j \in DOMAIN wr[s] : Started(wr[s][j].state) => ViewSucceeded(s, j)
  /\ pc[s] = "releasing" => \A i \in DOMAIN todo[s] : ViewSucceeded(s, todo[s][i])

ParentsOK == RunsAfterParents /\ \A s \in Sessions : ReliesOK(s)

\* While cancel runs, each job of its DAG is terminal, already written as
\* terminal, or still to be visited.
CancelOK ==
  /\ CancelledAtRest
  /\ \A s \in Sessions : pc[s] = "cancelling" =>
       \A j \in JobsOf(arg[s]) :
         \/ View(s)[j].state \in Terminal
         \/ \E i \in DOMAIN todo[s] : todo[s][i] = j

ClaimOf(j, r) ==
  [job |-> j, owner |-> r.lease.owner, token |-> r.lease.token, attempt |-> r.attempts]

ResultClaimed(j, r) ==
  \E c \in claims : c.job = j /\ c.token = r.result /\ c.attempt = r.attempts

\* Tokens of claims that were returned or are about to be are all different,
\* and every lease or result, committed or not, is covered by its claim.
FenceOK ==
  /\ Fenced
  /\ \A s \in Sessions :
       /\ \A j \in DOMAIN wr[s] :
            /\ wr[s][j].state = "leased" =>
                 \/ pc[s] = "claimed" /\ ClaimOf(j, wr[s][j]) = arg[s]
                 \/ ClaimOf(j, wr[s][j]) \in claims
            /\ wr[s][j].state = "succeeded" => ResultClaimed(j, wr[s][j])
       /\ pc[s] = "claimed" =>
            /\ \A c \in claims : c.token # arg[s].token
            /\ \A t \in Sessions \ {s} : pc[t] = "claimed" => arg[t].token # arg[s].token

-----------------------------------------------------------------------------
\* What a commit will do.  Each of these says how the row version r that a transaction
\* has written differs from the committed version c of the same row.

InsertedRow(j, r) ==
  /\ r.state = IF EdgesInto(j) = {} THEN "ready" ELSE "pending"
  /\ r.attempts = 0 /\ r.lease = Null /\ r.result = Null

LapsedFrom(j, c, r) ==
  /\ c.state = "leased" /\ r.lease = Null
  /\ r.state = IF c.attempts >= MaxAttempts[j] THEN "dead_lettered" ELSE "retry_wait"
  /\ r.attempts = c.attempts /\ r.result = c.result

TakenFrom(c, r) ==
  /\ c.state \in Waiting /\ r.state = "leased"
  /\ r.attempts = c.attempts + 1 /\ r.result = c.result

RenewedFrom(c, r) ==
  /\ c.state = "leased" /\ r.state = "leased"
  /\ r.lease # Null /\ r.lease.token = c.lease.token
  /\ r.attempts = c.attempts /\ r.result = c.result

SucceededFrom(c, r) ==
  /\ c.state = "leased" /\ r.state = "succeeded" /\ r.lease = Null
  /\ r.attempts = c.attempts /\ r.result = c.lease.token

ReleasedFrom(c, r) ==
  /\ c.state = "pending" /\ r.state = "ready" /\ r.lease = Null
  /\ r.attempts = c.attempts /\ r.result = c.result

CancelledFrom(c, r) ==
  /\ c.state \notin Terminal /\ r.state = "cancelled" /\ r.lease = Null
  /\ r.attempts = c.attempts /\ r.result = c.result

\* Every version that s has written is what its operation makes of the
\* committed row.  A job whose lease was reaped is not due again before the
\* transaction that reaped it has ended, so claim cannot take it.
RowEffect(s, j, r) ==
  LET c == jobs[j]
  IN /\ op[s] = "submit" => InsertedRow(j, r)
     /\ op[s] \in {"reap", "claim"} /\ ~(pc[s] = "claimed" /\ j = arg[s].job) =>
          \/ r = c
          \/ LapsedFrom(j, c, r) /\ (r.state = "retry_wait" => r.available_at > ts[s])
     /\ pc[s] = "claimed" /\ j = arg[s].job => TakenFrom(c, r)
     /\ op[s] = "heartbeat" => j = arg[s].job /\ RenewedFrom(c, r)
     /\ op[s] = "fail" => j = arg[s].job /\ LapsedFrom(j, c, r)
     /\ op[s] = "complete" =>
          IF j = arg[s].job THEN SucceededFrom(c, r)
          ELSE r = c \/ (j \in Children(arg[s].job) /\ ReleasedFrom(c, r))
     /\ op[s] = "cancel" => j \in JobsOf(arg[s]) /\ (r = c \/ CancelledFrom(c, r))

\* The rows that the last statement of complete and of cancel still visits.
RowsAhead(s) ==
  \A i \in DOMAIN todo[s] :
    /\ pc[s] = "releasing" => todo[s][i] \in Children(arg[s].job)
    /\ pc[s] = "cancelling" => todo[s][i] \in JobsOf(arg[s])

EffectOK(s) == RowsAhead(s) /\ \A j \in DOMAIN wr[s] : RowEffect(s, j, wr[s][j])

\* While complete releases children, each child of its job alone is released in
\* its view or still to be visited.
ReleaseOK(s) ==
  pc[s] = "releasing" =>
    \A j \in Jobs : Parents(j) = {arg[s].job} /\ View(s)[j].state = "pending" =>
      \E i \in DOMAIN todo[s] : todo[s][i] = j

\* No event tells of an attempt still to come, and none of the outcome of the
\* attempt that is under way.
EventsInPast ==
  \A j \in Jobs : \A i \in DOMAIN events[j] :
    /\ events[j][i].attempt <= jobs[j].attempts
    /\ jobs[j].state = "leased" /\ events[j][i].type # "claimed" =>
         events[j][i].attempt < jobs[j].attempts

\* Last layer: the effects of transactions, and what rests on them.
EffectInv ==
  /\ \A s \in Sessions : EffectOK(s)
  /\ SoleParentReleases /\ \A s \in Sessions : ReleaseOK(s)
  /\ AuditTrail /\ EventsInPast

\* The inductive invariant.
IInv == CoreInv /\ ParentsOK /\ CancelOK /\ FenceOK /\ EffectInv
=============================================================================
