----------------------- MODULE StoreRefinementProofs -----------------------
(***************************************************************************)
(* The store implements the abstract life cycle.  A transaction writes its *)
(* rows several steps before it commits; EffectInv of StoreInv says of     *)
(* every version written how it differs from the committed row, and row    *)
(* locks keep this difference fixed.  So the commit of each operation is   *)
(* one step of Lifecycle and everything else is a stuttering step.  The    *)
(* event table and the release of children rest on the same differences.   *)
(***************************************************************************)
EXTENDS StoreSafetyProofs

\* The retry delay is positive: a reaped job is not due at once.
LEMMA BackoffPositive ==
  ASSUME NEW a \in Nat
  PROVE  Backoff(a) \in Nat \ {0}
<1> DEFINE e == Least(16, Greatest(0, a - 1))
           p == PowersOfTwo[e + 1]
<1>1. e \in 0..16
  BY DEF Least, Greatest
<1>2. p \in Nat \ {0}
  BY <1>1 DEF PowersOfTwo
<1> HIDE DEF p
<1>3. BaseRetry * p \in Nat \ {0}
  BY <1>2, RetryAssumption
<1>4. Backoff(a) = Least(MaxRetry, BaseRetry * p)
  BY DEF Backoff, p
<1> QED
  BY <1>3, <1>4, RetryAssumption DEF Least

-----------------------------------------------------------------------------
\* The effect of a transaction

\* A session that does not move keeps its effect: the rows it has locked do not
\* change.
LEMMA EffectOthers ==
  ASSUME NEW t \in Sessions, Same(t), EffectOK(t),
         \A j \in DOMAIN wr[t] : jobs'[j] = jobs[j]
  PROVE  EffectOK(t)'
<1>1. RowsAhead(t)'
  BY DEF EffectOK, RowsAhead, Same
<1>2. ASSUME NEW j \in DOMAIN wr'[t]
      PROVE  RowEffect(t, j, wr[t][j])'
  <2>1. RowEffect(t, j, wr[t][j]) /\ jobs'[j] = jobs[j]
    BY <1>2 DEF EffectOK, Same
  <2> QED
    BY <2>1 DEF RowEffect, Same
<1> QED
  BY <1>1, <1>2 DEF EffectOK

\* A statement that starts, or passes over a row, has no effect yet.
LEMMA EffectMove ==
  ASSUME NEW s \in Sessions, EffectOK(s), UNCHANGED <<jobs, op, arg, ts, wr>>,
         pc[s] # "claimed", pc'[s] # "claimed", RowsAhead(s)'
  PROVE  EffectOK(s)'
BY DEF EffectOK, RowEffect

\* A statement writes one row.
LEMMA EffectWrite ==
  ASSUME CoreInv, NEW s \in Sessions, EffectOK(s), NEW j \in Jobs, NEW r \in Row,
         wr' = Write(s, j, r), UNCHANGED <<jobs, op, arg, ts>>,
         pc[s] # "claimed", pc'[s] # "claimed",
         RowEffect(s, j, r), RowsAhead(s)'
  PROVE  EffectOK(s)'
<1>1. /\ DOMAIN wr'[s] = DOMAIN wr[s] \cup {j} /\ wr'[s][j] = r
      /\ \A k \in DOMAIN wr[s] \ {j} : wr'[s][k] = wr[s][k]
  BY WriteFacts
<1>2. ASSUME NEW k \in DOMAIN wr'[s]
      PROVE  RowEffect(s, k, wr'[s][k])
  BY <1>1, <1>2 DEF EffectOK
<1>3. ASSUME NEW k \in DOMAIN wr'[s]
      PROVE  RowEffect(s, k, wr[s][k])'
  BY <1>2, <1>3 DEF RowEffect
<1> QED
  BY <1>3 DEF EffectOK

\* The rows still to be visited after the first one.
LEMMA AheadTail ==
  ASSUME CoreInv, NEW s \in Sessions, todo[s] # <<>>, RowsAhead(s),
         todo' = [todo EXCEPT ![s] = Tail(@)], UNCHANGED <<arg, pc>>
  PROVE  RowsAhead(s)'
<1>1. todo'[s] = Tail(todo[s])
  BY DEF CoreInv, TypeOK
<1>2. \A i \in DOMAIN Tail(todo[s]) :
        i + 1 \in DOMAIN todo[s] /\ Tail(todo[s])[i] = todo[s][i + 1]
  BY HeadTail
<1> QED
  BY <1>1, <1>2 DEF RowsAhead

\* A reaped row is the committed one after its lease ended, and is not due.
LEMMA ReapEffect ==
  ASSUME CoreInv, NEW s \in Sessions, EffectOK(s), ReapRow(s)
  PROVE  EffectOK(s)'
<1> DEFINE j == Head(todo[s])
           v == View(s)[j]
           r == IF Expired(s, v) THEN LapsedRow(s, j) ELSE v
<1>1. /\ pc[s] = "reaping" /\ todo[s] # <<>> /\ wr' = Write(s, j, r)
      /\ todo' = [todo EXCEPT ![s] = Tail(@)]
      /\ UNCHANGED <<now, tables, op, arg, pc, ts>>
  BY DEF ReapRow, Visit
<1>2. j \in Jobs /\ SessionTypeOK(s) /\ op[s] \in {"reap", "claim"} /\ ts[s] \in Nat
  BY <1>1, HeadTail, OpOfStep DEF CoreInv, TypeOK, SessionTypeOK
<1>3. v \in Row /\ RowOK(j, v)
  BY <1>2, ViewOK
<1>4. \/ v = jobs[j]
      \/ LapsedFrom(j, jobs[j], v) /\ (v.state = "retry_wait" => v.available_at > ts[s])
  BY <1>1, <1>2, ViewOK DEF EffectOK, RowEffect
<1>5. CASE Expired(s, v)
  <2>1. v = jobs[j] /\ v.state = "leased"
    BY <1>4, <1>5 DEF Expired, LapsedFrom
  <2>2. LapsedRow(s, j) \in Row
    BY <1>2, <2>1, LapsedRowOK
  <2>3. LapsedFrom(j, jobs[j], LapsedRow(s, j))
    BY <1>3, <2>1 DEF LapsedFrom, LapsedRow, Row
  <2>4. LapsedRow(s, j).state = "retry_wait" => LapsedRow(s, j).available_at > ts[s]
    <3>1. v.attempts \in Nat /\ Backoff(v.attempts) \in Nat \ {0}
      BY <1>3, BackoffPositive DEF Row
    <3>2. LapsedRow(s, j).state = "retry_wait" =>
            LapsedRow(s, j).available_at = ts[s] + Backoff(v.attempts)
      BY <1>3 DEF LapsedRow, Row
    <3> QED
      BY <1>2, <3>1, <3>2
  <2>5. RowEffect(s, j, r) /\ r \in Row
    BY <1>1, <1>2, <1>5, <2>2, <2>3, <2>4 DEF RowEffect
  <2> HIDE DEF r
  <2> QED
    BY <1>1, <1>2, <2>5, AheadTail, EffectWrite DEF EffectOK, tables
<1>6. CASE ~Expired(s, v)
  <2>1. RowEffect(s, j, r) /\ r \in Row
    BY <1>1, <1>2, <1>3, <1>4, <1>6 DEF RowEffect
  <2> HIDE DEF r
  <2> QED
    BY <1>1, <1>2, <2>1, AheadTail, EffectWrite DEF EffectOK, tables
<1> QED
  BY <1>5, <1>6

\* A rejected candidate is as it was before.
LEMMA RejectEffect ==
  ASSUME CoreInv, NEW s \in Sessions, EffectOK(s), RejectCandidate(s)
  PROVE  EffectOK(s)'
<1> DEFINE j == Head(todo[s])
           v == View(s)[j]
<1>1. /\ pc[s] = "selecting" /\ todo[s] # <<>> /\ wr' = Write(s, j, v)
      /\ todo' = [todo EXCEPT ![s] = Tail(@)]
      /\ UNCHANGED <<now, tables, op, arg, pc, ts>>
  BY DEF RejectCandidate
<1>2. j \in Jobs /\ SessionTypeOK(s) /\ op[s] = "claim"
  BY <1>1, HeadTail, OpOfStep DEF CoreInv, TypeOK
<1>3. v \in Row
  BY <1>2, ViewOK
<1>4. RowEffect(s, j, v)
  BY <1>1, <1>2, ViewOK DEF EffectOK, RowEffect
<1> HIDE DEF v
<1> QED
  BY <1>1, <1>2, <1>3, <1>4, AheadTail, EffectWrite DEF EffectOK, tables

\* claim takes a row whose committed version waits: what the same transaction
\* has reaped is not due.
LEMMA TakeEffect ==
  ASSUME CoreInv, NEW s \in Sessions, EffectOK(s), TakeCandidate(s)
  PROVE  EffectOK(s)'
<1> DEFINE j == Head(todo[s])
           v == View(s)[j]
<1>1. /\ pc[s] = "selecting" /\ todo[s] # <<>> /\ Claimable(s, v)
      /\ Tokens \ UsedTokens # {}
      /\ pc'[s] = "claimed" /\ arg'[s].job = j /\ todo'[s] = <<>>
      /\ UNCHANGED <<now, tables, op, ts>>
  BY DEF TakeCandidate, CoreInv, TypeOK
<1>2. PICK len \in LeaseLengths :
        wr' = Write(s, j, TakenRow(s, j, arg[s], FreshToken, ts[s] + len))
  BY DEF TakeCandidate, TakenRow
<1> DEFINE r == TakenRow(s, j, arg[s], FreshToken, ts[s] + len)
<1>3. SessionTypeOK(s) /\ arg[s] \in Owners /\ op[s] = "claim" /\ ts[s] \in Nat
  BY <1>1, OpOfStep DEF CoreInv, TypeOK, SessionTypeOK
<1>4. FreshToken \in Tokens /\ ts[s] + len \in Nat /\ j \in Jobs
  BY <1>1, <1>3, FreshTokenOK, LeaseAssumption, HeadTail
<1>5. v \in Row /\ v.state \in Waiting /\ v.available_at <= ts[s]
  BY <1>1, <1>4, ViewOK DEF Claimable
<1>6. r \in Row /\ r.state = "leased" /\ r.attempts = v.attempts + 1
  BY <1>3, <1>4, <1>5, TakenRowOK
<1>7. r.result = v.result
  BY <1>5 DEF TakenRow, Row
<1>8. v = jobs[j]
  <2>1. \/ v = jobs[j]
        \/ LapsedFrom(j, jobs[j], v) /\ (v.state = "retry_wait" => v.available_at > ts[s])
    BY <1>1, <1>3, <1>4, ViewOK DEF EffectOK, RowEffect
  <2> QED
    BY <1>3, <1>5, <2>1 DEF LapsedFrom, Waiting, Row
<1>9. TakenFrom(jobs[j], r)
  BY <1>5, <1>6, <1>7, <1>8 DEF TakenFrom
<1>10. wr' = Write(s, j, r)
  BY <1>2
<1> HIDE DEF r, v, j
<1>11. /\ DOMAIN wr'[s] = DOMAIN wr[s] \cup {j} /\ wr'[s][j] = r
       /\ \A k \in DOMAIN wr[s] \ {j} : wr'[s][k] = wr[s][k]
  BY <1>4, <1>6, <1>10, WriteFacts
<1>12. ASSUME NEW k \in DOMAIN wr'[s]
       PROVE  RowEffect(s, k, wr[s][k])'
  <2>1. CASE k = j
    BY <1>1, <1>3, <1>9, <1>11, <2>1 DEF RowEffect, tables
  <2>2. CASE k # j
    <3>1. RowEffect(s, k, wr[s][k]) /\ wr'[s][k] = wr[s][k]
      BY <1>11, <1>12, <2>2 DEF EffectOK
    <3> QED
      BY <1>1, <1>3, <2>2, <3>1 DEF RowEffect, tables
  <2> QED
    BY <2>1, <2>2
<1>13. RowsAhead(s)'
  BY <1>1 DEF RowsAhead
<1> QED
  BY <1>12, <1>13 DEF EffectOK

\* A compare-and-set has one effect: on the row it found leased.
LEMMA CasEffect ==
  ASSUME CoreInv, NEW s \in Sessions, EffectOK(s), NEW o, NEW new \in Row, Cas(s, o, new),
         RowEffect(s, arg[s].job, new)
  PROVE  EffectOK(s)'
<1> DEFINE j == arg[s].job
<1>1. /\ pc[s] = "casing" /\ HoldsLease(s, jobs[j]) /\ wr' = Write(s, j, new)
      /\ pc'[s] = "updated" /\ todo'[s] = <<>>
      /\ UNCHANGED <<now, tables, op, arg, ts>>
  BY DEF Cas, CoreInv, TypeOK
<1>2. j \in Jobs
  BY <1>1, CasFacts
<1>3. RowsAhead(s)'
  BY <1>1 DEF RowsAhead
<1> QED
  BY <1>1, <1>2, <1>3, EffectWrite DEF tables

\* heartbeat keeps everything of the row but the deadline.
LEMMA HeartbeatEffect ==
  ASSUME CoreInv, NEW s \in Sessions, EffectOK(s), HeartbeatRow(s)
  PROVE  EffectOK(s)'
<1> DEFINE r == jobs[arg[s].job]
<1>1. PICK len \in LeaseLengths : Cas(s, "heartbeat", [r EXCEPT !.lease.expires = ts[s] + len])
  BY DEF HeartbeatRow
<1> DEFINE l == [r.lease EXCEPT !.expires = ts[s] + len]
           new == [r EXCEPT !.lease = l]
<1>2. pc[s] = "casing" /\ HoldsLease(s, r) /\ op[s] = "heartbeat"
  BY <1>1 DEF Cas
<1>3. r \in Row /\ r.state = "leased" /\ r.lease \in Lease /\ SessionTypeOK(s)
  BY <1>2, CasFacts
<1>4. l \in Lease /\ l # Null /\ l.token = r.lease.token
  <2>1. ts[s] + len \in Nat
    BY <1>3, LeaseAssumption DEF SessionTypeOK
  <2> QED
    BY <1>3, <2>1, NullAssumption DEF Lease
<1>5. Cas(s, "heartbeat", new)
  BY <1>1
<1>6. /\ new \in Row /\ new.state = "leased" /\ new.lease = l
      /\ new.attempts = r.attempts /\ new.result = r.result
  <2> HIDE DEF l, r
  <2> QED
    BY <1>3, <1>4 DEF Row
<1> HIDE DEF new
<1>7. RenewedFrom(r, new)
  BY <1>3, <1>4, <1>6 DEF RenewedFrom
<1>8. RowEffect(s, arg[s].job, new)
  BY <1>2, <1>7 DEF RowEffect
<1> QED
  BY <1>5, <1>6, <1>8, CasEffect

\* complete records the token of the lease; fail ends the lease.
LEMMA ResultEffect ==
  ASSUME CoreInv, NEW s \in Sessions, EffectOK(s), CompleteRow(s) \/ FailRow(s)
  PROVE  EffectOK(s)'
<1> DEFINE j == arg[s].job
<1>1. pc[s] = "casing" /\ HoldsLease(s, jobs[j])
  BY DEF CompleteRow, FailRow, Cas
<1>2. /\ j \in Jobs /\ arg[s].token \in Tokens
      /\ View(s)[j] = jobs[j] /\ jobs[j].state = "leased" /\ jobs[j] \in Row
  BY <1>1, CasFacts
<1>3. CASE CompleteRow(s)
  <2>1. Cas(s, "complete", SucceededRow(s, j)) /\ op[s] = "complete"
    BY <1>3 DEF CompleteRow, Cas
  <2>2. SucceededRow(s, j) \in Row
    BY <1>2, SucceededRowOK
  <2>3. SucceededFrom(jobs[j], SucceededRow(s, j))
    BY <1>1, <1>2 DEF SucceededFrom, SucceededRow, HoldsLease, Row
  <2>4. RowEffect(s, j, SucceededRow(s, j))
    BY <1>1, <2>1, <2>3 DEF RowEffect
  <2> QED
    BY <2>1, <2>2, <2>4, CasEffect
<1>4. CASE FailRow(s)
  <2>1. Cas(s, "fail", LapsedRow(s, j)) /\ op[s] = "fail"
    BY <1>4 DEF FailRow, Cas
  <2>2. LapsedRow(s, j) \in Row
    BY <1>2, LapsedRowOK
  <2>3. LapsedFrom(j, jobs[j], LapsedRow(s, j))
    BY <1>2 DEF LapsedFrom, LapsedRow, Row
  <2>4. RowEffect(s, j, LapsedRow(s, j))
    BY <1>1, <2>1, <2>3 DEF RowEffect
  <2> QED
    BY <2>1, <2>2, <2>4, CasEffect
<1> QED
  BY <1>3, <1>4

\* complete releases children of its job.
LEMMA ReleaseEffect ==
  ASSUME CoreInv, NEW s \in Sessions, EffectOK(s), ReleaseRow(s)
  PROVE  EffectOK(s)'
<1> DEFINE j == Head(todo[s])
           v == View(s)[j]
           r == IF IsPending(s, v) THEN ReleasedRow(s, j) ELSE v
<1>1. /\ pc[s] = "releasing" /\ todo[s] # <<>> /\ wr' = Write(s, j, r)
      /\ todo' = [todo EXCEPT ![s] = Tail(@)]
      /\ UNCHANGED <<now, tables, op, arg, pc, ts>>
  BY DEF ReleaseRow, Visit
<1>2. /\ j \in Jobs /\ j = todo[s][1] /\ 1 \in DOMAIN todo[s]
      /\ SessionTypeOK(s) /\ op[s] = "complete" /\ ts[s] \in Nat
      /\ arg[s].job \in DOMAIN wr[s] /\ wr[s][arg[s].job].state = "succeeded"
  BY <1>1, HeadTail, OpOfStep DEF CoreInv, TypeOK, SessionTypeOK, SessionOK, WorkOK
<1>3. v \in Row /\ RowOK(j, v) /\ j \in Children(arg[s].job)
  BY <1>1, <1>2, ViewOK DEF EffectOK, RowsAhead
<1>4. j # arg[s].job => v = jobs[j] \/ ReleasedFrom(jobs[j], v)
  BY <1>1, <1>2, ViewOK DEF EffectOK, RowEffect
<1>5. CASE IsPending(s, v)
  <2>1. j # arg[s].job /\ v = jobs[j] /\ v.state = "pending" /\ v.lease = Null
    BY <1>2, <1>3, <1>4, <1>5, ViewOK DEF IsPending, ReleasedFrom, RowOK
  <2>2. /\ r \in Row /\ r.state = "ready" /\ r.lease = v.lease
        /\ r.attempts = v.attempts /\ r.result = v.result
    BY <1>2, <1>3, <1>5 DEF ReleasedRow, Row, JobState
  <2> HIDE DEF r, v
  <2>3. RowEffect(s, j, r)
    BY <1>1, <1>2, <1>3, <2>1, <2>2 DEF RowEffect, ReleasedFrom
  <2> QED
    BY <1>1, <1>2, <2>2, <2>3, AheadTail, EffectWrite DEF EffectOK, tables
<1>6. CASE ~IsPending(s, v)
  <2>1. RowEffect(s, j, v)
    <3>1. CASE j \in DOMAIN wr[s]
      BY <1>2, <3>1, ViewOK DEF EffectOK
    <3>2. CASE j \notin DOMAIN wr[s]
      BY <1>1, <1>2, <3>2, ViewOK DEF RowEffect
    <3> QED
      BY <3>1, <3>2
  <2> HIDE DEF v
  <2> QED
    BY <1>1, <1>2, <1>3, <1>6, <2>1, AheadTail, EffectWrite DEF EffectOK, tables
<1> QED
  BY <1>5, <1>6

\* cancel cancels unfinished jobs of its DAG.
LEMMA CancelEffect ==
  ASSUME CoreInv, NEW s \in Sessions, EffectOK(s), CancelRow(s)
  PROVE  EffectOK(s)'
<1> DEFINE j == Head(todo[s])
           v == View(s)[j]
           r == IF Unfinished(s, v) THEN CancelledRow(s, j) ELSE v
<1>1. /\ pc[s] = "cancelling" /\ todo[s] # <<>> /\ wr' = Write(s, j, r)
      /\ todo' = [todo EXCEPT ![s] = Tail(@)]
      /\ UNCHANGED <<now, tables, op, arg, pc, ts>>
  BY DEF CancelRow, Visit
<1>2. /\ j \in Jobs /\ j = todo[s][1] /\ 1 \in DOMAIN todo[s]
      /\ SessionTypeOK(s) /\ op[s] = "cancel"
  BY <1>1, HeadTail, OpOfStep DEF CoreInv, TypeOK
<1>3. v \in Row /\ j \in JobsOf(arg[s])
  BY <1>1, <1>2, ViewOK DEF EffectOK, RowsAhead
<1>4. v = jobs[j] \/ CancelledFrom(jobs[j], v)
  BY <1>1, <1>2, ViewOK DEF EffectOK, RowEffect
<1>5. CASE Unfinished(s, v)
  <2>1. v = jobs[j] /\ v.state \notin Terminal
    BY <1>4, <1>5 DEF Unfinished, CancelledFrom, Terminal
  <2>2. /\ r \in Row /\ r.state = "cancelled" /\ r.lease = Null
        /\ r.attempts = v.attempts /\ r.result = v.result
    BY <1>3, <1>5 DEF CancelledRow, Row, JobState
  <2> HIDE DEF r, v
  <2>3. RowEffect(s, j, r)
    BY <1>1, <1>2, <1>3, <2>1, <2>2 DEF RowEffect, CancelledFrom
  <2> QED
    BY <1>1, <1>2, <2>2, <2>3, AheadTail, EffectWrite DEF EffectOK, tables
<1>6. CASE ~Unfinished(s, v)
  <2>1. RowEffect(s, j, v)
    BY <1>1, <1>2, <1>3, <1>4 DEF RowEffect
  <2> HIDE DEF v
  <2> QED
    BY <1>1, <1>2, <1>3, <1>6, <2>1, AheadTail, EffectWrite DEF EffectOK, tables
<1> QED
  BY <1>5, <1>6

\* submit inserts new rows.
LEMMA InsertEffect ==
  ASSUME CoreInv, NEW s \in Sessions, InsertJobs(s)
  PROVE  EffectOK(s)'
<1>1. /\ pc[s] = "insert_jobs" /\ pc'[s] = "inserted" /\ op'[s] = op[s] /\ arg'[s] = arg[s]
      /\ DOMAIN wr'[s] = JobsOf(arg[s])
      /\ \A j \in JobsOf(arg[s]) :
           wr'[s][j] = [AbsentRow EXCEPT
                          !.state = IF EdgesInto(j) = {} THEN "ready" ELSE "pending",
                          !.available_at = ts[s]]
  BY DEF InsertJobs, CoreInv, TypeOK
<1>2. op[s] = "submit"
  BY <1>1, OpOfStep DEF CoreInv, TypeOK, Inserting
<1>3. \A j \in JobsOf(arg[s]) : InsertedRow(j, wr'[s][j])
  BY <1>1 DEF InsertedRow, AbsentRow
<1>4. ASSUME NEW j \in DOMAIN wr'[s]
      PROVE  RowEffect(s, j, wr[s][j])'
  <2>1. InsertedRow(j, wr[s][j])'
    BY <1>1, <1>3, <1>4 DEF InsertedRow
  <2> QED
    BY <1>1, <1>2, <2>1 DEF RowEffect
<1> QED
  BY <1>1, <1>4 DEF EffectOK, RowsAhead

\* Calls and statements that write no row.
LEMMA QuietEffect ==
  ASSUME CoreInv, NEW s \in Sessions, EffectOK(s),
         \/ Call(s) \/ InsertDag(s) \/ CancelDag(s) \/ StartReap(s) \/ StartCas(s)
         \/ StartRelease(s) \/ StartCancelJobs(s) \/ SelectCandidates(s) \/ SkipLocked(s)
  PROVE  EffectOK(s)'
<1>1. DOMAIN pc = Sessions /\ SessionTypeOK(s) /\ SessionOK(s)
  BY DEF CoreInv, TypeOK
<1>2. ASSUME NEW o, NEW a, NEW first \in {"insert_dag", "reap", "cas", "cancel_dag"},
             Begin(s, o, a, first)
      PROVE  EffectOK(s)'
  <2>1. DOMAIN wr'[s] = {} /\ pc'[s] = first
    BY <1>1, <1>2 DEF Begin, SessionOK, StepOK, Unwritten
  <2> QED
    BY <2>1 DEF EffectOK, RowsAhead
<1>3. CASE Call(s)
  BY <1>2, <1>3 DEF Call, SubmitBegin, ClaimBegin, ReapBegin, CancelBegin, HeartbeatBegin,
                    CompleteBegin, FailBegin, LeaseCallBegin
<1>4. CASE InsertDag(s) \/ CancelDag(s)
  <2>1. /\ pc[s] # "claimed" /\ pc'[s] \notin {"claimed", "releasing", "cancelling"}
        /\ UNCHANGED <<jobs, op, arg, ts, wr>>
    BY <1>1, <1>4 DEF InsertDag, CancelDag, tables
  <2>2. RowsAhead(s)'
    BY <2>1 DEF RowsAhead
  <2> QED
    BY <2>1, <2>2, EffectMove
<1>5. ASSUME NEW rows \in SUBSET Jobs, NEW step \in Visiting, Open(s, rows, step),
             pc[s] # "claimed",
             step = "releasing" => rows \subseteq Children(arg[s].job),
             step = "cancelling" => rows \subseteq JobsOf(arg[s])
      PROVE  EffectOK(s)'
  <2>1. /\ pc'[s] = step /\ \A i \in DOMAIN todo'[s] : todo'[s][i] \in rows
        /\ UNCHANGED <<jobs, op, arg, ts, wr>>
    BY <1>5, OpenFacts DEF tables
  <2>2. RowsAhead(s)' /\ pc'[s] # "claimed"
    BY <1>5, <2>1 DEF RowsAhead, Visiting
  <2> QED
    BY <1>5, <2>1, <2>2, EffectMove
<1>6. CASE StartReap(s)
  <2>1. {j \in Jobs : Expired(s, jobs[j])} \in SUBSET Jobs
    OBVIOUS
  <2> QED
    BY <1>5, <1>6, <2>1 DEF StartReap, Visiting
<1>7. CASE StartCas(s)
  <2>1. {arg[s].job} \in SUBSET Jobs
    BY <1>1, <1>7, OpOfStep DEF StartCas, Claim
  <2> QED
    BY <1>5, <1>7, <2>1 DEF StartCas, Visiting
<1>8. CASE StartRelease(s)
  <2> DEFINE rows == {c \in Children(arg[s].job) :
                        View(s)[c].state = "pending" /\ ParentsSucceeded(s, c)}
  <2>1. rows \in SUBSET Jobs /\ rows \subseteq Children(arg[s].job)
    BY EdgesAssumption DEF Children
  <2>2. pc[s] = "updated" /\ Open(s, rows, "releasing")
    BY <1>8 DEF StartRelease
  <2> HIDE DEF rows
  <2> QED
    BY <1>5, <2>1, <2>2 DEF Visiting
<1>9. CASE StartCancelJobs(s)
  <2> DEFINE rows == {j \in JobsOf(arg[s]) : jobs[j].state \notin Terminal}
  <2>1. rows \in SUBSET Jobs /\ rows \subseteq JobsOf(arg[s])
    BY DEF JobsOf
  <2>2. pc[s] = "cancel_jobs" /\ Open(s, rows, "cancelling")
    BY <1>9 DEF StartCancelJobs
  <2> HIDE DEF rows
  <2> QED
    BY <1>5, <2>1, <2>2 DEF Visiting
<1>10. CASE SelectCandidates(s) \/ SkipLocked(s)
  <2>1. /\ pc[s] # "claimed" /\ pc'[s] \notin {"claimed", "releasing", "cancelling"}
        /\ UNCHANGED <<jobs, op, arg, ts, wr>>
    BY <1>1, <1>10 DEF SelectCandidates, SkipLocked, tables
  <2>2. RowsAhead(s)'
    BY <2>1 DEF RowsAhead
  <2> QED
    BY <2>1, <2>2, EffectMove
<1> QED
  BY <1>3, <1>4, <1>6, <1>7, <1>8, <1>9, <1>10

\* What a step of s does to the other sessions and to the rows they have locked.
LEMMA OthersLocked ==
  ASSUME CoreInv, NEW s \in Sessions, Call(s) \/ Step(s) \/ Abort(s)
  PROVE  /\ \A t \in Sessions \ {s} : Same(t) /\ \A j \in DOMAIN wr[t] : jobs'[j] = jobs[j]
         /\ Commit(s) \/ UNCHANGED <<dags, jobs, claims>>
<1>1. ASSUME InsertJobs(s) PROVE \A t \in Sessions \ {s} : Same(t)
  BY <1>1 DEF InsertJobs, CoreInv, TypeOK, Same
<1>2. ASSUME Rollback(s) PROVE \A t \in Sessions \ {s} : Same(t)
  BY <1>2, EndFacts DEF Rollback, CoreInv
<1>3. \/ Commit(s)
      \/ UNCHANGED <<dags, jobs, claims>> /\ \A t \in Sessions \ {s} : Same(t)
  BY <1>1, <1>2, StepShape DEF QuietShape, WriteShape, InsertJobs, Rollback, tables
<1>4. CASE Commit(s)
  <2>1. jobs' = View(s) /\ \A t \in Sessions \ {s} : Same(t)
    BY <1>4, CommitFacts
  <2>2. ASSUME NEW t \in Sessions \ {s}, NEW j \in DOMAIN wr[t]
        PROVE  jobs'[j] = jobs[j]
    BY <2>1, <2>2 DEF CoreInv, TypeOK, SessionTypeOK, LocksExclusive, View
  <2> QED
    BY <1>4, <2>1, <2>2
<1> QED
  BY <1>3, <1>4

\* The effects of transactions stay what they are, whatever other transactions
\* commit.
LEMMA EffectNext ==
  CoreInv /\ (\A s \in Sessions : EffectOK(s)) /\ [Next]_vars =>
    \A s \in Sessions : EffectOK(s)'
<1> SUFFICES ASSUME CoreInv, \A s \in Sessions : EffectOK(s), [Next]_vars
             PROVE  \A s \in Sessions : EffectOK(s)'
  OBVIOUS
<1>1. CASE Tick \/ UNCHANGED vars
  BY <1>1 DEF Tick, vars, tables, EffectOK, RowsAhead, RowEffect
<1>2. ASSUME NEW s \in Sessions, Call(s) \/ Step(s) \/ Abort(s)
      PROVE  \A t \in Sessions : EffectOK(t)'
  <2>1. \A t \in Sessions \ {s} : EffectOK(t)'
    BY <1>2, OthersLocked, EffectOthers
  <2>2. ASSUME End(s) PROVE EffectOK(s)'
    <3>1. DOMAIN wr'[s] = {} /\ pc'[s] = "idle"
      BY <2>2, EndFacts DEF CoreInv
    <3> QED
      BY <3>1 DEF EffectOK, RowsAhead
  <2>3. EffectOK(s)'
    <3>1. CASE Call(s)
      BY <3>1, QuietEffect
    <3>2. CASE Abort(s)
      BY <2>2, <3>2 DEF Abort, Rollback
    <3>3. CASE Step(s)
      BY <2>2, <3>3, QuietEffect, InsertEffect, ReapEffect, RejectEffect, TakeEffect,
         HeartbeatEffect, ResultEffect, ReleaseEffect, CancelEffect
      DEF Step, DuplicateDag, DuplicateEdge, LeaseConflict, DagNotFound, DeadlockAbort,
          Rollback, Commit
    <3> QED
      BY <1>2, <3>1, <3>2, <3>3
  <2> QED
    BY <2>1, <2>3
<1> QED
  BY <1>1, <1>2 DEF Next

LEMMA EffectInit == Init => \A s \in Sessions : EffectOK(s)
<1> SUFFICES ASSUME Init, NEW s \in Sessions PROVE EffectOK(s)
  OBVIOUS
<1>1. DOMAIN wr[s] = {} /\ pc[s] = "idle"
  BY DEF Init, NoWrites
<1> QED
  BY <1>1 DEF EffectOK, RowsAhead

-----------------------------------------------------------------------------
\* What a commit does

\* COMMIT changes the rows that the transaction has written, and no others.
LEMMA CommitEffect ==
  ASSUME CoreInv, NEW s \in Sessions, EffectOK(s), Commit(s), NEW j \in Jobs
  PROVE  /\ jobs'[j] = View(s)[j] /\ jobs'[j] \in Row
         /\ j \notin DOMAIN wr[s] => jobs'[j] = jobs[j]
         /\ j \in DOMAIN wr[s] => jobs'[j] = wr[s][j] /\ RowEffect(s, j, jobs'[j])
<1>1. jobs' = View(s)
  BY DEF Commit
<1> QED
  BY <1>1, ViewOK DEF EffectOK

\* The operation that a commit ends, and the step it has reached.
LEMMA CommitOps ==
  ASSUME CoreInv, NEW s \in Sessions, Finished(s)
  PROVE  /\ todo[s] = <<>> /\ DOMAIN todo[s] = {} /\ SessionTypeOK(s) /\ SessionOK(s)
         /\ op[s] \in {"submit", "reap", "claim", "heartbeat", "complete", "fail", "cancel"}
         /\ op[s] = "submit" => pc[s] = "inserted" /\ arg[s] \in Dags
         /\ op[s] = "cancel" => pc[s] = "cancelling" /\ arg[s] \in Dags
         /\ op[s] = "complete" => pc[s] = "releasing"
         /\ op[s] \in {"heartbeat", "fail"} => pc[s] = "updated"
         /\ pc[s] = "claimed" => op[s] = "claim"
         /\ pc[s] = "claimed" \/ op[s] \in {"heartbeat", "complete", "fail"} =>
              arg[s] \in Claim /\ arg[s].job \in Jobs /\ arg[s].job \in DOMAIN wr[s]
<1>1. SessionTypeOK(s) /\ SessionOK(s)
  BY DEF CoreInv, TypeOK
<1>2. /\ todo[s] = <<>> /\ DOMAIN todo[s] = {}
      /\ op[s] \in {"submit", "reap", "claim", "heartbeat", "complete", "fail", "cancel"}
      /\ op[s] = "submit" => pc[s] = "inserted"
      /\ op[s] = "cancel" => pc[s] = "cancelling"
      /\ op[s] = "complete" => pc[s] = "releasing"
      /\ op[s] \in {"heartbeat", "fail"} => pc[s] = "updated"
      /\ pc[s] = "claimed" => op[s] = "claim"
  BY DEF Finished
<1>3. /\ op[s] \in {"submit", "cancel"} => arg[s] \in Dags
      /\ pc[s] = "claimed" \/ op[s] \in {"heartbeat", "complete", "fail"} => arg[s] \in Claim
  BY <1>1, <1>2 DEF SessionTypeOK, ArgOK
<1>4. pc[s] = "claimed" \/ op[s] \in {"heartbeat", "complete", "fail"} =>
        arg[s].job \in Jobs /\ arg[s].job \in DOMAIN wr[s]
  BY <1>1, <1>2, <1>3 DEF SessionOK, WorkOK, Claim
<1> QED
  BY <1>1, <1>2, <1>3, <1>4

-----------------------------------------------------------------------------
\* The commit of each operation is one step of the abstract life cycle

\* Lifecycle and Store read the same graph.
LEMMA SameGraph ==
  /\ \A d : Abstract!JobsOf(d) = JobsOf(d)
  /\ \A j : Abstract!Parents(j) = Parents(j)
  /\ Abstract!Terminal = Terminal /\ Abstract!Waiting = Waiting
BY DEF Abstract!JobsOf, JobsOf, Abstract!Parents, Parents, Abstract!EdgesInto, EdgesInto,
       Abstract!Terminal, Terminal, Abstract!Waiting, Waiting

\* The parts of a committed row that the abstract job shows.
LEMMA AbstractRow ==
  ASSUME NEW j \in Jobs
  PROVE  /\ [k \in Jobs |-> LifecycleOf(jobs[k])][j] = LifecycleOf(jobs[j])
         /\ LifecycleOf(jobs[j]).state = jobs[j].state
         /\ LifecycleOf(jobs[j]).attempts = jobs[j].attempts
         /\ LifecycleOf(jobs[j]).result = jobs[j].result
BY DEF LifecycleOf

\* Updates of the abstract record of a committed row.
GrantedRecord(r, t) == [r EXCEPT !.state = "leased", !.attempts = @ + 1, !.token = t]
SucceededRecord(r) == [r EXCEPT !.state = "succeeded", !.result = r.token, !.token = Null]
CancelledRecord(r) == [r EXCEPT !.state = "cancelled", !.token = Null]

LEMMA GrantedUpdate ==
  ASSUME NEW c, NEW r, NEW t, TakenFrom(c, r), r.lease # Null, r.lease.token = t
  PROVE  LifecycleOf(r) = GrantedRecord(LifecycleOf(c), t)
<1> DEFINE k == IF c.lease = Null THEN Null ELSE c.lease.token
           R == LifecycleOf(c)
           X == [R EXCEPT !.state = "leased"]
           Y == [X EXCEPT !.attempts = @ + 1]
<1>1. R = [state |-> c.state, attempts |-> c.attempts, token |-> k, result |-> c.result]
  BY DEF LifecycleOf
<1> HIDE DEF R, k
<1>2. X = [state |-> "leased", attempts |-> c.attempts, token |-> k, result |-> c.result]
  BY <1>1
<1>3. GrantedRecord(R, t) = [Y EXCEPT !.token = t]
  BY <1>1, <1>2 DEF GrantedRecord
<1> HIDE DEF X
<1>4. Y = [state |-> "leased", attempts |-> c.attempts + 1, token |-> k, result |-> c.result]
  BY <1>2
<1> HIDE DEF Y
<1>5. [Y EXCEPT !.token = t] =
        [state |-> "leased", attempts |-> c.attempts + 1, token |-> t, result |-> c.result]
  BY <1>4
<1>6. LifecycleOf(r) =
        [state |-> "leased", attempts |-> c.attempts + 1, token |-> t, result |-> c.result]
  BY DEF TakenFrom, LifecycleOf
<1> QED
  BY <1>3, <1>5, <1>6 DEF R

LEMMA SucceededUpdate ==
  ASSUME NEW c, NEW r, SucceededFrom(c, r), c.lease # Null
  PROVE  LifecycleOf(r) = SucceededRecord(LifecycleOf(c))
<1> DEFINE k == c.lease.token
           R == LifecycleOf(c)
           X == [R EXCEPT !.state = "succeeded"]
           Y == [X EXCEPT !.result = R.token]
<1>1. R = [state |-> c.state, attempts |-> c.attempts, token |-> k, result |-> c.result]
  BY DEF LifecycleOf
<1> HIDE DEF R, k
<1>2. X = [state |-> "succeeded", attempts |-> c.attempts, token |-> k, result |-> c.result]
  BY <1>1
<1>3. SucceededRecord(R) = [Y EXCEPT !.token = Null] /\ R.token = k
  BY <1>1 DEF SucceededRecord
<1> HIDE DEF X
<1>4. Y = [state |-> "succeeded", attempts |-> c.attempts, token |-> k, result |-> k]
  BY <1>2, <1>3
<1> HIDE DEF Y
<1>5. [Y EXCEPT !.token = Null] =
        [state |-> "succeeded", attempts |-> c.attempts, token |-> Null, result |-> k]
  BY <1>4
<1>6. LifecycleOf(r) =
        [state |-> "succeeded", attempts |-> c.attempts, token |-> Null, result |-> k]
  BY DEF SucceededFrom, LifecycleOf, k
<1> QED
  BY <1>3, <1>5, <1>6 DEF R

LEMMA CancelledUpdate ==
  ASSUME NEW c, NEW r, CancelledFrom(c, r)
  PROVE  LifecycleOf(r) = CancelledRecord(LifecycleOf(c))
<1> DEFINE k == IF c.lease = Null THEN Null ELSE c.lease.token
           R == LifecycleOf(c)
           X == [R EXCEPT !.state = "cancelled"]
<1>1. R = [state |-> c.state, attempts |-> c.attempts, token |-> k, result |-> c.result]
  BY DEF LifecycleOf
<1> HIDE DEF R, k
<1>2. CancelledRecord(R) =
        [state |-> "cancelled", attempts |-> c.attempts, token |-> Null, result |-> c.result]
  <2>1. X = [state |-> "cancelled", attempts |-> c.attempts, token |-> k, result |-> c.result]
    BY <1>1
  <2>2. CancelledRecord(R) = [X EXCEPT !.token = Null]
    BY DEF CancelledRecord
  <2> HIDE DEF X
  <2> QED
    BY <2>1, <2>2
<1>3. LifecycleOf(r) =
        [state |-> "cancelled", attempts |-> c.attempts, token |-> Null, result |-> c.result]
  BY DEF CancelledFrom, LifecycleOf
<1> QED
  BY <1>2, <1>3 DEF R

\* submit: the rows of the DAG appear together.
LEMMA SubmitRefines ==
  ASSUME CoreInv, NEW s \in Sessions, EffectOK(s), Commit(s), op[s] = "submit"
  PROVE  Abstract!Submit(arg[s])
<1> DEFINE d == arg[s]
<1>1. Finished(s)
  BY DEF Commit
<1>2. /\ pc[s] = "inserted" /\ claims' = claims /\ dags[d] = "absent"
      /\ DOMAIN wr[s] = JobsOf(d)
  BY <1>1, CommitOps DEF Commit, SessionOK, PresenceOK, Inserting
<1>3. \A j \in JobsOf(d) : jobs[j].state = "absent"
  BY <1>2 DEF CoreInv, SubmitAtomic, JobsOf
<1>4. ASSUME NEW j \in Jobs, DagOf[j] # d
      PROVE  LifecycleOf(jobs'[j]) = LifecycleOf(jobs[j])
  BY <1>2, <1>4, CommitEffect DEF JobsOf
<1>5. ASSUME NEW j \in Jobs, DagOf[j] = d
      PROVE  LifecycleOf(jobs'[j]) =
               [state |-> IF Parents(j) = {} THEN "ready" ELSE "pending", attempts |-> 0,
                token |-> Null, result |-> Null]
  <2>1. InsertedRow(j, jobs'[j])
    BY <1>2, <1>5, CommitEffect DEF JobsOf, RowEffect
  <2>2. EdgesInto(j) = {} <=> Parents(j) = {}
    BY DEF Parents
  <2> QED
    BY <2>1, <2>2 DEF InsertedRow, LifecycleOf
<1>6. \A j \in JobsOf(d) : [k \in Jobs |-> LifecycleOf(jobs[k])][j].state = "absent"
  BY <1>3, AbstractRow DEF JobsOf
<1> HIDE DEF d
<1>7. [j \in Jobs |-> LifecycleOf(jobs'[j])] =
        [j \in Jobs |->
           IF DagOf[j] # d THEN [k \in Jobs |-> LifecycleOf(jobs[k])][j]
           ELSE [Abstract!Blank EXCEPT !.state = IF Parents(j) = {} THEN "ready" ELSE "pending"]]
  BY <1>4, <1>5 DEF Abstract!Blank
<1> USE DEF d
<1> QED
  BY <1>2, <1>6, <1>7, SameGraph DEF Abstract!Submit

\* A lease that lapses in the store lapses in the life cycle.
LEMMA LapsedRefines ==
  ASSUME NEW j \in Jobs, LapsedFrom(j, jobs[j], jobs'[j])
  PROVE  LifecycleOf(jobs'[j]) = Abstract!Lapsed(j)
<1>1. Abstract!Lapsed(j) =
        [LifecycleOf(jobs[j]) EXCEPT
           !.state = IF jobs[j].attempts >= MaxAttempts[j] THEN "dead_lettered"
                                                           ELSE "retry_wait",
           !.token = Null]
  BY AbstractRow DEF Abstract!Lapsed
<1> QED
  BY <1>1 DEF LapsedFrom, LifecycleOf

\* reap, and a claim that finds no job: some leases lapse.
LEMMA ReapRefines ==
  ASSUME CoreInv, NEW s \in Sessions, EffectOK(s), Commit(s), op[s] \in {"reap", "claim"},
         pc[s] # "claimed"
  PROVE  \E R \in SUBSET Jobs : Abstract!Lapse(R)
<1> DEFINE R == {j \in Jobs : LapsedFrom(j, jobs[j], jobs'[j])}
<1>1. claims' = claims
  BY DEF Commit
<1>2. ASSUME NEW j \in Jobs \ R
      PROVE  jobs'[j] = jobs[j]
  BY CommitEffect DEF RowEffect
<1>3. \A j \in R : j \in Jobs /\ jobs[j].state = "leased"
  BY DEF LapsedFrom
<1>4. \A j \in R : LifecycleOf(jobs'[j]) = Abstract!Lapsed(j)
  BY LapsedRefines
<1> HIDE DEF R
<1>5. \A j \in R : [k \in Jobs |-> LifecycleOf(jobs[k])][j].state = "leased"
  BY <1>3, AbstractRow
<1>6. [j \in Jobs |-> LifecycleOf(jobs'[j])] =
        [j \in Jobs |-> IF j \in R THEN Abstract!Lapsed(j)
                        ELSE [k \in Jobs |-> LifecycleOf(jobs[k])][j]]
  BY <1>2, <1>4
<1>7. Abstract!Lapse(R)
  BY <1>1, <1>5, <1>6 DEF Abstract!Lapse
<1> QED
  BY <1>7 DEF R

\* fail: one lease lapses.
LEMMA FailRefines ==
  ASSUME CoreInv, NEW s \in Sessions, EffectOK(s), Commit(s), op[s] = "fail"
  PROVE  \E R \in SUBSET Jobs : Abstract!Lapse(R)
<1> DEFINE g == arg[s].job
           R == {g}
<1>1. Finished(s)
  BY DEF Commit
<1>2. g \in Jobs /\ g \in DOMAIN wr[s] /\ pc[s] = "updated" /\ claims' = claims
  BY <1>1, CommitOps DEF Commit
<1>3. LapsedFrom(g, jobs[g], jobs'[g])
  BY <1>2, CommitEffect DEF RowEffect
<1>4. ASSUME NEW j \in Jobs \ R
      PROVE  jobs'[j] = jobs[j]
  BY <1>2, CommitEffect DEF RowEffect
<1>5. /\ LifecycleOf(jobs'[g]) = Abstract!Lapsed(g)
      /\ [k \in Jobs |-> LifecycleOf(jobs[k])][g].state = "leased"
  BY <1>2, <1>3, LapsedRefines, AbstractRow DEF LapsedFrom
<1> HIDE DEF g
<1>6. [j \in Jobs |-> LifecycleOf(jobs'[j])] =
        [j \in Jobs |-> IF j \in R THEN Abstract!Lapsed(j)
                        ELSE [k \in Jobs |-> LifecycleOf(jobs[k])][j]]
  BY <1>4, <1>5
<1>7. Abstract!Lapse(R)
  BY <1>2, <1>5, <1>6 DEF Abstract!Lapse
<1> QED
  BY <1>2, <1>7

\* heartbeat: the life cycle does not show when a lease expires.
LEMMA HeartbeatRefines ==
  ASSUME CoreInv, NEW s \in Sessions, EffectOK(s), Commit(s), op[s] = "heartbeat"
  PROVE  UNCHANGED Abstract!vars
<1>1. claims' = claims
  BY DEF Commit, Finished
<1>2. ASSUME NEW j \in Jobs
      PROVE  LifecycleOf(jobs'[j]) = LifecycleOf(jobs[j])
  <2>1. CASE j \notin DOMAIN wr[s]
    BY <2>1, CommitEffect
  <2>2. CASE j \in DOMAIN wr[s]
    <3>1. RenewedFrom(jobs[j], jobs'[j])
      BY <2>2, CommitEffect DEF RowEffect
    <3>2. jobs[j].lease # Null
      BY <3>1 DEF RenewedFrom, CoreInv, RowOK
    <3> QED
      BY <3>1, <3>2 DEF RenewedFrom, LifecycleOf
  <2> QED
    BY <2>1, <2>2
<1> QED
  BY <1>1, <1>2 DEF Abstract!vars

\* A job that became visible as started had parents that were committed as succeeded
\* before, but for those that the transaction itself completes.
LEMMA ParentsCommitted ==
  ASSUME CoreInv, ParentsOK, NEW s \in Sessions, EffectOK(s), Commit(s), NEW j \in Jobs,
         Started(jobs'[j].state), NEW p \in Parents(j),
         op[s] # "complete" \/ p # arg[s].job
  PROVE  p \in Jobs /\ jobs[p].state = "succeeded"
<1>1. p \in Jobs
  BY ParentsAreJobs
<1>2. jobs'[j] = View(s)[j] /\ jobs'[p] = View(s)[p]
  BY <1>1, CommitEffect
<1>3. jobs'[p].state = "succeeded"
  BY <1>2, SeenStarted DEF ViewSucceeded
<1>4. CASE p \notin DOMAIN wr[s]
  BY <1>1, <1>3, <1>4, CommitEffect
<1>5. CASE p \in DOMAIN wr[s]
  <2>1. RowEffect(s, p, jobs'[p]) /\ Finished(s)
    BY <1>1, <1>5, CommitEffect DEF Commit
  <2>2. op[s] \in {"submit", "reap", "claim", "heartbeat", "complete", "fail", "cancel"}
    BY <2>1, CommitOps
  <2>3. \/ jobs'[p] = jobs[p] \/ InsertedRow(p, jobs'[p]) \/ LapsedFrom(p, jobs[p], jobs'[p])
        \/ TakenFrom(jobs[p], jobs'[p]) \/ RenewedFrom(jobs[p], jobs'[p])
        \/ ReleasedFrom(jobs[p], jobs'[p]) \/ CancelledFrom(jobs[p], jobs'[p])
    BY <2>1, <2>2 DEF RowEffect
  <2> QED
    BY <1>1, <1>3, <2>3 DEF InsertedRow, LapsedFrom, TakenFrom, RenewedFrom, ReleasedFrom,
                            CancelledFrom
<1> QED
  BY <1>1, <1>4, <1>5

\* claim: a job is leased under a new token, other leases lapse with it.
LEMMA ClaimRefines ==
  ASSUME CoreInv, ParentsOK, FenceOK, NEW s \in Sessions, EffectOK(s), Commit(s),
         pc[s] = "claimed"
  PROVE  \E R \in SUBSET Jobs : Abstract!Grant(arg[s].job, arg[s].token, R)
<1> DEFINE g == arg[s].job
           t == arg[s].token
           J == [j \in Jobs |-> LifecycleOf(jobs[j])]
<1>1. Finished(s) /\ claims' = claims \cup {arg[s]}
  BY DEF Commit
<1>2. g \in Jobs /\ g \in DOMAIN wr[s] /\ op[s] = "claim" /\ WorkOK(s)
  BY <1>1, CommitOps DEF SessionOK
<1>3. jobs'[g] = wr[s][g] /\ TakenFrom(jobs[g], jobs'[g]) /\ jobs'[g] \in Row
  BY <1>2, CommitEffect DEF RowEffect
<1>4. jobs'[g].lease.token = t /\ jobs'[g].lease # Null
  <2>1. RowOK(g, wr[s][g])
    BY <1>2 DEF CoreInv, SessionOK, WritesOK
  <2> QED
    BY <1>2, <1>3, <2>1 DEF WorkOK, RowOK
<1>5. jobs[g].state \in Waiting /\ jobs[g].attempts < MaxAttempts[g]
  <2>1. RowOK(g, jobs[g]) /\ MaxAttempts[g] \in 1..20 /\ jobs[g].attempts \in Nat
    BY <1>2, AttemptsAssumption DEF CoreInv, TypeOK, Row
  <2> QED
    BY <1>3, <2>1 DEF TakenFrom, RowOK, BudgetOK, Waiting
<1>6. \A p \in Parents(g) : p \in Jobs /\ jobs[p].state = "succeeded"
  <2>1. Started(jobs'[g].state)
    BY <1>3 DEF TakenFrom, Started
  <2> QED
    BY <1>2, <2>1, ParentsCommitted
<1>7. t \notin {c.token : c \in claims}
  BY DEF FenceOK
<1> DEFINE L == {j \in Jobs \ {g} : LapsedFrom(j, jobs[j], jobs'[j])}
<1>8. PICK R \in SUBSET Jobs : R = L
  OBVIOUS
<1>9. \A j \in R : j \in Jobs /\ j # g /\ jobs[j].state = "leased"
                   /\ LifecycleOf(jobs'[j]) = Abstract!Lapsed(j)
  BY <1>8, LapsedRefines DEF LapsedFrom
<1>10. ASSUME NEW j \in Jobs \ R, j # g
      PROVE  jobs'[j] = jobs[j]
  BY <1>2, <1>10, <1>8, CommitEffect DEF RowEffect
<1>11. LifecycleOf(jobs'[g]) = GrantedRecord(LifecycleOf(jobs[g]), t)
  BY <1>3, <1>4, GrantedUpdate
<1>12. {c.token : c \in claims'} = {c.token : c \in claims} \cup {t}
  BY <1>1
<1> HIDE DEF L, g, t
<1>13. /\ J[g].state \in Waiting /\ J[g].attempts < MaxAttempts[g]
       /\ \A p \in Parents(g) : J[p].state = "succeeded"
       /\ \A j \in R : J[j].state = "leased"
       /\ \A j \in Jobs : J[j] = LifecycleOf(jobs[j])
  BY <1>2, <1>5, <1>6, <1>9, AbstractRow
<1>14. [j \in Jobs |-> LifecycleOf(jobs'[j])] =
         [j \in Jobs |->
            CASE j = g -> GrantedRecord(J[j], t)
              [] j \in R /\ j # g -> Abstract!Lapsed(j)
              [] OTHER -> J[j]]
  <2> HIDE DEF J
  <2> QED
    BY <1>9, <1>10, <1>11, <1>13
<1>15. Abstract!Grant(g, t, R)
  BY <1>7, <1>12, <1>13, <1>14, SameGraph DEF Abstract!Grant, GrantedRecord
<1>16. Abstract!Grant(arg[s].job, arg[s].token, R)
  BY <1>15 DEF g, t
<1> QED
  BY <1>16

\* complete: the job succeeds under the token of its lease, and children whose other
\* parents had all succeeded become ready.
LEMMA CompleteRefines ==
  ASSUME CoreInv, ParentsOK, NEW s \in Sessions, EffectOK(s), Commit(s), op[s] = "complete"
  PROVE  \E C \in SUBSET Jobs : Abstract!Succeed(arg[s].job, C)
<1> DEFINE g == arg[s].job
           C == {j \in Jobs \ {g} : j \in Children(g) /\ ReleasedFrom(jobs[j], jobs'[j])}
           J == [j \in Jobs |-> LifecycleOf(jobs[j])]
<1>1. Finished(s) /\ claims' = claims
  BY DEF Commit, Finished
<1>2. g \in Jobs /\ g \in DOMAIN wr[s]
  BY <1>1, CommitOps
<1>3. SucceededFrom(jobs[g], jobs'[g])
  BY <1>2, CommitEffect DEF RowEffect
<1>4. jobs[g].lease # Null
  BY <1>2, <1>3 DEF CoreInv, RowOK, SucceededFrom
<1>5. LifecycleOf(jobs'[g]) = SucceededRecord(LifecycleOf(jobs[g]))
  BY <1>3, <1>4, SucceededUpdate
<1>6. ASSUME NEW j \in Jobs \ C, j # g
      PROVE  jobs'[j] = jobs[j]
  BY <1>6, CommitEffect DEF RowEffect
<1>7. ASSUME NEW c \in C
      PROVE  /\ c \in Jobs /\ c # g /\ jobs[c].state = "pending" /\ g \in Parents(c)
             /\ \A p \in Parents(c) \ {g} : p \in Jobs /\ jobs[p].state = "succeeded"
             /\ LifecycleOf(jobs'[c]) = [LifecycleOf(jobs[c]) EXCEPT !.state = "ready"]
  <2>1. g \in Parents(c)
    BY DEF Children, Parents, EdgesInto
  <2>2. ReleasedFrom(jobs[c], jobs'[c]) /\ c \in Jobs
    OBVIOUS
  <2>3. jobs[c].lease = Null
    BY <2>2 DEF ReleasedFrom, CoreInv, RowOK
  <2>4. Started(jobs'[c].state)
    BY <2>2 DEF ReleasedFrom, Started
  <2>5. \A p \in Parents(c) \ {g} : p \in Jobs /\ jobs[p].state = "succeeded"
    BY <2>2, <2>4, ParentsCommitted
  <2> QED
    BY <2>1, <2>2, <2>3, <2>5 DEF ReleasedFrom, LifecycleOf
<1>8. C \in SUBSET Jobs /\ jobs[g].state = "leased"
  BY <1>3 DEF SucceededFrom
<1> HIDE DEF C, g
<1>9. /\ J[g].state = "leased"
      /\ \A c \in C : /\ J[c].state = "pending" /\ g \in Parents(c)
                      /\ \A p \in Parents(c) \ {g} : J[p].state = "succeeded"
      /\ \A j \in Jobs : J[j] = LifecycleOf(jobs[j])
  BY <1>2, <1>7, <1>8, AbstractRow
<1>10. [j \in Jobs |-> LifecycleOf(jobs'[j])] =
         [j \in Jobs |->
            CASE j = g -> SucceededRecord(J[j])
              [] j \in C /\ j # g -> [J[j] EXCEPT !.state = "ready"]
              [] OTHER -> J[j]]
  <2> HIDE DEF J
  <2> QED
    BY <1>5, <1>6, <1>7, <1>9
<1>11. Abstract!Succeed(g, C)
  BY <1>1, <1>9, <1>10, SameGraph DEF Abstract!Succeed, SucceededRecord
<1> QED
  BY <1>8, <1>11 DEF g

\* cancel: every unfinished job of the DAG is cancelled.
LEMMA CancelRefines ==
  ASSUME CoreInv, CancelOK, NEW s \in Sessions, EffectOK(s), Commit(s), op[s] = "cancel"
  PROVE  Abstract!Cancel(arg[s])
<1> DEFINE d == arg[s]
           J == [j \in Jobs |-> LifecycleOf(jobs[j])]
<1>1. Finished(s) /\ claims' = claims
  BY DEF Commit, Finished
<1>2. pc[s] = "cancelling" /\ DOMAIN todo[s] = {} /\ d \in Dags /\ dags[d] # "absent"
  BY <1>1, CommitOps DEF SessionOK, PresenceOK
<1>3. \A j \in JobsOf(d) : jobs[j].state # "absent"
  BY <1>2 DEF CoreInv, SubmitAtomic, JobsOf
<1>4. \A j \in JobsOf(d) : jobs'[j].state \in Terminal
  BY <1>2, CommitEffect DEF CancelOK, JobsOf
<1>5. ASSUME NEW j \in Jobs, ~(DagOf[j] = d /\ jobs[j].state \notin Terminal)
      PROVE  jobs'[j] = jobs[j]
  <2>1. jobs[j].state \in Terminal => jobs'[j] = jobs[j]
    BY CommitFacts
  <2> QED
    BY <1>5, <2>1, CommitEffect DEF RowEffect, JobsOf
<1>6. ASSUME NEW j \in Jobs, DagOf[j] = d, jobs[j].state \notin Terminal
      PROVE  LifecycleOf(jobs'[j]) =
               CancelledRecord(LifecycleOf(jobs[j]))
  <2>1. jobs'[j] # jobs[j]
    BY <1>4, <1>6 DEF JobsOf
  <2>2. CancelledFrom(jobs[j], jobs'[j])
    BY <2>1, CommitEffect DEF RowEffect
  <2> QED
    BY <2>2, CancelledUpdate
<1> HIDE DEF d
<1>7. /\ \A j \in JobsOf(d) : J[j].state # "absent"
      /\ \A j \in Jobs : J[j] = LifecycleOf(jobs[j]) /\ J[j].state = jobs[j].state
  BY <1>3, AbstractRow DEF JobsOf
<1>8. [j \in Jobs |-> LifecycleOf(jobs'[j])] =
        [j \in Jobs |->
           IF DagOf[j] = d /\ J[j].state \notin Terminal
           THEN CancelledRecord(J[j])
           ELSE J[j]]
  <2> HIDE DEF J
  <2> QED
    BY <1>5, <1>6, <1>7
<1>9. Abstract!Cancel(d)
  BY <1>1, <1>7, <1>8, SameGraph DEF Abstract!Cancel, CancelledRecord
<1> QED
  BY <1>9 DEF d

\* COMMIT is a step of the life cycle or changes nothing it shows.
LEMMA CommitRefines ==
  ASSUME CoreInv, ParentsOK, CancelOK, FenceOK, NEW s \in Sessions, EffectOK(s), Commit(s)
  PROVE  [Abstract!Next]_Abstract!vars
<1>1. /\ op[s] \in {"submit", "reap", "claim", "heartbeat", "complete", "fail", "cancel"}
      /\ op[s] \in {"submit", "cancel"} => arg[s] \in Dags
      /\ pc[s] = "claimed" \/ op[s] = "complete" => arg[s] \in Claim
  BY CommitOps DEF Commit
<1>2. CASE op[s] = "submit"
  BY <1>1, <1>2, SubmitRefines DEF Abstract!Next
<1>3. CASE op[s] = "cancel"
  BY <1>1, <1>3, CancelRefines DEF Abstract!Next
<1>4. CASE op[s] = "heartbeat"
  BY <1>4, HeartbeatRefines
<1>5. CASE op[s] = "fail"
  BY <1>5, FailRefines DEF Abstract!Next
<1>6. CASE op[s] = "complete"
  BY <1>1, <1>6, CompleteRefines DEF Abstract!Next, Claim
<1>7. CASE pc[s] = "claimed"
  BY <1>1, <1>7, ClaimRefines DEF Abstract!Next, Claim
<1>8. CASE op[s] \in {"reap", "claim"} /\ pc[s] # "claimed"
  BY <1>8, ReapRefines DEF Abstract!Next
<1> QED
  BY <1>1, <1>2, <1>3, <1>4, <1>5, <1>6, <1>7, <1>8

\* Every step of the store is a step of the life cycle or changes nothing it shows.
LEMMA StoreStepRefines ==
  CoreInv /\ ParentsOK /\ CancelOK /\ FenceOK /\ (\A s \in Sessions : EffectOK(s))
    /\ [Next]_vars => [Abstract!Next]_Abstract!vars
<1> SUFFICES ASSUME CoreInv, ParentsOK, CancelOK, FenceOK, \A s \in Sessions : EffectOK(s),
                    [Next]_vars
             PROVE  [Abstract!Next]_Abstract!vars
  OBVIOUS
<1>1. ASSUME UNCHANGED <<jobs, claims>> PROVE UNCHANGED Abstract!vars
  BY <1>1 DEF Abstract!vars
<1>2. CASE Tick \/ UNCHANGED vars
  BY <1>1, <1>2 DEF Tick, vars, tables
<1>3. ASSUME NEW s \in Sessions, Call(s) \/ Step(s) \/ Abort(s)
      PROVE  [Abstract!Next]_Abstract!vars
  BY <1>1, <1>3, OthersLocked, CommitRefines
<1> QED
  BY <1>2, <1>3 DEF Next

LEMMA StoreInitRefines == Init => Abstract!Init
<1> SUFFICES ASSUME Init PROVE Abstract!Init
  OBVIOUS
<1>1. LifecycleOf(AbsentRow) = Abstract!Blank
  BY DEF LifecycleOf, AbsentRow, Abstract!Blank
<1>2. \A j \in Jobs : jobs[j] = AbsentRow
  BY DEF Init
<1> QED
  BY <1>1, <1>2 DEF Init, Abstract!Init

-----------------------------------------------------------------------------
\* The event table

Told(q, type) == {i \in DOMAIN q : q[i].type = type}

\* What AuditTrail and EventsInPast say of one job: its events q and its row r.
TrailOK(q, r) ==
  /\ {q[i].attempt : i \in Told(q, "claimed")} = 1..r.attempts
  /\ \A i, k \in Told(q, "claimed") : i < k => q[i].attempt < q[k].attempt
  /\ {q[i].attempt : i \in Told(q, "succeeded")} =
       IF r.state = "succeeded" THEN {r.attempts} ELSE {}
  /\ \A i, k \in DOMAIN q \ Told(q, "claimed") : q[i].attempt = q[k].attempt => i = k
  /\ \A i \in DOMAIN q :
       /\ q[i].attempt <= r.attempts
       /\ r.state = "leased" /\ q[i].type # "claimed" => q[i].attempt < r.attempts

LEMMA TrailParts ==
  AuditTrail /\ EventsInPast <=> \A j \in Jobs : TrailOK(events[j], jobs[j])
BY DEF AuditTrail, EventsInPast, TrailOK, Told, EventsOf, AttemptsOf

\* An event is appended: the old ones keep their positions.
LEMMA OneMore ==
  ASSUME NEW q \in Seq(Event), NEW e \in Event, NEW q2, q2 = q \o <<e>>
  PROVE  \E n \in Nat :
           /\ n \notin DOMAIN q /\ DOMAIN q2 = DOMAIN q \cup {n} /\ q2[n] = e
           /\ \A i \in DOMAIN q : i \in Nat /\ i < n /\ q2[i] = q[i] /\ q[i] \in Event
<1> DEFINE n == Len(q) + 1
<1>1. Len(q) \in Nat /\ DOMAIN q = 1..Len(q) /\ n \in Nat
  OBVIOUS
<1>2. DOMAIN q2 = 1..n /\ q2[n] = e /\ \A i \in 1..Len(q) : q2[i] = q[i] /\ q[i] \in Event
  BY <1>1
<1>3. 1..n = (1..Len(q)) \cup {n} /\ \A i \in 1..Len(q) : i \in Nat /\ i < n
  BY <1>1
<1> HIDE DEF n
<1> QED
  BY <1>1, <1>2, <1>3

\* A row that no event tells of keeps its attempts and whether it has succeeded.
LEMMA TrailSame ==
  ASSUME NEW q, NEW c, NEW r, TrailOK(q, c), r.attempts = c.attempts,
         r.state = "succeeded" <=> c.state = "succeeded",
         r.state = "leased" => c.state = "leased"
  PROVE  TrailOK(q, r)
BY DEF TrailOK

\* A claim is told with the next attempt.
LEMMA TrailClaim ==
  ASSUME NEW q \in Seq(Event), NEW c \in Row, NEW r \in Row, TrailOK(q, c),
         c.state \in Waiting, r.state = "leased", r.attempts = c.attempts + 1,
         NEW e \in Event, e.type = "claimed", e.attempt = r.attempts,
         NEW q2, q2 = q \o <<e>>
  PROVE  TrailOK(q2, r)
<1>1. PICK n \in Nat :
        /\ n \notin DOMAIN q /\ DOMAIN q2 = DOMAIN q \cup {n} /\ q2[n] = e
        /\ \A i \in DOMAIN q : i \in Nat /\ i < n /\ q2[i] = q[i] /\ q[i] \in Event
  BY OneMore
<1>2. c.attempts \in Nat /\ \A i \in DOMAIN q : q[i].attempt \in Nat
  BY <1>1 DEF Row, Event
<1>3. Told(q2, "claimed") = Told(q, "claimed") \cup {n} /\ Told(q2, "succeeded") = Told(q, "succeeded")
  BY <1>1 DEF Told
<1>4. {q2[i].attempt : i \in Told(q2, "claimed")} = 1..r.attempts
  <2>1. {q2[i].attempt : i \in Told(q2, "claimed")} =
          {q[i].attempt : i \in Told(q, "claimed")} \cup {r.attempts}
    <3>1. q2[n].attempt = r.attempts /\ \A i \in Told(q, "claimed") : q2[i].attempt = q[i].attempt
      BY <1>1 DEF Told
    <3>2. {q2[i].attempt : i \in Told(q, "claimed")} = {q[i].attempt : i \in Told(q, "claimed")}
      BY <3>1
    <3>3. {q2[i].attempt : i \in Told(q, "claimed") \cup {n}} =
            {q2[i].attempt : i \in Told(q, "claimed")} \cup {q2[n].attempt}
      OBVIOUS
    <3> QED
      BY <1>3, <3>1, <3>2, <3>3
  <2>2. 1..(c.attempts + 1) = (1..c.attempts) \cup {c.attempts + 1}
    BY <1>2
  <2> QED
    BY <2>1, <2>2 DEF TrailOK
<1>5. ASSUME NEW i \in Told(q2, "claimed"), NEW k \in Told(q2, "claimed"), i < k
      PROVE  q2[i].attempt < q2[k].attempt
  <2>1. i \in DOMAIN q
    BY <1>1, <1>3, <1>5 DEF Told
  <2>2. CASE k = n
    BY <1>1, <1>2, <2>1, <2>2 DEF TrailOK
  <2>3. CASE k # n
    BY <1>1, <1>3, <1>5, <2>1, <2>3 DEF TrailOK, Told
  <2> QED
    BY <2>2, <2>3
<1>6. {q2[i].attempt : i \in Told(q2, "succeeded")} = {}
  <2>1. {q[i].attempt : i \in Told(q, "succeeded")} = {}
    BY DEF TrailOK, Waiting
  <2> QED
    BY <1>3, <2>1
<1>7. \A i, k \in DOMAIN q2 \ Told(q2, "claimed") : q2[i].attempt = q2[k].attempt => i = k
  BY <1>1, <1>3 DEF TrailOK
<1>8. \A i \in DOMAIN q2 :
        /\ q2[i].attempt <= r.attempts
        /\ r.state = "leased" /\ q2[i].type # "claimed" => q2[i].attempt < r.attempts
  BY <1>1, <1>2 DEF TrailOK
<1> QED
  BY <1>4, <1>5, <1>6, <1>7, <1>8 DEF TrailOK

\* The outcome of an attempt is told once: the attempt was under way, so no event
\* told of its outcome before.
LEMMA TrailOutcome ==
  ASSUME NEW q \in Seq(Event), NEW c \in Row, NEW r \in Row, TrailOK(q, c),
         c.state = "leased", r.state \in {"succeeded", "retry_wait", "dead_lettered"},
         r.attempts = c.attempts,
         NEW e \in Event, e.type = r.state, e.attempt = r.attempts,
         NEW q2, q2 = q \o <<e>>
  PROVE  TrailOK(q2, r)
<1>1. PICK n \in Nat :
        /\ n \notin DOMAIN q /\ DOMAIN q2 = DOMAIN q \cup {n} /\ q2[n] = e
        /\ \A i \in DOMAIN q : i \in Nat /\ i < n /\ q2[i] = q[i] /\ q[i] \in Event
  BY OneMore
<1>2. c.attempts \in Nat /\ \A i \in DOMAIN q : q[i].attempt \in Nat
  BY <1>1 DEF Row, Event
<1>3. /\ Told(q2, "claimed") = Told(q, "claimed")
      /\ Told(q2, "succeeded") =
           IF r.state = "succeeded" THEN Told(q, "succeeded") \cup {n} ELSE Told(q, "succeeded")
  BY <1>1 DEF Told
<1>4. {q2[i].attempt : i \in Told(q2, "claimed")} = 1..r.attempts
  <2>1. {q2[i].attempt : i \in Told(q2, "claimed")} = {q[i].attempt : i \in Told(q, "claimed")}
    <3>1. \A i \in Told(q, "claimed") : q2[i].attempt = q[i].attempt
      BY <1>1 DEF Told
    <3> QED
      BY <1>3, <3>1
  <2> QED
    BY <2>1 DEF TrailOK
<1>5. \A i, k \in Told(q2, "claimed") : i < k => q2[i].attempt < q2[k].attempt
  BY <1>1, <1>3 DEF TrailOK, Told
<1>6. {q2[i].attempt : i \in Told(q2, "succeeded")} =
        IF r.state = "succeeded" THEN {r.attempts} ELSE {}
  <2>1. {q[i].attempt : i \in Told(q, "succeeded")} = {}
    BY DEF TrailOK
  <2>2. Told(q, "succeeded") = {}
    BY <2>1
  <2> QED
    BY <1>1, <1>3, <2>2
<1>7. \A i, k \in DOMAIN q2 \ Told(q2, "claimed") : q2[i].attempt = q2[k].attempt => i = k
  <2>1. \A i \in DOMAIN q \ Told(q, "claimed") : q[i].attempt < r.attempts
    BY DEF TrailOK, Told
  <2> QED
    BY <1>1, <1>2, <1>3, <2>1 DEF TrailOK
<1>8. \A i \in DOMAIN q2 :
        /\ q2[i].attempt <= r.attempts
        /\ r.state = "leased" /\ q2[i].type # "claimed" => q2[i].attempt < r.attempts
  BY <1>1, <1>2 DEF TrailOK
<1> QED
  BY <1>4, <1>5, <1>6, <1>7, <1>8 DEF TrailOK

\* A commit tells of the job that its claim names, and of no other.
Tells(s, j) == (pc[s] = "claimed" \/ op[s] \in {"complete", "fail"}) /\ arg[s].job = j

LEMMA UntoldRow ==
  ASSUME CoreInv, NEW s \in Sessions, EffectOK(s), Commit(s), NEW j \in Jobs, ~Tells(s, j)
  PROVE  /\ events'[j] = events[j]
         /\ jobs'[j].attempts = jobs[j].attempts
         /\ jobs'[j].state = "succeeded" <=> jobs[j].state = "succeeded"
         /\ jobs'[j].state = "leased" => jobs[j].state = "leased"
<1>1. events'[j] = events[j]
  <2>1. events[j] \in Seq(Event) /\ events'[j] = events[j] \o <<>>
    BY DEF CoreInv, TypeOK, Commit, NewEvents, Tells
  <2> QED
    BY <2>1
<1>2. CASE j \notin DOMAIN wr[s]
  BY <1>1, <1>2, CommitEffect
<1>3. CASE j \in DOMAIN wr[s] /\ op[s] = "submit"
  <2>1. pc[s] = "inserted" /\ SessionOK(s)
    BY <1>3, CommitOps DEF Commit
  <2>2. dags[arg[s]] = "absent" /\ j \in JobsOf(arg[s])
    BY <1>3, <2>1 DEF SessionOK, PresenceOK, Inserting
  <2>3. jobs[j].state = "absent" /\ jobs[j].attempts = 0
    BY <2>2 DEF CoreInv, SubmitAtomic, RowOK, BudgetOK, JobsOf
  <2>4. InsertedRow(j, jobs'[j])
    BY <1>3, CommitEffect DEF RowEffect
  <2> QED
    BY <1>1, <2>3, <2>4 DEF InsertedRow
<1>4. CASE j \in DOMAIN wr[s] /\ op[s] # "submit"
  <2>1. RowEffect(s, j, jobs'[j])
    BY <1>4, CommitEffect
  <2>2. op[s] \in {"submit", "reap", "claim", "heartbeat", "complete", "fail", "cancel"}
    BY CommitOps DEF Commit
  <2>3. \/ jobs'[j] = jobs[j] \/ LapsedFrom(j, jobs[j], jobs'[j])
        \/ RenewedFrom(jobs[j], jobs'[j])
        \/ ReleasedFrom(jobs[j], jobs'[j]) \/ CancelledFrom(jobs[j], jobs'[j])
    BY <1>4, <2>1, <2>2 DEF RowEffect, Tells
  <2> QED
    BY <1>1, <2>3 DEF LapsedFrom, RenewedFrom, ReleasedFrom, CancelledFrom, Terminal
<1> QED
  BY <1>2, <1>3, <1>4

LEMMA ToldRow ==
  ASSUME CoreInv, NEW s \in Sessions, EffectOK(s), Commit(s), NEW j \in Jobs, Tells(s, j),
         TrailOK(events[j], jobs[j])
  PROVE  TrailOK(events'[j], jobs'[j])
<1> DEFINE e == [type |-> IF op[s] = "claim" THEN "claimed" ELSE wr[s][j].state,
                 attempt |-> wr[s][j].attempts]
<1>1. /\ events'[j] = events[j] \o <<e>> /\ events[j] \in Seq(Event) /\ Finished(s)
      /\ jobs[j] \in Row
  BY DEF CoreInv, TypeOK, Commit, NewEvents, Tells
<1>2. j \in DOMAIN wr[s] /\ SessionOK(s) /\ (pc[s] = "claimed" => op[s] = "claim")
  BY <1>1, CommitOps DEF Tells
<1>3. jobs'[j] = wr[s][j] /\ jobs'[j] \in Row /\ RowEffect(s, j, jobs'[j])
  BY <1>2, CommitEffect
<1>4. e.attempt = jobs'[j].attempts /\ e.attempt \in Nat
  BY <1>3 DEF Row
<1>5. CASE pc[s] = "claimed"
  <2>1. TakenFrom(jobs[j], jobs'[j])
    BY <1>3, <1>5 DEF RowEffect, Tells
  <2>2. e.type = "claimed" /\ e \in Event
    BY <1>2, <1>4, <1>5 DEF Event
  <2> HIDE DEF e
  <2> QED
    BY <1>1, <1>3, <1>4, <2>1, <2>2, TrailClaim DEF TakenFrom
<1>6. CASE op[s] \in {"complete", "fail"}
  <2>1. /\ jobs[j].state = "leased" /\ jobs'[j].attempts = jobs[j].attempts
        /\ jobs'[j].state \in {"succeeded", "retry_wait", "dead_lettered"}
    BY <1>3, <1>6 DEF RowEffect, Tells, SucceededFrom, LapsedFrom
  <2>2. e.type = jobs'[j].state /\ e \in Event
    BY <1>3, <1>4, <1>6, <2>1 DEF Event
  <2> HIDE DEF e
  <2> QED
    BY <1>1, <1>3, <1>4, <2>1, <2>2, TrailOutcome
<1> QED
  BY <1>5, <1>6 DEF Tells

\* Steps other than COMMIT leave the event table alone.
LEMMA EventsStay ==
  ASSUME CoreInv, NEW s \in Sessions, Call(s) \/ Step(s) \/ Abort(s)
  PROVE  Commit(s) \/ UNCHANGED events
<1>1. CASE Call(s) \/ Abort(s)
  BY <1>1 DEF Call, SubmitBegin, ClaimBegin, ReapBegin, CancelBegin, HeartbeatBegin,
              CompleteBegin, FailBegin, LeaseCallBegin, Begin, Abort, Rollback, tables
<1>2. CASE Step(s)
  <2>1. CASE ReapRow(s) \/ ReleaseRow(s) \/ CancelRow(s)
    BY <2>1 DEF ReapRow, ReleaseRow, CancelRow, Visit, tables
  <2>2. CASE HeartbeatRow(s) \/ CompleteRow(s) \/ FailRow(s)
    BY <2>2 DEF HeartbeatRow, CompleteRow, FailRow, Cas, tables
  <2>3. CASE StartReap(s) \/ StartCas(s) \/ StartRelease(s) \/ StartCancelJobs(s)
    BY <2>3 DEF StartReap, StartCas, StartRelease, StartCancelJobs, Open, tables
  <2>4. CASE DuplicateDag(s) \/ DuplicateEdge(s) \/ LeaseConflict(s) \/ DagNotFound(s)
             \/ DeadlockAbort(s)
    BY <2>4 DEF DuplicateDag, DuplicateEdge, LeaseConflict, DagNotFound, DeadlockAbort,
                Rollback, tables
  <2>5. CASE InsertDag(s) \/ CancelDag(s) \/ InsertJobs(s)
    BY <2>5 DEF InsertDag, CancelDag, InsertJobs, tables
  <2>6. CASE SelectCandidates(s) \/ SkipLocked(s) \/ RejectCandidate(s) \/ TakeCandidate(s)
    BY <2>6 DEF SelectCandidates, SkipLocked, RejectCandidate, TakeCandidate, tables
  <2> QED
    BY <1>2, <2>1, <2>2, <2>3, <2>4, <2>5, <2>6 DEF Step
<1> QED
  BY <1>1, <1>2

\* The event table is told truly by every step.
LEMMA TrailNext ==
  CoreInv /\ (\A s \in Sessions : EffectOK(s)) /\ AuditTrail /\ EventsInPast /\ [Next]_vars
    => AuditTrail' /\ EventsInPast'
<1> SUFFICES ASSUME CoreInv, \A s \in Sessions : EffectOK(s), AuditTrail, EventsInPast,
                    [Next]_vars
             PROVE  AuditTrail' /\ EventsInPast'
  OBVIOUS
<1>1. \A j \in Jobs : TrailOK(events[j], jobs[j])
  BY TrailParts
<1>2. ASSUME \A j \in Jobs : TrailOK(events'[j], jobs'[j])
      PROVE  AuditTrail' /\ EventsInPast'
  BY <1>2 DEF AuditTrail, EventsInPast, TrailOK, Told, EventsOf, AttemptsOf
<1>3. CASE UNCHANGED <<events, jobs>>
  BY <1>1, <1>2, <1>3
<1>4. ASSUME NEW s \in Sessions, Commit(s)
      PROVE  AuditTrail' /\ EventsInPast'
  <2>1. ASSUME NEW j \in Jobs, Tells(s, j) PROVE TrailOK(events'[j], jobs'[j])
    BY <1>1, <1>4, <2>1, ToldRow
  <2>2. ASSUME NEW j \in Jobs, ~Tells(s, j) PROVE TrailOK(events'[j], jobs'[j])
    BY <1>1, <1>4, <2>2, UntoldRow, TrailSame
  <2> QED
    BY <1>2, <2>1, <2>2
<1>5. ASSUME NEW s \in Sessions, Call(s) \/ Step(s) \/ Abort(s)
      PROVE  Commit(s) \/ UNCHANGED <<events, jobs>>
  BY <1>5, EventsStay, OthersLocked
<1> QED
  BY <1>3, <1>4, <1>5 DEF Next, Tick, vars, tables

LEMMA TrailInit == Init => AuditTrail /\ EventsInPast
<1> SUFFICES ASSUME Init PROVE \A j \in Jobs : TrailOK(events[j], jobs[j])
  BY TrailParts
<1>1. \A j \in Jobs : events[j] = <<>> /\ jobs[j] = AbsentRow
  BY DEF Init
<1>2. TrailOK(<<>>, AbsentRow)
  BY DEF TrailOK, Told, AbsentRow
<1> QED
  BY <1>1, <1>2

-----------------------------------------------------------------------------
\* The release of children

\* Parents belong to the DAG of the child, and a child of p has p as a parent.
LEMMA ParentsOfDag ==
  ASSUME NEW j \in Jobs, NEW p \in Parents(j)
  PROVE  p \in Jobs /\ DagOf[p] = DagOf[j] /\ j \in Children(p)
BY EdgesAssumption DEF Parents, EdgesInto, Children

LEMMA OnlyParent ==
  ASSUME NEW j \in Jobs, Cardinality(Parents(j)) = 1, NEW p \in Parents(j)
  PROVE  Parents(j) = {p}
<1>1. IsFiniteSet(Parents(j))
  BY ParentsAreJobs, JobsAssumption, FS_Subset
<1>2. \E x : Parents(j) = {x}
  BY <1>1, FS_Singleton
<1> QED
  BY <1>2

\* Only a submission makes a job pending, and it does so for jobs that did not exist.
LEMMA PendingBefore ==
  ASSUME CoreInv, NEW s \in Sessions, EffectOK(s), Commit(s), NEW j \in Jobs,
         jobs'[j].state = "pending", jobs[j].state # "pending"
  PROVE  /\ op[s] = "submit" /\ dags[arg[s]] = "absent" /\ j \in JobsOf(arg[s])
         /\ DOMAIN wr[s] = JobsOf(arg[s])
<1>1. j \in DOMAIN wr[s] /\ RowEffect(s, j, jobs'[j])
  BY CommitEffect
<1>2. /\ op[s] \in {"submit", "reap", "claim", "heartbeat", "complete", "fail", "cancel"}
      /\ SessionOK(s) /\ (op[s] = "submit" => pc[s] = "inserted")
  BY CommitOps DEF Commit
<1>3. ~LapsedFrom(j, jobs[j], jobs'[j]) /\ ~TakenFrom(jobs[j], jobs'[j])
      /\ ~RenewedFrom(jobs[j], jobs'[j]) /\ ~SucceededFrom(jobs[j], jobs'[j])
      /\ ~ReleasedFrom(jobs[j], jobs'[j]) /\ ~CancelledFrom(jobs[j], jobs'[j])
      /\ jobs'[j] # jobs[j]
  BY DEF LapsedFrom, TakenFrom, RenewedFrom, SucceededFrom, ReleasedFrom, CancelledFrom
<1>4. op[s] = "submit"
  BY <1>1, <1>2, <1>3 DEF RowEffect
<1> QED
  BY <1>1, <1>2, <1>4 DEF SessionOK, PresenceOK, Inserting

\* Only complete makes a job succeed: the one that its claim names.
LEMMA SucceededNow ==
  ASSUME CoreInv, NEW s \in Sessions, EffectOK(s), Commit(s), NEW p \in Jobs,
         jobs'[p].state = "succeeded", jobs[p].state # "succeeded"
  PROVE  op[s] = "complete" /\ p = arg[s].job
<1>1. RowEffect(s, p, jobs'[p])
  BY CommitEffect
<1>2. op[s] \in {"submit", "reap", "claim", "heartbeat", "complete", "fail", "cancel"}
  BY CommitOps DEF Commit
<1>3. ~LapsedFrom(p, jobs[p], jobs'[p]) /\ ~TakenFrom(jobs[p], jobs'[p])
      /\ ~RenewedFrom(jobs[p], jobs'[p]) /\ ~InsertedRow(p, jobs'[p])
      /\ ~ReleasedFrom(jobs[p], jobs'[p]) /\ ~CancelledFrom(jobs[p], jobs'[p])
      /\ jobs'[p] # jobs[p]
  BY DEF LapsedFrom, TakenFrom, RenewedFrom, InsertedRow, ReleasedFrom, CancelledFrom
<1> QED
  BY <1>1, <1>2, <1>3 DEF RowEffect

\* The statement that releases starts with every child whose only parent succeeded.
LEMMA ReleaseStart ==
  ASSUME CoreInv, NEW s \in Sessions, StartRelease(s)
  PROVE  ReleaseOK(s)'
<1> DEFINE g == arg[s].job
           rows == {c \in Children(g) : View(s)[c].state = "pending" /\ ParentsSucceeded(s, c)}
<1>1. /\ op[s] = "complete" /\ pc[s] = "updated" /\ Open(s, rows, "releasing")
      /\ rows \in SUBSET Jobs
  BY EdgesAssumption DEF StartRelease, Children
<1>2. g \in Jobs /\ View(s)[g].state = "succeeded"
  <2>1. SessionOK(s) /\ SessionTypeOK(s)
    BY DEF CoreInv, TypeOK
  <2>2. arg[s] \in Claim /\ g \in DOMAIN wr[s] /\ wr[s][g].state = "succeeded"
    BY <1>1, <2>1, OpOfStep DEF SessionOK, WorkOK
  <2> QED
    BY <2>2 DEF Claim, View
<1>3. ASSUME NEW j \in Jobs, Parents(j) = {g}, View(s)[j].state = "pending"
      PROVE  j \in rows
  <2>1. j \in Children(g)
    BY <1>3, ParentsOfDag
  <2> QED
    BY <1>2, <1>3, <2>1 DEF ParentsSucceeded
<1> HIDE DEF rows, g
<1>4. /\ \A j \in rows : \E i \in DOMAIN todo'[s] : todo'[s][i] = j
      /\ arg'[s] = arg[s] /\ wr'[s] = wr[s] /\ jobs' = jobs
  BY <1>1, OpenFacts DEF tables
<1>5. \A j \in Jobs : View(s)'[j] = View(s)[j]
  BY <1>4 DEF View
<1> QED
  BY <1>3, <1>4, <1>5 DEF ReleaseOK, g

\* The row that the statement visits is not pending afterwards.
LEMMA ReleaseVisit ==
  ASSUME CoreInv, NEW s \in Sessions, ReleaseOK(s), ReleaseRow(s)
  PROVE  ReleaseOK(s)'
<1> DEFINE j == Head(todo[s])
           r == IF IsPending(s, View(s)[j]) THEN ReleasedRow(s, j) ELSE View(s)[j]
<1>1. /\ pc[s] = "releasing" /\ todo[s] # <<>> /\ wr' = Write(s, j, r)
      /\ todo' = [todo EXCEPT ![s] = Tail(@)]
      /\ UNCHANGED <<now, tables, op, arg, pc, ts>>
  BY DEF ReleaseRow, Visit
<1>2. j \in Jobs /\ j = todo[s][1]
  BY <1>1, HeadTail
<1>3. View(s)[j] \in Row /\ ts[s] \in Nat
  BY <1>2, ViewOK DEF CoreInv, TypeOK, SessionTypeOK
<1>4. ReleasedRow(s, j) \in Row /\ ReleasedRow(s, j).state = "ready"
  BY <1>3 DEF ReleasedRow, Row, JobState
<1>5. r \in Row /\ r.state # "pending"
  BY <1>3, <1>4 DEF IsPending
<1> HIDE DEF r, j
<1>6. /\ DOMAIN wr'[s] = DOMAIN wr[s] \cup {j} /\ wr'[s][j] = r
      /\ \A k \in DOMAIN wr[s] \ {j} : wr'[s][k] = wr[s][k]
  BY <1>1, <1>2, <1>5, WriteFacts
<1>7. /\ View(s)'[j].state # "pending"
      /\ \A k \in Jobs \ {j} : View(s)'[k] = View(s)[k]
  BY <1>1, <1>2, <1>5, <1>6 DEF View, tables
<1>8. \A i \in DOMAIN todo[s] :
        i = 1 \/ (i - 1 \in DOMAIN todo'[s] /\ todo'[s][i - 1] = todo[s][i])
  <2>1. todo[s] \in Seq(Jobs) /\ todo'[s] = Tail(todo[s])
    BY <1>1 DEF CoreInv, TypeOK, SessionTypeOK
  <2> QED
    BY <1>1, <2>1, TailKeeps
<1>9. ASSUME NEW k \in Jobs, Parents(k) = {arg[s].job}, View(s)'[k].state = "pending"
      PROVE  \E i \in DOMAIN todo'[s] : todo'[s][i] = k
  <2>1. k # j /\ View(s)[k].state = "pending"
    BY <1>7, <1>9
  <2>2. PICK i \in DOMAIN todo[s] : todo[s][i] = k
    BY <1>1, <1>9, <2>1 DEF ReleaseOK
  <2> QED
    BY <1>2, <1>8, <2>1, <2>2
<1>10. arg'[s] = arg[s]
  BY <1>1
<1> QED
  BY <1>9, <1>10 DEF ReleaseOK

\* Only two statements of a session leave it in the loop that releases.
LEMMA ReleasingSteps ==
  ASSUME CoreInv, NEW s \in Sessions, Call(s) \/ Step(s) \/ Abort(s), pc'[s] = "releasing"
  PROVE  StartRelease(s) \/ ReleaseRow(s)
<1>1. DOMAIN pc = Sessions
  BY DEF CoreInv, TypeOK
<1>2. ASSUME Rollback(s) PROVE FALSE
  BY <1>1, <1>2 DEF Rollback, End
<1>3. CASE Call(s)
  BY <1>1, <1>3 DEF Call, SubmitBegin, ClaimBegin, ReapBegin, CancelBegin, HeartbeatBegin,
                    CompleteBegin, FailBegin, LeaseCallBegin, Begin
<1>4. CASE Abort(s)
  BY <1>2, <1>4 DEF Abort
<1>5. CASE DuplicateDag(s) \/ DuplicateEdge(s) \/ LeaseConflict(s) \/ DagNotFound(s)
           \/ DeadlockAbort(s)
  BY <1>2, <1>5 DEF DuplicateDag, DuplicateEdge, LeaseConflict, DagNotFound, DeadlockAbort
<1>6. CASE InsertDag(s) \/ InsertJobs(s) \/ CancelDag(s) \/ StartReap(s) \/ StartCas(s)
           \/ StartCancelJobs(s) \/ SelectCandidates(s) \/ TakeCandidate(s)
  BY <1>1, <1>6 DEF InsertDag, InsertJobs, CancelDag, StartReap, StartCas, StartCancelJobs,
                    SelectCandidates, TakeCandidate, Open
<1>7. CASE HeartbeatRow(s) \/ CompleteRow(s) \/ FailRow(s)
  BY <1>1, <1>7 DEF HeartbeatRow, CompleteRow, FailRow, Cas
<1>8. CASE ReapRow(s) \/ CancelRow(s) \/ SkipLocked(s) \/ RejectCandidate(s)
  BY <1>1, <1>8 DEF ReapRow, CancelRow, SkipLocked, RejectCandidate, Visit
<1>9. CASE Commit(s)
  BY <1>1, <1>9 DEF Commit, End
<1> QED
  BY <1>3, <1>4, <1>5, <1>6, <1>7, <1>8, <1>9 DEF Step

\* While complete holds its job's row, no submission adds a child to that job: the
\* DAG exists.
LEMMA ReleaseOthers ==
  ASSUME CoreInv, NEW s \in Sessions, NEW t \in Sessions \ {s}, EffectOK(s), EffectOK(t),
         ReleaseOK(t), Same(t), Commit(s) \/ UNCHANGED jobs
  PROVE  ReleaseOK(t)'
<1> DEFINE g == arg[t].job
<1>1. SUFFICES ASSUME pc[t] = "releasing", NEW j \in Jobs, Parents(j) = {g},
                      View(t)'[j].state = "pending"
               PROVE  View(t)[j].state = "pending"
  BY DEF ReleaseOK, Same
<1>2. CASE j \in DOMAIN wr[t] \/ UNCHANGED jobs
  BY <1>1, <1>2 DEF View, Same
<1>3. CASE j \notin DOMAIN wr[t] /\ Commit(s)
  <2>1. View(t)'[j] = jobs'[j] /\ View(t)[j] = jobs[j]
    BY <1>3 DEF View, Same
  <2>2. SUFFICES ASSUME jobs[j].state # "pending" PROVE FALSE
    BY <2>1
  <2>3. dags[arg[s]] = "absent" /\ j \in JobsOf(arg[s])
    BY <1>1, <1>3, <2>1, <2>2, PendingBefore
  <2>4. g \in Jobs /\ DagOf[g] = DagOf[j]
    BY <1>1, ParentsOfDag
  <2>5. jobs[g].state = "absent"
    BY <2>3, <2>4 DEF CoreInv, SubmitAtomic, JobsOf
  <2>6. SessionOK(t) /\ SessionTypeOK(t)
    BY DEF CoreInv, TypeOK
  <2>7. op[t] = "complete" /\ g \in DOMAIN wr[t]
    BY <1>1, <2>6, OpOfStep DEF SessionOK, WorkOK
  <2>8. SucceededFrom(jobs[g], wr[t][g])
    BY <2>7 DEF EffectOK, RowEffect
  <2> QED
    BY <2>5, <2>8 DEF SucceededFrom
<1> QED
  BY <1>2, <1>3

\* The commit of complete publishes its job and the released children together.
LEMMA SoleCommit ==
  ASSUME CoreInv, NEW s \in Sessions, EffectOK(s), ReleaseOK(s), SoleParentReleases, Commit(s)
  PROVE  SoleParentReleases'
<1>1. SUFFICES ASSUME NEW j \in Jobs, Cardinality(Parents(j)) = 1, jobs'[j].state = "pending",
                      NEW p \in Parents(j), jobs'[p].state = "succeeded"
               PROVE  FALSE
  BY DEF SoleParentReleases
<1>2. p \in Jobs /\ DagOf[p] = DagOf[j] /\ Parents(j) = {p}
  BY <1>1, ParentsOfDag, OnlyParent
<1>3. CASE jobs[j].state = "pending"
  <2>1. jobs[p].state # "succeeded"
    BY <1>1, <1>3 DEF SoleParentReleases
  <2>2. op[s] = "complete" /\ p = arg[s].job
    BY <1>1, <1>2, <2>1, SucceededNow
  <2>3. pc[s] = "releasing" /\ DOMAIN todo[s] = {}
    BY <2>2, CommitOps DEF Commit
  <2>4. View(s)[j].state = "pending"
    BY <1>1, CommitEffect
  <2> QED
    BY <1>2, <2>2, <2>3, <2>4 DEF ReleaseOK
<1>4. CASE jobs[j].state # "pending"
  <2>1. op[s] = "submit" /\ p \in DOMAIN wr[s]
    BY <1>1, <1>2, <1>4, PendingBefore DEF JobsOf
  <2>2. InsertedRow(p, jobs'[p])
    BY <1>2, <2>1, CommitEffect DEF RowEffect
  <2> QED
    BY <1>1, <2>2 DEF InsertedRow
<1> QED
  BY <1>3, <1>4

\* What complete still has to release, and that it released it, is kept by every step.
LEMMA ReleaseNext ==
  CoreInv /\ (\A s \in Sessions : EffectOK(s)) /\ SoleParentReleases
    /\ (\A s \in Sessions : ReleaseOK(s)) /\ [Next]_vars
    => SoleParentReleases' /\ \A s \in Sessions : ReleaseOK(s)'
<1> SUFFICES ASSUME CoreInv, \A s \in Sessions : EffectOK(s), SoleParentReleases,
                    \A s \in Sessions : ReleaseOK(s), [Next]_vars
             PROVE  SoleParentReleases' /\ \A s \in Sessions : ReleaseOK(s)'
  OBVIOUS
<1>1. CASE Tick \/ UNCHANGED vars
  BY <1>1 DEF Tick, vars, tables, SoleParentReleases, ReleaseOK, View
<1>2. ASSUME NEW s \in Sessions, Call(s) \/ Step(s) \/ Abort(s)
      PROVE  SoleParentReleases' /\ \A t \in Sessions : ReleaseOK(t)'
  <2>1. Commit(s) \/ UNCHANGED jobs
    BY <1>2, OthersLocked
  <2>2. \A t \in Sessions \ {s} : ReleaseOK(t)'
    BY <1>2, <2>1, OthersLocked, ReleaseOthers
  <2>3. ReleaseOK(s)'
    <3>1. CASE pc'[s] = "releasing"
      BY <1>2, <3>1, ReleasingSteps, ReleaseStart, ReleaseVisit
    <3>2. CASE pc'[s] # "releasing"
      BY <3>2 DEF ReleaseOK
    <3> QED
      BY <3>1, <3>2
  <2>4. SoleParentReleases'
    BY <2>1, SoleCommit DEF SoleParentReleases
  <2> QED
    BY <2>2, <2>3, <2>4
<1> QED
  BY <1>1, <1>2 DEF Next

LEMMA ReleaseInit == Init => SoleParentReleases /\ \A s \in Sessions : ReleaseOK(s)
BY DEF Init, SoleParentReleases, ReleaseOK, AbsentRow

-----------------------------------------------------------------------------
\* The last layer of the invariant is inductive relative to the first.
LEMMA EffectInvNext == CoreInv /\ EffectInv /\ [Next]_vars => EffectInv'
BY EffectNext, TrailNext, ReleaseNext DEF EffectInv

LEMMA EffectInvInit == Init => EffectInv
BY EffectInit, TrailInit, ReleaseInit DEF EffectInv

\* The conjunction of all layers is an invariant of the store.
THEOREM InvariantHolds == Spec => []IInv
<1>1. IInv <=> CoreInv /\ ParentsOK /\ CancelOK /\ FenceOK /\ EffectInv
  BY DEF IInv
<1> QED
  BY <1>1, CoreInit, CoreNext, ParentsInit, ParentsNext, CancelInit, CancelNext, FenceInit,
     FenceNext, EffectInvInit, EffectInvNext, PTL DEF Spec

\* For any graph and any number of sessions: a child with a single parent is released
\* by the transaction that completes the parent.
THEOREM SoleParentReleased == Spec => []SoleParentReleases
<1>1. IInv => SoleParentReleases
  BY DEF IInv, EffectInv
<1> QED
  BY <1>1, InvariantHolds, PTL

\* For any graph and any number of sessions: the event table tells every attempt once
\* and in order, and at most one outcome of each, however reports under one lease race.
THEOREM AuditTrailHolds == Spec => []AuditTrail
<1>1. IInv => AuditTrail
  BY DEF IInv, EffectInv
<1> QED
  BY <1>1, InvariantHolds, PTL

\* For any graph and any number of sessions: what the committed tables show is the
\* abstract life cycle of jobs.
THEOREM StoreImplementsLifecycle == Spec => ImplementsLifecycle
<1>1. IInv /\ [Next]_vars => [Abstract!Next]_Abstract!vars
  BY StoreStepRefines DEF IInv, EffectInv
<1> QED
  BY <1>1, StoreInitRefines, InvariantHolds, PTL DEF Spec, ImplementsLifecycle, Abstract!Spec
=============================================================================
