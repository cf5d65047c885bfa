------------------------- MODULE StoreSafetyProofs -------------------------
(***************************************************************************)
(* The safety theorems of Store that go beyond the shape of single rows.   *)
(* They rest on CoreInv (module StoreProofs) and on the fact that every    *)
(* step has one of five shapes: it writes no row, writes one row, inserts  *)
(* the rows of a DAG, rolls back or commits.  Three sections: children     *)
(* follow their parents, cancelled DAGs are at rest, leases are fenced.    *)
(***************************************************************************)
EXTENDS StoreProofs

\* What a statement does to one row: keep it, or make one of these changes.
RowChange(s, j, r) ==
  LET v == View(s)[j] IN
  \/ r = v
  \/ v.state = "leased" /\ r.state \in {"retry_wait", "dead_lettered"}
  \/ /\ v.state = "pending" /\ r.state = "ready"
     /\ pc[s] = "releasing" /\ j = todo[s][1] /\ 1 \in DOMAIN todo[s]
  \/ v.state \notin Terminal /\ r.state = "cancelled"
  \/ v.state \in Waiting /\ r.state = "leased"
  \/ v.state = "leased" /\ r.state = "leased"
  \/ v.state = "leased" /\ r.state = "succeeded"

\* The step writes one row and leaves the tables as they are.
WriteShape(s) ==
  \E j \in Jobs, r \in Row :
    /\ wr' = Write(s, j, r)
    /\ UNCHANGED <<dags, jobs, claims>>
    /\ \A t \in Sessions \ {s} : Same(t)
    /\ View(s)[j].state \in Terminal => r = View(s)[j]
    /\ RowChange(s, j, r)
    /\ pc'[s] = "releasing" =>
         /\ pc[s] = "releasing"
         /\ \A i \in DOMAIN todo'[s] : i + 1 \in DOMAIN todo[s] /\ todo'[s][i] = todo[s][i + 1]

\* The step writes no row.
QuietShape(s) ==
  /\ UNCHANGED <<dags, jobs, claims, wr>>
  /\ \A t \in Sessions \ {s} : Same(t)
  /\ pc'[s] = "releasing" =>
       \A i \in DOMAIN todo'[s] : ViewSucceeded(s, todo'[s][i])

\* One row of an UPDATE has the shape of a write.
LEMMA VisitShape ==
  ASSUME CoreInv, NEW s \in Sessions, NEW r \in Row, todo[s] # <<>>,
         wr' = Write(s, Head(todo[s]), r),
         todo' = [todo EXCEPT ![s] = Tail(@)],
         UNCHANGED <<now, tables, op, arg, pc, ts>>,
         View(s)[Head(todo[s])].state \in Terminal => r = View(s)[Head(todo[s])],
         RowChange(s, Head(todo[s]), r)
  PROVE  WriteShape(s)
<1> DEFINE j == Head(todo[s])
<1>1. j \in Jobs /\ Tail(todo[s]) \in Seq(Jobs)
      /\ \A i \in DOMAIN Tail(todo[s]) :
           i + 1 \in DOMAIN todo[s] /\ Tail(todo[s])[i] = todo[s][i + 1]
  BY HeadTail
<1>2. /\ UNCHANGED <<dags, jobs, claims>>
      /\ \A t \in Sessions \ {s} : Same(t)
      /\ todo'[s] = Tail(todo[s]) /\ pc'[s] = pc[s]
  BY <1>1, WriteFacts DEF tables, CoreInv, TypeOK, Same
<1> HIDE DEF j
<1>3. /\ wr' = Write(s, j, r) /\ RowChange(s, j, r)
      /\ View(s)[j].state \in Terminal => r = View(s)[j]
  BY DEF j
<1> QED
  BY <1>1, <1>2, <1>3 DEF WriteShape

\* reap_in_transaction writes one row at a time.
LEMMA ReapShape ==
  ASSUME CoreInv, NEW s \in Sessions, ReapRow(s)
  PROVE  WriteShape(s)
<1> DEFINE j == Head(todo[s])
           r == IF Expired(s, View(s)[j]) THEN LapsedRow(s, j) ELSE View(s)[j]
<1>1. /\ todo[s] # <<>> /\ wr' = Write(s, j, r)
      /\ todo' = [todo EXCEPT ![s] = Tail(@)]
      /\ UNCHANGED <<now, tables, op, arg, pc, ts>>
  BY DEF ReapRow, Visit
<1>2. j \in Jobs
  BY <1>1, HeadTail
<1>3. r \in Row /\ RowChange(s, j, r) /\ (View(s)[j].state \in Terminal => r = View(s)[j])
  BY <1>2, ViewOK, LapsedRowOK DEF Expired, Terminal, RowChange
<1> HIDE DEF r
<1> QED
  BY <1>1, <1>3, VisitShape

\* The release of children writes one row at a time.
LEMMA ReleaseShape ==
  ASSUME CoreInv, NEW s \in Sessions, ReleaseRow(s)
  PROVE  WriteShape(s)
<1> DEFINE j == Head(todo[s])
           r == IF IsPending(s, View(s)[j]) THEN ReleasedRow(s, j) ELSE View(s)[j]
<1>1. /\ pc[s] = "releasing" /\ todo[s] # <<>> /\ wr' = Write(s, j, r)
      /\ todo' = [todo EXCEPT ![s] = Tail(@)]
      /\ UNCHANGED <<now, tables, op, arg, pc, ts>>
  BY DEF ReleaseRow, Visit
<1>2. j \in Jobs /\ j = todo[s][1] /\ 1 \in DOMAIN todo[s]
  BY <1>1, HeadTail
<1>3. View(s)[j] \in Row /\ ts[s] \in Nat
  BY <1>2, ViewOK DEF CoreInv, TypeOK, SessionTypeOK
<1>4. ReleasedRow(s, j) \in Row /\ ReleasedRow(s, j).state = "ready"
  BY <1>3 DEF ReleasedRow, Row, JobState
<1>5. r \in Row /\ RowChange(s, j, r) /\ (View(s)[j].state \in Terminal => r = View(s)[j])
  BY <1>1, <1>2, <1>3, <1>4 DEF IsPending, Terminal, RowChange
<1> HIDE DEF r
<1> QED
  BY <1>1, <1>5, VisitShape

\* cancel writes one row at a time.
LEMMA CancelShape ==
  ASSUME CoreInv, NEW s \in Sessions, CancelRow(s)
  PROVE  WriteShape(s)
<1> DEFINE j == Head(todo[s])
           r == IF Unfinished(s, View(s)[j]) THEN CancelledRow(s, j) ELSE View(s)[j]
<1>1. /\ todo[s] # <<>> /\ wr' = Write(s, j, r)
      /\ todo' = [todo EXCEPT ![s] = Tail(@)]
      /\ UNCHANGED <<now, tables, op, arg, pc, ts>>
  BY DEF CancelRow, Visit
<1>2. j \in Jobs
  BY <1>1, HeadTail
<1>3. View(s)[j] \in Row
  BY <1>2, ViewOK
<1>4. CancelledRow(s, j) \in Row /\ CancelledRow(s, j).state = "cancelled"
  BY <1>3 DEF CancelledRow, Row, JobState
<1>5. r \in Row /\ RowChange(s, j, r) /\ (View(s)[j].state \in Terminal => r = View(s)[j])
  BY <1>3, <1>4 DEF Unfinished, RowChange
<1> HIDE DEF r
<1> QED
  BY <1>1, <1>5, VisitShape

\* A rejected candidate is locked and unchanged.
LEMMA RejectShape ==
  ASSUME CoreInv, NEW s \in Sessions, RejectCandidate(s)
  PROVE  WriteShape(s)
<1> DEFINE j == Head(todo[s])
<1>1. /\ todo[s] # <<>> /\ wr' = Write(s, j, View(s)[j])
      /\ todo' = [todo EXCEPT ![s] = Tail(@)]
      /\ UNCHANGED <<now, tables, op, arg, pc, ts>>
  BY DEF RejectCandidate
<1>2. View(s)[j] \in Row
  BY <1>1, HeadTail, ViewOK
<1>3. RowChange(s, j, View(s)[j])
  BY DEF RowChange
<1> QED
  BY <1>1, <1>2, <1>3, VisitShape

\* A claimed candidate goes from waiting to leased.
LEMMA TakeShape ==
  ASSUME CoreInv, NEW s \in Sessions, TakeCandidate(s)
  PROVE  WriteShape(s)
<1> DEFINE j == Head(todo[s])
<1>1. /\ pc[s] = "selecting" /\ todo[s] # <<>> /\ View(s)[j].state \in Waiting
      /\ Tokens \ UsedTokens # {} /\ pc'[s] = "claimed"
      /\ UNCHANGED <<now, tables, op, ts>>
  BY DEF TakeCandidate, CoreInv, TypeOK, Claimable
<1>2. PICK len \in LeaseLengths :
        wr' = Write(s, j, TakenRow(s, j, arg[s], FreshToken, ts[s] + len))
  BY DEF TakeCandidate, TakenRow
<1> DEFINE r == TakenRow(s, j, arg[s], FreshToken, ts[s] + len)
<1>3. SessionTypeOK(s) /\ arg[s] \in Owners
  BY <1>1, OpOfStep DEF CoreInv, TypeOK
<1>4. FreshToken \in Tokens /\ ts[s] + len \in Nat /\ j \in Jobs
  BY <1>1, <1>3, FreshTokenOK, LeaseAssumption, HeadTail DEF SessionTypeOK
<1>5. r \in Row /\ r.state = "leased"
  BY <1>1, <1>3, <1>4, TakenRowOK
<1>6. wr' = Write(s, j, r)
  BY <1>2
<1> HIDE DEF r
<1>7. RowChange(s, j, r) /\ View(s)[j].state \notin Terminal
  BY <1>1, <1>5 DEF RowChange, Waiting, Terminal
<1>8. /\ UNCHANGED <<dags, jobs, claims>>
      /\ \A t \in Sessions \ {s} : Same(t)
  BY <1>1, <1>4, <1>5, <1>6, WriteFacts DEF tables, TakeCandidate, CoreInv, TypeOK, Same
<1> HIDE DEF j
<1> QED
  BY <1>1, <1>4, <1>5, <1>6, <1>7, <1>8 DEF WriteShape

\* A compare-and-set changes a leased row.
LEMMA CasShape ==
  ASSUME CoreInv, NEW s \in Sessions, NEW o, NEW new \in Row, Cas(s, o, new),
         new.state \in {"leased", "succeeded", "retry_wait", "dead_lettered"}
  PROVE  WriteShape(s)
<1> DEFINE j == arg[s].job
<1>1. /\ pc[s] = "casing" /\ HoldsLease(s, jobs[j]) /\ wr' = Write(s, j, new)
      /\ pc'[s] = "updated"
      /\ UNCHANGED <<now, tables, op, arg, ts>>
  BY DEF Cas, CoreInv, TypeOK
<1>2. j \in Jobs /\ View(s)[j].state = "leased"
  BY <1>1, CasFacts
<1>3. RowChange(s, j, new) /\ View(s)[j].state \notin Terminal
  BY <1>2 DEF RowChange, Terminal
<1>4. /\ UNCHANGED <<dags, jobs, claims>>
      /\ \A t \in Sessions \ {s} : Same(t)
  BY <1>1, <1>2, WriteFacts DEF tables, Cas, CoreInv, TypeOK, Same
<1> HIDE DEF j
<1> QED
  BY <1>1, <1>2, <1>3, <1>4 DEF WriteShape

\* heartbeat is a compare-and-set that keeps the row leased.
LEMMA HeartbeatShape ==
  ASSUME CoreInv, NEW s \in Sessions, HeartbeatRow(s)
  PROVE  WriteShape(s)
<1> DEFINE r == jobs[arg[s].job]
<1>1. PICK len \in LeaseLengths : Cas(s, "heartbeat", [r EXCEPT !.lease.expires = ts[s] + len])
  BY DEF HeartbeatRow
<1> DEFINE l == [r.lease EXCEPT !.expires = ts[s] + len]
           new == [r EXCEPT !.lease = l]
<1>2. pc[s] = "casing" /\ HoldsLease(s, r)
  BY <1>1 DEF Cas
<1>3. r \in Row /\ r.state = "leased" /\ r.lease \in Lease /\ SessionTypeOK(s)
  BY <1>2, CasFacts
<1>4. l \in Lease
  <2>1. ts[s] + len \in Nat
    BY <1>3, LeaseAssumption DEF SessionTypeOK
  <2> QED
    BY <1>3, <2>1 DEF Lease
<1>5. Cas(s, "heartbeat", new)
  BY <1>1
<1>6. new \in Row /\ new.state = "leased"
  <2> HIDE DEF l, r
  <2> QED
    BY <1>3, <1>4 DEF Row
<1> HIDE DEF new
<1> QED
  BY <1>5, <1>6, CasShape

\* complete and fail are compare-and-sets that end the lease.
LEMMA ResultShape ==
  ASSUME CoreInv, NEW s \in Sessions, CompleteRow(s) \/ FailRow(s)
  PROVE  WriteShape(s)
<1>1. pc[s] = "casing" /\ HoldsLease(s, jobs[arg[s].job])
  BY DEF CompleteRow, FailRow, Cas
<1>2. CASE CompleteRow(s)
  BY <1>1, <1>2, CasFacts, SucceededRowOK, CasShape DEF CompleteRow
<1>3. CASE FailRow(s)
  BY <1>1, <1>3, CasFacts, LapsedRowOK, CasShape DEF FailRow
<1> QED
  BY <1>2, <1>3

\* Statements and calls that write no row.
LEMMA QuietSteps ==
  ASSUME CoreInv, NEW s \in Sessions,
         \/ Call(s) \/ InsertDag(s) \/ CancelDag(s) \/ StartReap(s) \/ StartCas(s)
         \/ StartRelease(s) \/ StartCancelJobs(s) \/ SelectCandidates(s) \/ SkipLocked(s)
  PROVE  QuietShape(s)
<1>1. ASSUME NEW o, NEW a, NEW first \in {"insert_dag", "reap", "cas", "cancel_dag"},
             Begin(s, o, a, first)
      PROVE  QuietShape(s)
  BY <1>1 DEF Begin, QuietShape, Same, tables, CoreInv, TypeOK
<1>2. CASE Call(s)
  BY <1>1, <1>2 DEF Call, SubmitBegin, ClaimBegin, ReapBegin, CancelBegin, HeartbeatBegin,
                    CompleteBegin, FailBegin, LeaseCallBegin
<1>3. CASE InsertDag(s) \/ CancelDag(s)
  BY <1>3 DEF InsertDag, CancelDag, QuietShape, Same, tables, CoreInv, TypeOK
<1>4. ASSUME NEW rows \in SUBSET Jobs, NEW step, Open(s, rows, step),
             step = "releasing" => \A j \in rows : ViewSucceeded(s, j)
      PROVE  QuietShape(s)
  BY <1>4, OpenFacts DEF QuietShape, tables
<1>5. CASE StartReap(s) \/ StartCancelJobs(s)
  <2>1. {j \in Jobs : Expired(s, jobs[j])} \in SUBSET Jobs
        /\ {j \in JobsOf(arg[s]) : jobs[j].state \notin Terminal} \in SUBSET Jobs
    BY DEF JobsOf
  <2> QED
    BY <1>4, <1>5, <2>1 DEF StartReap, StartCancelJobs
<1>6. CASE StartCas(s)
  <2>1. {arg[s].job} \in SUBSET Jobs
    BY <1>6, OpOfStep DEF CoreInv, TypeOK, StartCas, Claim
  <2> QED
    BY <1>4, <1>6, <2>1 DEF StartCas
<1>7. CASE StartRelease(s)
  <2> DEFINE rows == {c \in Children(arg[s].job) :
                        View(s)[c].state = "pending" /\ ParentsSucceeded(s, c)}
  <2>1. rows \in SUBSET Jobs
    BY EdgesAssumption DEF Children
  <2>2. \A j \in rows : ViewSucceeded(s, j)
    BY DEF ParentsSucceeded, ViewSucceeded
  <2>3. Open(s, rows, "releasing")
    BY <1>7 DEF StartRelease
  <2> HIDE DEF rows
  <2> QED
    BY <1>4, <2>1, <2>2, <2>3
<1>8. CASE SelectCandidates(s)
  BY <1>8, SelectFacts DEF QuietShape, tables
<1>9. CASE SkipLocked(s)
  BY <1>9 DEF SkipLocked, QuietShape, Same, tables, CoreInv, TypeOK
<1> QED
  BY <1>2, <1>3, <1>5, <1>6, <1>7, <1>8, <1>9

\* Every step of a session has one of the five shapes.
LEMMA StepShape ==
  ASSUME CoreInv, NEW s \in Sessions, Call(s) \/ Step(s) \/ Abort(s)
  PROVE  \/ QuietShape(s) \/ WriteShape(s) \/ InsertJobs(s) \/ Rollback(s) \/ Commit(s)
<1>1. CASE Call(s)
  BY <1>1, QuietSteps
<1>2. CASE Abort(s)
  BY <1>2 DEF Abort
<1>3. CASE Step(s)
  BY <1>3, QuietSteps, ReapShape, ReleaseShape, CancelShape, RejectShape, TakeShape,
     HeartbeatShape, ResultShape
  DEF Step, DuplicateDag, DuplicateEdge, LeaseConflict, DagNotFound, DeadlockAbort
<1> QED
  BY <1>1, <1>2, <1>3

-----------------------------------------------------------------------------
\* A child never overtakes a parent

\* Edges name jobs.
LEMMA ParentsAreJobs ==
  ASSUME NEW j \in Jobs
  PROVE  Parents(j) \subseteq Jobs
BY EdgesAssumption DEF Parents, EdgesInto

\* What RunsAfterParents says of committed rows holds in every session's view.
LEMMA SeenStarted ==
  ASSUME CoreInv, ParentsOK, NEW s \in Sessions, NEW j \in Jobs,
         Started(View(s)[j].state)
  PROVE  ViewSucceeded(s, j)
<1>1. CASE j \in DOMAIN wr[s]
  BY <1>1, ViewOK DEF ParentsOK, ReliesOK
<1>2. CASE j \notin DOMAIN wr[s]
  <2>1. SUFFICES ASSUME NEW p \in Parents(j) PROVE View(s)[p].state = "succeeded"
    BY DEF ViewSucceeded
  <2>2. p \in Jobs /\ jobs[p].state = "succeeded"
    BY <1>2, ViewOK, ParentsAreJobs DEF ParentsOK, RunsAfterParents
  <2> QED
    BY <2>2, ViewOK DEF Terminal
<1> QED
  BY <1>1, <1>2

\* Success is never withdrawn from a view.
LEMMA SuccessStays ==
  ASSUME CoreInv, NEW t \in Sessions, NEW j \in Jobs, ViewSucceeded(t, j),
         \A p \in Jobs : View(t)[p].state = "succeeded" => View(t)'[p] = View(t)[p]
  PROVE  ViewSucceeded(t, j)'
<1>1. SUFFICES ASSUME NEW p \in Parents(j) PROVE View(t)'[p].state = "succeeded"
  BY DEF ViewSucceeded
<1>2. p \in Jobs /\ View(t)[p].state = "succeeded"
  BY ParentsAreJobs DEF ViewSucceeded
<1> QED
  BY <1>2

\* Sessions that do not move keep what they rely on.
LEMMA OthersParents ==
  ASSUME CoreInv, ParentsOK, NEW t \in Sessions, Same(t),
         \A p \in Jobs : jobs[p].state = "succeeded" => jobs'[p] = jobs[p]
  PROVE  ReliesOK(t)'
<1>1. \A p \in Jobs : View(t)[p].state = "succeeded" => View(t)'[p] = View(t)[p]
  BY DEF View, Same
<1>2. DOMAIN wr[t] \subseteq Jobs /\ todo[t] \in Seq(Jobs)
  BY DEF CoreInv, TypeOK, SessionTypeOK
<1>3. \A j \in Jobs : ViewSucceeded(t, j) => ViewSucceeded(t, j)'
  BY <1>1, SuccessStays
<1>4. \A i \in DOMAIN todo[t] : todo[t][i] \in Jobs
  BY <1>2
<1> QED
  BY <1>2, <1>3, <1>4 DEF Same, ParentsOK, ReliesOK, ViewSucceeded, Started

\* A step that writes no row keeps ParentsOK.
LEMMA ParentsQuiet ==
  ASSUME CoreInv, ParentsOK, NEW s \in Sessions, QuietShape(s)
  PROVE  ParentsOK'
<1>1. \A t \in Sessions \ {s} : ReliesOK(t)'
  BY OthersParents DEF QuietShape
<1>2. \A j : ViewSucceeded(s, j)' <=> ViewSucceeded(s, j)
  BY DEF QuietShape, ViewSucceeded, View
<1>3. ReliesOK(s)'
  BY <1>2 DEF QuietShape, ParentsOK, ReliesOK, ViewSucceeded, View, Started
<1>4. RunsAfterParents'
  BY DEF QuietShape, ParentsOK, RunsAfterParents
<1> QED
  BY <1>1, <1>3, <1>4 DEF ParentsOK

\* A step that writes one row keeps ParentsOK: it makes a job runnable only if the
\* session sees all its parents succeeded.
LEMMA ParentsWrite ==
  ASSUME CoreInv, ParentsOK, NEW s \in Sessions, WriteShape(s)
  PROVE  ParentsOK'
<1>1. PICK j \in Jobs, r \in Row :
        /\ wr' = Write(s, j, r)
        /\ UNCHANGED <<dags, jobs, claims>>
        /\ \A t \in Sessions \ {s} : Same(t)
        /\ View(s)[j].state \in Terminal => r = View(s)[j]
        /\ RowChange(s, j, r)
        /\ pc'[s] = "releasing" =>
             /\ pc[s] = "releasing"
             /\ \A i \in DOMAIN todo'[s] :
                  i + 1 \in DOMAIN todo[s] /\ todo'[s][i] = todo[s][i + 1]
  BY DEF WriteShape
<1>2. \A t \in Sessions \ {s} : ReliesOK(t)'
  BY <1>1, OthersParents
<1>3. /\ DOMAIN wr'[s] = DOMAIN wr[s] \cup {j}
      /\ wr'[s][j] = r
      /\ \A k \in DOMAIN wr[s] \ {j} : wr'[s][k] = wr[s][k]
  BY <1>1, WriteFacts
<1>4. \A p \in Jobs : View(s)[p].state = "succeeded" => View(s)'[p] = View(s)[p]
  BY <1>1, <1>3 DEF View, Terminal
<1>5. \A k \in Jobs : ViewSucceeded(s, k) => ViewSucceeded(s, k)'
  BY <1>4, SuccessStays
<1>6. DOMAIN wr[s] \subseteq Jobs /\ todo[s] \in Seq(Jobs)
  BY DEF CoreInv, TypeOK, SessionTypeOK
<1>7. \A i \in DOMAIN todo[s] : todo[s][i] \in Jobs
  BY <1>6
<1>8. Started(r.state) => ViewSucceeded(s, j)
  <2>1. CASE Started(View(s)[j].state)
    BY <2>1, SeenStarted
  <2>2. CASE ~Started(View(s)[j].state)
    BY <1>1, <2>2 DEF RowChange, Started, Waiting, ParentsOK, ReliesOK
  <2> QED
    BY <2>1, <2>2
<1>9. \A k \in DOMAIN wr'[s] : Started(wr'[s][k].state) => ViewSucceeded(s, k)'
  BY <1>3, <1>5, <1>6, <1>8 DEF ParentsOK, ReliesOK
<1>10. pc'[s] = "releasing" =>
         \A i \in DOMAIN todo'[s] : \A p \in Parents(todo'[s][i]) : View(s)'[p].state = "succeeded"
  BY <1>1, <1>5, <1>7 DEF ParentsOK, ReliesOK, ViewSucceeded
<1>11. RunsAfterParents'
  BY <1>1 DEF ParentsOK, RunsAfterParents
<1> QED
  BY <1>2, <1>9, <1>10, <1>11 DEF ParentsOK, ReliesOK, ViewSucceeded, Started

\* ROLLBACK keeps ParentsOK.
LEMMA ParentsRollback ==
  ASSUME CoreInv, ParentsOK, NEW s \in Sessions, Rollback(s)
  PROVE  ParentsOK'
<1>1. TypeOK /\ End(s) /\ UNCHANGED <<dags, jobs, claims>>
  BY DEF CoreInv, Rollback, tables
<1>2. pc'[s] = "idle" /\ DOMAIN wr'[s] = {} /\ \A t \in Sessions \ {s} : Same(t)
  BY <1>1, EndFacts
<1>3. \A t \in Sessions \ {s} : ReliesOK(t)'
  BY <1>1, <1>2, OthersParents
<1>4. RunsAfterParents'
  BY <1>1 DEF ParentsOK, RunsAfterParents
<1> QED
  BY <1>2, <1>3, <1>4 DEF ParentsOK, ReliesOK

\* submit makes runnable only jobs without parents.
LEMMA ParentsInsertJobs ==
  ASSUME CoreInv, ParentsOK, NEW s \in Sessions, InsertJobs(s)
  PROVE  ParentsOK'
<1>1. /\ pc'[s] = "inserted" /\ UNCHANGED <<dags, jobs, claims>>
      /\ \A t \in Sessions \ {s} : Same(t)
      /\ DOMAIN wr'[s] = JobsOf(arg[s])
      /\ \A j \in JobsOf(arg[s]) :
           wr'[s][j].state = IF EdgesInto(j) = {} THEN "ready" ELSE "pending"
  BY DEF InsertJobs, CoreInv, TypeOK, Same, tables, AbsentRow
<1>2. \A t \in Sessions \ {s} : ReliesOK(t)'
  BY <1>1, OthersParents
<1>3. \A k \in DOMAIN wr'[s] : Started(wr'[s][k].state) => Parents(k) = {}
  BY <1>1 DEF Started, Parents
<1>4. RunsAfterParents'
  BY <1>1 DEF ParentsOK, RunsAfterParents
<1> QED
  BY <1>1, <1>2, <1>3, <1>4 DEF ParentsOK, ReliesOK, ViewSucceeded, Started

\* COMMIT publishes the view of one session: it changes no finished row.
LEMMA CommitFacts ==
  ASSUME CoreInv, NEW s \in Sessions, Commit(s)
  PROVE  /\ jobs' = View(s) /\ pc'[s] = "idle" /\ DOMAIN wr'[s] = {}
         /\ \A t \in Sessions \ {s} : Same(t)
         /\ \A j \in Jobs : jobs[j].state \in Terminal => jobs'[j] = jobs[j]
<1>1. TypeOK /\ End(s) /\ jobs' = View(s)
  BY DEF CoreInv, Commit
<1>2. pc'[s] = "idle" /\ DOMAIN wr'[s] = {} /\ \A t \in Sessions \ {s} : Same(t)
  BY <1>1, EndFacts
<1> QED
  BY <1>1, <1>2, ViewOK

\* COMMIT keeps ParentsOK: what a session saw succeeded is succeeded for everyone.
LEMMA ParentsCommit ==
  ASSUME CoreInv, ParentsOK, NEW s \in Sessions, Commit(s)
  PROVE  ParentsOK'
<1>1. /\ jobs' = View(s) /\ pc'[s] = "idle" /\ DOMAIN wr'[s] = {}
      /\ \A t \in Sessions \ {s} : Same(t)
      /\ \A j \in Jobs : jobs[j].state = "succeeded" => jobs'[j] = jobs[j]
  BY CommitFacts DEF Terminal
<1>2. \A t \in Sessions \ {s} : ReliesOK(t)'
  BY <1>1, OthersParents
<1>3. RunsAfterParents'
  BY <1>1, SeenStarted DEF RunsAfterParents, ViewSucceeded
<1> QED
  BY <1>1, <1>2, <1>3 DEF ParentsOK, ReliesOK

\* The second layer of the invariant is inductive relative to the first.
LEMMA ParentsNext == CoreInv /\ ParentsOK /\ [Next]_vars => ParentsOK'
<1> SUFFICES ASSUME CoreInv, ParentsOK, [Next]_vars PROVE ParentsOK'
  OBVIOUS
<1>1. CASE Tick \/ UNCHANGED vars
  BY <1>1 DEF Tick, vars, tables, ParentsOK, ReliesOK, RunsAfterParents, ViewSucceeded, View
<1>2. ASSUME NEW s \in Sessions, Call(s) \/ Step(s) \/ Abort(s) PROVE ParentsOK'
  BY <1>2, StepShape, ParentsQuiet, ParentsWrite, ParentsInsertJobs, ParentsRollback,
     ParentsCommit
<1> QED
  BY <1>1, <1>2 DEF Next

\* The empty tables satisfy ParentsOK.
LEMMA ParentsInit == Init => ParentsOK
<1> SUFFICES ASSUME Init PROVE ParentsOK
  OBVIOUS
<1>1. DOMAIN NoWrites = {} /\ ~Started(AbsentRow.state)
  BY DEF NoWrites, Started, AbsentRow
<1> QED
  BY <1>1 DEF Init, ParentsOK, ReliesOK, RunsAfterParents

\* For any graph and any number of sessions: a job that is or was runnable has
\* only succeeded parents, whatever races with the release of children.
THEOREM DependenciesHold == Spec => []RunsAfterParents
<1>1. ParentsOK => RunsAfterParents
  BY DEF ParentsOK
<1> QED
  BY <1>1, CoreInit, CoreNext, ParentsInit, ParentsNext, PTL DEF Spec

\* No transaction, however it interleaves with others, changes a finished job.
THEOREM FinishedStays == Spec => TerminalIsFinal
<1> DEFINE Final == \A j \in Jobs : jobs[j].state \in Terminal => jobs'[j] = jobs[j]
<1>1. CoreInv /\ [Next]_vars => [Final]_vars
  <2> SUFFICES ASSUME CoreInv, Next PROVE Final
    OBVIOUS
  <2>1. CASE Tick
    BY <2>1 DEF Tick, tables
  <2>2. ASSUME NEW s \in Sessions, Call(s) \/ Step(s) \/ Abort(s) PROVE Final
    <3>1. \/ UNCHANGED jobs
          \/ Commit(s)
      BY <2>2, StepShape DEF QuietShape, WriteShape, InsertJobs, Rollback, tables
    <3> QED
      BY <3>1, CommitFacts
  <2> QED
    BY <2>1, <2>2 DEF Next
<1> QED
  BY <1>1, CoreInit, CoreNext, PTL DEF Spec, TerminalIsFinal

-----------------------------------------------------------------------------
\* A cancelled DAG is at rest.  While cancel visits the jobs of its DAG,
\* each of them is finished in its view or still to be visited (CancelOK
\* of StoreInv); with nothing left to visit, its commit leaves all of them
\* finished, and finished rows do not change any more.

\* What CancelOK says of one session.
Plan(s) ==
  pc[s] = "cancelling" =>
    \A j \in JobsOf(arg[s]) :
      \/ View(s)[j].state \in Terminal
      \/ \E i \in DOMAIN todo[s] : todo[s][i] = j

LEMMA CancelOKParts == CancelOK <=> CancelledAtRest /\ \A s \in Sessions : Plan(s)
BY DEF CancelOK, Plan

\* What follows the head of a sequence is in its tail.
LEMMA TailKeeps ==
  ASSUME NEW q \in Seq(Jobs), q # <<>>
  PROVE  \A i \in DOMAIN q : i = 1 \/ (i - 1 \in DOMAIN Tail(q) /\ Tail(q)[i - 1] = q[i])
<1>1. Len(q) \in Nat \ {0} /\ DOMAIN q = 1..Len(q)
  OBVIOUS
<1>2. Len(Tail(q)) = Len(q) - 1 /\ DOMAIN Tail(q) = 1..(Len(q) - 1)
  BY <1>1
<1>3. \A i \in 1..(Len(q) - 1) : Tail(q)[i] = q[i + 1]
  BY <1>1
<1>4. ASSUME NEW i \in 1..Len(q), i # 1
      PROVE  i - 1 \in 1..(Len(q) - 1) /\ i - 1 + 1 = i
  BY <1>1, <1>4
<1> QED
  BY <1>1, <1>2, <1>3, <1>4

\* Only two statements of a session leave it in the loop of cancel.
LEMMA CancellingSteps ==
  ASSUME CoreInv, NEW s \in Sessions, Call(s) \/ Step(s) \/ Abort(s), pc'[s] = "cancelling"
  PROVE  StartCancelJobs(s) \/ CancelRow(s)
<1>1. DOMAIN pc = Sessions
  BY DEF CoreInv, TypeOK
<1>2. ASSUME Rollback(s) PROVE FALSE
  BY <1>1, <1>2 DEF Rollback, End
<1>3. CASE Call(s)
  BY <1>1, <1>3 DEF Call, SubmitBegin, ClaimBegin, ReapBegin, CancelBegin, HeartbeatBegin,
                    CompleteBegin, FailBegin, LeaseCallBegin, Begin
<1>4. CASE Abort(s)
  BY <1>2, <1>4 DEF Abort
<1>5. CASE DuplicateDag(s) \/ DuplicateEdge(s) \/ LeaseConflict(s) \/ DagNotFound(s)
           \/ DeadlockAbort(s)
  BY <1>2, <1>5 DEF DuplicateDag, DuplicateEdge, LeaseConflict, DagNotFound, DeadlockAbort
<1>6. CASE InsertDag(s) \/ InsertJobs(s) \/ CancelDag(s) \/ StartReap(s) \/ StartCas(s)
           \/ StartRelease(s) \/ SelectCandidates(s) \/ TakeCandidate(s)
  BY <1>1, <1>6 DEF InsertDag, InsertJobs, CancelDag, StartReap, StartCas, StartRelease,
                    SelectCandidates, TakeCandidate, Open
<1>7. CASE HeartbeatRow(s) \/ CompleteRow(s) \/ FailRow(s)
  BY <1>1, <1>7 DEF HeartbeatRow, CompleteRow, FailRow, Cas
<1>8. CASE ReapRow(s) \/ ReleaseRow(s) \/ SkipLocked(s) \/ RejectCandidate(s)
  BY <1>1, <1>8 DEF ReapRow, ReleaseRow, SkipLocked, RejectCandidate, Visit
<1>9. CASE Commit(s)
  BY <1>1, <1>9 DEF Commit, End
<1> QED
  BY <1>3, <1>4, <1>5, <1>6, <1>7, <1>8, <1>9 DEF Step

\* A statement that starts has exactly the unfinished jobs to visit.
LEMMA PlanStart ==
  ASSUME CoreInv, NEW s \in Sessions, StartCancelJobs(s)
  PROVE  Plan(s)'
<1> DEFINE rows == {j \in JobsOf(arg[s]) : jobs[j].state \notin Terminal}
<1>1. rows \in SUBSET Jobs /\ Open(s, rows, "cancelling") /\ pc[s] = "cancel_jobs"
  BY DEF JobsOf, StartCancelJobs
<1>2. DOMAIN wr[s] = {}
  BY <1>1 DEF CoreInv, SessionOK, StepOK, Unwritten
<1>3. \A j \in JobsOf(arg[s]) : jobs[j].state \notin Terminal => j \in rows
  OBVIOUS
<1> HIDE DEF rows
<1>4. /\ \A j \in rows : \E i \in DOMAIN todo'[s] : todo'[s][i] = j
      /\ arg'[s] = arg[s] /\ wr'[s] = wr[s] /\ jobs' = jobs
  BY <1>1, OpenFacts DEF tables
<1>5. \A j \in Jobs : View(s)'[j] = jobs[j]
  BY <1>2, <1>4 DEF View
<1>6. JobsOf(arg'[s]) = JobsOf(arg[s]) /\ JobsOf(arg[s]) \subseteq Jobs
  BY <1>4 DEF JobsOf
<1> QED
  BY <1>3, <1>4, <1>5, <1>6 DEF Plan

\* The row that cancel visits is finished afterwards; the others stay as they were.
LEMMA PlanVisit ==
  ASSUME CoreInv, NEW s \in Sessions, Plan(s), CancelRow(s)
  PROVE  Plan(s)'
<1> DEFINE j == Head(todo[s])
           r == IF Unfinished(s, View(s)[j]) THEN CancelledRow(s, j) ELSE View(s)[j]
<1>1. /\ pc[s] = "cancelling" /\ todo[s] # <<>> /\ wr' = Write(s, j, r)
      /\ todo' = [todo EXCEPT ![s] = Tail(@)]
      /\ UNCHANGED <<now, tables, op, arg, pc, ts>>
  BY DEF CancelRow, Visit
<1>2. j \in Jobs /\ j = todo[s][1]
  BY <1>1, HeadTail
<1>3. View(s)[j] \in Row
  BY <1>2, ViewOK
<1>4. CancelledRow(s, j) \in Row /\ CancelledRow(s, j).state = "cancelled"
  BY <1>3 DEF CancelledRow, Row, JobState
<1>5. r \in Row /\ r.state \in Terminal
  BY <1>3, <1>4 DEF Unfinished, Terminal
<1> HIDE DEF r, j
<1>6. /\ DOMAIN wr'[s] = DOMAIN wr[s] \cup {j} /\ wr'[s][j] = r
      /\ \A k \in DOMAIN wr[s] \ {j} : wr'[s][k] = wr[s][k]
  BY <1>1, <1>2, <1>5, WriteFacts
<1>7. /\ View(s)'[j].state \in Terminal
      /\ \A k \in Jobs \ {j} : View(s)'[k] = View(s)[k]
  BY <1>1, <1>2, <1>5, <1>6 DEF View, tables
<1>8. \A i \in DOMAIN todo[s] :
        i = 1 \/ (i - 1 \in DOMAIN todo'[s] /\ todo'[s][i - 1] = todo[s][i])
  <2>1. todo[s] \in Seq(Jobs) /\ todo'[s] = Tail(todo[s])
    BY <1>1 DEF CoreInv, TypeOK, SessionTypeOK
  <2> QED
    BY <1>1, <2>1, TailKeeps
<1>9. JobsOf(arg'[s]) = JobsOf(arg[s]) /\ JobsOf(arg[s]) \subseteq Jobs
  BY <1>1 DEF JobsOf
<1>10. ASSUME NEW k \in JobsOf(arg[s])
       PROVE  View(s)'[k].state \in Terminal \/ \E i \in DOMAIN todo'[s] : todo'[s][i] = k
  <2>1. CASE k = j
    BY <1>7, <2>1
  <2>2. CASE k # j /\ View(s)[k].state \in Terminal
    BY <1>7, <1>9, <2>2
  <2>3. CASE k # j /\ \E i \in DOMAIN todo[s] : todo[s][i] = k
    BY <1>2, <1>8, <2>3
  <2> QED
    BY <1>1, <2>1, <2>2, <2>3 DEF Plan
<1> QED
  BY <1>9, <1>10 DEF Plan

\* A session that does not move keeps its plan: finished rows stay finished.
LEMMA PlanOthers ==
  ASSUME CoreInv, NEW t \in Sessions, Plan(t), Same(t),
         \A j \in Jobs : jobs[j].state \in Terminal => jobs'[j] = jobs[j]
  PROVE  Plan(t)'
<1>1. \A j \in Jobs : View(t)[j].state \in Terminal => View(t)'[j] = View(t)[j]
  BY DEF View, Same
<1>2. JobsOf(arg'[t]) = JobsOf(arg[t]) /\ JobsOf(arg[t]) \subseteq Jobs
  BY DEF Same, JobsOf
<1>3. pc'[t] = pc[t] /\ todo'[t] = todo[t]
  BY DEF Same
<1> QED
  BY <1>1, <1>2, <1>3 DEF Plan

\* COMMIT of cancel publishes finished jobs only; no other COMMIT cancels a DAG
\* or revives a job.
LEMMA RestCommit ==
  ASSUME CoreInv, CancelledAtRest, NEW s \in Sessions, Plan(s), Commit(s)
  PROVE  CancelledAtRest'
<1>1. SUFFICES ASSUME NEW j \in Jobs, dags'[DagOf[j]] = "cancelled"
               PROVE  jobs'[j].state \in Terminal
  BY DEF CancelledAtRest
<1>2. jobs' = View(s) /\ (jobs[j].state \in Terminal => jobs'[j] = jobs[j])
  BY CommitFacts
<1>3. DagOf[j] \in Dags
  BY JobsAssumption
<1>4. CASE dags[DagOf[j]] = "cancelled"
  BY <1>2, <1>4 DEF CancelledAtRest
<1>5. CASE dags[DagOf[j]] # "cancelled"
  <2>1. op[s] = "cancel" /\ arg[s] = DagOf[j]
    BY <1>1, <1>3, <1>5 DEF Commit
  <2>2. pc[s] = "cancelling" /\ todo[s] = <<>>
    BY <2>1 DEF Commit, Finished
  <2>3. j \in JobsOf(arg[s])
    BY <2>1 DEF JobsOf
  <2>4. DOMAIN todo[s] = {}
    BY <2>2
  <2> QED
    BY <1>2, <2>2, <2>3, <2>4 DEF Plan
<1> QED
  BY <1>4, <1>5

\* The third layer of the invariant is inductive relative to the first.
LEMMA CancelNext == CoreInv /\ CancelOK /\ [Next]_vars => CancelOK'
<1> SUFFICES ASSUME CoreInv, CancelledAtRest, \A s \in Sessions : Plan(s), [Next]_vars
             PROVE  CancelledAtRest' /\ \A s \in Sessions : Plan(s)'
  BY CancelOKParts DEF CancelOK, Plan
<1>1. CASE Tick \/ UNCHANGED vars
  BY <1>1 DEF Tick, vars, tables, CancelledAtRest, Plan, View
<1>2. ASSUME NEW s \in Sessions, Call(s) \/ Step(s) \/ Abort(s)
      PROVE  CancelledAtRest' /\ \A t \in Sessions : Plan(t)'
  <2>1. \/ Commit(s)
        \/ UNCHANGED <<dags, jobs>> /\ \A t \in Sessions \ {s} : Same(t)
    <3>1. ASSUME InsertJobs(s) PROVE \A t \in Sessions \ {s} : Same(t)
      BY <3>1 DEF InsertJobs, CoreInv, TypeOK, Same
    <3>2. ASSUME Rollback(s) PROVE \A t \in Sessions \ {s} : Same(t)
      BY <3>2, EndFacts DEF Rollback, CoreInv
    <3> QED
      BY <1>2, <3>1, <3>2, StepShape DEF QuietShape, WriteShape, InsertJobs, Rollback, tables
  <2>2. /\ \A t \in Sessions \ {s} : Same(t)
        /\ \A j \in Jobs : jobs[j].state \in Terminal => jobs'[j] = jobs[j]
    BY <2>1, CommitFacts
  <2>3. \A t \in Sessions \ {s} : Plan(t)'
    BY <2>2, PlanOthers
  <2>4. Plan(s)'
    <3>1. CASE pc'[s] = "cancelling"
      BY <1>2, <3>1, CancellingSteps, PlanStart, PlanVisit
    <3>2. CASE pc'[s] # "cancelling"
      BY <3>2 DEF Plan
    <3> QED
      BY <3>1, <3>2
  <2>5. CancelledAtRest'
    BY <2>1, RestCommit DEF CancelledAtRest
  <2> QED
    BY <2>3, <2>4, <2>5
<1> QED
  BY <1>1, <1>2 DEF Next

LEMMA CancelInit == Init => CancelOK
<1> SUFFICES ASSUME Init PROVE CancelOK
  OBVIOUS
<1>1. \A j \in Jobs : dags[DagOf[j]] = "absent"
  BY JobsAssumption DEF Init
<1>2. \A s \in Sessions : pc[s] = "idle"
  BY DEF Init
<1> QED
  BY <1>1, <1>2 DEF CancelOK, CancelledAtRest

\* For any graph and any number of sessions: a cancelled DAG is at rest, however
\* its cancellation races with claims, completions, failures, reaping and releases.
THEOREM CancellationFinal == Spec => []CancelledAtRest
<1>1. CancelOK => CancelledAtRest
  BY DEF CancelOK
<1> QED
  BY <1>1, CoreInit, CoreNext, CancelInit, CancelNext, PTL DEF Spec

-----------------------------------------------------------------------------
\* Fencing.  Every lease and every result, committed or not, is covered by
\* a claim: one that was returned to a worker, or the one its own
\* transaction is about to return (FenceOK of StoreInv).

\* Row version r of j, written by s, is covered by a claim.
Covered(s, j, r) ==
  /\ r.state = "leased" =>
       \/ pc[s] = "claimed" /\ ClaimOf(j, r) = arg[s]
       \/ ClaimOf(j, r) \in claims
  /\ r.state = "succeeded" => ResultClaimed(j, r)

\* The claim that s is about to return has a token of its own.
OwnToken(s) ==
  pc[s] = "claimed" =>
    /\ \A c \in claims : c.token # arg[s].token
    /\ \A t \in Sessions \ {s} : pc[t] = "claimed" => arg[t].token # arg[s].token

FenceSession(s) == (\A j \in DOMAIN wr[s] : Covered(s, j, wr[s][j])) /\ OwnToken(s)

LEMMA FenceOKParts == FenceOK <=> Fenced /\ \A s \in Sessions : FenceSession(s)
BY DEF FenceOK, FenceSession, Covered, OwnToken

\* The step writes one row: it keeps or ends a lease, records a result under a
\* claim, or leases the row under a new token.
FenceWrite(s) ==
  \E j \in Jobs, r \in Row :
    /\ wr' = Write(s, j, r)
    /\ UNCHANGED <<jobs, claims>>
    /\ \A t \in Sessions \ {s} : Same(t)
    /\ pc[s] # "claimed"
    /\ \/ /\ pc'[s] # "claimed"
          /\ r.state = "leased" =>
               View(s)[j].state = "leased" /\ ClaimOf(j, r) = ClaimOf(j, View(s)[j])
          /\ r.state = "succeeded" => r = View(s)[j] \/ ResultClaimed(j, r)
       \/ /\ pc'[s] = "claimed"
          /\ r.state = "leased"
          /\ ClaimOf(j, r) = arg'[s]
          /\ arg'[s].token \notin UsedTokens

\* The step writes no row.
FenceQuiet(s) ==
  /\ UNCHANGED <<jobs, claims, wr>>
  /\ \A t \in Sessions \ {s} : Same(t)
  /\ pc[s] # "claimed" /\ pc'[s] # "claimed"

-----------------------------------------------------------------------------
\* One row of an UPDATE ends a lease or leaves the row as it is.
LEMMA VisitFence ==
  ASSUME CoreInv, NEW s \in Sessions, NEW r \in Row, todo[s] # <<>>,
         wr' = Write(s, Head(todo[s]), r),
         todo' = [todo EXCEPT ![s] = Tail(@)],
         UNCHANGED <<now, tables, op, arg, pc, ts>>, pc[s] # "claimed",
         r = View(s)[Head(todo[s])] \/ r.state \notin {"leased", "succeeded"}
  PROVE  FenceWrite(s)
<1> DEFINE j == Head(todo[s])
<1>1. j \in Jobs
  BY HeadTail
<1>2. /\ UNCHANGED <<jobs, claims>> /\ pc'[s] # "claimed"
      /\ \A t \in Sessions \ {s} : Same(t)
  BY <1>1, WriteFacts DEF tables, CoreInv, TypeOK, Same
<1>3. wr' = Write(s, j, r) /\ (r = View(s)[j] \/ r.state \notin {"leased", "succeeded"})
  OBVIOUS
<1> HIDE DEF j
<1> QED
  BY <1>1, <1>2, <1>3 DEF FenceWrite

LEMMA ReapFence ==
  ASSUME CoreInv, NEW s \in Sessions, ReapRow(s)
  PROVE  FenceWrite(s)
<1> DEFINE j == Head(todo[s])
           r == IF Expired(s, View(s)[j]) THEN LapsedRow(s, j) ELSE View(s)[j]
<1>1. /\ pc[s] = "reaping" /\ todo[s] # <<>> /\ wr' = Write(s, j, r)
      /\ todo' = [todo EXCEPT ![s] = Tail(@)]
      /\ UNCHANGED <<now, tables, op, arg, pc, ts>>
  BY DEF ReapRow, Visit
<1>2. j \in Jobs
  BY <1>1, HeadTail
<1>3. r \in Row /\ (r = View(s)[j] \/ r.state \notin {"leased", "succeeded"})
  BY <1>2, ViewOK, LapsedRowOK DEF Expired
<1> HIDE DEF r
<1> QED
  BY <1>1, <1>3, VisitFence

LEMMA ReleaseFence ==
  ASSUME CoreInv, NEW s \in Sessions, ReleaseRow(s)
  PROVE  FenceWrite(s)
<1> DEFINE j == Head(todo[s])
           r == IF IsPending(s, View(s)[j]) THEN ReleasedRow(s, j) ELSE View(s)[j]
<1>1. /\ pc[s] = "releasing" /\ todo[s] # <<>> /\ wr' = Write(s, j, r)
      /\ todo' = [todo EXCEPT ![s] = Tail(@)]
      /\ UNCHANGED <<now, tables, op, arg, pc, ts>>
  BY DEF ReleaseRow, Visit
<1>2. View(s)[j] \in Row /\ ts[s] \in Nat
  BY <1>1, HeadTail, ViewOK DEF CoreInv, TypeOK, SessionTypeOK
<1>3. ReleasedRow(s, j) \in Row /\ ReleasedRow(s, j).state = "ready"
  BY <1>2 DEF ReleasedRow, Row, JobState
<1>4. r \in Row /\ (r = View(s)[j] \/ r.state \notin {"leased", "succeeded"})
  BY <1>2, <1>3
<1> HIDE DEF r
<1> QED
  BY <1>1, <1>4, VisitFence

LEMMA CancelFence ==
  ASSUME CoreInv, NEW s \in Sessions, CancelRow(s)
  PROVE  FenceWrite(s)
<1> DEFINE j == Head(todo[s])
           r == IF Unfinished(s, View(s)[j]) THEN CancelledRow(s, j) ELSE View(s)[j]
<1>1. /\ pc[s] = "cancelling" /\ todo[s] # <<>> /\ wr' = Write(s, j, r)
      /\ todo' = [todo EXCEPT ![s] = Tail(@)]
      /\ UNCHANGED <<now, tables, op, arg, pc, ts>>
  BY DEF CancelRow, Visit
<1>2. View(s)[j] \in Row
  BY <1>1, HeadTail, ViewOK
<1>3. CancelledRow(s, j) \in Row /\ CancelledRow(s, j).state = "cancelled"
  BY <1>2 DEF CancelledRow, Row, JobState
<1>4. r \in Row /\ (r = View(s)[j] \/ r.state \notin {"leased", "succeeded"})
  BY <1>2, <1>3
<1> HIDE DEF r
<1> QED
  BY <1>1, <1>4, VisitFence

LEMMA RejectFence ==
  ASSUME CoreInv, NEW s \in Sessions, RejectCandidate(s)
  PROVE  FenceWrite(s)
<1> DEFINE j == Head(todo[s])
<1>1. /\ pc[s] = "selecting" /\ todo[s] # <<>> /\ wr' = Write(s, j, View(s)[j])
      /\ todo' = [todo EXCEPT ![s] = Tail(@)]
      /\ UNCHANGED <<now, tables, op, arg, pc, ts>>
  BY DEF RejectCandidate
<1>2. View(s)[j] \in Row
  BY <1>1, HeadTail, ViewOK
<1> QED
  BY <1>1, <1>2, VisitFence

\* claim writes the lease that it will return, under a token nobody has.
LEMMA TakeFence ==
  ASSUME CoreInv, NEW s \in Sessions, TakeCandidate(s)
  PROVE  FenceWrite(s)
<1> DEFINE j == Head(todo[s])
<1>1. /\ pc[s] = "selecting" /\ todo[s] # <<>> /\ View(s)[j].state \in Waiting
      /\ Tokens \ UsedTokens # {} /\ pc'[s] = "claimed"
      /\ UNCHANGED <<now, tables, op, ts>>
      /\ arg'[s] = [job |-> j, owner |-> arg[s], token |-> FreshToken,
                    attempt |-> View(s)[j].attempts + 1]
  BY DEF TakeCandidate, CoreInv, TypeOK, Claimable
<1>2. PICK len \in LeaseLengths :
        wr' = Write(s, j, TakenRow(s, j, arg[s], FreshToken, ts[s] + len))
  BY DEF TakeCandidate, TakenRow
<1> DEFINE r == TakenRow(s, j, arg[s], FreshToken, ts[s] + len)
<1>3. SessionTypeOK(s) /\ arg[s] \in Owners
  BY <1>1, OpOfStep DEF CoreInv, TypeOK
<1>4. FreshToken \in Tokens /\ ts[s] + len \in Nat /\ j \in Jobs
  BY <1>1, <1>3, FreshTokenOK, LeaseAssumption, HeadTail DEF SessionTypeOK
<1>5. /\ r \in Row /\ r.state = "leased" /\ r.attempts = View(s)[j].attempts + 1
      /\ r.lease.owner = arg[s] /\ r.lease.token = FreshToken
  BY <1>1, <1>3, <1>4, TakenRowOK
<1>6. wr' = Write(s, j, r)
  BY <1>2
<1> HIDE DEF r
<1>7. /\ UNCHANGED <<jobs, claims>>
      /\ \A t \in Sessions \ {s} : Same(t)
  BY <1>1, <1>4, <1>5, <1>6, WriteFacts DEF tables, TakeCandidate, CoreInv, TypeOK, Same
<1> HIDE DEF j
<1>8. ClaimOf(j, r) = arg'[s]
  BY <1>1, <1>5 DEF ClaimOf
<1>9. arg'[s].token \notin UsedTokens
  BY <1>1, FreshTokenOK
<1> QED
  BY <1>1, <1>4, <1>5, <1>6, <1>7, <1>8, <1>9 DEF FenceWrite

\* A compare-and-set finds the lease of the latest claim.
LEMMA CasFence ==
  ASSUME CoreInv, NEW s \in Sessions, NEW o, NEW new \in Row, Cas(s, o, new),
         new.state = "leased" => ClaimOf(arg[s].job, new) = ClaimOf(arg[s].job, jobs[arg[s].job]),
         new.state = "succeeded" => ResultClaimed(arg[s].job, new)
  PROVE  FenceWrite(s)
<1> DEFINE j == arg[s].job
<1>1. /\ pc[s] = "casing" /\ HoldsLease(s, jobs[j]) /\ wr' = Write(s, j, new)
      /\ pc'[s] = "updated"
      /\ UNCHANGED <<now, tables, op, arg, ts>>
  BY DEF Cas, CoreInv, TypeOK
<1>2. j \in Jobs /\ View(s)[j].state = "leased" /\ View(s)[j] = jobs[j]
  BY <1>1, CasFacts
<1>3. /\ UNCHANGED <<jobs, claims>>
      /\ \A t \in Sessions \ {s} : Same(t)
  BY <1>1, <1>2, WriteFacts DEF tables, Cas, CoreInv, TypeOK, Same
<1>4. /\ new.state = "leased" => ClaimOf(j, new) = ClaimOf(j, View(s)[j])
      /\ new.state = "succeeded" => ResultClaimed(j, new)
  BY <1>2
<1> HIDE DEF j
<1> QED
  BY <1>1, <1>2, <1>3, <1>4 DEF FenceWrite

\* heartbeat changes the deadline and neither owner, token nor attempt.
LEMMA HeartbeatFence ==
  ASSUME CoreInv, NEW s \in Sessions, HeartbeatRow(s)
  PROVE  FenceWrite(s)
<1> DEFINE r == jobs[arg[s].job]
<1>1. PICK len \in LeaseLengths : Cas(s, "heartbeat", [r EXCEPT !.lease.expires = ts[s] + len])
  BY DEF HeartbeatRow
<1> DEFINE l == [r.lease EXCEPT !.expires = ts[s] + len]
           new == [r EXCEPT !.lease = l]
<1>2. pc[s] = "casing" /\ HoldsLease(s, r)
  BY <1>1 DEF Cas
<1>3. r \in Row /\ r.state = "leased" /\ r.lease \in Lease /\ SessionTypeOK(s)
  BY <1>2, CasFacts
<1>4. l \in Lease /\ l.owner = r.lease.owner /\ l.token = r.lease.token
  <2>1. ts[s] + len \in Nat
    BY <1>3, LeaseAssumption DEF SessionTypeOK
  <2> QED
    BY <1>3, <2>1 DEF Lease
<1>5. Cas(s, "heartbeat", new)
  BY <1>1
<1>6. new \in Row /\ new.state = "leased" /\ new.attempts = r.attempts /\ new.lease = l
  <2> HIDE DEF l, r
  <2> QED
    BY <1>3, <1>4 DEF Row
<1>7. ClaimOf(arg[s].job, new) = ClaimOf(arg[s].job, r)
  <2> HIDE DEF l, r, new
  <2> QED
    BY <1>4, <1>6 DEF ClaimOf
<1> HIDE DEF new
<1> QED
  BY <1>5, <1>6, <1>7, CasFence

\* complete writes the token of the claim under which the lease is held.
LEMMA ResultFence ==
  ASSUME CoreInv, Fenced, NEW s \in Sessions, CompleteRow(s) \/ FailRow(s)
  PROVE  FenceWrite(s)
<1> DEFINE j == arg[s].job
<1>1. pc[s] = "casing" /\ HoldsLease(s, jobs[j])
  BY DEF CompleteRow, FailRow, Cas
<1>2. /\ j \in Jobs /\ arg[s].token \in Tokens /\ View(s)[j] = jobs[j]
      /\ jobs[j].state = "leased" /\ jobs[j].lease.token = arg[s].token
  BY <1>1, CasFacts DEF HoldsLease
<1>3. CASE CompleteRow(s)
  <2>1. /\ SucceededRow(s, j) \in Row /\ SucceededRow(s, j).state = "succeeded"
        /\ SucceededRow(s, j).result = arg[s].token
        /\ SucceededRow(s, j).attempts = jobs[j].attempts
    BY <1>2, SucceededRowOK
  <2>2. ClaimOf(j, jobs[j]) \in claims
    BY <1>2 DEF Fenced, ClaimOf
  <2>3. /\ ClaimOf(j, jobs[j]).job = j /\ ClaimOf(j, jobs[j]).token = arg[s].token
        /\ ClaimOf(j, jobs[j]).attempt = jobs[j].attempts
    BY <1>2 DEF ClaimOf
  <2>4. ResultClaimed(j, SucceededRow(s, j))
    BY <2>1, <2>2, <2>3 DEF ResultClaimed
  <2> QED
    BY <1>3, <2>1, <2>4, CasFence DEF CompleteRow
<1>4. CASE FailRow(s)
  BY <1>2, <1>4, LapsedRowOK, CasFence DEF FailRow
<1> QED
  BY <1>3, <1>4

\* Statements and calls that write no row neither start nor end a claim.
LEMMA QuietFence ==
  ASSUME CoreInv, NEW s \in Sessions,
         \/ Call(s) \/ InsertDag(s) \/ CancelDag(s) \/ StartReap(s) \/ StartCas(s)
         \/ StartRelease(s) \/ StartCancelJobs(s) \/ SelectCandidates(s) \/ SkipLocked(s)
  PROVE  FenceQuiet(s)
<1>1. UNCHANGED <<jobs, claims, wr>> /\ \A t \in Sessions \ {s} : Same(t)
  BY QuietSteps DEF QuietShape
<1>2. DOMAIN pc = Sessions
  BY DEF CoreInv, TypeOK
<1>3. pc[s] # "claimed" /\ pc'[s] # "claimed"
  <2>1. CASE Call(s)
    BY <1>2, <2>1 DEF Call, SubmitBegin, ClaimBegin, ReapBegin, CancelBegin, HeartbeatBegin,
                      CompleteBegin, FailBegin, LeaseCallBegin, Begin
  <2>2. CASE InsertDag(s) \/ CancelDag(s) \/ SelectCandidates(s) \/ SkipLocked(s)
    BY <1>2, <2>2 DEF InsertDag, CancelDag, SelectCandidates, SkipLocked
  <2>3. CASE StartReap(s) \/ StartCas(s) \/ StartRelease(s) \/ StartCancelJobs(s)
    BY <1>2, <2>3 DEF StartReap, StartCas, StartRelease, StartCancelJobs, Open
  <2> QED
    BY <2>1, <2>2, <2>3
<1> QED
  BY <1>1, <1>3 DEF FenceQuiet

\* The shapes of a step, as far as claims are concerned.
LEMMA FenceShape ==
  ASSUME CoreInv, Fenced, NEW s \in Sessions, Call(s) \/ Step(s) \/ Abort(s)
  PROVE  \/ FenceQuiet(s) \/ FenceWrite(s) \/ InsertJobs(s) \/ Rollback(s) \/ Commit(s)
<1>1. CASE Call(s)
  BY <1>1, QuietFence
<1>2. CASE Abort(s)
  BY <1>2 DEF Abort
<1>3. CASE Step(s)
  BY <1>3, QuietFence, ReapFence, ReleaseFence, CancelFence, RejectFence, TakeFence,
     HeartbeatFence, ResultFence
  DEF Step, DuplicateDag, DuplicateEdge, LeaseConflict, DagNotFound, DeadlockAbort
<1> QED
  BY <1>1, <1>2, <1>3

-----------------------------------------------------------------------------
\* What Fenced says of committed rows holds in every session's view.
LEMMA SeenCovered ==
  ASSUME CoreInv, Fenced, NEW s \in Sessions, FenceSession(s), NEW j \in Jobs
  PROVE  Covered(s, j, View(s)[j])
<1>1. CASE j \in DOMAIN wr[s]
  BY <1>1, ViewOK DEF FenceSession
<1>2. CASE j \notin DOMAIN wr[s]
  <2>1. View(s)[j] = jobs[j]
    BY <1>2, ViewOK
  <2>2. Covered(s, j, jobs[j])
    BY DEF Fenced, Covered, ClaimOf, ResultClaimed
  <2> QED
    BY <2>1, <2>2
<1> QED
  BY <1>1, <1>2

\* More claims cover more.
LEMMA CoveredStays ==
  ASSUME NEW t, NEW j, NEW r, Covered(t, j, r), claims \subseteq claims',
         pc[t] = "claimed" =>
           (pc'[t] = "claimed" /\ arg'[t] = arg[t]) \/ arg[t] \in claims'
  PROVE  /\ r.state = "leased" =>
              \/ pc'[t] = "claimed" /\ ClaimOf(j, r) = arg'[t]
              \/ ClaimOf(j, r) \in claims'
         /\ r.state = "succeeded" =>
              \E c \in claims' : c.job = j /\ c.token = r.result /\ c.attempt = r.attempts
BY DEF Covered, ResultClaimed

\* A session that does not move stays covered when claims grow.
LEMMA OthersCovered ==
  ASSUME NEW t \in Sessions, FenceSession(t), Same(t), claims \subseteq claims'
  PROVE  \A j \in DOMAIN wr'[t] : Covered(t, j, wr[t][j])'
<1>1. SUFFICES ASSUME NEW j \in DOMAIN wr[t] PROVE Covered(t, j, wr[t][j])'
  BY DEF Same
<1>2. Covered(t, j, wr[t][j])
  BY DEF FenceSession
<1>3. wr'[t] = wr[t] /\ pc'[t] = pc[t] /\ arg'[t] = arg[t]
  BY DEF Same
<1> QED
  BY <1>2, <1>3, CoveredStays DEF Covered, ResultClaimed, ClaimOf

\* As long as claims rest and only s moves, without a new claim, tokens stay apart.
LEMMA OwnTokenStays ==
  ASSUME NEW s \in Sessions, \A t \in Sessions : OwnToken(t),
         \A t \in Sessions \ {s} : Same(t), claims' = claims, pc'[s] # "claimed"
  PROVE  \A t \in Sessions : OwnToken(t)'
BY DEF OwnToken, Same

LEMMA FenceStays ==
  ASSUME Fenced, UNCHANGED <<jobs, claims>>
  PROVE  Fenced'
BY DEF Fenced

LEMMA FenceQuietPreserves ==
  ASSUME Fenced, \A t \in Sessions : FenceSession(t), NEW s \in Sessions, FenceQuiet(s)
  PROVE  Fenced' /\ \A t \in Sessions : FenceSession(t)'
<1>1. Fenced' /\ \A t \in Sessions : OwnToken(t)'
  BY FenceStays, OwnTokenStays DEF FenceQuiet, FenceSession
<1>2. \A t \in Sessions \ {s} : \A j \in DOMAIN wr'[t] : Covered(t, j, wr[t][j])'
  BY OthersCovered DEF FenceQuiet
<1>3. \A j \in DOMAIN wr'[s] : Covered(s, j, wr[s][j])'
  BY DEF FenceQuiet, FenceSession, Covered, ClaimOf, ResultClaimed
<1> QED
  BY <1>1, <1>2, <1>3 DEF FenceSession

LEMMA FenceWritePreserves ==
  ASSUME CoreInv, Fenced, \A t \in Sessions : FenceSession(t), NEW s \in Sessions,
         FenceWrite(s)
  PROVE  Fenced' /\ \A t \in Sessions : FenceSession(t)'
<1>1. PICK j \in Jobs, r \in Row :
        /\ wr' = Write(s, j, r)
        /\ UNCHANGED <<jobs, claims>>
        /\ \A t \in Sessions \ {s} : Same(t)
        /\ pc[s] # "claimed"
        /\ \/ /\ pc'[s] # "claimed"
              /\ r.state = "leased" =>
                   View(s)[j].state = "leased" /\ ClaimOf(j, r) = ClaimOf(j, View(s)[j])
              /\ r.state = "succeeded" => r = View(s)[j] \/ ResultClaimed(j, r)
           \/ /\ pc'[s] = "claimed"
              /\ r.state = "leased"
              /\ ClaimOf(j, r) = arg'[s]
              /\ arg'[s].token \notin UsedTokens
  BY DEF FenceWrite
<1>2. Fenced'
  BY <1>1, FenceStays
<1>3. \A t \in Sessions \ {s} : \A k \in DOMAIN wr'[t] : Covered(t, k, wr[t][k])'
  BY <1>1, OthersCovered
<1>4. /\ DOMAIN wr'[s] = DOMAIN wr[s] \cup {j} /\ wr'[s][j] = r
      /\ \A k \in DOMAIN wr[s] \ {j} : wr'[s][k] = wr[s][k]
  BY <1>1, WriteFacts
<1>5. Covered(s, j, View(s)[j])
  BY SeenCovered
<1>6. Covered(s, j, wr[s][j])'
  <2>1. wr'[s][j].state = "leased" =>
          \/ pc'[s] = "claimed" /\ ClaimOf(j, wr'[s][j]) = arg'[s]
          \/ ClaimOf(j, wr'[s][j]) \in claims'
    BY <1>1, <1>4, <1>5 DEF Covered
  <2>2. r.state = "succeeded" => ResultClaimed(j, r)
    BY <1>1, <1>5 DEF Covered
  <2>3. wr'[s][j].state = "succeeded" =>
          \E c \in claims' : /\ c.job = j /\ c.token = wr'[s][j].result
                             /\ c.attempt = wr'[s][j].attempts
    BY <1>1, <1>4, <2>2 DEF ResultClaimed
  <2> QED
    BY <2>1, <2>3 DEF Covered, ClaimOf, ResultClaimed
<1>7. \A k \in DOMAIN wr[s] \ {j} : Covered(s, k, wr[s][k])'
  <2>1. SUFFICES ASSUME NEW k \in DOMAIN wr[s] \ {j} PROVE Covered(s, k, wr[s][k])'
    OBVIOUS
  <2>2. Covered(s, k, wr[s][k]) /\ wr'[s][k] = wr[s][k]
    BY <1>4 DEF FenceSession
  <2> QED
    BY <1>1, <2>2 DEF Covered, ClaimOf, ResultClaimed
<1>8. \A t \in Sessions : OwnToken(t)'
  <2>1. CASE pc'[s] # "claimed"
    BY <1>1, <2>1, OwnTokenStays DEF FenceSession
  <2>2. CASE pc'[s] = "claimed"
    <3>1. /\ \A c \in claims : c.token # arg'[s].token
          /\ \A t \in Sessions : pc[t] = "claimed" => arg[t].token # arg'[s].token
      BY <1>1, <2>2 DEF UsedTokens
    <3>2. \A t \in Sessions \ {s} : pc'[t] = pc[t] /\ arg'[t] = arg[t] /\ OwnToken(t)
      BY <1>1 DEF Same, FenceSession
    <3> QED
      BY <1>1, <3>1, <3>2 DEF OwnToken
  <2> QED
    BY <2>1, <2>2
<1> QED
  BY <1>2, <1>3, <1>4, <1>6, <1>7, <1>8 DEF FenceSession

\* New rows hold no lease and no result; ROLLBACK leaves none.
LEMMA FenceResetPreserves ==
  ASSUME CoreInv, Fenced, \A t \in Sessions : FenceSession(t), NEW s \in Sessions,
         InsertJobs(s) \/ Rollback(s)
  PROVE  Fenced' /\ \A t \in Sessions : FenceSession(t)'
<1>1. /\ UNCHANGED <<jobs, claims>> /\ pc'[s] # "claimed"
      /\ \A t \in Sessions \ {s} : Same(t)
      /\ \A j \in DOMAIN wr'[s] : wr'[s][j].state \in {"ready", "pending"}
  <2>1. CASE InsertJobs(s)
    BY <2>1 DEF InsertJobs, CoreInv, TypeOK, Same, tables, AbsentRow
  <2>2. CASE Rollback(s)
    <3>1. TypeOK /\ End(s) /\ UNCHANGED <<jobs, claims>>
      BY <2>2 DEF CoreInv, Rollback, tables
    <3> QED
      BY <3>1, EndFacts
  <2> QED
    BY <2>1, <2>2
<1>2. Fenced' /\ \A t \in Sessions : OwnToken(t)'
  BY <1>1, FenceStays, OwnTokenStays DEF FenceSession
<1>3. \A t \in Sessions \ {s} : \A j \in DOMAIN wr'[t] : Covered(t, j, wr[t][j])'
  BY <1>1, OthersCovered
<1>4. \A j \in DOMAIN wr'[s] : Covered(s, j, wr[s][j])'
  BY <1>1 DEF Covered
<1> QED
  BY <1>2, <1>3, <1>4 DEF FenceSession

\* COMMIT returns the claim together with the lease it covers.
LEMMA FenceCommitPreserves ==
  ASSUME CoreInv, Fenced, \A t \in Sessions : FenceSession(t), NEW s \in Sessions, Commit(s)
  PROVE  Fenced' /\ \A t \in Sessions : FenceSession(t)'
<1>1. /\ jobs' = View(s) /\ pc'[s] = "idle" /\ DOMAIN wr'[s] = {}
      /\ \A t \in Sessions \ {s} : Same(t)
  BY CommitFacts
<1>2. claims' = IF pc[s] = "claimed" THEN claims \cup {arg[s]} ELSE claims
  BY DEF Commit
<1>3. claims \subseteq claims' /\ (pc[s] = "claimed" => arg[s] \in claims')
  BY <1>2
<1>4. \A t \in Sessions \ {s} : \A j \in DOMAIN wr'[t] : Covered(t, j, wr[t][j])'
  BY <1>1, <1>3, OthersCovered
<1>5. \A t \in Sessions : OwnToken(t)
  BY DEF FenceSession
<1>6. \A t \in Sessions : OwnToken(t)'
  <2>1. ASSUME NEW t \in Sessions \ {s} PROVE OwnToken(t)'
    BY <1>1, <1>2, <1>5, <2>1 DEF OwnToken, Same
  <2> QED
    BY <1>1, <2>1 DEF OwnToken
<1>7. \A c, e \in claims' : c.token = e.token => c = e
  BY <1>2, <1>5 DEF Fenced, OwnToken
<1>8. ASSUME NEW j \in Jobs
      PROVE  /\ jobs'[j].state = "leased" => ClaimOf(j, jobs'[j]) \in claims'
             /\ jobs'[j].state = "succeeded" =>
                  \E c \in claims' : /\ c.job = j /\ c.token = jobs'[j].result
                                     /\ c.attempt = jobs'[j].attempts
  <2>1. Covered(s, j, View(s)[j])
    BY SeenCovered
  <2>2. jobs'[j] = View(s)[j]
    BY <1>1
  <2> QED
    BY <1>1, <1>3, <2>1, <2>2 DEF Covered, ResultClaimed
<1>9. Fenced'
  BY <1>7, <1>8 DEF Fenced, ClaimOf
<1> QED
  BY <1>1, <1>4, <1>6, <1>9 DEF FenceSession

\* The fourth layer of the invariant is inductive relative to the first.
LEMMA FenceNext == CoreInv /\ FenceOK /\ [Next]_vars => FenceOK'
<1> SUFFICES ASSUME CoreInv, Fenced, \A t \in Sessions : FenceSession(t), [Next]_vars
             PROVE  Fenced' /\ \A t \in Sessions : FenceSession(t)'
  BY FenceOKParts DEF FenceOK, FenceSession, Covered, OwnToken, ClaimOf, ResultClaimed
<1>1. CASE Tick \/ UNCHANGED vars
  <2>1. UNCHANGED <<jobs, claims, pc, arg, wr>>
    BY <1>1 DEF Tick, vars, tables
  <2> QED
    BY <2>1, FenceStays DEF FenceSession, Covered, OwnToken, ClaimOf, ResultClaimed
<1>2. ASSUME NEW s \in Sessions, Call(s) \/ Step(s) \/ Abort(s)
      PROVE  Fenced' /\ \A t \in Sessions : FenceSession(t)'
  <2>1. \/ FenceQuiet(s) \/ FenceWrite(s) \/ InsertJobs(s) \/ Rollback(s) \/ Commit(s)
    BY <1>2, FenceShape
  <2>2. CASE FenceQuiet(s)
    BY <2>2, FenceQuietPreserves
  <2>3. CASE FenceWrite(s)
    BY <2>3, FenceWritePreserves
  <2>4. CASE InsertJobs(s) \/ Rollback(s)
    BY <2>4, FenceResetPreserves
  <2>5. CASE Commit(s)
    BY <2>5, FenceCommitPreserves
  <2> QED
    BY <2>1, <2>2, <2>3, <2>4, <2>5
<1> QED
  BY <1>1, <1>2 DEF Next

LEMMA FenceInit == Init => FenceOK
<1> SUFFICES ASSUME Init PROVE FenceOK
  OBVIOUS
<1>1. DOMAIN NoWrites = {} /\ AbsentRow.state = "absent"
  BY DEF NoWrites, AbsentRow
<1> QED
  BY <1>1 DEF Init, FenceOK, Fenced

\* For any number of sessions and workers: tokens are never shared, a live lease
\* is that of the latest claim, and so is a result, however late, repeated or
\* overlapping the calls of workers are.
THEOREM FencingHolds == Spec => []Fenced
<1>1. FenceOK => Fenced
  BY DEF FenceOK
<1> QED
  BY <1>1, CoreInit, CoreNext, FenceInit, FenceNext, PTL DEF Spec
=============================================================================
