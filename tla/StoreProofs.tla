---------------------------- MODULE StoreProofs ----------------------------
(***************************************************************************)
(* CoreInv, the first layer of the invariant, is inductive: types, row     *)
(* locks, the shape of every row version and the presence of rows.  The    *)
(* proof has one lemma per action; lemmas shared by several actions        *)
(* (CoreBegin, CoreMove, CoreWrite, CoreRollback, CoreVisit, CoreCas) say  *)
(* what a kind of step preserves.                                          *)
(***************************************************************************)
EXTENDS StoreInv, TLAPS, FiniteSetTheorems

\* The retry delay is a natural number: the exponent stays in the table of powers.
LEMMA BackoffType ==
  ASSUME NEW a \in Nat
  PROVE  Backoff(a) \in Nat
<1> DEFINE e == Least(16, Greatest(0, a - 1))
<1>1. e \in 0..16
  BY DEF Least, Greatest
<1>2. PowersOfTwo[e + 1] \in Nat
  BY <1>1 DEF PowersOfTwo
<1> QED
  BY <1>1, <1>2, RetryAssumption DEF Backoff, Least

\* A sequence that SetToSeqs enumerates lists exactly the elements of the set.
LEMMA OrderingOf ==
  ASSUME NEW S \in SUBSET Jobs, NEW q \in SetToSeqs(S)
  PROVE  /\ q \in Seq(Jobs)
         /\ \A i \in DOMAIN q : q[i] \in S
         /\ \A x \in S : \E i \in DOMAIN q : q[i] = x
<1> DEFINE n == Cardinality(S)
<1>1. IsFiniteSet(S)
  BY FS_Subset, JobsAssumption
<1>2. n \in Nat
  BY <1>1, FS_CardinalityType
<1>3. /\ q \in [1..n -> S]
      /\ \A i, k \in 1..n : i # k => q[i] # q[k]
  BY DEF SetToSeqs
<1>4. q \in Seq(Jobs)
  BY <1>2, <1>3
<1>5. Cardinality(1..n) = n
  BY <1>2, FS_Interval
<1>6. q \in Injection(1..n, S)
  BY <1>3 DEF Injection, IsInjective
<1>7. q \in Surjection(1..n, S)
  BY <1>1, <1>5, <1>6, FS_Injection
<1> QED
  BY <1>3, <1>4, <1>7 DEF Surjection

-----------------------------------------------------------------------------
\* Steps of one session leave the others alone

Same(t) ==
  /\ op'[t] = op[t] /\ arg'[t] = arg[t] /\ pc'[t] = pc[t]
  /\ ts'[t] = ts[t] /\ todo'[t] = todo[t] /\ wr'[t] = wr[t]

SessionDomains ==
  /\ DOMAIN op = Sessions /\ DOMAIN arg = Sessions /\ DOMAIN pc = Sessions
  /\ DOMAIN ts = Sessions /\ DOMAIN todo = Sessions /\ DOMAIN wr = Sessions

\* A session that does not move keeps its part of the invariant while tables rest.
LEMMA OthersKeep ==
  ASSUME NEW t \in Sessions, Same(t), UNCHANGED <<dags, jobs>>,
         SessionTypeOK(t), SessionOK(t)
  PROVE  SessionTypeOK(t)' /\ SessionOK(t)'
<1>1. SessionTypeOK(t)'
  BY DEF Same, SessionTypeOK, ArgOK
<1>2. WritesOK(t)' /\ StepOK(t)'
  BY DEF Same, SessionOK, WritesOK, StepOK
<1>3. PresenceOK(t)'
  BY DEF Same, SessionOK, PresenceOK, Inserting
<1>4. WorkOK(t)'
  BY DEF Same, SessionOK, WorkOK
<1> QED
  BY <1>1, <1>2, <1>3, <1>4 DEF SessionOK

\* A step of one session that leaves the tables alone keeps the invariant if it
\* keeps that session's part, takes no row another session has locked and inserts
\* no DAG another session inserts.
LEMMA CoreFrame ==
  ASSUME CoreInv, NEW s \in Sessions, UNCHANGED <<now, tables>>,
         SessionDomains', \A t \in Sessions \ {s} : Same(t),
         SessionTypeOK(s)', SessionOK(s)',
         \A t \in Sessions \ {s} : DOMAIN wr'[s] \cap DOMAIN wr[t] = {},
         Inserting(s)' => \A t \in Sessions \ {s} : Inserting(t) => arg'[s] # arg[t]
  PROVE  CoreInv'
<1>1. \A t \in Sessions : SessionTypeOK(t)' /\ SessionOK(t)'
  BY OthersKeep DEF CoreInv, TypeOK, tables
<1>2. TypeOK'
  BY <1>1 DEF CoreInv, TypeOK, SessionDomains, tables
<1>3. \A j \in Jobs : RowOK(j, jobs[j])'
  BY DEF CoreInv, tables, RowOK, BudgetOK
<1>4. SubmitAtomic'
  BY DEF CoreInv, SubmitAtomic, tables
<1>5. LocksExclusive'
  BY DEF CoreInv, LocksExclusive, Same
<1>6. InsertsExclusive'
  BY DEF CoreInv, InsertsExclusive, Inserting, Same
<1> QED
  BY <1>1, <1>2, <1>3, <1>4, <1>5, <1>6 DEF CoreInv

\* A call starts a transaction.
LEMMA CoreBegin ==
  ASSUME CoreInv, NEW s \in Sessions, NEW o \in DOMAIN Steps, NEW a,
         NEW first \in Steps[o] \cap {"insert_dag", "reap", "cas", "cancel_dag"},
         o = "reap" => a = Null,
         o \in {"submit", "cancel"} => a \in Dags,
         o = "claim" => a \in Owners,
         o \in {"heartbeat", "complete", "fail"} => a \in Claim,
         Begin(s, o, a, first)
  PROVE  CoreInv'
<1>1. /\ op'[s] = o /\ arg'[s] = a /\ pc'[s] = first /\ ts'[s] = now
      /\ todo'[s] = todo[s] /\ wr'[s] = wr[s]
      /\ \A t \in Sessions \ {s} : Same(t)
      /\ SessionDomains'
      /\ UNCHANGED <<now, tables>>
  BY DEF Begin, CoreInv, TypeOK, SessionDomains, Same
<1>2. todo[s] = <<>> /\ DOMAIN wr[s] = {}
  BY DEF CoreInv, SessionOK, StepOK, Begin, Visiting, Unwritten
<1>3. SessionTypeOK(s)'
  <2>1. o # "none"
    BY DEF Steps
  <2> QED
    BY <1>1, <1>2, <2>1 DEF CoreInv, TypeOK, SessionTypeOK, ArgOK
<1>4. SessionOK(s)'
  BY <1>1, <1>2 DEF SessionOK, WritesOK, StepOK, PresenceOK, WorkOK, Inserting,
                    Visiting, Unwritten
<1> QED
  BY <1>1, <1>2, <1>3, <1>4, CoreFrame DEF Inserting

\* The step a session has reached tells its operation.
LEMMA OpOfStep ==
  ASSUME NEW s \in Sessions, SessionTypeOK(s)
  PROVE  /\ Inserting(s) \/ pc[s] = "insert_dag" => op[s] = "submit" /\ arg[s] \in Dags
         /\ pc[s] \in {"cancel_dag", "cancel_jobs", "cancelling"} =>
              op[s] = "cancel" /\ arg[s] \in Dags
         /\ pc[s] = "claimed" => op[s] = "claim" /\ arg[s] \in Claim
         /\ pc[s] = "selecting" => op[s] = "claim" /\ arg[s] \in Owners
         /\ pc[s] \in {"cas", "casing", "updated", "releasing"} =>
              op[s] \in {"heartbeat", "complete", "fail"} /\ arg[s] \in Claim
         /\ pc[s] = "releasing" => op[s] = "complete"
         /\ pc[s] \in {"reap", "reaping"} => op[s] \in {"reap", "claim"}
         /\ pc[s] = "idle" => op[s] = "none"
BY DEF SessionTypeOK, ArgOK, Steps, Inserting

\* A statement that starts, or passes over a row, writes nothing.
LEMMA CoreMove ==
  ASSUME CoreInv, NEW s \in Sessions, pc'[s] \in Steps[op[s]], todo'[s] \in Seq(Jobs),
         \A t \in Sessions \ {s} : Same(t), SessionDomains',
         UNCHANGED <<now, tables, op, arg, ts, wr>>,
         pc[s] \notin {"claimed", "inserted"},
         pc'[s] \notin {"claimed", "inserted"},
         pc'[s] \notin Visiting => todo'[s] = <<>>,
         pc'[s] \in Unwritten => pc[s] \in Unwritten,
         \A i \in DOMAIN todo'[s] : jobs[todo'[s][i]].state # "absent",
         pc'[s] \in {"updated", "releasing"} => pc[s] \in {"updated", "releasing"},
         pc'[s] = "insert_jobs" =>
           /\ dags[arg[s]] = "absent"
           /\ \A t \in Sessions \ {s} : Inserting(t) => arg[s] # arg[t],
         pc'[s] \in {"cancel_jobs", "cancelling"} => dags[arg[s]] # "absent"
  PROVE  CoreInv'
<1>1. /\ op'[s] = op[s] /\ arg'[s] = arg[s] /\ ts'[s] = ts[s] /\ wr'[s] = wr[s]
      /\ UNCHANGED <<dags, jobs>>
  BY DEF tables
<1>2. SessionTypeOK(s) /\ SessionOK(s)
  BY DEF CoreInv, TypeOK
<1>3. SessionTypeOK(s)'
  BY <1>1, <1>2 DEF SessionTypeOK, ArgOK
<1>4. SessionOK(s)'
  <2>1. WritesOK(s)' /\ StepOK(s)'
    BY <1>1, <1>2 DEF SessionOK, WritesOK, StepOK
  <2>2. PresenceOK(s)'
    BY <1>1, <1>2 DEF SessionOK, PresenceOK, Inserting
  <2>3. WorkOK(s)'
    BY <1>1, <1>2, OpOfStep DEF SessionOK, WorkOK
  <2> QED
    BY <2>1, <2>2, <2>3 DEF SessionOK
<1>5. \A t \in Sessions \ {s} : DOMAIN wr'[s] \cap DOMAIN wr[t] = {}
  BY <1>1 DEF CoreInv, LocksExclusive
<1> QED
  BY <1>1, <1>3, <1>4, <1>5, CoreFrame DEF Inserting

\* What a session sees of a row is a row.
LEMMA ViewType ==
  ASSUME TypeOK, NEW s \in Sessions, NEW j \in Jobs
  PROVE  View(s)[j] \in Row
BY DEF TypeOK, SessionTypeOK, View

\* Writing a row version changes this row of this session only.
LEMMA WriteFacts ==
  ASSUME CoreInv, NEW s \in Sessions, NEW j \in Jobs, NEW r \in Row,
         wr' = Write(s, j, r)
  PROVE  /\ DOMAIN wr' = Sessions
         /\ \A t \in Sessions \ {s} : wr'[t] = wr[t]
         /\ DOMAIN wr'[s] = DOMAIN wr[s] \cup {j}
         /\ wr'[s][j] = r
         /\ \A k \in DOMAIN wr[s] \ {j} : wr'[s][k] = wr[s][k]
         /\ wr'[s] \in [DOMAIN wr'[s] -> Row]
BY DEF CoreInv, TypeOK, SessionTypeOK, Write

\* A statement writes one well-formed version of a row it has locked.
LEMMA CoreWrite ==
  ASSUME CoreInv, NEW s \in Sessions, NEW j \in Jobs, NEW r \in Row,
         pc'[s] \in Steps[op[s]], todo'[s] \in Seq(Jobs),
         wr' = Write(s, j, r),
         \A t \in Sessions \ {s} : Same(t), SessionDomains',
         UNCHANGED <<now, tables, op, ts>>,
         ArgOK(s)',
         WorkOK(s)',
         ~LockedByOther(s, j),
         RowOK(j, r),
         r.state # "absent", jobs[j].state # "absent",
         View(s)[j].state \in Terminal => r = View(s)[j],
         pc[s] \notin {"inserted"},
         pc'[s] \notin Unwritten \cup {"inserted"},
         pc'[s] \notin Visiting => todo'[s] = <<>>,
         \A i \in DOMAIN todo'[s] : jobs[todo'[s][i]].state # "absent",
         pc'[s] \in {"cancel_jobs", "cancelling"} => dags[arg'[s]] # "absent"
  PROVE  CoreInv'
<1>1. op'[s] = op[s] /\ ts'[s] = ts[s] /\ UNCHANGED <<dags, jobs>>
  BY DEF tables
<1>3. SessionTypeOK(s) /\ SessionOK(s)
  BY DEF CoreInv, TypeOK
<1>4. SessionTypeOK(s)'
  BY <1>1, <1>3, WriteFacts DEF SessionTypeOK
<1>5. WritesOK(s)'
  <2>1. SUFFICES ASSUME NEW k \in DOMAIN wr'[s]
                 PROVE  /\ RowOK(k, wr'[s][k])
                        /\ jobs[k].state \in Terminal => wr'[s][k] = jobs[k]
    BY <1>1 DEF WritesOK, RowOK, BudgetOK
  <2>2. CASE k = j
    BY <2>2, <1>3, WriteFacts DEF SessionOK, WritesOK, View
  <2>3. CASE k # j
    BY <2>3, <1>3, WriteFacts DEF SessionOK, WritesOK
  <2> QED
    BY <2>2, <2>3
<1>6. StepOK(s)'
  BY <1>1 DEF StepOK
<1>7. PresenceOK(s)'
  BY <1>1, <1>3, WriteFacts DEF SessionOK, PresenceOK, Inserting, Unwritten
<1>8. \A t \in Sessions \ {s} : DOMAIN wr'[s] \cap DOMAIN wr[t] = {}
  BY WriteFacts DEF CoreInv, LocksExclusive, LockedByOther
<1>9. ~Inserting(s)'
  BY <1>1 DEF Inserting, Unwritten
<1> QED
  BY <1>1, <1>4, <1>5, <1>6, <1>7, <1>8, <1>9, CoreFrame DEF SessionOK

\* The end of a transaction resets its session and no other.
LEMMA EndFacts ==
  ASSUME TypeOK, NEW s \in Sessions, End(s)
  PROVE  /\ op'[s] = "none" /\ arg'[s] = Null /\ pc'[s] = "idle" /\ ts'[s] = 0
         /\ todo'[s] = <<>> /\ wr'[s] = NoWrites /\ DOMAIN wr'[s] = {}
         /\ \A t \in Sessions \ {s} : Same(t)
         /\ SessionDomains'
         /\ SessionTypeOK(s)'
<1>1. /\ op'[s] = "none" /\ arg'[s] = Null /\ pc'[s] = "idle" /\ ts'[s] = 0
      /\ todo'[s] = <<>> /\ wr'[s] = NoWrites
      /\ \A t \in Sessions \ {s} : Same(t)
      /\ SessionDomains'
  BY DEF TypeOK, End, Same, SessionDomains
<1>2. DOMAIN NoWrites = {} /\ NoWrites \in [{} -> Row]
  BY DEF NoWrites
<1> QED
  BY <1>1, <1>2 DEF SessionTypeOK, ArgOK, Steps

\* An idle session satisfies its part of the invariant.
LEMMA IdleOK ==
  ASSUME NEW s \in Sessions, pc'[s] = "idle", op'[s] = "none", todo'[s] = <<>>,
         DOMAIN wr'[s] = {}
  PROVE  SessionOK(s)' /\ ~Inserting(s)'
BY DEF SessionOK, WritesOK, StepOK, PresenceOK, WorkOK, Inserting, Visiting, Unwritten

\* ROLLBACK keeps the invariant.
LEMMA CoreRollback ==
  ASSUME CoreInv, NEW s \in Sessions, Rollback(s)
  PROVE  CoreInv'
<1>1. TypeOK /\ End(s) /\ UNCHANGED <<now, tables>>
  BY DEF CoreInv, Rollback, End
<1> QED
  BY <1>1, EndFacts, IdleOK, CoreFrame

\* INSERT INTO jobs adds rows that no other session can see or has inserted.
LEMMA CoreInsertJobs ==
  ASSUME CoreInv, NEW s \in Sessions, InsertJobs(s)
  PROVE  CoreInv'
<1> DEFINE d == arg[s]
<1>1. SessionTypeOK(s) /\ SessionOK(s)
  BY DEF CoreInv, TypeOK
<1>2. pc[s] = "insert_jobs" /\ op[s] = "submit" /\ d \in Dags
  <2>1. pc[s] = "insert_jobs"
    BY DEF InsertJobs
  <2> QED
    BY <1>1, <2>1, OpOfStep DEF Inserting
<1>3. /\ op'[s] = "submit" /\ arg'[s] = d /\ pc'[s] = "inserted" /\ ts'[s] = ts[s]
      /\ todo'[s] = todo[s]
      /\ \A t \in Sessions \ {s} : Same(t)
      /\ SessionDomains'
      /\ UNCHANGED <<dags, jobs>>
  BY <1>2 DEF InsertJobs, CoreInv, TypeOK, Same, SessionDomains, tables
<1>4. /\ DOMAIN wr'[s] = JobsOf(d)
      /\ \A j \in JobsOf(d) :
           wr'[s][j] = [AbsentRow EXCEPT
                          !.state = IF EdgesInto(j) = {} THEN "ready" ELSE "pending",
                          !.available_at = ts[s]]
      /\ wr'[s] = [j \in JobsOf(d) |-> wr'[s][j]]
  BY DEF InsertJobs, CoreInv, TypeOK
<1>5. \A j \in JobsOf(d) :
        /\ wr'[s][j] \in Row
        /\ wr'[s][j].state \in {"ready", "pending"}
        /\ RowOK(j, wr'[s][j])
  <2>1. SUFFICES ASSUME NEW j \in Jobs, j \in JobsOf(d)
                 PROVE  /\ wr'[s][j] \in Row
                        /\ wr'[s][j].state \in {"ready", "pending"}
                        /\ RowOK(j, wr'[s][j])
    BY DEF JobsOf
  <2>2. PICK st \in {"ready", "pending"} :
          wr'[s][j] = [AbsentRow EXCEPT !.state = st, !.available_at = ts[s]]
    BY <1>4, <2>1
  <2>3. ts[s] \in Nat
    BY <1>1 DEF SessionTypeOK
  <2>4. wr'[s][j] = [state |-> st, attempts |-> 0, available_at |-> ts[s],
                     lease |-> Null, result |-> Null]
    BY <2>2 DEF AbsentRow
  <2> HIDE <2>2
  <2>6. st \in JobState
    BY DEF JobState
  <2>7. /\ wr'[s][j].state = st /\ wr'[s][j].attempts = 0
        /\ wr'[s][j].lease = Null /\ wr'[s][j] \in Row
    BY <2>3, <2>4, <2>6 DEF Row
  <2>5. MaxAttempts[j] \in Nat
    BY AttemptsAssumption
  <2> QED
    BY <2>5, <2>7 DEF RowOK, BudgetOK
<1>6. todo[s] = <<>> /\ dags[d] = "absent"
  BY <1>1, <1>2 DEF SessionOK, StepOK, PresenceOK, Inserting, Visiting
<1>7. \A j \in JobsOf(d) : jobs[j].state = "absent"
  BY <1>6 DEF CoreInv, SubmitAtomic, JobsOf
<1>8. SessionTypeOK(s)'
  <2>1. /\ DOMAIN wr'[s] \subseteq Jobs
        /\ wr'[s] \in [DOMAIN wr'[s] -> Row]
    BY <1>4, <1>5 DEF JobsOf
  <2> QED
    BY <1>1, <1>2, <1>3, <2>1 DEF SessionTypeOK, ArgOK, Steps
<1>9. SessionOK(s)'
  <2>1. WritesOK(s)'
    <3>1. \A j \in DOMAIN wr'[s] :
            RowOK(j, wr'[s][j]) /\ jobs[j].state \notin Terminal
      BY <1>4, <1>5, <1>7 DEF Terminal
    <3> QED
      BY <1>3, <3>1 DEF WritesOK, RowOK, BudgetOK
  <2>2. StepOK(s)' /\ WorkOK(s)'
    BY <1>3, <1>6 DEF StepOK, WorkOK, Unwritten
  <2>3. PresenceOK(s)'
    <3>1. DOMAIN wr'[s] = JobsOf(arg'[s]) /\ dags'[arg'[s]] = "absent"
      BY <1>3, <1>4, <1>6
    <3>2. \A j \in DOMAIN wr'[s] : wr'[s][j].state \in {"ready", "pending"}
      BY <1>4, <1>5
    <3>3. todo'[s] = <<>> /\ DOMAIN todo'[s] = {}
      BY <1>3, <1>6
    <3>4. JobsOf(arg[s])' = JobsOf(arg'[s])
      BY DEF JobsOf
    <3> QED
      BY <1>3, <3>1, <3>2, <3>3, <3>4 DEF PresenceOK
  <2> QED
    BY <2>1, <2>2, <2>3 DEF SessionOK
<1>10. \A t \in Sessions \ {s} : Inserting(t) => arg[t] # d
  BY <1>2 DEF CoreInv, InsertsExclusive, Inserting
<1>11. \A t \in Sessions \ {s} : DOMAIN wr'[s] \cap DOMAIN wr[t] = {}
  <2>1. SUFFICES ASSUME NEW t \in Sessions \ {s}, NEW j \in JobsOf(d), j \in DOMAIN wr[t]
                 PROVE  FALSE
    BY <1>4
  <2>2. SessionOK(t)
    BY DEF CoreInv
  <2>3. pc[t] = "inserted"
    BY <1>7, <2>1, <2>2 DEF SessionOK, PresenceOK
  <2>4. arg[t] = d
    BY <2>1, <2>2, <2>3 DEF SessionOK, PresenceOK, JobsOf
  <2> QED
    BY <1>10, <2>3, <2>4 DEF Inserting
<1>12. UNCHANGED <<now, tables>>
  BY DEF InsertJobs
<1> QED
  BY <1>3, <1>8, <1>9, <1>10, <1>11, <1>12, CoreFrame

\* COMMIT keeps the types of the tables.
LEMMA CommitTypes ==
  ASSUME CoreInv, NEW s \in Sessions, NEW j \in Jobs, Finished(s)
  PROVE  NewEvents(s, j) \in Seq(Event)
<1>1. SessionTypeOK(s) /\ WorkOK(s)
  BY DEF CoreInv, TypeOK, SessionOK
<1> DEFINE acts == (pc[s] = "claimed" \/ op[s] \in {"complete", "fail"}) /\ arg[s].job = j
<1>2. CASE ~acts
  BY <1>2 DEF NewEvents
<1>3. CASE acts
  <2>1. /\ j \in DOMAIN wr[s]
        /\ op[s] = "claim" \/ wr[s][j].state \in {"succeeded", "retry_wait", "dead_lettered"}
    BY <1>1, <1>3 DEF WorkOK, SessionTypeOK, Steps, Finished
  <2>2. wr[s][j].attempts \in Nat
    BY <1>1, <2>1 DEF SessionTypeOK, Row
  <2>3. [type |-> IF op[s] = "claim" THEN "claimed" ELSE wr[s][j].state,
         attempt |-> wr[s][j].attempts] \in Event
    BY <2>1, <2>2 DEF Event
  <2> QED
    BY <1>3, <2>3 DEF NewEvents
<1> QED
  BY <1>2, <1>3

\* COMMIT publishes well-formed rows and keeps what other sessions rely on.
LEMMA CoreCommit ==
  ASSUME CoreInv, NEW s \in Sessions, Commit(s)
  PROVE  CoreInv'
<1>1. /\ TypeOK /\ End(s) /\ Finished(s) /\ SessionTypeOK(s) /\ SessionOK(s)
  BY DEF CoreInv, TypeOK, Commit
<1>2. /\ \A t \in Sessions \ {s} : Same(t)
      /\ SessionDomains' /\ SessionTypeOK(s)' /\ SessionOK(s)' /\ ~Inserting(s)'
      /\ DOMAIN wr'[s] = {}
  BY <1>1, EndFacts, IdleOK
<1>3. \A j \in Jobs : /\ jobs'[j] = View(s)[j]
                      /\ j \in DOMAIN wr[s] => jobs'[j] = wr[s][j]
                      /\ j \notin DOMAIN wr[s] => jobs'[j] = jobs[j]
  BY DEF Commit, View
<1>4. \A d \in Dags : dags'[d] = IF op[s] \in {"submit", "cancel"} /\ arg[s] = d
                                 THEN IF op[s] = "submit" THEN "running" ELSE "cancelled"
                                 ELSE dags[d]
  BY DEF Commit
<1>5. op[s] = "submit" => pc[s] = "inserted"
  BY <1>1 DEF Finished
<1>6. op[s] = "cancel" => pc[s] = "cancelling"
  BY <1>1 DEF Finished
<1>7. pc[s] = "inserted" => op[s] = "submit"
  BY <1>1 DEF SessionTypeOK, Steps
<1>8. TypeOK'
  <2>1. now' \in Nat
    BY <1>1 DEF End, TypeOK
  <2>2. dags' \in [Dags -> {"absent", "running", "cancelled"}]
    BY <1>1 DEF Commit, TypeOK
  <2>3. jobs' \in [Jobs -> Row]
    BY <1>1, ViewType DEF Commit, View
  <2>4. events' \in [Jobs -> Seq(Event)]
    <3>1. \A j \in Jobs : events[j] \o NewEvents(s, j) \in Seq(Event)
      BY <1>1, CommitTypes DEF TypeOK
    <3> QED
      BY <3>1 DEF Commit
  <2>5. claims' \subseteq Claim
    <3>1. pc[s] = "claimed" => arg[s] \in Claim
      BY <1>1 DEF SessionTypeOK, ArgOK, Steps
    <3> QED
      BY <1>1, <3>1 DEF Commit, TypeOK
  <2>6. \A t \in Sessions : SessionTypeOK(t)'
    BY <1>1, <1>2 DEF TypeOK, SessionTypeOK, ArgOK, Same
  <2> QED
    BY <1>2, <2>1, <2>2, <2>3, <2>4, <2>5, <2>6 DEF TypeOK, SessionDomains
<1>9. \A j \in Jobs : RowOK(j, jobs[j])'
  BY <1>1, <1>3 DEF CoreInv, SessionOK, WritesOK, RowOK, BudgetOK
<1>10. SubmitAtomic'
  <2>1. SUFFICES ASSUME NEW j \in Jobs
                 PROVE  dags'[DagOf[j]] = "absent" <=> jobs'[j].state = "absent"
    BY DEF SubmitAtomic
  <2>2. /\ DagOf[j] \in Dags
        /\ dags[DagOf[j]] = "absent" <=> jobs[j].state = "absent"
    BY JobsAssumption DEF CoreInv, SubmitAtomic
  <2>3. CASE op[s] = "submit"
    BY <1>1, <1>3, <1>4, <1>5, <2>2, <2>3 DEF SessionOK, PresenceOK, JobsOf
  <2>4. CASE op[s] = "cancel"
    BY <1>1, <1>3, <1>4, <1>6, <2>2, <2>4 DEF SessionOK, PresenceOK
  <2>5. CASE op[s] \notin {"submit", "cancel"}
    BY <1>1, <1>3, <1>4, <1>7, <2>2, <2>5 DEF SessionOK, PresenceOK
  <2> QED
    BY <2>3, <2>4, <2>5
<1>11. LocksExclusive' /\ InsertsExclusive'
  BY <1>2 DEF CoreInv, LocksExclusive, InsertsExclusive, Same, Inserting
<1>12. ASSUME NEW t \in Sessions \ {s}
       PROVE  SessionOK(t)'
  <2>1. SessionOK(t) /\ SessionTypeOK(t) /\ Same(t)
    BY <1>2 DEF CoreInv, TypeOK
  <2>2. \A j \in DOMAIN wr[t] : j \in Jobs /\ jobs'[j] = jobs[j]
    BY <1>3, <2>1 DEF CoreInv, LocksExclusive, SessionTypeOK
  <2>3. WritesOK(t)'
    BY <2>1, <2>2 DEF SessionOK, WritesOK, Same, RowOK, BudgetOK
  <2>4. StepOK(t)' /\ WorkOK(t)'
    BY <2>1 DEF SessionOK, StepOK, WorkOK, Same
  <2>5. PresenceOK(t)'
    <3>1. Inserting(t) => arg[t] \in Dags /\ dags'[arg[t]] = "absent"
      <4>1. SUFFICES ASSUME Inserting(t) PROVE arg[t] \in Dags /\ dags'[arg[t]] = "absent"
        OBVIOUS
      <4>2. arg[t] \in Dags /\ dags[arg[t]] = "absent"
        BY <2>1, <4>1 DEF SessionOK, PresenceOK, Inserting, SessionTypeOK, ArgOK, Steps
      <4>3. op[s] = "submit" => arg[s] # arg[t]
        BY <1>5, <4>1 DEF CoreInv, InsertsExclusive, Inserting
      <4>4. op[s] = "cancel" => arg[s] # arg[t]
        BY <1>1, <1>6, <4>2 DEF SessionOK, PresenceOK
      <4> QED
        BY <1>4, <4>2, <4>3, <4>4
    <3>2. \A i \in DOMAIN todo[t] : jobs'[todo[t][i]].state # "absent"
      <4>1. SUFFICES ASSUME NEW i \in DOMAIN todo[t]
                     PROVE  jobs'[todo[t][i]].state # "absent"
        OBVIOUS
      <4>2. todo[t][i] \in Jobs /\ jobs[todo[t][i]].state # "absent"
        BY <2>1 DEF SessionOK, PresenceOK, SessionTypeOK
      <4> QED
        BY <1>1, <1>3, <4>2 DEF SessionOK, PresenceOK
    <3>3. pc[t] \in {"cancel_jobs", "cancelling"} => dags'[arg[t]] # "absent"
      <4>1. pc[t] \in {"cancel_jobs", "cancelling"} =>
              arg[t] \in Dags /\ dags[arg[t]] # "absent"
        BY <2>1 DEF SessionOK, PresenceOK, SessionTypeOK, ArgOK, Steps
      <4> QED
        BY <1>4, <4>1
    <3> QED
      BY <2>1, <2>2, <3>1, <3>2, <3>3 DEF SessionOK, PresenceOK, Inserting, Same
  <2> QED
    BY <2>3, <2>4, <2>5 DEF SessionOK
<1> QED
  BY <1>2, <1>8, <1>9, <1>10, <1>11, <1>12 DEF CoreInv

-----------------------------------------------------------------------------
\* The row versions that the statements write

\* What a session sees is well formed; finished rows look the same to everyone.
LEMMA ViewOK ==
  ASSUME CoreInv, NEW s \in Sessions, NEW j \in Jobs
  PROVE  /\ View(s)[j] \in Row
         /\ RowOK(j, View(s)[j])
         /\ jobs[j].state \in Terminal => View(s)[j] = jobs[j]
         /\ j \notin DOMAIN wr[s] => View(s)[j] = jobs[j]
         /\ j \in DOMAIN wr[s] => View(s)[j] = wr[s][j]
         /\ jobs[j].state # "absent" /\ pc[s] # "inserted" => View(s)[j].state # "absent"
<1>1. TypeOK /\ SessionOK(s)
  BY DEF CoreInv
<1>2. View(s)[j] = IF j \in DOMAIN wr[s] THEN wr[s][j] ELSE jobs[j]
  BY DEF View
<1>3. View(s)[j] \in Row
  BY <1>1, ViewType
<1>4. RowOK(j, View(s)[j])
  BY <1>1, <1>2 DEF CoreInv, SessionOK, WritesOK
<1> QED
  BY <1>1, <1>2, <1>3, <1>4 DEF SessionOK, WritesOK, PresenceOK

\* The row after a failed or expired lease is well formed and within budget.
LEMMA LapsedRowOK ==
  ASSUME CoreInv, NEW s \in Sessions, NEW j \in Jobs, View(s)[j].state = "leased"
  PROVE  /\ LapsedRow(s, j) \in Row
         /\ RowOK(j, LapsedRow(s, j))
         /\ LapsedRow(s, j).state \in {"retry_wait", "dead_lettered"}
         /\ LapsedRow(s, j).lease = Null
<1> DEFINE r == View(s)[j]
           st == IF r.attempts >= MaxAttempts[j] THEN "dead_lettered" ELSE "retry_wait"
           av == IF r.attempts >= MaxAttempts[j] THEN r.available_at
                                                 ELSE ts[s] + Backoff(r.attempts)
<1>1. r \in Row /\ RowOK(j, r)
  BY ViewOK
<1>2. r.attempts \in Nat /\ r.available_at \in Nat /\ ts[s] \in Nat /\ MaxAttempts[j] \in Nat
  <2>1. ts[s] \in Nat
    BY DEF CoreInv, TypeOK, SessionTypeOK
  <2>2. MaxAttempts[j] \in Nat
    BY AttemptsAssumption
  <2>3. r.attempts \in Nat /\ r.available_at \in Nat
    BY <1>1 DEF Row
  <2> QED
    BY <2>1, <2>2, <2>3
<1>3. av \in Nat
  BY <1>2, BackoffType
<1>4. st \in JobState /\ st \in {"retry_wait", "dead_lettered"}
  BY DEF JobState
<1>5. LapsedRow(s, j) = [r EXCEPT !.state = st, !.available_at = av, !.lease = Null]
  BY DEF LapsedRow
<1>6. /\ LapsedRow(s, j) \in Row
      /\ LapsedRow(s, j).state = st
      /\ LapsedRow(s, j).attempts = r.attempts
      /\ LapsedRow(s, j).lease = Null
  <2> HIDE DEF r, st, av
  <2> QED
    BY <1>1, <1>3, <1>4, <1>5 DEF Row
<1>7. RowOK(j, LapsedRow(s, j))
  BY <1>1, <1>2, <1>6 DEF RowOK, BudgetOK
<1> QED
  BY <1>4, <1>6, <1>7

\* An UPDATE of a whole statement visits one row.
LEMMA CoreVisit ==
  ASSUME CoreInv, NEW s \in Sessions, NEW r \in Row,
         todo[s] # <<>>,
         pc[s] \in {"reaping", "releasing", "cancelling"},
         ~LockedByOther(s, Head(todo[s])),
         wr' = Write(s, Head(todo[s]), r),
         todo' = [todo EXCEPT ![s] = Tail(@)],
         UNCHANGED <<now, tables, op, arg, pc, ts>>,
         RowOK(Head(todo[s]), r),
         r.state # "absent",
         View(s)[Head(todo[s])].state \in Terminal => r = View(s)[Head(todo[s])]
  PROVE  CoreInv'
<1> DEFINE j == Head(todo[s])
           q == Tail(todo[s])
<1>1. SessionTypeOK(s) /\ SessionOK(s)
  BY DEF CoreInv, TypeOK
<1>2. /\ j \in Jobs /\ q \in Seq(Jobs)
      /\ 1 \in DOMAIN todo[s] /\ j = todo[s][1]
      /\ \A i \in DOMAIN q : i + 1 \in DOMAIN todo[s] /\ q[i] = todo[s][i + 1]
  BY <1>1 DEF SessionTypeOK
<1>3. /\ jobs[j].state # "absent"
      /\ \A i \in DOMAIN q : jobs[q[i]].state # "absent"
  BY <1>1, <1>2 DEF SessionOK, PresenceOK
<1>4. /\ pc'[s] = pc[s] /\ arg'[s] = arg[s] /\ todo'[s] = q
      /\ \A t \in Sessions \ {s} : Same(t)
      /\ SessionDomains'
  BY <1>2, WriteFacts DEF CoreInv, TypeOK, Same, SessionDomains
<1>5. pc[s] \in Steps[op[s]]
  BY <1>1 DEF SessionTypeOK
<1>6. ArgOK(s)'
  BY <1>1 DEF SessionTypeOK, ArgOK
<1>7. WorkOK(s)'
  <2>1. pc[s] = "releasing" =>
          /\ op[s] = "complete" /\ arg[s].job \in DOMAIN wr[s]
          /\ wr[s][arg[s].job].state = "succeeded" /\ arg[s].job \in Jobs
    BY <1>1, OpOfStep DEF SessionOK, WorkOK, SessionTypeOK
  <2>2. pc[s] = "releasing" =>
          /\ arg[s].job \in DOMAIN wr'[s]
          /\ wr'[s][arg[s].job].state = "succeeded"
    BY <1>2, <2>1, WriteFacts, ViewOK DEF Terminal
  <2> QED
    BY <2>1, <2>2 DEF WorkOK
<1>8. pc[s] = "cancelling" => dags[arg[s]] # "absent"
  BY <1>1 DEF SessionOK, PresenceOK
<1>9. /\ wr' = Write(s, j, r) /\ ~LockedByOther(s, j) /\ RowOK(j, r)
      /\ View(s)[j].state \in Terminal => r = View(s)[j]
  OBVIOUS
<1>10. /\ pc[s] # "inserted" /\ pc[s] \notin Unwritten \cup {"inserted"}
       /\ pc[s] \in Visiting
  BY DEF Unwritten, Visiting
<1>11. UNCHANGED <<now, tables, op, ts>>
  OBVIOUS
<1> HIDE DEF j, q
<1> QED
  BY <1>2, <1>3, <1>4, <1>5, <1>6, <1>7, <1>8, <1>9, <1>10, <1>11, CoreWrite

\* reap_in_transaction visits a row.
LEMMA CoreReapRow ==
  ASSUME CoreInv, NEW s \in Sessions, ReapRow(s)
  PROVE  CoreInv'
<1> DEFINE j == Head(todo[s])
           r == IF Expired(s, View(s)[j]) THEN LapsedRow(s, j) ELSE View(s)[j]
<1>1. /\ pc[s] = "reaping" /\ todo[s] # <<>> /\ ~LockedByOther(s, j)
      /\ wr' = Write(s, j, r)
      /\ todo' = [todo EXCEPT ![s] = Tail(@)]
      /\ UNCHANGED <<now, tables, op, arg, pc, ts>>
  BY DEF ReapRow, Visit
<1>2. j \in Jobs /\ jobs[j].state # "absent"
  BY <1>1 DEF CoreInv, TypeOK, SessionTypeOK, SessionOK, PresenceOK
<1>3. View(s)[j] \in Row /\ RowOK(j, View(s)[j]) /\ View(s)[j].state # "absent"
  BY <1>1, <1>2, ViewOK
<1>4. /\ r \in Row /\ RowOK(j, r) /\ r.state # "absent"
      /\ View(s)[j].state \in Terminal => r = View(s)[j]
  BY <1>2, <1>3, LapsedRowOK DEF Expired, Terminal
<1> HIDE DEF r
<1> QED
  BY <1>1, <1>4, CoreVisit

\* complete releases a child.
LEMMA CoreReleaseRow ==
  ASSUME CoreInv, NEW s \in Sessions, ReleaseRow(s)
  PROVE  CoreInv'
<1> DEFINE j == Head(todo[s])
           r == IF IsPending(s, View(s)[j]) THEN ReleasedRow(s, j) ELSE View(s)[j]
<1>1. /\ pc[s] = "releasing" /\ todo[s] # <<>> /\ ~LockedByOther(s, j)
      /\ wr' = Write(s, j, r)
      /\ todo' = [todo EXCEPT ![s] = Tail(@)]
      /\ UNCHANGED <<now, tables, op, arg, pc, ts>>
  BY DEF ReleaseRow, Visit
<1>2. j \in Jobs /\ jobs[j].state # "absent" /\ ts[s] \in Nat
  BY <1>1 DEF CoreInv, TypeOK, SessionTypeOK, SessionOK, PresenceOK
<1>3. View(s)[j] \in Row /\ RowOK(j, View(s)[j]) /\ View(s)[j].state # "absent"
  BY <1>1, <1>2, ViewOK
<1>4. CASE IsPending(s, View(s)[j])
  <2>1. /\ r \in Row /\ r.state = "ready" /\ r.attempts = View(s)[j].attempts
        /\ r.lease = View(s)[j].lease
    BY <1>2, <1>3, <1>4 DEF ReleasedRow, Row, JobState
  <2>2. RowOK(j, r) /\ View(s)[j].state \notin Terminal
    BY <1>3, <1>4, <2>1 DEF RowOK, BudgetOK, IsPending, Terminal
  <2> HIDE DEF r
  <2> QED
    BY <1>1, <2>1, <2>2, CoreVisit
<1>5. CASE ~IsPending(s, View(s)[j])
  BY <1>1, <1>3, <1>5, CoreVisit
<1> QED
  BY <1>4, <1>5

\* cancel visits a job.
LEMMA CoreCancelRow ==
  ASSUME CoreInv, NEW s \in Sessions, CancelRow(s)
  PROVE  CoreInv'
<1> DEFINE j == Head(todo[s])
           r == IF Unfinished(s, View(s)[j]) THEN CancelledRow(s, j) ELSE View(s)[j]
<1>1. /\ pc[s] = "cancelling" /\ todo[s] # <<>> /\ ~LockedByOther(s, j)
      /\ wr' = Write(s, j, r)
      /\ todo' = [todo EXCEPT ![s] = Tail(@)]
      /\ UNCHANGED <<now, tables, op, arg, pc, ts>>
  BY DEF CancelRow, Visit
<1>2. j \in Jobs /\ jobs[j].state # "absent"
  BY <1>1 DEF CoreInv, TypeOK, SessionTypeOK, SessionOK, PresenceOK
<1>3. View(s)[j] \in Row /\ RowOK(j, View(s)[j]) /\ View(s)[j].state # "absent"
  BY <1>1, <1>2, ViewOK
<1>4. CASE Unfinished(s, View(s)[j])
  <2>1. /\ r \in Row /\ r.state = "cancelled" /\ r.attempts = View(s)[j].attempts
        /\ r.lease = Null
    BY <1>3, <1>4 DEF CancelledRow, Row, JobState
  <2>2. RowOK(j, r) /\ View(s)[j].state \notin Terminal
    BY <1>3, <1>4, <2>1 DEF RowOK, BudgetOK, Unfinished
  <2> HIDE DEF r
  <2> QED
    BY <1>1, <2>1, <2>2, CoreVisit
<1>5. CASE ~Unfinished(s, View(s)[j])
  BY <1>1, <1>3, <1>5, CoreVisit
<1> QED
  BY <1>4, <1>5

-----------------------------------------------------------------------------
\* The candidates of claim

\* The row a statement visits next, and those after it, exist.
LEMMA HeadTail ==
  ASSUME CoreInv, NEW s \in Sessions, todo[s] # <<>>
  PROVE  /\ Head(todo[s]) \in Jobs /\ Tail(todo[s]) \in Seq(Jobs)
         /\ jobs[Head(todo[s])].state # "absent"
         /\ Head(todo[s]) = todo[s][1] /\ 1 \in DOMAIN todo[s]
         /\ \A i \in DOMAIN Tail(todo[s]) :
              /\ i + 1 \in DOMAIN todo[s]
              /\ Tail(todo[s])[i] = todo[s][i + 1]
              /\ jobs[Tail(todo[s])[i]].state # "absent"
<1>1. todo[s] \in Seq(Jobs)
  BY DEF CoreInv, TypeOK, SessionTypeOK
<1>2. \A i \in DOMAIN todo[s] : jobs[todo[s][i]].state # "absent"
  BY DEF CoreInv, SessionOK, PresenceOK
<1> QED
  BY <1>1, <1>2

\* claim passes over a locked candidate.
LEMMA CoreSkipLocked ==
  ASSUME CoreInv, NEW s \in Sessions, SkipLocked(s)
  PROVE  CoreInv'
<1> DEFINE q == Tail(todo[s])
<1>1. /\ pc[s] = "selecting" /\ todo[s] # <<>>
      /\ pc'[s] = pc[s] /\ todo'[s] = q
      /\ \A t \in Sessions \ {s} : Same(t)
      /\ SessionDomains'
      /\ UNCHANGED <<now, tables, op, arg, ts, wr>>
  BY DEF SkipLocked, CoreInv, TypeOK, Same, SessionDomains
<1>2. q \in Seq(Jobs) /\ \A i \in DOMAIN q : jobs[q[i]].state # "absent"
  BY <1>1, HeadTail
<1>3. pc[s] \in Steps[op[s]]
  BY DEF CoreInv, TypeOK, SessionTypeOK
<1> HIDE DEF q
<1> QED
  BY <1>1, <1>2, <1>3, CoreMove DEF Visiting, Unwritten

\* claim passes over a candidate that no longer qualifies.
LEMMA CoreRejectCandidate ==
  ASSUME CoreInv, NEW s \in Sessions, RejectCandidate(s)
  PROVE  CoreInv'
<1> DEFINE j == Head(todo[s])
           q == Tail(todo[s])
           r == View(s)[j]
<1>1. /\ pc[s] = "selecting" /\ todo[s] # <<>> /\ ~LockedByOther(s, j)
      /\ wr' = Write(s, j, r)
      /\ pc'[s] = "selecting" /\ todo'[s] = q /\ arg'[s] = arg[s]
      /\ UNCHANGED <<now, tables, op, arg, pc, ts>>
  BY DEF RejectCandidate, CoreInv, TypeOK
<1>2. /\ q \in Seq(Jobs) /\ \A i \in DOMAIN q : jobs[q[i]].state # "absent"
      /\ j \in Jobs /\ jobs[j].state # "absent"
  BY <1>1, HeadTail
<1>3. r \in Row /\ RowOK(j, r) /\ r.state # "absent"
  BY <1>1, <1>2, ViewOK
<1>4. /\ \A t \in Sessions \ {s} : Same(t)
      /\ SessionDomains'
  BY <1>1, <1>2, <1>3, WriteFacts DEF RejectCandidate, CoreInv, TypeOK, Same, SessionDomains
<1>5. "selecting" \in Steps[op[s]] /\ SessionTypeOK(s)
  BY <1>1 DEF CoreInv, TypeOK, SessionTypeOK
<1>6. ArgOK(s)' /\ WorkOK(s)'
  BY <1>1, <1>5, OpOfStep DEF ArgOK, WorkOK
<1> HIDE DEF j, q
<1> QED
  BY <1>1, <1>2, <1>3, <1>4, <1>5, <1>6, CoreWrite DEF Visiting, Unwritten

\* A new token differs from every token in use.
LEMMA FreshTokenOK ==
  ASSUME Tokens \ UsedTokens # {}
  PROVE  FreshToken \in Tokens /\ FreshToken \notin UsedTokens
BY DEF FreshToken

TakenRow(s, j, o, k, x) ==
  [View(s)[j] EXCEPT !.state = "leased", !.attempts = @ + 1,
                     !.lease = [owner |-> o, token |-> k, expires |-> x]]

\* The row after a claim is well formed: a waiting row has an attempt left.
LEMMA TakenRowOK ==
  ASSUME CoreInv, NEW s \in Sessions, NEW j \in Jobs, NEW o \in Owners, NEW k \in Tokens,
         NEW x \in Nat, View(s)[j].state \in Waiting
  PROVE  /\ TakenRow(s, j, o, k, x) \in Row
         /\ RowOK(j, TakenRow(s, j, o, k, x))
         /\ TakenRow(s, j, o, k, x).state = "leased"
         /\ TakenRow(s, j, o, k, x).attempts = View(s)[j].attempts + 1
         /\ TakenRow(s, j, o, k, x).lease.owner = o
         /\ TakenRow(s, j, o, k, x).lease.token = k
<1> DEFINE v == View(s)[j]
           l == [owner |-> o, token |-> k, expires |-> x]
           n == v.attempts + 1
           r == TakenRow(s, j, o, k, x)
<1>1. v \in Row /\ RowOK(j, v)
  BY ViewOK
<1>2. v.attempts \in Nat /\ n \in Nat /\ MaxAttempts[j] \in Nat \ {0}
  BY <1>1, AttemptsAssumption DEF Row
<1>3. l \in Lease /\ l # Null /\ l.owner = o /\ l.token = k
  BY NullAssumption DEF Lease
<1>4. r = [v EXCEPT !.state = "leased", !.attempts = n, !.lease = l]
  BY DEF TakenRow
<1>5. v.state \in Waiting /\ n = v.attempts + 1 /\ "leased" \in JobState
  BY DEF JobState
<1> HIDE DEF v, l, n, r
<1>6. /\ r \in Row /\ r.state = "leased" /\ r.attempts = n /\ r.lease = l
  BY <1>1, <1>2, <1>3, <1>4, <1>5 DEF Row
<1>7. RowOK(j, r)
  BY <1>1, <1>2, <1>3, <1>5, <1>6 DEF RowOK, BudgetOK, Waiting
<1> QED
  BY <1>3, <1>5, <1>6, <1>7 DEF v, r

\* claim leases its candidate.
LEMMA CoreTakeCandidate ==
  ASSUME CoreInv, NEW s \in Sessions, TakeCandidate(s)
  PROVE  CoreInv'
<1> DEFINE j == Head(todo[s])
           k == FreshToken
           a == [job |-> j, owner |-> arg[s], token |-> k, attempt |-> View(s)[j].attempts + 1]
<1>1. /\ pc[s] = "selecting" /\ todo[s] # <<>> /\ ~LockedByOther(s, j)
      /\ Claimable(s, View(s)[j])
      /\ Tokens \ UsedTokens # {}
      /\ pc'[s] = "claimed" /\ todo'[s] = <<>> /\ arg'[s] = a
      /\ UNCHANGED <<now, tables, op, ts>>
  BY DEF TakeCandidate, CoreInv, TypeOK
<1>2. PICK len \in LeaseLengths :
        wr' = Write(s, j, [View(s)[j] EXCEPT
                             !.state = "leased", !.attempts = @ + 1,
                             !.lease = [owner |-> arg[s], token |-> k, expires |-> ts[s] + len]])
  BY DEF TakeCandidate
<1> DEFINE r == TakenRow(s, j, arg[s], k, ts[s] + len)
<1>3. SessionTypeOK(s)
  BY DEF CoreInv, TypeOK
<1>4. op[s] = "claim" /\ arg[s] \in Owners
  BY <1>1, <1>3, OpOfStep
<1>5. k \in Tokens /\ ts[s] + len \in Nat
  BY <1>1, <1>3, FreshTokenOK, LeaseAssumption DEF SessionTypeOK
<1>6. j \in Jobs /\ jobs[j].state # "absent"
  BY <1>1, HeadTail
<1>7. View(s)[j].state \in Waiting
  BY <1>1 DEF Claimable
<1>8. /\ r \in Row /\ RowOK(j, r)
      /\ r.state = "leased" /\ r.attempts = View(s)[j].attempts + 1
      /\ r.lease.owner = arg[s] /\ r.lease.token = k
  BY <1>4, <1>5, <1>6, <1>7, TakenRowOK
<1>9. wr' = Write(s, j, r)
  BY <1>2 DEF TakenRow
<1>10. a \in Claim
  <2>1. View(s)[j].attempts + 1 \in Nat
    BY <1>6, ViewOK DEF Row
  <2> QED
    BY <1>4, <1>5, <1>6, <2>1 DEF Claim
<1>11. /\ a.job = j /\ a.owner = arg[s] /\ a.token = k
       /\ a.attempt = View(s)[j].attempts + 1
  OBVIOUS
<1> HIDE DEF r, a, k
<1>12. /\ \A t \in Sessions \ {s} : Same(t)
       /\ SessionDomains'
  BY <1>6, <1>8, <1>9, WriteFacts DEF TakeCandidate, CoreInv, TypeOK, Same, SessionDomains
<1> HIDE DEF j
<1>13. ArgOK(s)'
  BY <1>1, <1>4, <1>10 DEF ArgOK
<1>14. WorkOK(s)'
  BY <1>1, <1>6, <1>8, <1>9, <1>11, WriteFacts DEF WorkOK
<1>15. "claimed" \in Steps[op[s]] /\ <<>> \in Seq(Jobs)
  BY <1>4 DEF Steps
<1>16. View(s)[j].state \notin Terminal
  BY <1>7 DEF Waiting, Terminal
<1>17. /\ pc'[s] \notin Unwritten \cup {"inserted"}
       /\ pc'[s] \notin {"cancel_jobs", "cancelling"}
       /\ DOMAIN todo'[s] = {} /\ pc[s] \notin {"inserted"}
  BY <1>1 DEF Unwritten
<1> QED
  BY <1>1, <1>6, <1>8, <1>9, <1>12, <1>13, <1>14, <1>15, <1>16, <1>17, CoreWrite

-----------------------------------------------------------------------------
\* Compare and set under a lease

\* The row that a successful compare-and-set finds.
LEMMA CasFacts ==
  ASSUME CoreInv, NEW s \in Sessions, pc[s] = "casing", HoldsLease(s, jobs[arg[s].job])
  PROVE  /\ SessionTypeOK(s)
         /\ op[s] \in {"heartbeat", "complete", "fail"} /\ arg[s] \in Claim
         /\ arg[s].job \in Jobs /\ arg[s].token \in Tokens
         /\ View(s)[arg[s].job] = jobs[arg[s].job]
         /\ jobs[arg[s].job].state = "leased"
         /\ jobs[arg[s].job].lease \in Lease
         /\ jobs[arg[s].job] \in Row /\ RowOK(arg[s].job, jobs[arg[s].job])
<1>1. SessionTypeOK(s) /\ SessionOK(s) /\ TypeOK
  BY DEF CoreInv, TypeOK
<1>2. op[s] \in {"heartbeat", "complete", "fail"} /\ arg[s] \in Claim
  BY <1>1, OpOfStep
<1>3. arg[s].job \in Jobs /\ arg[s].token \in Tokens
  BY <1>2 DEF Claim
<1>4. DOMAIN wr[s] = {}
  BY <1>1 DEF SessionOK, StepOK, Unwritten
<1>5. View(s)[arg[s].job] = jobs[arg[s].job] /\ RowOK(arg[s].job, jobs[arg[s].job])
  BY <1>3, <1>4, ViewOK
<1>6. jobs[arg[s].job] \in Row
  BY <1>1, <1>3 DEF TypeOK
<1>7. jobs[arg[s].job].state = "leased" /\ jobs[arg[s].job].lease # Null
  BY DEF HoldsLease
<1>8. jobs[arg[s].job].lease \in Lease
  BY <1>6, <1>7 DEF Row
<1> QED
  BY <1>1, <1>2, <1>3, <1>5, <1>6, <1>7, <1>8

\* A successful compare-and-set.
LEMMA CoreCas ==
  ASSUME CoreInv, NEW s \in Sessions, NEW o, NEW new \in Row, Cas(s, o, new),
         RowOK(arg[s].job, new), new.state # "absent",
         o = "complete" => new.state = "succeeded",
         o = "fail" => new.state \in {"retry_wait", "dead_lettered"}
  PROVE  CoreInv'
<1> DEFINE j == arg[s].job
<1>1. /\ op[s] = o /\ pc[s] = "casing" /\ HoldsLease(s, jobs[j])
      /\ ~LockedByOther(s, j) /\ wr' = Write(s, j, new)
      /\ pc'[s] = "updated" /\ todo'[s] = <<>> /\ arg'[s] = arg[s]
      /\ UNCHANGED <<now, tables, op, arg, ts>>
  BY DEF Cas, CoreInv, TypeOK
<1>2. /\ SessionTypeOK(s) /\ op[s] \in {"heartbeat", "complete", "fail"}
      /\ j \in Jobs /\ View(s)[j] = jobs[j] /\ jobs[j].state = "leased"
  BY <1>1, CasFacts
<1>3. /\ \A t \in Sessions \ {s} : Same(t)
      /\ SessionDomains'
  BY <1>1, <1>2, WriteFacts DEF Cas, CoreInv, TypeOK, Same, SessionDomains
<1>4. ArgOK(s)'
  BY <1>1, <1>2 DEF SessionTypeOK, ArgOK
<1>5. WorkOK(s)'
  BY <1>1, <1>2, WriteFacts DEF WorkOK
<1>6. "updated" \in Steps[op[s]] /\ <<>> \in Seq(Jobs)
  BY <1>2 DEF Steps
<1>7. /\ pc'[s] \notin Unwritten \cup {"inserted"}
      /\ pc'[s] \notin {"cancel_jobs", "cancelling"}
      /\ DOMAIN todo'[s] = {} /\ pc[s] \notin {"inserted"}
      /\ View(s)[j].state \notin Terminal /\ jobs[j].state # "absent"
  BY <1>1, <1>2 DEF Unwritten, Terminal
<1> HIDE DEF j
<1>8. RowOK(j, new)
  BY DEF j
<1> QED
  BY <1>1, <1>2, <1>3, <1>4, <1>5, <1>6, <1>7, <1>8, CoreWrite

\* heartbeat moves the deadline.
LEMMA CoreHeartbeatRow ==
  ASSUME CoreInv, NEW s \in Sessions, HeartbeatRow(s)
  PROVE  CoreInv'
<1> DEFINE r == jobs[arg[s].job]
<1>1. PICK len \in LeaseLengths : Cas(s, "heartbeat", [r EXCEPT !.lease.expires = ts[s] + len])
  BY DEF HeartbeatRow
<1> DEFINE l == [r.lease EXCEPT !.expires = ts[s] + len]
           new == [r EXCEPT !.lease = l]
<1>2. pc[s] = "casing" /\ HoldsLease(s, r)
  BY <1>1 DEF Cas
<1>3. /\ r \in Row /\ RowOK(arg[s].job, r) /\ r.state = "leased" /\ r.lease \in Lease
      /\ SessionTypeOK(s)
  BY <1>2, CasFacts
<1>4. l \in Lease /\ l # Null
  <2>1. ts[s] + len \in Nat
    BY <1>3, LeaseAssumption DEF SessionTypeOK
  <2> QED
    BY <1>3, <2>1, NullAssumption DEF Lease
<1>5. Cas(s, "heartbeat", new)
  BY <1>1
<1>6. new \in Row /\ new.state = "leased" /\ new.lease = l /\ new.attempts = r.attempts
  <2> HIDE DEF l, r
  <2> QED
    BY <1>3, <1>4 DEF Row
<1>7. RowOK(arg[s].job, new)
  BY <1>3, <1>4, <1>6 DEF RowOK, BudgetOK
<1> HIDE DEF new
<1> QED
  BY <1>5, <1>6, <1>7, CoreCas

\* The row after a completion is well formed.
LEMMA SucceededRowOK ==
  ASSUME CoreInv, NEW s \in Sessions, NEW j \in Jobs, arg[s].token \in Tokens,
         View(s)[j].state = "leased"
  PROVE  /\ SucceededRow(s, j) \in Row /\ RowOK(j, SucceededRow(s, j))
         /\ SucceededRow(s, j).state = "succeeded"
         /\ SucceededRow(s, j).result = arg[s].token
         /\ SucceededRow(s, j).attempts = View(s)[j].attempts
<1> DEFINE v == View(s)[j]
           r == SucceededRow(s, j)
<1>1. v \in Row /\ RowOK(j, v)
  BY ViewOK
<1>2. r = [v EXCEPT !.state = "succeeded", !.result = arg[s].token, !.lease = Null]
  BY DEF SucceededRow
<1>3. "succeeded" \in JobState
  BY DEF JobState
<1> HIDE DEF v, r
<1>4. /\ r \in Row /\ r.state = "succeeded" /\ r.result = arg[s].token
      /\ r.attempts = v.attempts /\ r.lease = Null
  BY <1>1, <1>2, <1>3 DEF Row
<1>5. RowOK(j, r)
  BY <1>1, <1>4 DEF RowOK, BudgetOK
<1> QED
  BY <1>4, <1>5 DEF v, r

\* complete records the result.
LEMMA CoreCompleteRow ==
  ASSUME CoreInv, NEW s \in Sessions, CompleteRow(s)
  PROVE  CoreInv'
<1>1. Cas(s, "complete", SucceededRow(s, arg[s].job))
  BY DEF CompleteRow
<1>2. pc[s] = "casing" /\ HoldsLease(s, jobs[arg[s].job])
  BY <1>1 DEF Cas
<1> QED
  BY <1>1, <1>2, CasFacts, SucceededRowOK, CoreCas

\* fail ends the lease.
LEMMA CoreFailRow ==
  ASSUME CoreInv, NEW s \in Sessions, FailRow(s)
  PROVE  CoreInv'
<1>1. Cas(s, "fail", LapsedRow(s, arg[s].job))
  BY DEF FailRow
<1>2. pc[s] = "casing" /\ HoldsLease(s, jobs[arg[s].job])
  BY <1>1 DEF Cas
<1>3. /\ LapsedRow(s, arg[s].job) \in Row
      /\ RowOK(arg[s].job, LapsedRow(s, arg[s].job))
      /\ LapsedRow(s, arg[s].job).state \in {"retry_wait", "dead_lettered"}
  BY <1>2, CasFacts, LapsedRowOK
<1> QED
  BY <1>1, <1>3, CoreCas

-----------------------------------------------------------------------------
\* Statements that start

\* A statement that starts will visit exactly the rows it selected.
LEMMA OpenFacts ==
  ASSUME CoreInv, NEW s \in Sessions, NEW rows \in SUBSET Jobs, NEW step,
         Open(s, rows, step)
  PROVE  /\ pc'[s] = step /\ todo'[s] \in Seq(Jobs)
         /\ \A i \in DOMAIN todo'[s] : todo'[s][i] \in rows
         /\ \A j \in rows : \E i \in DOMAIN todo'[s] : todo'[s][i] = j
         /\ \A t \in Sessions \ {s} : Same(t)
         /\ SessionDomains'
         /\ UNCHANGED <<now, tables, op, arg, ts, wr>>
<1>1. PICK q \in SetToSeqs(rows) : todo' = [todo EXCEPT ![s] = q]
  BY DEF Open
<1>2. /\ q \in Seq(Jobs) /\ \A i \in DOMAIN q : q[i] \in rows
      /\ \A x \in rows : \E i \in DOMAIN q : q[i] = x
  BY OrderingOf
<1> QED
  BY <1>1, <1>2 DEF Open, CoreInv, TypeOK, Same, SessionDomains

\* A statement that starts on rows that exist keeps the invariant.
LEMMA CoreOpen ==
  ASSUME CoreInv, NEW s \in Sessions, NEW rows \in SUBSET Jobs, NEW step \in Visiting,
         Open(s, rows, step), step \in Steps[op[s]],
         pc[s] \notin {"claimed", "inserted"},
         step \in Unwritten => pc[s] \in Unwritten,
         step = "releasing" => pc[s] = "updated",
         step = "cancelling" => pc[s] = "cancel_jobs",
         \A j \in rows : jobs[j].state # "absent"
  PROVE  CoreInv'
<1>1. /\ pc'[s] = step /\ todo'[s] \in Seq(Jobs)
      /\ \A i \in DOMAIN todo'[s] : todo'[s][i] \in rows
      /\ \A t \in Sessions \ {s} : Same(t)
      /\ SessionDomains'
      /\ UNCHANGED <<now, tables, op, arg, ts, wr>>
  BY OpenFacts
<1>2. step \notin {"claimed", "inserted", "updated", "insert_jobs", "cancel_jobs"}
  BY DEF Visiting
<1>3. step = "cancelling" => dags[arg[s]] # "absent"
  BY DEF CoreInv, SessionOK, PresenceOK
<1> QED
  BY <1>1, <1>2, <1>3, CoreMove

\* The statements of reap, of the compare-and-set, of release and of cancel start.
LEMMA CoreStatements ==
  ASSUME CoreInv, NEW s \in Sessions,
         StartReap(s) \/ StartCas(s) \/ StartRelease(s) \/ StartCancelJobs(s)
  PROVE  CoreInv'
<1>1. SessionTypeOK(s) /\ SessionOK(s)
  BY DEF CoreInv, TypeOK
<1>2. CASE StartReap(s)
  <2> DEFINE rows == {j \in Jobs : Expired(s, jobs[j])}
  <2>1. pc[s] = "reap" /\ Open(s, rows, "reaping")
    BY <1>2 DEF StartReap
  <2>2. op[s] \in {"reap", "claim"}
    BY <1>1, <2>1, OpOfStep
  <2>3. "reaping" \in Steps[op[s]] /\ \A j \in rows : jobs[j].state # "absent"
    BY <2>2 DEF Steps, Expired
  <2> QED
    BY <2>1, <2>3, CoreOpen DEF Visiting, Unwritten
<1>3. CASE StartCas(s)
  <2> DEFINE rows == {arg[s].job}
  <2>1. pc[s] = "cas" /\ HoldsLease(s, jobs[arg[s].job]) /\ Open(s, rows, "casing")
    BY <1>3 DEF StartCas
  <2>2. op[s] \in {"heartbeat", "complete", "fail"} /\ arg[s] \in Claim
    BY <1>1, <2>1, OpOfStep
  <2>3. rows \in SUBSET Jobs
    BY <2>2 DEF Claim
  <2>4. "casing" \in Steps[op[s]] /\ \A j \in rows : jobs[j].state # "absent"
    BY <2>1, <2>2 DEF Steps, HoldsLease
  <2> QED
    BY <2>1, <2>3, <2>4, CoreOpen DEF Visiting, Unwritten
<1>4. CASE StartRelease(s)
  <2> DEFINE rows == {c \in Children(arg[s].job) :
                        View(s)[c].state = "pending" /\ ParentsSucceeded(s, c)}
  <2>1. pc[s] = "updated" /\ op[s] = "complete" /\ Open(s, rows, "releasing")
    BY <1>4 DEF StartRelease
  <2>2. rows \in SUBSET Jobs
    BY EdgesAssumption DEF Children
  <2>3. \A j \in rows : jobs[j].state # "absent"
    BY <1>1, <2>1, <2>2 DEF View, SessionOK, PresenceOK
  <2>4. "releasing" \in Steps[op[s]]
    BY <2>1 DEF Steps
  <2> HIDE DEF rows
  <2> QED
    BY <2>1, <2>2, <2>3, <2>4, CoreOpen DEF Visiting, Unwritten
<1>5. CASE StartCancelJobs(s)
  <2> DEFINE rows == {j \in JobsOf(arg[s]) : jobs[j].state \notin Terminal}
  <2>1. pc[s] = "cancel_jobs" /\ Open(s, rows, "cancelling")
    BY <1>5 DEF StartCancelJobs
  <2>2. op[s] = "cancel" /\ arg[s] \in Dags /\ dags[arg[s]] # "absent"
    BY <1>1, <2>1, OpOfStep DEF SessionOK, PresenceOK
  <2>3. rows \in SUBSET Jobs /\ \A j \in rows : jobs[j].state # "absent"
    BY <2>2 DEF JobsOf, CoreInv, SubmitAtomic
  <2>4. "cancelling" \in Steps[op[s]]
    BY <2>2 DEF Steps
  <2> HIDE DEF rows
  <2> QED
    BY <2>1, <2>3, <2>4, CoreOpen DEF Visiting, Unwritten
<1> QED
  BY <1>2, <1>3, <1>4, <1>5

\* The candidates of claim are eligible jobs.
LEMMA SelectFacts ==
  ASSUME CoreInv, NEW s \in Sessions, SelectCandidates(s)
  PROVE  /\ op[s] = "claim" /\ pc[s] = "reaping"
         /\ pc'[s] = "selecting" /\ todo'[s] \in Seq(Jobs)
         /\ \A i \in DOMAIN todo'[s] : todo'[s][i] \in Eligible(s)
         /\ \A t \in Sessions \ {s} : Same(t)
         /\ SessionDomains'
         /\ UNCHANGED <<now, tables, op, arg, ts, wr>>
<1>1. PICK q \in SetToSeqs(Eligible(s)) : todo' = [todo EXCEPT ![s] = q]
  BY DEF SelectCandidates
<1>2. Eligible(s) \in SUBSET Jobs
  BY DEF Eligible
<1>3. q \in Seq(Jobs) /\ \A i \in DOMAIN q : q[i] \in Eligible(s)
  BY <1>2, OrderingOf
<1> QED
  BY <1>1, <1>3 DEF SelectCandidates, CoreInv, TypeOK, Same, SessionDomains

\* claim selects its candidates.
LEMMA CoreSelectCandidates ==
  ASSUME CoreInv, NEW s \in Sessions, SelectCandidates(s)
  PROVE  CoreInv'
<1>1. /\ op[s] = "claim" /\ pc[s] = "reaping"
      /\ pc'[s] = "selecting" /\ todo'[s] \in Seq(Jobs)
      /\ \A i \in DOMAIN todo'[s] : todo'[s][i] \in Eligible(s)
      /\ \A t \in Sessions \ {s} : Same(t)
      /\ SessionDomains'
      /\ UNCHANGED <<now, tables, op, arg, ts, wr>>
  BY SelectFacts
<1>2. \A j \in Eligible(s) : jobs[j].state # "absent"
  <2>1. SUFFICES ASSUME NEW j \in Jobs, View(s)[j].state \in Waiting
                 PROVE  jobs[j].state # "absent"
    BY DEF Eligible, Claimable
  <2>2. SessionOK(s)
    BY DEF CoreInv
  <2> QED
    BY <1>1, <2>1, <2>2 DEF View, SessionOK, PresenceOK, Waiting
<1>3. "selecting" \in Steps[op[s]]
  BY <1>1 DEF Steps
<1> QED
  BY <1>1, <1>2, <1>3, CoreMove DEF Visiting, Unwritten

\* submit inserts, or cancel updates, the row of the DAG.
LEMMA CoreDagStatements ==
  ASSUME CoreInv, NEW s \in Sessions, InsertDag(s) \/ CancelDag(s)
  PROVE  CoreInv'
<1>1. SessionTypeOK(s) /\ SessionOK(s)
  BY DEF CoreInv, TypeOK
<1>2. pc[s] \in {"insert_dag", "cancel_dag"} => todo[s] = <<>>
  BY <1>1 DEF SessionOK, StepOK, Visiting
<1>3. CASE InsertDag(s)
  <2>1. /\ pc[s] = "insert_dag" /\ dags[arg[s]] = "absent"
        /\ \A t \in Sessions \ {s} : ~HoldsDag(t, arg[s])
        /\ pc' = [pc EXCEPT ![s] = "insert_jobs"]
        /\ UNCHANGED <<now, tables, op, arg, ts, todo, wr>>
    BY <1>3 DEF InsertDag
  <2>2. op[s] = "submit" /\ "insert_jobs" \in Steps[op[s]]
    BY <1>1, <2>1, OpOfStep DEF Steps
  <2>3. \A t \in Sessions \ {s} : Inserting(t) => arg[s] # arg[t]
    <3>1. SUFFICES ASSUME NEW t \in Sessions \ {s}, Inserting(t)
                   PROVE  arg[s] # arg[t]
      OBVIOUS
    <3>2. op[t] = "submit"
      BY <3>1, OpOfStep DEF CoreInv, TypeOK
    <3> QED
      BY <2>1, <3>1, <3>2 DEF HoldsDag, Inserting
  <2>4. /\ pc'[s] = "insert_jobs" /\ todo'[s] = <<>> /\ <<>> \in Seq(Jobs)
        /\ \A t \in Sessions \ {s} : Same(t)
        /\ SessionDomains'
    BY <1>2, <2>1 DEF CoreInv, TypeOK, Same, SessionDomains
  <2>5. /\ DOMAIN todo'[s] = {} /\ pc'[s] \in Unwritten /\ pc[s] \in Unwritten
        /\ todo'[s] \in Seq(Jobs)
        /\ UNCHANGED <<now, tables, op, arg, ts, wr>>
    BY <2>1, <2>4 DEF Unwritten
  <2> QED
    BY <2>1, <2>2, <2>3, <2>4, <2>5, CoreMove
<1>4. CASE CancelDag(s)
  <2>1. /\ pc[s] = "cancel_dag" /\ dags[arg[s]] # "absent"
        /\ pc' = [pc EXCEPT ![s] = "cancel_jobs"]
        /\ UNCHANGED <<now, tables, op, arg, ts, todo, wr>>
    BY <1>4 DEF CancelDag
  <2>2. op[s] = "cancel" /\ "cancel_jobs" \in Steps[op[s]]
    BY <1>1, <2>1, OpOfStep DEF Steps
  <2>3. /\ pc'[s] = "cancel_jobs" /\ todo'[s] = <<>> /\ <<>> \in Seq(Jobs)
        /\ \A t \in Sessions \ {s} : Same(t)
        /\ SessionDomains'
    BY <1>2, <2>1 DEF CoreInv, TypeOK, Same, SessionDomains
  <2>4. /\ DOMAIN todo'[s] = {} /\ pc'[s] \in Unwritten /\ pc[s] \in Unwritten
        /\ todo'[s] \in Seq(Jobs)
        /\ UNCHANGED <<now, tables, op, arg, ts, wr>>
    BY <2>1, <2>3 DEF Unwritten
  <2> QED
    BY <2>1, <2>2, <2>3, <2>4, CoreMove
<1> QED
  BY <1>3, <1>4

\* Every call of a client keeps the invariant.
LEMMA CoreCall ==
  ASSUME CoreInv, NEW s \in Sessions, Call(s)
  PROVE  CoreInv'
<1>1. /\ "submit" \in DOMAIN Steps /\ "insert_dag" \in Steps["submit"]
      /\ "claim" \in DOMAIN Steps /\ "reap" \in Steps["claim"]
      /\ "reap" \in DOMAIN Steps /\ "reap" \in Steps["reap"]
      /\ "cancel" \in DOMAIN Steps /\ "cancel_dag" \in Steps["cancel"]
      /\ \A o \in {"heartbeat", "complete", "fail"} : o \in DOMAIN Steps /\ "cas" \in Steps[o]
  BY DEF Steps
<1>2. CASE SubmitBegin(s)
  BY <1>1, <1>2, CoreBegin DEF SubmitBegin
<1>3. CASE ClaimBegin(s)
  BY <1>1, <1>3, CoreBegin DEF ClaimBegin
<1>4. CASE ReapBegin(s)
  BY <1>1, <1>4, CoreBegin DEF ReapBegin
<1>5. CASE CancelBegin(s)
  BY <1>1, <1>5, CoreBegin DEF CancelBegin
<1>6. ASSUME NEW o \in {"heartbeat", "complete", "fail"}, LeaseCallBegin(s, o)
      PROVE  CoreInv'
  <2>1. PICK c \in claims, w \in Owners : Begin(s, o, [c EXCEPT !.owner = w], "cas")
    BY <1>6 DEF LeaseCallBegin
  <2>2. c \in Claim
    BY DEF CoreInv, TypeOK
  <2>3. [c EXCEPT !.owner = w] \in Claim
    BY <2>2 DEF Claim
  <2> QED
    BY <1>1, <2>1, <2>3, CoreBegin
<1> QED
  BY <1>2, <1>3, <1>4, <1>5, <1>6
  DEF Call, HeartbeatBegin, CompleteBegin, FailBegin

\* Every step of a running operation keeps the invariant.
LEMMA CoreStep ==
  ASSUME CoreInv, NEW s \in Sessions, Step(s)
  PROVE  CoreInv'
<1>1. CASE InsertDag(s) \/ CancelDag(s)
  BY <1>1, CoreDagStatements
<1>2. CASE InsertJobs(s)
  BY <1>2, CoreInsertJobs
<1>3. CASE \/ DuplicateDag(s) \/ DuplicateEdge(s) \/ LeaseConflict(s)
           \/ DagNotFound(s) \/ DeadlockAbort(s)
  BY <1>3, CoreRollback
  DEF DuplicateDag, DuplicateEdge, LeaseConflict, DagNotFound, DeadlockAbort
<1>4. CASE StartReap(s) \/ StartCas(s) \/ StartRelease(s) \/ StartCancelJobs(s)
  BY <1>4, CoreStatements
<1>5. CASE ReapRow(s)
  BY <1>5, CoreReapRow
<1>6. CASE ReleaseRow(s)
  BY <1>6, CoreReleaseRow
<1>7. CASE CancelRow(s)
  BY <1>7, CoreCancelRow
<1>8. CASE SelectCandidates(s)
  BY <1>8, CoreSelectCandidates
<1>9. CASE SkipLocked(s)
  BY <1>9, CoreSkipLocked
<1>10. CASE RejectCandidate(s)
  BY <1>10, CoreRejectCandidate
<1>11. CASE TakeCandidate(s)
  BY <1>11, CoreTakeCandidate
<1>12. CASE HeartbeatRow(s)
  BY <1>12, CoreHeartbeatRow
<1>13. CASE CompleteRow(s)
  BY <1>13, CoreCompleteRow
<1>14. CASE FailRow(s)
  BY <1>14, CoreFailRow
<1>15. CASE Commit(s)
  BY <1>15, CoreCommit
<1> QED
  BY <1>1, <1>2, <1>3, <1>4, <1>5, <1>6, <1>7, <1>8, <1>9, <1>10, <1>11, <1>12,
     <1>13, <1>14, <1>15 DEF Step

\* So do the clock and stuttering.
LEMMA CoreTick ==
  ASSUME CoreInv, now' \in Nat, UNCHANGED <<tables, op, arg, pc, ts, todo, wr>>
  PROVE  CoreInv'
<1>1. /\ SessionDomains' /\ \A t \in Sessions : Same(t)
      /\ UNCHANGED <<dags, jobs, events, claims>>
  BY DEF CoreInv, TypeOK, SessionDomains, Same, tables
<1>2. \A t \in Sessions : SessionTypeOK(t)' /\ SessionOK(t)'
  BY <1>1, OthersKeep DEF CoreInv, TypeOK
<1>3. TypeOK'
  BY <1>1, <1>2 DEF CoreInv, TypeOK, SessionDomains
<1>4. /\ \A j \in Jobs : RowOK(j, jobs[j])'
      /\ SubmitAtomic' /\ LocksExclusive' /\ InsertsExclusive'
  BY <1>1 DEF CoreInv, RowOK, BudgetOK, SubmitAtomic, LocksExclusive, InsertsExclusive,
              Inserting, Same
<1> QED
  BY <1>2, <1>3, <1>4 DEF CoreInv

\* The empty tables satisfy the invariant.
LEMMA CoreInit == Init => CoreInv
<1> SUFFICES ASSUME Init PROVE CoreInv
  OBVIOUS
<1>1. AbsentRow \in Row /\ NoWrites \in [{} -> Row] /\ DOMAIN NoWrites = {}
  BY DEF AbsentRow, Row, JobState, NoWrites
<1>2. \A s \in Sessions : SessionTypeOK(s)
  BY <1>1 DEF Init, SessionTypeOK, ArgOK, Steps
<1>3. TypeOK
  BY <1>1, <1>2 DEF Init, TypeOK
<1>4. \A j \in Jobs : RowOK(j, jobs[j])
  <2>1. SUFFICES ASSUME NEW j \in Jobs PROVE RowOK(j, AbsentRow)
    BY DEF Init
  <2>2. MaxAttempts[j] \in Nat
    BY AttemptsAssumption
  <2> QED
    BY <2>2 DEF RowOK, BudgetOK, AbsentRow
<1>5. SubmitAtomic
  BY JobsAssumption DEF Init, SubmitAtomic, AbsentRow
<1>6. LocksExclusive /\ InsertsExclusive
  BY <1>1 DEF Init, LocksExclusive, InsertsExclusive, Inserting
<1>7. \A s \in Sessions : SessionOK(s)
  BY <1>1 DEF Init, SessionOK, WritesOK, StepOK, PresenceOK, WorkOK, Inserting,
              Visiting, Unwritten
<1> QED
  BY <1>3, <1>4, <1>5, <1>6, <1>7 DEF CoreInv

\* The first layer of the invariant is inductive.
LEMMA CoreNext == CoreInv /\ [Next]_vars => CoreInv'
<1> SUFFICES ASSUME CoreInv, [Next]_vars PROVE CoreInv'
  OBVIOUS
<1>1. CASE Tick
  <2>1. now' \in Nat
    BY <1>1 DEF Tick, CoreInv, TypeOK
  <2> QED
    BY <1>1, <2>1, CoreTick DEF Tick
<1>2. ASSUME NEW s \in Sessions, Call(s) PROVE CoreInv'
  BY <1>2, CoreCall
<1>3. ASSUME NEW s \in Sessions, Step(s) PROVE CoreInv'
  BY <1>3, CoreStep
<1>4. ASSUME NEW s \in Sessions, Abort(s) PROVE CoreInv'
  BY <1>4, CoreRollback DEF Abort
<1>5. CASE UNCHANGED vars
  BY <1>5, CoreTick DEF vars, tables, CoreInv, TypeOK
<1> QED
  BY <1>1, <1>2, <1>3, <1>4, <1>5 DEF Next

\* In every behaviour of the store the tables and sessions keep their types.
THEOREM TypeCorrect == Spec => []TypeOK
<1>1. CoreInv => TypeOK
  BY DEF CoreInv
<1> QED
  BY <1>1, CoreInit, CoreNext, PTL DEF Spec

\* The schema's CHECK on the lease columns holds of every committed and every
\* uncommitted row version, for any number of sessions, jobs and attempts.
THEOREM LeaseColumns == Spec => []LeaseIffLeased
<1>1. CoreInv => LeaseIffLeased
  BY DEF CoreInv, LeaseIffLeased, SessionOK, WritesOK, RowOK
<1> QED
  BY <1>1, CoreInit, CoreNext, PTL DEF Spec

\* No interleaving of claims, failures and reapings exceeds an attempt budget.
THEOREM BudgetHolds == Spec => []WithinBudget
<1>1. CoreInv => WithinBudget
  BY DEF CoreInv, WithinBudget, RowOK
<1> QED
  BY <1>1, CoreInit, CoreNext, PTL DEF Spec

\* A submission is atomic.
THEOREM SubmissionAtomic == Spec => []SubmitAtomic
<1>1. CoreInv => SubmitAtomic
  BY DEF CoreInv
<1> QED
  BY <1>1, CoreInit, CoreNext, PTL DEF Spec
=============================================================================
