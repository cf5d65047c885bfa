--------------------------- MODULE HttpApiProofs ---------------------------
(***************************************************************************)
(* What clients are told is true when it is sent.  The requests take the   *)
(* steps of the store, so its invariant holds; an answer is sent by a step *)
(* that ends a transaction, and the invariant says what that transaction   *)
(* has seen and written.  A conflict is judged by the start of the         *)
(* transaction, which is never later than the clock.                       *)
(***************************************************************************)
EXTENDS HttpApi, StoreRefinementProofs

\* The requests take the steps of the store.
LEMMA ApiSteps == [ApiNext]_apiVars => [Next]_vars
<1> SUFFICES ASSUME [ApiNext]_apiVars PROVE [Next]_vars
  OBVIOUS
<1>1. CASE UNCHANGED apiVars
  BY <1>1 DEF apiVars
<1>2. CASE Clock
  BY <1>2 DEF Clock, Next
<1>3. ASSUME NEW s \in Sessions,
             \/ Request(s) \/ Silent(s) \/ Acknowledge(s) \/ AcknowledgementLost(s)
             \/ NotFound(s) \/ Conflict(s) \/ AlreadyExists(s) \/ Internal(s)
      PROVE  Next
  <2>1. Call(s) \/ Step(s) \/ Abort(s)
    BY <1>3 DEF Request, Silent, Acknowledge, AcknowledgementLost, NotFound, Conflict,
                AlreadyExists, Internal, Step
  <2> QED
    BY <2>1 DEF Next
<1> QED
  BY <1>1, <1>2, <1>3 DEF ApiNext

-----------------------------------------------------------------------------
\* No transaction started in the future.
NeverAhead == \A s \in Sessions : ts[s] <= now

\* A session's timestamp is that of its transaction, taken when it begins.
LEMMA TimestampStep ==
  ASSUME CoreInv, NEW s \in Sessions, Call(s) \/ Step(s) \/ Abort(s)
  PROVE  now' = now /\ ts'[s] \in {ts[s], now, 0}
<1>1. DOMAIN ts = Sessions
  BY DEF CoreInv, TypeOK
<1>2. ASSUME End(s) PROVE now' = now /\ ts'[s] = 0
  BY <1>1, <1>2 DEF End
<1>3. CASE Call(s)
  BY <1>1, <1>3 DEF Call, SubmitBegin, ClaimBegin, ReapBegin, CancelBegin, HeartbeatBegin,
                    CompleteBegin, FailBegin, LeaseCallBegin, Begin
<1>4. CASE Abort(s) \/ Commit(s) \/ DuplicateDag(s) \/ DuplicateEdge(s) \/ LeaseConflict(s)
           \/ DagNotFound(s) \/ DeadlockAbort(s)
  BY <1>2, <1>4 DEF Abort, Commit, DuplicateDag, DuplicateEdge, LeaseConflict, DagNotFound,
                    DeadlockAbort, Rollback
<1>5. CASE ReapRow(s) \/ ReleaseRow(s) \/ CancelRow(s)
  BY <1>5 DEF ReapRow, ReleaseRow, CancelRow, Visit
<1>6. CASE HeartbeatRow(s) \/ CompleteRow(s) \/ FailRow(s)
  BY <1>6 DEF HeartbeatRow, CompleteRow, FailRow, Cas
<1>7. CASE StartReap(s) \/ StartCas(s) \/ StartRelease(s) \/ StartCancelJobs(s)
  BY <1>7 DEF StartReap, StartCas, StartRelease, StartCancelJobs, Open
<1>8. CASE InsertDag(s) \/ CancelDag(s) \/ InsertJobs(s)
  BY <1>8 DEF InsertDag, CancelDag, InsertJobs
<1>9. CASE SelectCandidates(s) \/ SkipLocked(s) \/ RejectCandidate(s) \/ TakeCandidate(s)
  BY <1>9 DEF SelectCandidates, SkipLocked, RejectCandidate, TakeCandidate
<1> QED
  BY <1>3, <1>4, <1>5, <1>6, <1>7, <1>8, <1>9 DEF Step

LEMMA NeverAheadNext == CoreInv /\ NeverAhead /\ [Next]_vars => NeverAhead'
<1> SUFFICES ASSUME CoreInv, NeverAhead, [Next]_vars PROVE NeverAhead'
  OBVIOUS
<1>1. now \in Nat /\ \A s \in Sessions : ts[s] \in Nat
  BY DEF CoreInv, TypeOK, SessionTypeOK
<1>2. CASE Tick \/ UNCHANGED vars
  BY <1>1, <1>2 DEF NeverAhead, Tick, vars
<1>3. ASSUME NEW s \in Sessions, Call(s) \/ Step(s) \/ Abort(s) PROVE NeverAhead'
  <2>1. now' = now /\ ts'[s] \in {ts[s], now, 0} /\ \A t \in Sessions \ {s} : ts'[t] = ts[t]
    BY <1>3, TimestampStep, OthersLocked DEF Same
  <2> QED
    BY <1>1, <2>1 DEF NeverAhead
<1> QED
  BY <1>2, <1>3 DEF Next

-----------------------------------------------------------------------------
\* Between the compare-and-set and the end of the transaction, the committed row still
\* carries the lease that the request named: the session has locked it.
UnderLease(s) ==
  pc[s] \in {"updated", "releasing"} => jobs[arg[s].job].lease.token = arg[s].token

\* Only the three compare-and-sets leave a session with an updated row.
LEMMA UpdatedSteps ==
  ASSUME CoreInv, NEW s \in Sessions, Call(s) \/ Step(s) \/ Abort(s), pc'[s] = "updated"
  PROVE  HeartbeatRow(s) \/ CompleteRow(s) \/ FailRow(s)
<1>1. DOMAIN pc = Sessions
  BY DEF CoreInv, TypeOK
<1>2. ASSUME End(s) PROVE FALSE
  BY <1>1, <1>2 DEF End
<1>3. CASE Call(s)
  BY <1>1, <1>3 DEF Call, SubmitBegin, ClaimBegin, ReapBegin, CancelBegin, HeartbeatBegin,
                    CompleteBegin, FailBegin, LeaseCallBegin, Begin
<1>4. CASE Abort(s) \/ Commit(s) \/ DuplicateDag(s) \/ DuplicateEdge(s) \/ LeaseConflict(s)
           \/ DagNotFound(s) \/ DeadlockAbort(s)
  BY <1>2, <1>4 DEF Abort, Commit, DuplicateDag, DuplicateEdge, LeaseConflict, DagNotFound,
                    DeadlockAbort, Rollback
<1>5. CASE InsertDag(s) \/ InsertJobs(s) \/ CancelDag(s) \/ StartReap(s) \/ StartCas(s)
           \/ StartRelease(s) \/ StartCancelJobs(s) \/ SelectCandidates(s) \/ TakeCandidate(s)
  BY <1>1, <1>5 DEF InsertDag, InsertJobs, CancelDag, StartReap, StartCas, StartRelease,
                    StartCancelJobs, SelectCandidates, TakeCandidate, Open
<1>6. CASE ReapRow(s) \/ ReleaseRow(s) \/ CancelRow(s) \/ SkipLocked(s) \/ RejectCandidate(s)
  BY <1>1, <1>6 DEF ReapRow, ReleaseRow, CancelRow, SkipLocked, RejectCandidate, Visit
<1> QED
  BY <1>3, <1>4, <1>5, <1>6 DEF Step

LEMMA UnderLeaseNext ==
  CoreInv /\ (\A s \in Sessions : UnderLease(s)) /\ [Next]_vars =>
    \A s \in Sessions : UnderLease(s)'
<1> SUFFICES ASSUME CoreInv, \A s \in Sessions : UnderLease(s), [Next]_vars
             PROVE  \A s \in Sessions : UnderLease(s)'
  OBVIOUS
<1>1. CASE Tick \/ UNCHANGED vars
  BY <1>1 DEF UnderLease, Tick, vars, tables
<1>2. ASSUME NEW s \in Sessions, Call(s) \/ Step(s) \/ Abort(s)
      PROVE  \A t \in Sessions : UnderLease(t)'
  <2>1. ASSUME NEW t \in Sessions \ {s} PROVE UnderLease(t)'
    <3>1. Same(t) /\ \A j \in DOMAIN wr[t] : jobs'[j] = jobs[j]
      BY <1>2, OthersLocked
    <3>2. pc[t] \in {"updated", "releasing"} => arg[t].job \in DOMAIN wr[t]
      BY DEF CoreInv, SessionOK, WorkOK
    <3> QED
      BY <3>1, <3>2 DEF UnderLease, Same
  <2>2. UnderLease(s)'
    <3>1. CASE pc'[s] = "updated"
      <4>1. HoldsLease(s, jobs[arg[s].job]) /\ UNCHANGED <<jobs, arg>>
        BY <1>2, <3>1, UpdatedSteps DEF HeartbeatRow, CompleteRow, FailRow, Cas, tables
      <4> QED
        BY <4>1 DEF UnderLease, HoldsLease
    <3>2. CASE pc'[s] = "releasing"
      <4>1. pc[s] \in {"updated", "releasing"} /\ UNCHANGED <<jobs, arg>>
        BY <1>2, <3>2, ReleasingSteps DEF StartRelease, ReleaseRow, Open, Visit, tables
      <4> QED
        BY <4>1 DEF UnderLease
    <3>3. CASE pc'[s] \notin {"updated", "releasing"}
      BY <3>3 DEF UnderLease
    <3> QED
      BY <3>1, <3>2, <3>3
  <2> QED
    BY <2>1, <2>2
<1> QED
  BY <1>1, <1>2 DEF Next

-----------------------------------------------------------------------------
\* A success tells the committed state.
LEMMA SuccessIsTrue ==
  ASSUME CoreInv, CancelOK, NEW s \in Sessions, EffectOK(s), UnderLease(s), Commit(s),
         NEW o, o = op[s], NEW a, a = arg[s], NEW f, f = (pc[s] = "claimed")
  PROVE  SuccessTrue(o, a, f)'
<1>1. Finished(s) /\ SessionOK(s)
  BY CommitOps DEF Commit
<1>2. ASSUME op[s] = "submit"
      PROVE  dags'[a] = "running" /\ \A j \in JobsOf(a) : jobs'[j].state # "absent"
  <2>1. pc[s] = "inserted" /\ a \in Dags
    BY <1>1, <1>2, CommitOps
  <2>2. DOMAIN wr[s] = JobsOf(a)
    BY <1>1, <2>1 DEF SessionOK, PresenceOK
  <2>3. \A j \in JobsOf(a) : j \in Jobs /\ InsertedRow(j, jobs'[j])
    BY <1>2, <2>2, CommitEffect DEF JobsOf, RowEffect
  <2> QED
    BY <1>2, <2>1, <2>3 DEF InsertedRow, Commit
<1>3. ASSUME op[s] = "cancel"
      PROVE  \A j \in JobsOf(a) : jobs'[j].state \in Terminal
  <2>1. pc[s] = "cancelling" /\ DOMAIN todo[s] = {}
    BY <1>1, <1>3, CommitOps
  <2> QED
    BY <2>1, CommitEffect DEF CancelOK, JobsOf
<1>4. ASSUME pc[s] = "claimed" \/ op[s] \in {"heartbeat", "complete", "fail"}
      PROVE  /\ a.job \in Jobs /\ a.job \in DOMAIN wr[s] /\ jobs'[a.job] = wr[s][a.job]
             /\ RowEffect(s, a.job, jobs'[a.job])
  BY <1>1, <1>4, CommitOps, CommitEffect
<1>5. ASSUME pc[s] = "claimed"
      PROVE  /\ a \in claims' /\ jobs'[a.job].state = "leased"
             /\ jobs'[a.job].lease.token = a.token
  BY <1>1, <1>4, <1>5 DEF SessionOK, WorkOK, Commit
<1>6. ASSUME op[s] \in {"heartbeat", "complete"}
      PROVE  jobs[a.job].lease.token = a.token
  <2>1. pc[s] \in {"updated", "releasing"}
    BY <1>1, <1>6, CommitOps
  <2> QED
    BY <2>1 DEF UnderLease
<1>7. ASSUME op[s] = "heartbeat"
      PROVE  jobs'[a.job].state = "leased" /\ jobs'[a.job].lease.token = a.token
  <2>1. RenewedFrom(jobs[a.job], jobs'[a.job])
    BY <1>4, <1>7 DEF RowEffect
  <2> QED
    BY <1>6, <1>7, <2>1 DEF RenewedFrom
<1>8. ASSUME op[s] = "complete"
      PROVE  jobs'[a.job].state = "succeeded" /\ jobs'[a.job].result = a.token
  <2>1. SucceededFrom(jobs[a.job], jobs'[a.job])
    BY <1>4, <1>8 DEF RowEffect
  <2> QED
    BY <1>6, <1>8, <2>1 DEF SucceededFrom
<1>9. ASSUME op[s] = "fail"
      PROVE  jobs'[a.job].state \in {"retry_wait", "dead_lettered"}
  BY <1>4, <1>9 DEF RowEffect, LapsedFrom
<1> QED
  BY <1>2, <1>3, <1>5, <1>7, <1>8, <1>9 DEF SuccessTrue

\* A conflict is never said of a live lease.
LEMMA ConflictIsTrue ==
  ASSUME CoreInv, NeverAhead, NEW s \in Sessions, LeaseConflict(s), NEW a, a = arg[s]
  PROVE  ~Live(a)'
<1> DEFINE r == jobs[a.job]
<1>1. /\ pc[s] \in {"cas", "casing"} /\ ~HoldsLease(s, r) /\ UNCHANGED <<now, jobs>>
  BY DEF LeaseConflict, Rollback, End, tables
<1>2. arg[s] \in Claim /\ SessionTypeOK(s)
  BY <1>1, OpOfStep DEF CoreInv, TypeOK
<1>3. a.job \in Jobs
  BY <1>2 DEF Claim
<1>4. r \in Row /\ (r.state = "leased" <=> r.lease # Null) /\ now \in Nat /\ ts[s] \in Nat
      /\ ts[s] <= now
  BY <1>2, <1>3 DEF CoreInv, TypeOK, RowOK, SessionTypeOK, NeverAhead
<1>5. r.state = "leased" => r.lease.expires \in Nat
  BY <1>4 DEF Row, Lease
<1>6. ~(/\ r.state = "leased" /\ r.lease.owner = a.owner /\ r.lease.token = a.token
        /\ r.lease.expires > now)
  BY <1>1, <1>4, <1>5 DEF HoldsLease
<1> QED
  BY <1>1, <1>6 DEF Live

-----------------------------------------------------------------------------
\* What the answers rest on, and the answers.
ApiInv ==
  /\ IInv /\ NeverAhead
  /\ \A s \in Sessions : UnderLease(s)
  /\ AnswersTrue

LEMMA AnswersNext == ApiInv /\ [ApiNext]_apiVars => AnswersTrue'
<1> SUFFICES ASSUME ApiInv, [ApiNext]_apiVars PROVE AnswersTrue'
  OBVIOUS
<1>1. /\ CoreInv /\ CancelOK /\ NeverAhead /\ AnswersTrue
      /\ \A s \in Sessions : EffectOK(s) /\ UnderLease(s)
  BY DEF ApiInv, IInv, EffectInv
<1>2. CASE UNCHANGED apiVars
  BY <1>1, <1>2 DEF AnswersTrue, SuccessTrue, Live, apiVars, vars
<1>3. ASSUME answer' = Null PROVE AnswersTrue'
  BY <1>3 DEF AnswersTrue
<1>4. ASSUME NEW s \in Sessions,
             \/ Request(s) \/ Silent(s) \/ Acknowledge(s) \/ AcknowledgementLost(s)
             \/ NotFound(s) \/ Conflict(s) \/ AlreadyExists(s) \/ Internal(s)
      PROVE  AnswersTrue'
  <2>1. SessionTypeOK(s)
    BY <1>1 DEF CoreInv, TypeOK
  <2>2. CASE Request(s) \/ Silent(s)
    BY <1>3, <2>2 DEF Request, Silent
  <2>3. CASE AcknowledgementLost(s) \/ Internal(s)
    BY <2>3 DEF AcknowledgementLost, Internal, Reply, AnswersTrue
  <2>4. CASE Acknowledge(s)
    <3>1. PICK o, a, f : o = op[s] /\ a = arg[s] /\ f = (pc[s] = "claimed")
      OBVIOUS
    <3>2. SuccessTrue(o, a, f)'
      BY <1>1, <2>4, <3>1, SuccessIsTrue DEF Acknowledge
    <3>3. answer'.code = "ok" /\ answer'.op = o /\ answer'.arg = a /\ answer'.found = f
      BY <2>4, <3>1 DEF Acknowledge, Reply
    <3> QED
      BY <3>2, <3>3 DEF AnswersTrue, SuccessTrue
  <2>5. CASE NotFound(s)
    BY <2>5 DEF NotFound, DagNotFound, Rollback, tables, Reply, AnswersTrue
  <2>6. CASE Conflict(s)
    BY <1>1, <2>6, ConflictIsTrue DEF Conflict, Reply, AnswersTrue
  <2>7. CASE AlreadyExists(s)
    <3>1. op[s] = "submit" /\ UNCHANGED dags
          /\ (dags[arg[s]] # "absent" \/ RepeatedEdge(arg[s]))
      BY <2>1, <2>7, OpOfStep DEF AlreadyExists, DuplicateDag, DuplicateEdge, Rollback, tables,
                                  Inserting
    <3> QED
      BY <2>7, <3>1 DEF AlreadyExists, Reply, AnswersTrue
  <2> QED
    BY <1>4, <2>2, <2>3, <2>4, <2>5, <2>6, <2>7
<1> QED
  BY <1>2, <1>3, <1>4 DEF ApiNext, Clock

\* For any graph, any number of sessions and any interleaving of requests: every
\* answer is true of the committed state when it is sent.
THEOREM AnswersHold == ApiSpec => []AnswersTrue
<1> DEFINE Under == \A s \in Sessions : UnderLease(s)
<1>1. ApiInit => Init /\ NeverAhead /\ Under /\ AnswersTrue
  BY DEF ApiInit, Init, NeverAhead, UnderLease, AnswersTrue
<1>2. Init => IInv
  BY CoreInit, ParentsInit, CancelInit, FenceInit, EffectInvInit DEF IInv
<1>3. IInv /\ [Next]_vars => IInv'
  BY CoreNext, ParentsNext, CancelNext, FenceNext, EffectInvNext DEF IInv
<1>4. IInv /\ NeverAhead /\ [Next]_vars => NeverAhead'
  BY NeverAheadNext DEF IInv
<1>5. IInv /\ Under /\ [Next]_vars => Under'
  BY UnderLeaseNext DEF IInv
<1>6. IInv /\ NeverAhead /\ Under /\ AnswersTrue /\ [ApiNext]_apiVars => AnswersTrue'
  BY AnswersNext DEF ApiInv
<1> HIDE DEF Under
<1> QED
  BY <1>1, <1>2, <1>3, <1>4, <1>5, <1>6, ApiSteps, PTL DEF ApiSpec
=============================================================================
