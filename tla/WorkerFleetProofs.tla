------------------------- MODULE WorkerFleetProofs -------------------------
(***************************************************************************)
(* FleetInv is inductive, for any number of workers and jobs, any lease    *)
(* and any durations.  The first lemmas say what each step of the life     *)
(* cycle does to a job, field by field; then there is one lemma per action *)
(* of the fleet.                                                           *)
(***************************************************************************)
EXTENDS WorkerFleetInv, TLAPS

\* The retry delay is a natural number.
LEMMA BackoffType ==
  ASSUME NEW a \in Nat
  PROVE  Backoff(a) \in Nat
<1> DEFINE e == Least(16, Greatest(0, a - 1))
<1>1. e \in 0..16
  BY DEF Least, Greatest
<1>2. PowersOfTwo[e + 1] \in Nat
  BY <1>1 DEF PowersOfTwo
<1> QED
  BY <1>1, <1>2, RetryAssumption DEF Backoff, Least

\* An admitted operation takes a natural number of ticks.
LEMMA DurationType == ASSUME NEW j \in Jobs PROVE Duration(j) \in Nat
<1>1. validate_payload(KindOf[j], PayloadOf[j]) = "ok"
  BY AdmittedAssumption
<1>2. KindOf[j] = "delay" => PayloadOf[j].number \in 0..MaxDelay
  BY <1>1 DEF validate_payload
<1> QED
  BY <1>2, PayloadAssumption DEF Duration

-----------------------------------------------------------------------------
\* What a step does to one job

\* Record r with another state and token.
Restate(r, s, t) == [r EXCEPT !.state = s, !.token = t]

LEMMA Restated ==
  ASSUME NEW r \in JobRecord, NEW s \in JobState, NEW t \in Tokens \cup {Null}
  PROVE  /\ Restate(r, s, t) \in JobRecord
         /\ Restate(r, s, t).state = s /\ Restate(r, s, t).token = t
         /\ Restate(r, s, t).attempts = r.attempts
  BY DEF JobRecord, Restate

LEMMA Leased ==
  ASSUME NEW r \in JobRecord, NEW t \in Tokens
  PROVE  LET n == [r EXCEPT !.state = "leased", !.attempts = @ + 1, !.token = t]
         IN n \in JobRecord /\ n.state = "leased" /\ n.token = t /\ n.attempts = r.attempts + 1
<1> DEFINE n == [r EXCEPT !.state = "leased", !.attempts = @ + 1, !.token = t]
           a == [r EXCEPT !.attempts = @ + 1]
<1>1. a \in JobRecord /\ a.attempts = r.attempts + 1
  BY DEF JobRecord
<1>2. n = Restate(a, "leased", t)
  BY DEF JobRecord, Restate
<1>3. "leased" \in JobState
  BY DEF JobState
<1> HIDE DEF a, n
<1>4. n \in JobRecord /\ n.state = "leased" /\ n.token = t /\ n.attempts = r.attempts + 1
  BY <1>1, <1>2, <1>3, Restated
<1> QED
  BY <1>4 DEF n

LEMMA Succeeded ==
  ASSUME NEW r \in JobRecord
  PROVE  LET n == [r EXCEPT !.state = "succeeded", !.result = r.token, !.token = Null]
         IN n \in JobRecord /\ n.state = "succeeded" /\ n.token = Null
            /\ n.attempts = r.attempts
  BY DEF JobRecord, JobState

\* Job j is left alone.
Rests(j) == job'[j] = job[j]

\* Job j loses its lease and waits for another attempt or is dead-lettered.
Lapses(j) ==
  /\ job'[j].state \in {"retry_wait", "dead_lettered"} /\ job'[j].token = Null
  /\ job'[j].attempts = job[j].attempts

LEMMA LapsedRecord ==
  ASSUME NEW j \in Jobs, job[j] \in JobRecord
  PROVE  /\ Lapsed(j) \in JobRecord
         /\ Lapsed(j).state \in {"retry_wait", "dead_lettered"} /\ Lapsed(j).token = Null
         /\ Lapsed(j).attempts = job[j].attempts
<1> DEFINE s == IF job[j].attempts >= MaxAttempts[j] THEN "dead_lettered" ELSE "retry_wait"
<1>1. s \in JobState /\ s \in {"retry_wait", "dead_lettered"}
  BY DEF JobState
<1>2. Lapsed(j) = Restate(job[j], s, Null)
  BY DEF Lapsed, Restate
<1> HIDE DEF s
<1> QED
  BY <1>1, <1>2, Restated

LEMMA LapseEffect ==
  ASSUME Records, NEW R, Lapse(R)
  PROVE  /\ job' \in [Jobs -> JobRecord] /\ granted' = granted
         /\ \A j \in R : job[j].state = "leased"
         /\ \A j \in Jobs : IF j \in R THEN Lapses(j) ELSE Rests(j)
<1>1. \A j \in Jobs : job[j] \in JobRecord
  BY DEF Records
<1>2. \A j \in Jobs : /\ Lapsed(j) \in JobRecord
                      /\ Lapsed(j).state \in {"retry_wait", "dead_lettered"}
                      /\ Lapsed(j).token = Null
                      /\ Lapsed(j).attempts = job[j].attempts
  BY <1>1, LapsedRecord
<1>3. \A j \in Jobs : job'[j] = IF j \in R THEN Lapsed(j) ELSE job[j]
  BY DEF Lapse
<1>4. job' = [j \in Jobs |-> job'[j]]
  BY DEF Lapse
<1> QED
  BY <1>1, <1>2, <1>3, <1>4 DEF Lapse, Lapses, Rests

LEMMA GrantEffect ==
  ASSUME Records, NEW g \in Jobs, NEW t \in Tokens, NEW R, Grant(g, t, R)
  PROVE  /\ job' \in [Jobs -> JobRecord] /\ granted' = granted \cup {t} /\ t \notin granted
         /\ job[g].state \in Waiting
         /\ job'[g].state = "leased" /\ job'[g].token = t
         /\ job'[g].attempts = job[g].attempts + 1
         /\ \A j \in R : job[j].state = "leased"
         /\ \A j \in Jobs \ {g} : IF j \in R THEN Lapses(j) ELSE Rests(j)
<1>1. \A j \in Jobs : job[j] \in JobRecord
  BY DEF Records
<1>2. \A j \in Jobs : /\ Lapsed(j) \in JobRecord
                      /\ Lapsed(j).state \in {"retry_wait", "dead_lettered"}
                      /\ Lapsed(j).token = Null
                      /\ Lapsed(j).attempts = job[j].attempts
  BY <1>1, LapsedRecord
<1> DEFINE n == [job[g] EXCEPT !.state = "leased", !.attempts = @ + 1, !.token = t]
<1>3. n \in JobRecord /\ n.state = "leased" /\ n.token = t
      /\ n.attempts = job[g].attempts + 1
  BY <1>1, Leased
<1>4. job'[g] = n
  BY DEF Grant
<1>5. \A j \in Jobs \ {g} : job'[j] = IF j \in R THEN Lapsed(j) ELSE job[j]
  BY DEF Grant
<1>6. job' = [j \in Jobs |-> job'[j]]
  BY DEF Grant
<1> HIDE DEF n
<1>7. \A j \in Jobs : job'[j] \in JobRecord
  BY <1>1, <1>2, <1>3, <1>4, <1>5
<1>8. \A j \in Jobs \ {g} : IF j \in R THEN Lapses(j) ELSE Rests(j)
  BY <1>2, <1>5 DEF Lapses, Rests
<1> QED
  BY <1>3, <1>4, <1>6, <1>7, <1>8 DEF Grant

\* Job j was pending and is ready.
Readied(j) ==
  /\ job[j].state = "pending" /\ job'[j].state = "ready"
  /\ job'[j].token = job[j].token /\ job'[j].attempts = job[j].attempts

LEMMA SucceedEffect ==
  ASSUME Records, NEW g \in Jobs, NEW C, Succeed(g, C)
  PROVE  /\ job' \in [Jobs -> JobRecord] /\ granted' = granted
         /\ job'[g].state = "succeeded" /\ job'[g].token = Null
         /\ job'[g].attempts = job[g].attempts
         /\ \A j \in Jobs \ {g} : IF j \in C THEN Readied(j) ELSE Rests(j)
<1>1. \A j \in Jobs : job[j] \in JobRecord
  BY DEF Records
<1> DEFINE n == [job[g] EXCEPT !.state = "succeeded", !.result = job[g].token, !.token = Null]
           r(j) == [job[j] EXCEPT !.state = "ready"]
<1>2. n \in JobRecord /\ n.state = "succeeded" /\ n.token = Null
      /\ n.attempts = job[g].attempts
  BY <1>1, Succeeded
<1>3. \A j \in Jobs : /\ r(j) \in JobRecord /\ r(j).state = "ready"
                      /\ r(j).token = job[j].token /\ r(j).attempts = job[j].attempts
  BY <1>1 DEF JobRecord, JobState
<1>4. job'[g] = n
  BY DEF Succeed
<1>5. \A j \in Jobs \ {g} : job'[j] = IF j \in C THEN r(j) ELSE job[j]
  BY DEF Succeed
<1>6. job' = [j \in Jobs |-> job'[j]]
  BY DEF Succeed
<1> HIDE DEF n, r
<1>7. \A j \in Jobs : job'[j] \in JobRecord
  BY <1>1, <1>2, <1>3, <1>4, <1>5
<1>8. \A j \in Jobs \ {g} : IF j \in C THEN Readied(j) ELSE Rests(j)
  BY <1>3, <1>5 DEF Readied, Rests, Succeed
<1> QED
  BY <1>2, <1>4, <1>6, <1>7, <1>8 DEF Succeed

LEMMA CancelEffect ==
  ASSUME Records, NEW d, Cancel(d)
  PROVE  /\ job' \in [Jobs -> JobRecord] /\ granted' = granted
         /\ \A j \in Jobs :
              IF DagOf[j] = d /\ job[j].state \notin Terminal
              THEN /\ job'[j].state = "cancelled" /\ job'[j].token = Null
                   /\ job'[j].attempts = job[j].attempts
              ELSE Rests(j)
<1>1. \A j \in Jobs : job[j] \in JobRecord
  BY DEF Records
<1> DEFINE n(j) == Restate(job[j], "cancelled", Null)
<1>2. ASSUME NEW j \in Jobs
      PROVE  /\ n(j) \in JobRecord /\ n(j).state = "cancelled" /\ n(j).token = Null
             /\ n(j).attempts = job[j].attempts
  <2>1. "cancelled" \in JobState
    BY DEF JobState
  <2> QED
    BY <1>1, <2>1, Restated
<1>3. \A j \in Jobs : job'[j] = IF DagOf[j] = d /\ job[j].state \notin Terminal
                                THEN n(j) ELSE job[j]
  BY DEF Cancel, Restate
<1>4. job' = [j \in Jobs |-> job'[j]]
  BY DEF Cancel
<1> HIDE DEF n
<1>5. \A j \in Jobs : job'[j] \in JobRecord
  BY <1>1, <1>2, <1>3
<1>6. job' \in [Jobs -> JobRecord]
  BY <1>4, <1>5
<1>7. ASSUME NEW j \in Jobs
      PROVE  IF DagOf[j] = d /\ job[j].state \notin Terminal
             THEN /\ job'[j].state = "cancelled" /\ job'[j].token = Null
                  /\ job'[j].attempts = job[j].attempts
             ELSE Rests(j)
  BY <1>2, <1>3 DEF Rests
<1> QED
  BY <1>6, <1>7 DEF Cancel

LEMMA SubmitEffect ==
  ASSUME Records, NEW d, Submit(d)
  PROVE  /\ job' \in [Jobs -> JobRecord] /\ granted' = granted
         /\ \A j \in Jobs :
              IF DagOf[j] = d
              THEN /\ job[j].state = "absent" /\ job'[j].state \in {"ready", "pending"}
                   /\ job'[j].token = Null /\ job'[j].attempts = 0
              ELSE Rests(j)
<1>1. \A j \in Jobs : job[j] \in JobRecord
  BY DEF Records
<1> DEFINE n(j) == [Blank EXCEPT !.state = IF Parents(j) = {} THEN "ready" ELSE "pending"]
<1>2. \A j \in Jobs : /\ n(j) \in JobRecord /\ n(j).state \in {"ready", "pending"}
                      /\ n(j).token = Null /\ n(j).attempts = 0
  BY DEF JobRecord, JobState, Blank
<1>3. \A j \in Jobs : job'[j] = IF DagOf[j] # d THEN job[j] ELSE n(j)
  BY DEF Submit
<1>4. job' = [j \in Jobs |-> job'[j]]
  BY DEF Submit
<1> HIDE DEF n
<1>5. \A j \in Jobs : job'[j] \in JobRecord
  BY <1>1, <1>2, <1>3
<1>6. \A j \in Jobs : DagOf[j] = d => job[j].state = "absent"
  BY DEF Submit, JobsOf
<1> QED
  BY <1>2, <1>3, <1>4, <1>5, <1>6 DEF Submit, Rests

-----------------------------------------------------------------------------
\* Steps after which each worker is as before or idle

Idle == {Down, Polling, Asleep}

\* A token that was granted stays where it is or is cleared, with its deadline.
TokensStay ==
  \A j \in Jobs, k \in granted :
    job'[j].token = k => job[j].token = k /\ (left'[j] = left[j] \/ left'[j] = 0)

\* Workers are left alone, except that some become idle which hold no sound job
\* in time.
WorkersYield ==
  /\ worker' = [v \in Workers |-> worker'[v]]
  /\ \A v \in Workers :
       \/ worker'[v] = worker[v]
       \/ /\ worker'[v] \in Idle
          /\ ~disturbed' => \A j \in Jobs :
               Sound(j) /\ job'[j].state = "leased" => ~InTime(v, j)

\* The leases of sound jobs rest while nothing is disturbed.
SoundRest ==
  ~disturbed' => \A j \in Jobs :
    Sound(j) /\ job'[j].state = "leased" => job'[j] = job[j] /\ left'[j] = left[j]

LEMMA IdleRecord ==
  ASSUME NEW r \in Idle
  PROVE  /\ r \in WorkerRecord /\ r.busy = 0
         /\ r.pc \in {"down", "polling", "asleep"}
  BY DEF Idle, Down, Polling, Asleep, WorkerRecord

LEMMA YieldKeeps ==
  ASSUME FleetInv, TokensStay, WorkersYield, SoundRest,
         granted \subseteq granted', granted' \subseteq Tokens,
         job' \in [Jobs -> JobRecord], left' \in [Jobs -> Nat],
         disturbed' \in BOOLEAN, disturbed => disturbed'
  PROVE  TypeOK' /\ Records' /\ ReportsTrue' /\ LeaseRuns' /\ HeldInTime'
<1>1. TypeOK /\ Records /\ ReportsTrue /\ LeaseRuns /\ HeldInTime
  BY DEF FleetInv
<1>2. \A v \in Workers : worker[v] \in WorkerRecord /\ worker[v].busy \in Nat
  BY <1>1 DEF Records, WorkerRecord
<1>3. \A v \in Workers : worker'[v] \in WorkerRecord /\ worker'[v].busy \in Nat
  BY <1>2, IdleRecord DEF WorkersYield
<1>4. worker' \in [Workers -> WorkerRecord]
  BY <1>3 DEF WorkersYield
<1>5. Records'
  BY <1>4 DEF Records
<1>6. ASSUME NEW v \in Workers
      PROVE  \/ worker'[v] = worker[v]
             \/ worker'[v] \in Idle /\ worker'[v].pc \in {"down", "polling", "asleep"}
  BY IdleRecord DEF WorkersYield
<1>7. TypeOK'
  <2>1. DOMAIN worker' = Workers /\ DOMAIN job' = Jobs
    BY <1>4
  <2>2. ASSUME NEW v \in Workers
        PROVE  IF worker'[v].pc \in {"running", "completing", "failing"}
               THEN worker'[v].job \in Jobs /\ worker'[v].token \in granted'
               ELSE worker'[v] \in {Down, Polling, Asleep}
    BY <1>1, <1>6 DEF TypeOK, Idle
  <2> QED
    BY <1>3, <2>1, <2>2 DEF TypeOK
<1>8. ReportsTrue'
  BY <1>1, <1>6 DEF ReportsTrue
<1>9. LeaseRuns'
  <2> SUFFICES ASSUME NEW v \in Workers, Working(v)',
                      job'[worker'[v].job].token = worker'[v].token
               PROVE  \/ left'[worker'[v].job] = 0
                      \/ left'[worker'[v].job] + Duration(worker'[v].job)
                           <= LeaseTicks + worker'[v].busy
    BY DEF LeaseRuns, Duration
  <2>1. worker'[v] = worker[v]
    BY <1>6 DEF Working
  <2>2. worker[v].job \in Jobs /\ worker[v].token \in granted /\ Working(v)
    BY <1>1, <2>1 DEF TypeOK, Working
  <2>3. /\ job[worker[v].job].token = worker[v].token
        /\ left'[worker[v].job] = left[worker[v].job] \/ left'[worker[v].job] = 0
    BY <2>1, <2>2 DEF TokensStay
  <2> QED
    BY <1>1, <2>1, <2>2, <2>3 DEF LeaseRuns
<1>10. HeldInTime'
  <2> SUFFICES ASSUME ~disturbed', NEW j \in Jobs, Sound(j), job'[j].state = "leased"
               PROVE  \E v \in Workers : InTime(v, j)'
    BY DEF HeldInTime, Sound, Duration
  <2>1. job'[j] = job[j] /\ left'[j] = left[j]
    BY DEF SoundRest
  <2>2. PICK v \in Workers : InTime(v, j)
    BY <1>1, <2>1 DEF HeldInTime
  <2>3. worker'[v] = worker[v]
    BY <2>2 DEF WorkersYield
  <2>4. InTime(v, j)'
    BY <2>1, <2>2, <2>3 DEF InTime
  <2> QED
    BY <2>4
<1> QED
  BY <1>5, <1>7, <1>8, <1>9, <1>10

\* While nothing is disturbed no sound job is found with its lease at its end.
LEMMA SoundNotExpired ==
  ASSUME FleetInv, ~disturbed, NEW j \in Jobs, Sound(j), job[j].state = "leased"
  PROVE  left[j] > 0 /\ j \notin Expired
<1>1. PICK v \in Workers : InTime(v, j)
  BY DEF FleetInv, HeldInTime
<1>2. worker[v].busy \in Nat /\ left[j] \in Nat
  BY DEF FleetInv, TypeOK
<1> QED
  BY <1>1, <1>2 DEF InTime, Expired

\* A worker becomes idle, and nothing else happens.
LEMMA IdleKeeps ==
  ASSUME FleetInv, NEW w \in Workers, NEW n \in Idle,
         worker' = [worker EXCEPT ![w] = n], UNCHANGED <<job, granted, left>>,
         disturbed' \in BOOLEAN, disturbed => disturbed',
         ~disturbed' => \A j \in Jobs : Sound(j) => ~InTime(w, j)
  PROVE  FleetInv'
<1>1. TypeOK /\ Records /\ Unstarted /\ NoNeedlessRetry /\ OverlongNeverSucceeds
  BY DEF FleetInv
<1>2. TokensStay /\ SoundRest
  BY DEF TokensStay, SoundRest
<1>3. DOMAIN worker = Workers
  BY <1>1 DEF TypeOK
<1>4. WorkersYield
  BY <1>3 DEF WorkersYield
<1>5. TypeOK' /\ Records' /\ ReportsTrue' /\ LeaseRuns' /\ HeldInTime'
  BY <1>1, <1>2, <1>4, YieldKeeps DEF TypeOK, Records
<1>6. Unstarted' /\ NoNeedlessRetry' /\ OverlongNeverSucceeds'
  BY <1>1 DEF Unstarted, NoNeedlessRetry, OverlongNeverSucceeds, Sound, Duration
<1> QED
  BY <1>5, <1>6 DEF FleetInv

LEMMA StartKeeps == ASSUME FleetInv, NEW w \in Workers, Start(w) PROVE FleetInv'
<1>1. disturbed \in BOOLEAN
  BY DEF FleetInv, TypeOK
<1>2. \A j : ~InTime(w, j)
  BY DEF Start, InTime
<1> QED
  BY <1>1, <1>2, IdleKeeps DEF Start, Idle

LEMMA WakeKeeps == ASSUME FleetInv, NEW w \in Workers, Wake(w) PROVE FleetInv'
<1>1. disturbed \in BOOLEAN
  BY DEF FleetInv, TypeOK
<1>2. \A j : ~InTime(w, j)
  BY DEF Wake, InTime
<1> QED
  BY <1>1, <1>2, IdleKeeps DEF Wake, Idle

\* A worker that loses its lease had let its time run out, or was disturbed.
LEMMA LeaseConflictKeeps ==
  ASSUME FleetInv, NEW w \in Workers, LeaseConflict(w) PROVE FleetInv'
<1>1. disturbed \in BOOLEAN /\ worker[w].busy \in Nat /\ left \in [Jobs -> Nat]
  BY DEF FleetInv, TypeOK
<1>2. ASSUME NEW j \in Jobs, InTime(w, j) PROVE FALSE
  <2>1. HoldsLease(w)
    BY <1>1, <1>2 DEF InTime, HoldsLease
  <2> QED
    BY <2>1 DEF LeaseConflict
<1> QED
  BY <1>1, <1>2, IdleKeeps DEF LeaseConflict, Idle

LEMMA CrashKeeps == ASSUME FleetInv, NEW w \in Workers, Crash(w) PROVE FleetInv'
  BY IdleKeeps DEF Crash, Idle

-----------------------------------------------------------------------------
\* Steps of the life cycle

\* The delays after a lapse are natural numbers.
LEMMA DelaysType ==
  ASSUME FleetInv, NEW R
  PROVE  /\ Delays(R) \in [Jobs -> Nat]
         /\ \A j \in Jobs : j \notin R => Delays(R)[j] = left[j]
<1>1. \A j \in Jobs : job[j].attempts \in Nat /\ left[j] \in Nat
  BY DEF FleetInv, Records, TypeOK, JobRecord
<1>2. \A j \in Jobs : Backoff(job[j].attempts) \in Nat
  BY <1>1, BackoffType
<1> QED
  BY <1>1, <1>2 DEF Delays

\* Leases lapse, none of a sound job while nothing is disturbed.
LEMMA LapseKeeps ==
  ASSUME FleetInv, NEW R \in SUBSET Jobs, Lapse(R), left' = Delays(R),
         UNCHANGED disturbed, WorkersYield,
         ~disturbed => \A j \in R : ~Sound(j)
  PROVE  FleetInv'
<1>1. TypeOK /\ Records /\ Unstarted /\ NoNeedlessRetry /\ OverlongNeverSucceeds
  BY DEF FleetInv
<1>2. /\ job' \in [Jobs -> JobRecord] /\ granted' = granted
      /\ \A j \in R : job[j].state = "leased"
      /\ \A j \in Jobs : IF j \in R THEN Lapses(j) ELSE Rests(j)
  BY <1>1, LapseEffect
<1>3. left' \in [Jobs -> Nat] /\ \A j \in Jobs : j \notin R => left'[j] = left[j]
  BY DelaysType
<1>4. Null \notin granted
  BY <1>1, NullAssumption DEF TypeOK
<1>5. TokensStay
  BY <1>2, <1>3, <1>4 DEF TokensStay, Lapses, Rests
<1>6. SoundRest
  BY <1>2, <1>3 DEF SoundRest, Lapses, Rests
<1>7. TypeOK' /\ Records' /\ ReportsTrue' /\ LeaseRuns' /\ HeldInTime'
  BY <1>1, <1>2, <1>3, <1>5, <1>6, YieldKeeps DEF TypeOK
<1>8. Unstarted'
  BY <1>1, <1>2 DEF Unstarted, Lapses, Rests
<1>9. NoNeedlessRetry'
  <2> SUFFICES ASSUME ~disturbed, NEW j \in Jobs, Sound(j)
               PROVE  /\ job'[j].attempts <= 1
                      /\ job'[j].state \notin {"retry_wait", "dead_lettered"}
    BY DEF NoNeedlessRetry, Sound, Duration
  <2>1. Rests(j)
    BY <1>2
  <2> QED
    BY <1>1, <2>1 DEF Rests, NoNeedlessRetry
<1>10. OverlongNeverSucceeds'
  BY <1>1, <1>2 DEF OverlongNeverSucceeds, Lapses, Rests, Duration
<1> QED
  BY <1>7, <1>8, <1>9, <1>10 DEF FleetInv

\* No expired lease is that of a sound job, while nothing is disturbed.
LEMMA ExpiredUnsound ==
  ASSUME FleetInv
  PROVE  Expired \in SUBSET Jobs /\ (~disturbed => \A j \in Expired : ~Sound(j))
<1>1. Expired \in SUBSET Jobs
  BY DEF Expired
<1>2. ASSUME ~disturbed, NEW j \in Expired, Sound(j) PROVE FALSE
  <2>1. j \in Jobs /\ job[j].state = "leased"
    BY DEF Expired
  <2> QED
    BY <1>2, <2>1, SoundNotExpired
<1> QED
  BY <1>1, <1>2

LEMMA ReapKeeps == ASSUME FleetInv, Reap PROVE FleetInv'
<1>1. DOMAIN worker = Workers
  BY DEF FleetInv, TypeOK
<1>2. worker' = [v \in Workers |-> worker'[v]]
  BY <1>1 DEF Reap, FleetInv, Records
<1>3. WorkersYield
  BY <1>2 DEF WorkersYield, Reap
<1> QED
  BY <1>3, ExpiredUnsound, LapseKeeps DEF Reap

LEMMA ClaimNoneKeeps == ASSUME FleetInv, NEW w \in Workers, ClaimNone(w) PROVE FleetInv'
<1>1. worker \in [Workers -> WorkerRecord]
  BY DEF FleetInv, Records
<1>2. \A j : ~InTime(w, j)
  BY DEF ClaimNone, InTime
<1>3. WorkersYield
  BY <1>1, <1>2 DEF WorkersYield, ClaimNone, Idle
<1> QED
  BY <1>3, ExpiredUnsound, LapseKeeps DEF ClaimNone

\* A worker that reports a failure had an operation that fails.
LEMMA FailKeeps == ASSUME FleetInv, NEW w \in Workers, Fail(w) PROVE FleetInv'
<1> DEFINE j == worker[w].job
<1>1. worker \in [Workers -> WorkerRecord] /\ worker[w].pc = "failing" /\ j \in Jobs
  BY DEF FleetInv, Records, TypeOK, Fail
<1>2. ~ Sound(j)
  BY <1>1 DEF FleetInv, ReportsTrue, Sound
<1>3. \A k : ~InTime(w, k)
  BY <1>1 DEF InTime
<1>4. WorkersYield
  BY <1>1, <1>3 DEF WorkersYield, Fail, Idle
<1> QED
  BY <1>1, <1>2, <1>4, LapseKeeps DEF Fail

\* The lease with which a worker completes has not ended, so the operation took
\* less time than a lease lasts.
LEMMA CompleteKeeps == ASSUME FleetInv, NEW w \in Workers, Complete(w) PROVE FleetInv'
<1> DEFINE g == worker[w].job
           C == {c \in Children(g) : job[c].state = "pending"}
<1>1. /\ TypeOK /\ Records /\ Unstarted /\ NoNeedlessRetry /\ OverlongNeverSucceeds
      /\ LeaseRuns /\ ReportsTrue
  BY DEF FleetInv
<1>2. /\ worker[w].pc = "completing" /\ g \in Jobs /\ HoldsLease(w)
      /\ Succeed(g, C) /\ left' = [left EXCEPT ![g] = 0]
      /\ worker' = [worker EXCEPT ![w] = Polling] /\ UNCHANGED disturbed
  BY <1>1 DEF Complete, TypeOK
<1> HIDE DEF C
<1>3. /\ job' \in [Jobs -> JobRecord] /\ granted' = granted
      /\ job'[g].state = "succeeded" /\ job'[g].token = Null
      /\ job'[g].attempts = job[g].attempts
      /\ \A j \in Jobs \ {g} : IF j \in C THEN Readied(j) ELSE Rests(j)
  BY <1>1, <1>2, SucceedEffect
<1>4. left' \in [Jobs -> Nat] /\ \A j \in Jobs \ {g} : left'[j] = left[j]
  BY <1>1, <1>2 DEF TypeOK
<1>5. Null \notin granted
  BY <1>1, NullAssumption DEF TypeOK
<1>6. TokensStay
  BY <1>3, <1>4, <1>5 DEF TokensStay, Readied, Rests
<1>7. SoundRest
  BY <1>3, <1>4 DEF SoundRest, Readied, Rests
<1>8. WorkersYield
  <2>1. worker \in [Workers -> WorkerRecord]
    BY <1>1 DEF Records
  <2>2. \A j \in Jobs : job'[j].state = "leased" => ~InTime(w, j)
    BY <1>3 DEF InTime
  <2> QED
    BY <1>2, <2>1, <2>2 DEF WorkersYield, Idle
<1>9. TypeOK' /\ Records' /\ ReportsTrue' /\ LeaseRuns' /\ HeldInTime'
  BY <1>1, <1>2, <1>3, <1>4, <1>6, <1>7, <1>8, YieldKeeps DEF TypeOK
<1>10. Unstarted'
  BY <1>1, <1>3 DEF Unstarted, Readied, Rests
<1>11. NoNeedlessRetry'
  <2> SUFFICES ASSUME ~disturbed, NEW j \in Jobs, Sound(j)
               PROVE  /\ job'[j].attempts <= 1
                      /\ job'[j].state \notin {"retry_wait", "dead_lettered"}
    BY <1>2 DEF NoNeedlessRetry, Sound, Duration
  <2>1. job[j].attempts <= 1 /\ job[j].state \notin {"retry_wait", "dead_lettered"}
    BY <1>1 DEF NoNeedlessRetry
  <2> QED
    BY <1>3, <2>1 DEF Readied, Rests
<1>12. Duration(g) < LeaseTicks
  <2>1. worker[w].busy = 0 /\ left[g] > 0 /\ job[g].token = worker[w].token
    BY <1>1, <1>2 DEF ReportsTrue, HoldsLease
  <2>2. left[g] + Duration(g) <= LeaseTicks
    BY <1>1, <1>2, <2>1, WorkersAssumption DEF LeaseRuns, Working, TypeOK
  <2> QED
    BY <1>1, <1>2, <2>1, <2>2, DurationType, WorkersAssumption DEF TypeOK
<1>13. OverlongNeverSucceeds'
  <2> SUFFICES ASSUME NEW j \in Jobs, Duration(j) >= LeaseTicks
               PROVE  job'[j].state # "succeeded"
    BY DEF OverlongNeverSucceeds, Duration
  <2>1. j # g
    BY <1>12, DurationType, WorkersAssumption
  <2> QED
    BY <1>1, <1>3, <2>1 DEF OverlongNeverSucceeds, Readied, Rests
<1> QED
  BY <1>9, <1>10, <1>11, <1>13 DEF FleetInv

LEMMA SubmitKeeps == ASSUME FleetInv, NEW d \in Dags, SubmitDag(d) PROVE FleetInv'
<1>1. TypeOK /\ Records /\ Unstarted /\ NoNeedlessRetry /\ OverlongNeverSucceeds
  BY DEF FleetInv
<1>2. Submit(d) /\ UNCHANGED <<left, worker, disturbed>>
  BY DEF SubmitDag
<1>3. /\ job' \in [Jobs -> JobRecord] /\ granted' = granted
      /\ \A j \in Jobs :
           IF DagOf[j] = d
           THEN /\ job[j].state = "absent" /\ job'[j].state \in {"ready", "pending"}
                /\ job'[j].token = Null /\ job'[j].attempts = 0
           ELSE Rests(j)
  BY <1>1, <1>2, SubmitEffect
<1>4. Null \notin granted
  BY <1>1, NullAssumption DEF TypeOK
<1>5. TokensStay /\ SoundRest
  BY <1>2, <1>3, <1>4 DEF TokensStay, SoundRest, Rests
<1>6. WorkersYield
  BY <1>1, <1>2 DEF WorkersYield, Records
<1>7. TypeOK' /\ Records' /\ ReportsTrue' /\ LeaseRuns' /\ HeldInTime'
  BY <1>1, <1>2, <1>3, <1>5, <1>6, YieldKeeps DEF TypeOK
<1>8. Unstarted'
  BY <1>1, <1>3 DEF Unstarted, Rests
<1>9. NoNeedlessRetry'
  BY <1>1, <1>2, <1>3 DEF NoNeedlessRetry, Rests, Sound, Duration
<1>10. OverlongNeverSucceeds'
  BY <1>1, <1>3 DEF OverlongNeverSucceeds, Rests, Duration
<1> QED
  BY <1>7, <1>8, <1>9, <1>10 DEF FleetInv

LEMMA CancelKeeps == ASSUME FleetInv, NEW d \in Dags, CancelDag(d) PROVE FleetInv'
<1>1. TypeOK /\ Records /\ Unstarted /\ NoNeedlessRetry /\ OverlongNeverSucceeds
  BY DEF FleetInv
<1>2. /\ Cancel(d) /\ UNCHANGED <<worker, disturbed>>
      /\ left' = [j \in Jobs |-> IF DagOf[j] = d THEN 0 ELSE left[j]]
  BY DEF CancelDag
<1>3. /\ job' \in [Jobs -> JobRecord] /\ granted' = granted
      /\ \A j \in Jobs :
           IF DagOf[j] = d /\ job[j].state \notin Terminal
           THEN /\ job'[j].state = "cancelled" /\ job'[j].token = Null
                /\ job'[j].attempts = job[j].attempts
           ELSE Rests(j)
  BY <1>1, <1>2, CancelEffect
<1>4. Null \notin granted
  BY <1>1, NullAssumption DEF TypeOK
<1>5. left' \in [Jobs -> Nat]
  BY <1>1, <1>2 DEF TypeOK
<1>6. TokensStay
  BY <1>2, <1>3, <1>4 DEF TokensStay, Rests
<1>7. SoundRest
  BY <1>2, <1>3 DEF SoundRest, Rests, Terminal
<1>8. WorkersYield
  BY <1>1, <1>2 DEF WorkersYield, Records
<1>9. TypeOK' /\ Records' /\ ReportsTrue' /\ LeaseRuns' /\ HeldInTime'
  BY <1>1, <1>2, <1>3, <1>5, <1>6, <1>7, <1>8, YieldKeeps DEF TypeOK
<1>10. Unstarted'
  BY <1>1, <1>3 DEF Unstarted, Rests
<1>11. NoNeedlessRetry'
  BY <1>1, <1>2, <1>3 DEF NoNeedlessRetry, Rests, Sound, Duration
<1>12. OverlongNeverSucceeds'
  BY <1>1, <1>3 DEF OverlongNeverSucceeds, Rests, Duration
<1> QED
  BY <1>9, <1>10, <1>11, <1>12 DEF FleetInv

-----------------------------------------------------------------------------
\* A worker takes up a job, time passes, the operation ends

LEMMA ClaimJobKeeps == ASSUME FleetInv, NEW w \in Workers, ClaimJob(w) PROVE FleetInv'
<1>1. /\ TypeOK /\ Records /\ Unstarted /\ NoNeedlessRetry /\ OverlongNeverSucceeds
      /\ LeaseRuns /\ ReportsTrue /\ HeldInTime
  BY DEF FleetInv
<1>2. worker[w].pc = "polling" /\ UNCHANGED disturbed
  BY DEF ClaimJob
<1>3. PICK g \in Jobs, t \in Tokens :
        /\ Grant(g, t, Expired)
        /\ left' = [Delays(Expired) EXCEPT ![g] = LeaseTicks]
        /\ worker' = [worker EXCEPT ![w] = [pc |-> "running", job |-> g, token |-> t,
                                            busy |-> Duration(g)]]
  BY DEF ClaimJob
<1>4. /\ job' \in [Jobs -> JobRecord] /\ granted' = granted \cup {t} /\ t \notin granted
      /\ job[g].state \in Waiting
      /\ job'[g].state = "leased" /\ job'[g].token = t
      /\ job'[g].attempts = job[g].attempts + 1
      /\ \A j \in Expired : job[j].state = "leased"
      /\ \A j \in Jobs \ {g} : IF j \in Expired THEN Lapses(j) ELSE Rests(j)
  BY <1>1, <1>3, GrantEffect
<1>5. /\ Delays(Expired) \in [Jobs -> Nat]
      /\ \A j \in Jobs : j \notin Expired => Delays(Expired)[j] = left[j]
  BY DelaysType
<1>6. /\ left' \in [Jobs -> Nat] /\ left'[g] = LeaseTicks
      /\ \A j \in Jobs \ {g} : j \notin Expired => left'[j] = left[j]
  BY <1>3, <1>5, WorkersAssumption
<1>7. Duration(g) \in Nat /\ LeaseTicks \in Nat \ {0}
  BY DurationType, WorkersAssumption
<1>8. /\ worker' \in [Workers -> WorkerRecord]
      /\ worker'[w].pc = "running" /\ worker'[w].job = g /\ worker'[w].token = t
      /\ worker'[w].busy = Duration(g)
      /\ \A v \in Workers \ {w} : worker'[v] = worker[v]
  BY <1>1, <1>3, <1>7 DEF Records, WorkerRecord
<1>9. Records'
  BY <1>4, <1>8 DEF Records
<1>10. TypeOK'
  <2>1. DOMAIN worker' = Workers /\ DOMAIN job' = Jobs /\ granted' \subseteq Tokens
    BY <1>1, <1>4, <1>8 DEF TypeOK
  <2>2. ASSUME NEW v \in Workers
        PROVE  /\ worker'[v].busy \in Nat
               /\ IF worker'[v].pc \in {"running", "completing", "failing"}
                  THEN worker'[v].job \in Jobs /\ worker'[v].token \in granted'
                  ELSE worker'[v] \in {Down, Polling, Asleep}
    <3>1. CASE v = w
      BY <1>4, <1>7, <1>8, <3>1
    <3>2. CASE v # w
      BY <1>1, <1>4, <1>8, <3>2 DEF TypeOK
    <3> QED
      BY <3>1, <3>2
  <2> QED
    BY <1>1, <1>2, <1>6, <2>1, <2>2 DEF TypeOK
<1>11. ReportsTrue'
  BY <1>1, <1>8 DEF ReportsTrue
<1>12. LeaseRuns'
  <2> SUFFICES ASSUME NEW v \in Workers, Working(v)',
                      job'[worker'[v].job].token = worker'[v].token
               PROVE  \/ left'[worker'[v].job] = 0
                      \/ left'[worker'[v].job] + Duration(worker'[v].job)
                           <= LeaseTicks + worker'[v].busy
    BY DEF LeaseRuns, Duration
  <2>1. CASE v = w
    BY <1>6, <1>7, <1>8, <2>1
  <2>2. CASE v # w
    <3>1. worker'[v] = worker[v]
      BY <1>8, <2>2
    <3>2. worker[v].job \in Jobs /\ worker[v].token \in granted /\ Working(v)
      BY <1>1, <3>1 DEF TypeOK, Working
    <3>3. Null \notin granted
      BY <1>1, NullAssumption DEF TypeOK
    <3>4. worker[v].job # g /\ worker[v].job \notin Expired
      BY <1>4, <3>1, <3>2, <3>3 DEF Lapses
    <3>5. /\ job[worker[v].job].token = worker[v].token
          /\ left'[worker[v].job] = left[worker[v].job]
      BY <1>4, <1>6, <3>1, <3>2, <3>4 DEF Rests
    <3> QED
      BY <1>1, <3>1, <3>2, <3>5 DEF LeaseRuns
  <2> QED
    BY <2>1, <2>2
<1>13. Unstarted'
  BY <1>1, <1>4 DEF Unstarted, Lapses, Rests
<1>14. ASSUME ~disturbed, NEW j \in Jobs, Sound(j), j # g PROVE Rests(j)
  BY <1>4, <1>14, ExpiredUnsound
<1>15. HeldInTime'
  <2> SUFFICES ASSUME ~disturbed, NEW j \in Jobs, Sound(j), job'[j].state = "leased"
               PROVE  \E v \in Workers : InTime(v, j)'
    BY <1>2 DEF HeldInTime, Sound, Duration
  <2>1. CASE j = g
    <3>1. left'[g] > worker'[w].busy
      BY <1>6, <1>7, <1>8, <2>1 DEF Sound
    <3>2. InTime(w, j)'
      BY <1>4, <1>8, <2>1, <3>1 DEF InTime
    <3> QED
      BY <3>2
  <2>2. CASE j # g
    <3>1. job'[j] = job[j]
      BY <1>14, <2>2 DEF Rests
    <3>2. PICK v \in Workers : InTime(v, j)
      BY <1>1, <3>1 DEF HeldInTime
    <3>3. j \notin Expired
      BY <3>1, SoundNotExpired
    <3>4. left'[j] = left[j]
      BY <1>6, <2>2, <3>3
    <3>5. v # w
      BY <1>2, <3>2 DEF InTime
    <3>6. InTime(v, j)'
      BY <1>8, <3>1, <3>2, <3>4, <3>5 DEF InTime
    <3> QED
      BY <3>6
  <2> QED
    BY <2>1, <2>2
<1>16. NoNeedlessRetry'
  <2> SUFFICES ASSUME ~disturbed, NEW j \in Jobs, Sound(j)
               PROVE  /\ job'[j].attempts <= 1
                      /\ job'[j].state \notin {"retry_wait", "dead_lettered"}
    BY <1>2 DEF NoNeedlessRetry, Sound, Duration
  <2>1. job[j].attempts <= 1 /\ job[j].state \notin {"retry_wait", "dead_lettered"}
    BY <1>1 DEF NoNeedlessRetry
  <2>2. CASE j = g
    <3>1. job[g].attempts = 0
      BY <1>1, <1>4, <2>1, <2>2 DEF Waiting, Unstarted
    <3> QED
      BY <1>4, <2>2, <3>1
  <2>3. CASE j # g
    BY <1>14, <2>1, <2>3 DEF Rests
  <2> QED
    BY <2>2, <2>3
<1>17. OverlongNeverSucceeds'
  BY <1>1, <1>4 DEF OverlongNeverSucceeds, Lapses, Rests, Duration
<1> QED
  BY <1>9, <1>10, <1>11, <1>12, <1>13, <1>15, <1>16, <1>17 DEF FleetInv

LEMMA FinishKeeps == ASSUME FleetInv, NEW w \in Workers, Finish(w) PROVE FleetInv'
<1>1. /\ TypeOK /\ Records /\ Unstarted /\ NoNeedlessRetry /\ OverlongNeverSucceeds
      /\ LeaseRuns /\ ReportsTrue /\ HeldInTime
  BY DEF FleetInv
<1> DEFINE j == worker[w].job
           p == IF execute(KindOf[j], PayloadOf[j]) = "ok" THEN "completing" ELSE "failing"
<1>2. /\ worker[w].pc = "running" /\ worker[w].busy = 0
      /\ worker' = [worker EXCEPT ![w].pc = p]
      /\ UNCHANGED <<job, granted, left, disturbed>>
  BY DEF Finish
<1>3. p \in {"completing", "failing"} /\ (p = "failing" => execute(KindOf[j], PayloadOf[j]) # "ok")
      /\ (Sound(j) => p = "completing")
  BY DEF Sound
<1> HIDE DEF p
<1>4. /\ worker' \in [Workers -> WorkerRecord]
      /\ worker'[w].pc = p /\ worker'[w].job = j /\ worker'[w].token = worker[w].token
      /\ worker'[w].busy = 0
      /\ \A v \in Workers \ {w} : worker'[v] = worker[v]
  BY <1>1, <1>2, <1>3 DEF Records, WorkerRecord
<1>5. Records'
  BY <1>1, <1>2, <1>4 DEF Records
<1>6. \A v \in Workers : /\ worker'[v].job = worker[v].job /\ worker'[v].token = worker[v].token
                         /\ worker'[v].busy = worker[v].busy
                         /\ Working(v)' <=> Working(v)
  BY <1>2, <1>3, <1>4 DEF Working
<1>7. TypeOK'
  <2>1. ASSUME NEW v \in Workers
        PROVE  /\ worker'[v].busy \in Nat
               /\ IF worker'[v].pc \in {"running", "completing", "failing"}
                  THEN worker'[v].job \in Jobs /\ worker'[v].token \in granted'
                  ELSE worker'[v] \in {Down, Polling, Asleep}
    <3>1. CASE v = w
      BY <1>1, <1>2, <1>3, <1>4, <3>1 DEF TypeOK
    <3>2. CASE v # w
      BY <1>1, <1>2, <1>4, <3>2 DEF TypeOK
    <3> QED
      BY <3>1, <3>2
  <2> QED
    BY <1>1, <1>2, <1>4, <2>1 DEF TypeOK
<1>8. ReportsTrue'
  BY <1>1, <1>2, <1>3, <1>4 DEF ReportsTrue
<1>9. LeaseRuns'
  <2> SUFFICES ASSUME NEW v \in Workers, Working(v)',
                      job'[worker'[v].job].token = worker'[v].token
               PROVE  \/ left'[worker'[v].job] = 0
                      \/ left'[worker'[v].job] + Duration(worker'[v].job)
                           <= LeaseTicks + worker'[v].busy
    BY DEF LeaseRuns, Duration
  <2> QED
    BY <1>1, <1>2, <1>6 DEF LeaseRuns
<1>10. HeldInTime'
  <2> SUFFICES ASSUME ~disturbed, NEW k \in Jobs, Sound(k), job[k].state = "leased"
               PROVE  \E v \in Workers : InTime(v, k)'
    BY <1>2 DEF HeldInTime, Sound, Duration
  <2>1. PICK v \in Workers : InTime(v, k)
    BY <1>1 DEF HeldInTime
  <2>2. CASE v = w
    <3>1. worker'[w].pc = "completing"
      BY <1>3, <1>4, <2>1, <2>2 DEF InTime
    <3>2. InTime(v, k)'
      BY <1>2, <1>6, <2>1, <2>2, <3>1 DEF InTime
    <3> QED
      BY <3>2
  <2>3. CASE v # w
    <3>1. InTime(v, k)'
      BY <1>2, <1>4, <2>1, <2>3 DEF InTime
    <3> QED
      BY <3>1
  <2> QED
    BY <2>2, <2>3
<1>11. Unstarted' /\ NoNeedlessRetry' /\ OverlongNeverSucceeds'
  BY <1>1, <1>2 DEF Unstarted, NoNeedlessRetry, OverlongNeverSucceeds, Sound, Duration
<1> QED
  BY <1>5, <1>7, <1>8, <1>9, <1>10, <1>11 DEF FleetInv

\* Time runs for a lease and for the operation of its holder alike.
LEMMA TickKeeps == ASSUME FleetInv, Tick PROVE FleetInv'
<1>1. /\ TypeOK /\ Records /\ Unstarted /\ NoNeedlessRetry /\ OverlongNeverSucceeds
      /\ LeaseRuns /\ ReportsTrue /\ HeldInTime
  BY DEF FleetInv
<1>2. /\ UNCHANGED <<job, granted>>
      /\ disturbed' = (disturbed \/ \E w \in Workers : Due(w))
      /\ worker' = [w \in Workers |-> [worker[w] EXCEPT !.busy = Greatest(0, @ - 1)]]
  BY DEF Tick
<1>3. /\ left' \in [Jobs -> Nat]
      /\ \A j \in Jobs : left'[j] = IF left[j] = 0 THEN 0 ELSE left[j] - 1
  BY <1>1 DEF Tick, TypeOK, Greatest
<1>4. \A v \in Workers : worker[v] \in WorkerRecord /\ worker[v].busy \in Nat
  BY <1>1 DEF Records, WorkerRecord
<1>5. ASSUME NEW v \in Workers
      PROVE  /\ worker'[v] \in WorkerRecord
             /\ worker'[v].pc = worker[v].pc /\ worker'[v].job = worker[v].job
             /\ worker'[v].token = worker[v].token
             /\ worker'[v].busy = IF worker[v].busy = 0 THEN 0 ELSE worker[v].busy - 1
             /\ worker[v].busy = 0 => worker'[v] = worker[v]
  <2> DEFINE b == Greatest(0, worker[v].busy - 1)
  <2>1. worker'[v] = [worker[v] EXCEPT !.busy = b]
    BY <1>2
  <2>2. b \in Nat /\ b = IF worker[v].busy = 0 THEN 0 ELSE worker[v].busy - 1
    BY <1>4 DEF Greatest
  <2> HIDE DEF b
  <2> QED
    BY <1>4, <2>1, <2>2 DEF WorkerRecord
<1>6. worker' \in [Workers -> WorkerRecord]
  BY <1>2, <1>5
<1>7. Records'
  BY <1>1, <1>2, <1>6 DEF Records
<1>8. TypeOK'
  <2>1. ASSUME NEW v \in Workers
        PROVE  /\ worker'[v].busy \in Nat
               /\ IF worker'[v].pc \in {"running", "completing", "failing"}
                  THEN worker'[v].job \in Jobs /\ worker'[v].token \in granted'
                  ELSE worker'[v] \in {Down, Polling, Asleep}
    <3>1. worker[v] \in {Down, Polling, Asleep} => worker[v].busy = 0
      BY DEF Down, Polling, Asleep
    <3>2. worker'[v].busy \in Nat
      BY <1>4, <1>5
    <3>3. CASE worker[v].pc \in {"running", "completing", "failing"}
      BY <1>1, <1>2, <1>5, <3>2, <3>3 DEF TypeOK
    <3>4. CASE worker[v].pc \notin {"running", "completing", "failing"}
      <4>1. worker[v] \in {Down, Polling, Asleep}
        BY <1>1, <3>4 DEF TypeOK
      <4>2. worker'[v] = worker[v]
        BY <1>5, <3>1, <4>1
      <4> QED
        BY <3>2, <3>4, <4>1, <4>2
    <3> QED
      BY <3>3, <3>4
  <2> QED
    BY <1>1, <1>2, <1>3, <1>6, <2>1 DEF TypeOK
<1>9. ReportsTrue'
  BY <1>1, <1>5 DEF ReportsTrue
<1>10. LeaseRuns'
  <2> SUFFICES ASSUME NEW v \in Workers, Working(v)',
                      job'[worker'[v].job].token = worker'[v].token
               PROVE  \/ left'[worker'[v].job] = 0
                      \/ left'[worker'[v].job] + Duration(worker'[v].job)
                           <= LeaseTicks + worker'[v].busy
    BY DEF LeaseRuns, Duration
  <2>1. Working(v) /\ worker[v].job \in Jobs
        /\ job[worker[v].job].token = worker[v].token
    BY <1>1, <1>2, <1>5 DEF Working, TypeOK
  <2>2. \/ left[worker[v].job] = 0
        \/ left[worker[v].job] + Duration(worker[v].job) <= LeaseTicks + worker[v].busy
    BY <1>1, <2>1 DEF LeaseRuns
  <2>3. Duration(worker[v].job) \in Nat /\ LeaseTicks \in Nat /\ left[worker[v].job] \in Nat
    BY <1>1, <2>1, DurationType, WorkersAssumption DEF TypeOK
  <2>4. worker'[v].job = worker[v].job
    BY <1>5
  <2> QED
    BY <1>3, <1>4, <1>5, <2>1, <2>2, <2>3, <2>4
<1>11. HeldInTime'
  <2> SUFFICES ASSUME ~disturbed', NEW k \in Jobs, Sound(k), job[k].state = "leased"
               PROVE  \E v \in Workers : InTime(v, k)'
    BY <1>2 DEF HeldInTime, Sound, Duration
  <2>1. ~disturbed /\ \A v \in Workers : ~Due(v)
    BY <1>2
  <2>2. PICK v \in Workers : InTime(v, k)
    BY <1>1, <2>1 DEF HeldInTime
  <2>3. worker[v].busy # 0
    BY <2>1, <2>2 DEF Due, InTime
  <2>4. left[k] \in Nat
    BY <1>1 DEF TypeOK
  <2>5. left'[k] > worker'[v].busy
    BY <1>3, <1>4, <1>5, <2>2, <2>3, <2>4 DEF InTime
  <2>6. InTime(v, k)'
    BY <1>2, <1>5, <2>2, <2>5 DEF InTime
  <2> QED
    BY <2>6
<1>12. Unstarted' /\ NoNeedlessRetry' /\ OverlongNeverSucceeds'
  BY <1>1, <1>2 DEF Unstarted, NoNeedlessRetry, OverlongNeverSucceeds, Sound, Duration
<1> QED
  BY <1>7, <1>8, <1>9, <1>10, <1>11, <1>12 DEF FleetInv

-----------------------------------------------------------------------------
\* The theorems

LEMMA FleetStarts == ASSUME FleetInit PROVE FleetInv
<1>1. /\ job = [j \in Jobs |-> Blank] /\ granted = {} /\ left = [j \in Jobs |-> 0]
      /\ worker = [w \in Workers |-> Down] /\ disturbed = FALSE
  BY DEF FleetInit, Init
<1>2. Blank \in JobRecord /\ Blank.state = "absent" /\ Blank.attempts = 0
  BY DEF Blank, JobRecord, JobState
<1>3. Down \in WorkerRecord /\ Down.pc = "down" /\ Down.busy = 0
  BY DEF Down, WorkerRecord
<1>4. TypeOK
  <2>1. \A w \in Workers : worker[w] = Down
    BY <1>1
  <2>2. /\ DOMAIN job = Jobs /\ DOMAIN worker = Workers /\ granted \subseteq Tokens
        /\ left \in [Jobs -> Nat]
    BY <1>1
  <2>3. disturbed \in BOOLEAN
    BY <1>1
  <2> QED
    BY <1>3, <2>1, <2>2, <2>3 DEF TypeOK
<1>7. Records
  BY <1>1, <1>2, <1>3 DEF Records
<1>5. ReportsTrue /\ LeaseRuns /\ Unstarted /\ HeldInTime
  BY <1>1, <1>2, <1>3 DEF ReportsTrue, LeaseRuns, Working, Unstarted, HeldInTime
<1>6. NoNeedlessRetry /\ OverlongNeverSucceeds
  BY <1>1, <1>2 DEF NoNeedlessRetry, OverlongNeverSucceeds
<1> QED
  BY <1>4, <1>5, <1>6, <1>7 DEF FleetInv

LEMMA FleetKeeps == ASSUME FleetInv, [FleetNext]_fleetVars PROVE FleetInv'
<1>1. CASE UNCHANGED fleetVars
  <2> USE <1>1 DEF fleetVars
  <2>1. TypeOK' /\ Records' /\ ReportsTrue' /\ LeaseRuns' /\ Unstarted'
    BY DEF FleetInv, TypeOK, Records, ReportsTrue, LeaseRuns, Working, Unstarted, Duration
  <2>2. HeldInTime' /\ NoNeedlessRetry' /\ OverlongNeverSucceeds'
    BY DEF FleetInv, HeldInTime, InTime, NoNeedlessRetry, OverlongNeverSucceeds, Sound,
           Duration
  <2> QED
    BY <2>1, <2>2 DEF FleetInv
<1>2. CASE FleetNext
  <2>1. CASE \E d \in Dags : SubmitDag(d) \/ CancelDag(d)
    BY <2>1, SubmitKeeps, CancelKeeps
  <2>2. CASE \E w \in Workers :
               \/ Start(w) \/ ClaimJob(w) \/ ClaimNone(w) \/ Wake(w)
               \/ Finish(w) \/ Report(w) \/ Crash(w)
    BY <2>2, StartKeeps, ClaimJobKeeps, ClaimNoneKeeps, WakeKeeps, FinishKeeps,
       CompleteKeeps, FailKeeps, LeaseConflictKeeps, CrashKeeps
       DEF Report
  <2> QED
    BY <1>2, <2>1, <2>2, TickKeeps, ReapKeeps DEF FleetNext
<1> QED
  BY <1>1, <1>2

\* FleetInv holds in every behaviour of the fleet, whatever the workers, jobs,
\* durations and lease, and however workers crash.
THEOREM FleetInvHolds == FleetSpec => []FleetInv
<1>1. FleetInit => FleetInv
  BY FleetStarts
<1>2. FleetInv /\ [FleetNext]_fleetVars => FleetInv'
  BY FleetKeeps
<1> QED
  BY <1>1, <1>2, PTL DEF FleetSpec

\* A worker has a claim, under a token that was granted, exactly while it works.
THEOREM FleetTypes == FleetSpec => []TypeOK
<1>1. FleetInv => TypeOK
  BY DEF FleetInv
<1> QED
  BY <1>1, FleetInvHolds, PTL

\* As long as no worker dies or is late, a job that fits into its lease is
\* executed once: neither a claim's reaping nor a report sends it back.
THEOREM RetriesNeeded == FleetSpec => []NoNeedlessRetry
<1>1. FleetInv => NoNeedlessRetry
  BY DEF FleetInv
<1> QED
  BY <1>1, FleetInvHolds, PTL

\* An operation that takes as long as the lease, which no worker ever renews,
\* never succeeds.
THEOREM OverlongFails == FleetSpec => []OverlongNeverSucceeds
<1>1. FleetInv => OverlongNeverSucceeds
  BY DEF FleetInv
<1> QED
  BY <1>1, FleetInvHolds, PTL
=============================================================================
