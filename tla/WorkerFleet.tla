---------------------------- MODULE WorkerFleet ----------------------------
(***************************************************************************)
(* The worker processes, their supervisor and the clock, on top of the     *)
(* abstract job life cycle that the store implements: a call of the store  *)
(* is one step here.  A worker claims a job, executes it, reports the      *)
(* outcome and starts again; any error of a call, a lost lease included,   *)
(* ends the process.  It never sends a heartbeat.                          *)
(*                                                                         *)
(* Time is measured by what is left of it: left[j] of the lease or of the  *)
(* retry delay of j, and busy of the operation that a worker executes.     *)
(***************************************************************************)
EXTENDS Lifecycle, JobKinds

CONSTANTS
  Workers,    \* worker processes
  KindOf,     \* KindOf[j], PayloadOf[j]: the operation that j stands for
  PayloadOf,
  LeaseTicks  \* LEASE_MS

ASSUME WorkersAssumption ==
  /\ KindOf \in [Jobs -> JobKind]
  /\ PayloadOf \in [Jobs -> Payload]
  /\ LeaseTicks \in Nat \ {0}

\* Submission has validated the payloads.
ASSUME AdmittedAssumption ==
  \A j \in Jobs : validate_payload(KindOf[j], PayloadOf[j]) = "ok"

\* A child of several parents may be stranded by the store (see the run
\* StoreStranded); here each job has one parent at most.
ASSUME ForestAssumption == \A j \in Jobs : Cardinality(Parents(j)) <= 1

VARIABLES
  left,      \* by job: time until its lease or its retry delay ends
  worker,    \* by worker: step of the loop, claim, time to execute
  disturbed  \* history: a worker died, or was late to do its next step

fleetVars == <<job, granted, left, worker, disturbed>>

Down == [pc |-> "down", job |-> Null, token |-> Null, busy |-> 0]
Polling == [Down EXCEPT !.pc = "polling"]
Asleep == [Down EXCEPT !.pc = "asleep"]

Duration(j) == IF KindOf[j] = "delay" THEN PayloadOf[j].number ELSE 0

-----------------------------------------------------------------------------
\* Mutant: nobody reaps.
NeverExpired == {}

\* Mutant: off by one.
ExpiredEarly == {j \in Jobs : job[j].state = "leased" /\ left[j] <= 1}

\* Leases that a call of claim or reap finds at or past their end.
Expired == {j \in Jobs : job[j].state = "leased" /\ left[j] = 0}

\* left after the leases in R have lapsed.
Delays(R) ==
  [j \in Jobs |-> IF j \notin R THEN left[j]
                  ELSE IF job[j].attempts >= MaxAttempts[j] THEN 0
                  ELSE Backoff(job[j].attempts)]

\* The process starts, connects and finds the schema migrated.
Start(w) ==
  /\ worker[w].pc = "down"
  /\ worker' = [worker EXCEPT ![w] = Polling]
  /\ UNCHANGED <<job, granted, left, disturbed>>

\* claim returns a job whose delay is over: any of them, since those before it
\* may be locked by other transactions.
ClaimJob(w) ==
  /\ worker[w].pc = "polling"
  /\ \E g \in Jobs, t \in Tokens :
       /\ left[g] = 0
       /\ Grant(g, t, Expired)
       /\ t = CHOOSE u \in Tokens : u \notin granted
       /\ left' = [Delays(Expired) EXCEPT ![g] = LeaseTicks]
       /\ worker' = [worker EXCEPT ![w] = [pc |-> "running", job |-> g, token |-> t,
                                           busy |-> Duration(g)]]
  /\ UNCHANGED disturbed

\* claim returns None: nothing to claim, or all of it locked by others.
ClaimNone(w) ==
  /\ worker[w].pc = "polling"
  /\ Lapse(Expired)
  /\ left' = Delays(Expired)
  /\ worker' = [worker EXCEPT ![w] = Asleep]
  /\ UNCHANGED disturbed

\* The poll interval is over.
Wake(w) ==
  /\ worker[w].pc = "asleep"
  /\ worker' = [worker EXCEPT ![w] = Polling]
  /\ UNCHANGED <<job, granted, left, disturbed>>

\* execute returns.
Finish(w) ==
  /\ worker[w].pc = "running" /\ worker[w].busy = 0
  /\ LET j == worker[w].job
         outcome == execute(KindOf[j], PayloadOf[j])
     IN worker' = [worker EXCEPT ![w].pc =
                     IF outcome = "ok" THEN "completing" ELSE "failing"]
  /\ UNCHANGED <<job, granted, left, disturbed>>

\* Mutant: the deadline is not compared.
HoldsToken(w) == job[worker[w].job].token = worker[w].token

\* The compare-and-set of complete and fail finds the worker's lease.
HoldsLease(w) ==
  /\ job[worker[w].job].token = worker[w].token
  /\ left[worker[w].job] > 0

Complete(w) ==
  /\ worker[w].pc = "completing" /\ HoldsLease(w)
  /\ LET j == worker[w].job
     IN /\ Succeed(j, {c \in Children(j) : job[c].state = "pending"})
        /\ left' = [left EXCEPT ![j] = 0]
  /\ worker' = [worker EXCEPT ![w] = Polling]
  /\ UNCHANGED disturbed

Fail(w) ==
  /\ worker[w].pc = "failing" /\ HoldsLease(w)
  /\ Lapse({worker[w].job})
  /\ left' = Delays({worker[w].job})
  /\ worker' = [worker EXCEPT ![w] = Polling]
  /\ UNCHANGED disturbed

\* Mutant: the loop goes on with the claim that was lost.
LeaseConflictKeepsClaim(w) ==
  /\ worker[w].pc \in {"completing", "failing"} /\ ~HoldsLease(w)
  /\ worker' = [worker EXCEPT ![w].pc = "polling"]
  /\ UNCHANGED <<job, granted, left, disturbed>>

\* The lease is lost: the error ends the process.
LeaseConflict(w) ==
  /\ worker[w].pc \in {"completing", "failing"} /\ ~HoldsLease(w)
  /\ worker' = [worker EXCEPT ![w] = Down]
  /\ UNCHANGED <<job, granted, left, disturbed>>

\* The process is killed or a call of the store fails.
Crash(w) ==
  /\ worker[w].pc # "down"
  /\ worker' = [worker EXCEPT ![w] = Down]
  /\ disturbed' = TRUE
  /\ UNCHANGED <<job, granted, left>>

-----------------------------------------------------------------------------
\* Calls of clients and of the command line.
SubmitDag(d) == Submit(d) /\ UNCHANGED <<left, worker, disturbed>>

CancelDag(d) ==
  /\ Cancel(d)
  /\ left' = [j \in Jobs |-> IF DagOf[j] = d THEN 0 ELSE left[j]]
  /\ UNCHANGED <<worker, disturbed>>

Reap ==
  /\ Expired # {}
  /\ Lapse(Expired)
  /\ left' = Delays(Expired)
  /\ UNCHANGED <<worker, disturbed>>

\* A worker has a step to do that takes no time of its own.
Due(w) == worker[w].pc \in {"running", "completing", "failing"} /\ worker[w].busy = 0

Tick ==
  /\ \/ \E j \in Jobs : left[j] > 0
     \/ \E w \in Workers : worker[w].busy > 0
  /\ left' = [j \in Jobs |-> Greatest(0, left[j] - 1)]
  /\ worker' = [w \in Workers |-> [worker[w] EXCEPT !.busy = Greatest(0, @ - 1)]]
  /\ disturbed' = (disturbed \/ \E w \in Workers : Due(w))
  /\ UNCHANGED <<job, granted>>

-----------------------------------------------------------------------------
FleetInit ==
  /\ Init
  /\ left = [j \in Jobs |-> 0]
  /\ worker = [w \in Workers |-> Down]
  /\ disturbed = FALSE

Report(w) == Complete(w) \/ Fail(w) \/ LeaseConflict(w)

FleetNext ==
  \/ Tick \/ Reap
  \/ \E d \in Dags : SubmitDag(d) \/ CancelDag(d)
  \/ \E w \in Workers :
       \/ Start(w) \/ ClaimJob(w) \/ ClaimNone(w) \/ Wake(w)
       \/ Finish(w) \/ Report(w) \/ Crash(w)

FleetSpec == FleetInit /\ [][FleetNext]_fleetVars

\* Time passes, processes run and are started again by their supervisor (the
\* Deployment restarts them).  A claim that is possible again and again is
\* made at some time: rows are not locked for ever by others.  Processes may
\* crash as often as they like, and nobody has to call reap.
FleetFairSpec ==
  /\ FleetSpec
  /\ WF_fleetVars(Tick)
  /\ SF_fleetVars(\E w \in Workers : ClaimJob(w))
  /\ SF_fleetVars(\E w \in Workers : ClaimNone(w))
  /\ \A w \in Workers : /\ WF_fleetVars(Start(w))
                        /\ WF_fleetVars(Wake(w))
                        /\ WF_fleetVars(Finish(w))
                        /\ WF_fleetVars(Report(w))

-----------------------------------------------------------------------------
\* Type invariant; a worker has a claim exactly while it works on one.
TypeOK ==
  /\ DOMAIN job = Jobs
  /\ granted \subseteq Tokens
  /\ left \in [Jobs -> Nat]
  /\ DOMAIN worker = Workers
  /\ \A w \in Workers :
       /\ worker[w].busy \in Nat
       /\ IF worker[w].pc \in {"running", "completing", "failing"}
          THEN worker[w].job \in Jobs /\ worker[w].token \in granted
          ELSE worker[w] \in {Down, Polling, Asleep}
  /\ disturbed \in BOOLEAN

\* A job that the worker can finish within its lease.
Sound(j) == execute(KindOf[j], PayloadOf[j]) = "ok" /\ Duration(j) < LeaseTicks

\* Although workers die at any point, of lost leases too, and although only
\* claims reap: every job whose parents have succeeded comes to its end.
EveryJobEnds ==
  \A j \in Jobs :
    /\ job[j].state # "absent"
    /\ \A p \in Parents(j) : job[p].state = "succeeded"
    ~> job[j].state \in Terminal

\* Work is repeated only because of a disturbance: as long as no worker dies
\* or is late, a job that fits into its lease is executed by one worker, once.
NoNeedlessRetry ==
  ~disturbed =>
    \A j \in Jobs : Sound(j) =>
      /\ job[j].attempts <= 1
      /\ job[j].state \notin {"retry_wait", "dead_lettered"}

\* Without heartbeats no attempt outlives its lease: an operation that takes
\* as long as the lease never succeeds, on any attempt.
OverlongNeverSucceeds ==
  \A j \in Jobs : Duration(j) >= LeaseTicks => job[j].state # "succeeded"
=============================================================================
