--------------------------- MODULE WorkerFleetInv ---------------------------
(***************************************************************************)
(* The inductive invariant of the worker fleet: how the time that is left  *)
(* of a lease relates to the time that its holder still needs.             *)
(***************************************************************************)
EXTENDS WorkerFleet

JobRecord ==
  [state : JobState, attempts : Nat, token : Tokens \cup {Null}, result : Tokens \cup {Null}]

WorkerRecord ==
  [pc : {"down", "polling", "asleep", "running", "completing", "failing"},
   job : Jobs \cup {Null}, token : Tokens \cup {Null}, busy : Nat]

Records == job \in [Jobs -> JobRecord] /\ worker \in [Workers -> WorkerRecord]

Working(w) == worker[w].pc \in {"running", "completing", "failing"}

\* A worker reports when the operation is over, and a failure only if it failed.
ReportsTrue ==
  \A w \in Workers :
    /\ worker[w].pc \in {"completing", "failing"} => worker[w].busy = 0
    /\ worker[w].pc = "failing" =>
         execute(KindOf[worker[w].job], PayloadOf[worker[w].job]) # "ok"

\* A lease runs while its holder executes: what was used of the operation's
\* time was used of the lease as well.
LeaseRuns ==
  \A w \in Workers :
    Working(w) /\ job[worker[w].job].token = worker[w].token =>
      \/ left[worker[w].job] = 0
      \/ left[worker[w].job] + Duration(worker[w].job) <= LeaseTicks + worker[w].busy

\* A job that was never leased has used no attempt.
Unstarted == \A j \in Jobs : job[j].state \in {"absent", "pending", "ready"} => job[j].attempts = 0

\* Worker w holds the lease of j and will report before it ends.
InTime(w, j) ==
  /\ worker[w].pc \in {"running", "completing"}
  /\ worker[w].job = j /\ worker[w].token = job[j].token
  /\ left[j] > worker[w].busy

\* While nothing is disturbed, the lease of a sound job is held in time.
HeldInTime ==
  ~disturbed =>
    \A j \in Jobs : Sound(j) /\ job[j].state = "leased" => \E w \in Workers : InTime(w, j)

\* The inductive invariant of the fleet: types, truthful reports, leases that
\* run with the operation, and sound jobs held in time while nothing is disturbed.
FleetInv ==
  /\ TypeOK /\ Records /\ ReportsTrue /\ LeaseRuns /\ Unstarted /\ HeldInTime
  /\ NoNeedlessRetry /\ OverlongNeverSucceeds
=============================================================================
