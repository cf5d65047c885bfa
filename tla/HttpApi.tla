------------------------------ MODULE HttpApi ------------------------------
(***************************************************************************)
(* The HTTP control plane on top of the store: what clients are told.      *)
(* Handlers keep no state.  A request that needs the database occupies a   *)
(* session of the pool from its first statement to the end of its          *)
(* transaction, and its answer goes out with that end.  The worker and the *)
(* command line call the same operations and get the same results, without *)
(* the translation to HTTP.  Requests outside the limits are refused       *)
(* before a session is taken and change nothing.                           *)
(*                                                                         *)
(* code is the error code of the body, "ok" for the 2xx answers.           *)
(***************************************************************************)
EXTENDS StoreInv

VARIABLE answer  \* the answer that the last step sent, Null if it sent none

apiVars == <<vars, answer>>

\* found tells whether the body of a claim names a job: {"job": claim} or null.
Reply(s, code) ==
  answer' = [code |-> code, op |-> op[s], arg |-> arg[s], found |-> pc[s] = "claimed"]

\* The transaction is durable and the client learns so.
Acknowledge(s) == Commit(s) /\ Reply(s, "ok")

\* COMMIT took effect, but the connection was lost before it said so.
AcknowledgementLost(s) == Commit(s) /\ Reply(s, "internal")

NotFound(s) == DagNotFound(s) /\ Reply(s, "not_found")

Conflict(s) == LeaseConflict(s) /\ Reply(s, "lease_conflict")

\* A unique violation, of the DAG's key or of the key of an edge.
AlreadyExists(s) == (DuplicateDag(s) \/ DuplicateEdge(s)) /\ Reply(s, "already_exists")

\* Any other error of the database.  A client whose connection closes without
\* an answer knows as little as after this one.
Internal(s) == (Abort(s) \/ DeadlockAbort(s)) /\ Reply(s, "internal")

\* Steps within a transaction.
Silent(s) == Step(s) /\ pc'[s] # "idle" /\ answer' = Null

Request(s) == Call(s) /\ answer' = Null

Clock == Tick /\ answer' = Null

-----------------------------------------------------------------------------
ApiInit == Init /\ answer = Null

ApiNext ==
  \/ Clock
  \/ \E s \in Sessions :
       \/ Request(s) \/ Silent(s)
       \/ Acknowledge(s) \/ AcknowledgementLost(s)
       \/ NotFound(s) \/ Conflict(s) \/ AlreadyExists(s) \/ Internal(s)

ApiSpec == ApiInit /\ [][ApiNext]_apiVars

\* The fairness of the store's sessions, see Store!FairSpec.
ApiFairSpec == ApiSpec /\ \A s \in Sessions : SF_vars(Step(s))

-----------------------------------------------------------------------------
\* The lease that claim c names is in force.
Live(c) ==
  LET r == jobs[c.job]
  IN /\ r.state = "leased"
     /\ r.lease.owner = c.owner
     /\ r.lease.token = c.token
     /\ r.lease.expires > now

\* What a success tells of the database.
SuccessTrue(o, a, found) ==
  /\ o = "submit" => /\ dags[a] = "running"
                     /\ \A j \in JobsOf(a) : jobs[j].state # "absent"
  /\ o = "cancel" => \A j \in JobsOf(a) : jobs[j].state \in Terminal
  /\ o = "claim" /\ found => /\ a \in claims
                             /\ jobs[a.job].state = "leased"
                             /\ jobs[a.job].lease.token = a.token
  /\ o = "heartbeat" => jobs[a.job].state = "leased" /\ jobs[a.job].lease.token = a.token
  /\ o = "complete" => jobs[a.job].state = "succeeded" /\ jobs[a.job].result = a.token
  /\ o = "fail" => jobs[a.job].state \in {"retry_wait", "dead_lettered"}

\* An answer is true when it is sent, whatever the transactions that run
\* beside the request have written and whether they commit later or not: a
\* success tells the committed state; "already_exists" is never the echo of a
\* submission that is rolled back, and is said of an absent DAG only when the
\* request repeats an edge; "lease_conflict" is never said of a live lease.
AnswersTrue ==
  answer # Null =>
    /\ answer.code = "ok" => SuccessTrue(answer.op, answer.arg, answer.found)
    /\ answer.code = "already_exists" =>
         answer.op = "submit" /\ (dags[answer.arg] # "absent" \/ RepeatedEdge(answer.arg))
    /\ answer.code = "not_found" => dags[answer.arg] = "absent"
    /\ answer.code = "lease_conflict" => ~Live(answer.arg)
=============================================================================
