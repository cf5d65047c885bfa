----------------------------- MODULE Lifecycle -----------------------------
(***************************************************************************)
(* What the orchestrator promises about the life of a job, whichever       *)
(* backend runs it: the abstract specification that the in-memory          *)
(* scheduler and the PostgreSQL store are both shown to implement.         *)
(* Nothing here mentions clocks, queues, rows or transactions.             *)
(***************************************************************************)
EXTENDS JobGraph

VARIABLES
  job,      \* job[j]: state, attempts used, token of the live lease, result
  granted   \* every token under which a job was ever leased

vars == <<job, granted>>

Blank == [state |-> "absent", attempts |-> 0, token |-> Null, result |-> Null]

\* Job j after its lease ended without success: another attempt while the
\* budget lasts, the dead-letter state after that.
Lapsed(j) ==
  [job[j] EXCEPT
     !.state = IF job[j].attempts >= MaxAttempts[j] THEN "dead_lettered"
                                                    ELSE "retry_wait",
     !.token = Null]

Init ==
  /\ job = [j \in Jobs |-> Blank]
  /\ granted = {}

\* A DAG is admitted as a whole; its roots are ready at once.
Submit(d) ==
  /\ \A j \in JobsOf(d) : job[j].state = "absent"
  /\ job' = [j \in Jobs |->
               IF DagOf[j] # d THEN job[j]
               ELSE [Blank EXCEPT
                       !.state = IF Parents(j) = {} THEN "ready" ELSE "pending"]]
  /\ UNCHANGED granted

\* The leases of the jobs in R end without success.
Lapse(R) ==
  /\ \A j \in R : job[j].state = "leased"
  /\ job' = [j \in Jobs |-> IF j \in R THEN Lapsed(j) ELSE job[j]]
  /\ UNCHANGED granted

\* Job g is leased under a token never used before, all its parents having
\* succeeded and its budget not being spent; the leases in R lapse with it.
Grant(g, t, R) ==
  /\ job[g].state \in Waiting
  /\ job[g].attempts < MaxAttempts[g]
  /\ \A p \in Parents(g) : job[p].state = "succeeded"
  /\ t \notin granted
  /\ \A j \in R : job[j].state = "leased"
  /\ job' = [j \in Jobs |->
               CASE j = g -> [job[j] EXCEPT !.state = "leased",
                                            !.attempts = @ + 1,
                                            !.token = t]
                 [] j \in R /\ j # g -> Lapsed(j)
                 [] OTHER -> job[j]]
  /\ granted' = granted \cup {t}

\* The holder of g's lease commits its result; children in C, of which no
\* parent is left unfinished, become ready.
Succeed(g, C) ==
  /\ job[g].state = "leased"
  /\ \A c \in C : /\ job[c].state = "pending"
                  /\ g \in Parents(c)
                  /\ \A p \in Parents(c) \ {g} : job[p].state = "succeeded"
  /\ job' = [j \in Jobs |->
               CASE j = g -> [job[j] EXCEPT !.state = "succeeded",
                                            !.result = job[j].token,
                                            !.token = Null]
                 [] j \in C /\ j # g -> [job[j] EXCEPT !.state = "ready"]
                 [] OTHER -> job[j]]
  /\ UNCHANGED granted

\* Every unfinished job of the DAG is cancelled and loses its lease.
Cancel(d) ==
  /\ \A j \in JobsOf(d) : job[j].state # "absent"
  /\ job' = [j \in Jobs |->
               IF DagOf[j] = d /\ job[j].state \notin Terminal
               THEN [job[j] EXCEPT !.state = "cancelled", !.token = Null]
               ELSE job[j]]
  /\ UNCHANGED granted

Next ==
  \/ \E d \in Dags : Submit(d) \/ Cancel(d)
  \/ \E R \in SUBSET Jobs : Lapse(R)
  \/ \E g \in Jobs, t \in Tokens, R \in SUBSET Jobs : Grant(g, t, R)
  \/ \E g \in Jobs, C \in SUBSET Jobs : Succeed(g, C)

Spec == Init /\ [][Next]_vars
=============================================================================
