------------------------------ MODULE JobGraph ------------------------------
(***************************************************************************)
(* The submitted DAG specifications and the vocabulary that the in-memory  *)
(* scheduler and the PostgreSQL store share: job identities, dependency    *)
(* edges, the seven job states, the exponential backoff.                   *)
(*                                                                         *)
(* A job stands for the pair (dag_id, id).  The edges are the sequence     *)
(* spec.dependencies of all DAGs: validation does not look for repeated    *)
(* edges, so a pair may occur in it more than once.                        *)
(***************************************************************************)
EXTENDS Integers, SequencesExt

CONSTANTS
  Dags,          \* identifiers of the DAGs clients may submit
  Jobs,          \* all jobs of those DAGs
  DagOf,         \* DagOf[j]: the DAG that contains j
  Edges,         \* sequence of pairs <<from, to>>
  MaxAttempts,   \* MaxAttempts[j]: attempt budget of j
  Priority,      \* Priority[j]: larger is more urgent
  IdRank,        \* IdRank[j]: place of (dag_id, id) in the identifier order
  BaseRetry,     \* first retry delay (1000 ms in the code)
  MaxRetry,      \* longest retry delay before jitter (60000 ms in the code)
  Tokens,        \* supply of lease tokens (random UUIDs in the store)
  Owners,        \* worker identities
  Null           \* no lease, no result, no argument

ASSUME JobsAssumption ==
  /\ IsFiniteSet(Jobs)
  /\ DagOf \in [Jobs -> Dags]

\* What DagSpec::validate guarantees of the edges: known endpoints in one DAG,
\* and no cycle (a topological numbering exists).
ASSUME EdgesAssumption ==
  /\ Edges \in Seq(Jobs \X Jobs)
  /\ \A i \in DOMAIN Edges : DagOf[Edges[i][1]] = DagOf[Edges[i][2]]

ASSUME AcyclicAssumption ==
  \E num \in [Jobs -> 1..Cardinality(Jobs)] :
    \A i \in DOMAIN Edges : num[Edges[i][1]] < num[Edges[i][2]]

\* What JobSpec validation and the schema guarantee of each job.
ASSUME AttemptsAssumption == MaxAttempts \in [Jobs -> 1..20]

ASSUME OrderAssumption ==
  /\ Priority \in [Jobs -> -100..100]
  /\ IdRank \in [Jobs -> Nat]
  /\ \A j, k \in Jobs : j # k => IdRank[j] # IdRank[k]

ASSUME RetryAssumption ==
  /\ BaseRetry \in Nat \ {0}
  /\ MaxRetry \in Nat \ {0}

ASSUME NullAssumption ==
  /\ Null \notin Tokens
  /\ Null \notin [owner : Owners, token : Tokens, expires : Nat]

-----------------------------------------------------------------------------
\* The states of a job: the seven values of the JobState enumeration,
\* and "absent" for a job whose DAG has not been submitted.
JobState ==
  {"absent", "pending", "ready", "retry_wait", "leased",
   "succeeded", "dead_lettered", "cancelled"}

Terminal == {"succeeded", "dead_lettered", "cancelled"}

\* States in which a job waits to be claimed.
Waiting == {"ready", "retry_wait"}

Lease == [owner : Owners, token : Tokens, expires : Nat]

JobsOf(d) == {j \in Jobs : DagOf[j] = d}

\* Positions of the edges into j, and the parents and children they name.
EdgesInto(j) == {i \in DOMAIN Edges : Edges[i][2] = j}
Parents(j) == {Edges[i][1] : i \in EdgesInto(j)}
Children(j) == {Edges[i][2] : i \in {k \in DOMAIN Edges : Edges[k][1] = j}}

Least(a, b) == IF a <= b THEN a ELSE b
Greatest(a, b) == IF a >= b THEN a ELSE b

\* 2 to the power 0, 1, ..., 16: the exponent is capped at 16 by the code.
PowersOfTwo ==
  <<1, 2, 4, 8, 16, 32, 64, 128, 256, 512, 1024, 2048, 4096, 8192,
    16384, 32768, 65536>>

\* Delay before the next attempt of a job that has used a attempts.
Backoff(a) ==
  Least(MaxRetry, BaseRetry * PowersOfTwo[Least(16, Greatest(0, a - 1)) + 1])
=============================================================================
