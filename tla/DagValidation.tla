--------------------------- MODULE DagValidation ---------------------------
(***************************************************************************)
(* DagSpec::validate: the checks a submission passes before anything is    *)
(* written, and Kahn's algorithm, which rejects cycles and returns a       *)
(* topological order.  One action per iteration of a loop of the code.     *)
(*                                                                         *)
(* An identifier is a number, its place in the byte order by which the     *)
(* code sorts; ValidIds are those that validate_identifier accepts.        *)
(* An edge <<from, to>> stands for a Dependency.                           *)
(***************************************************************************)
EXTENDS JobKinds, SequencesExt

CONSTANTS
  Ids,              \* identifiers of DAGs and jobs that requests contain
  ValidIds,         \* those of 1..64 bytes from the permitted alphabet
  MaxJobs,          \* MAX_JOBS_PER_DAG, 1000 in the code
  MaxDependencies,  \* MAX_DEPENDENCIES_PER_DAG, 10000 in the code
  Specs             \* the requests

JobSpec ==
  [id : Ids, kind : JobKind, payload : Payload, max_attempts : Nat, priority : Int]

DagSpec == [id : Ids, jobs : Seq(JobSpec), dependencies : Seq(Ids \X Ids)]

ASSUME IdsAssumption ==
  /\ Ids \subseteq Nat
  /\ ValidIds \subseteq Ids

ASSUME LimitsAssumption == MaxJobs \in Nat /\ MaxDependencies \in Nat

ASSUME SpecsAssumption == \A sp \in Specs : sp \in DagSpec

VARIABLES
  spec,      \* the request
  pc,        \* the part of validate that is reached
  next,      \* position in the list that the present loop reads
  indegree,  \* by job: its incoming edges from jobs not yet in order
  queue,     \* jobs without such edges, still to be visited
  order,     \* the jobs visited
  verdict    \* "none" until validate returns: "ok" or the error

vars == <<spec, pc, next, indegree, queue, order, verdict>>

Verdict ==
  {"none", "ok", "InvalidIdentifier", "InvalidJobCount", "InvalidDependencyCount",
   "DuplicateJob", "UnknownJob", "Cycle", "PayloadTooLarge", "InvalidDelay",
   "InvalidPolicy"}

-----------------------------------------------------------------------------
\* validate returns.
Return(v) ==
  /\ pc' = "done"
  /\ verdict' = v
  /\ UNCHANGED <<spec, next, indegree, queue, order>>

\* Of an identifier only whether it is accepted matters.
validate_identifier(id) == id \in ValidIds

CountsProblem(sp) ==
  IF ~ validate_identifier(sp.id) THEN "InvalidIdentifier"
  ELSE IF sp.jobs = <<>> \/ Len(sp.jobs) > MaxJobs THEN "InvalidJobCount"
  ELSE IF Len(sp.dependencies) > MaxDependencies THEN "InvalidDependencyCount"
  ELSE "ok"

CheckCounts ==
  /\ pc = "counts"
  /\ CountsProblem(spec) = "ok"
  /\ pc' = "jobs"
  /\ UNCHANGED <<spec, next, indegree, queue, order, verdict>>

RejectCounts ==
  /\ pc = "counts"
  /\ CountsProblem(spec) # "ok"
  /\ Return(CountsProblem(spec))

\* Mutant: the payload is not looked at.
JobProblemButPayload(job) ==
  IF ~ validate_identifier(job.id) THEN "InvalidIdentifier"
  ELSE IF job.max_attempts \notin 1..20 \/ job.priority \notin -100..100
       THEN "InvalidPolicy"
  ELSE IF job.id \in DOMAIN indegree THEN "DuplicateJob"
  ELSE "ok"

\* What is wrong with a job, given the jobs before it.
JobProblem(job) ==
  IF ~ validate_identifier(job.id) THEN "InvalidIdentifier"
  ELSE IF validate_payload(job.kind, job.payload) # "ok"
       THEN validate_payload(job.kind, job.payload)
  ELSE IF job.max_attempts \notin 1..20 \/ job.priority \notin -100..100
       THEN "InvalidPolicy"
  ELSE IF job.id \in DOMAIN indegree THEN "DuplicateJob"
  ELSE "ok"

CheckJob ==
  /\ pc = "jobs" /\ next <= Len(spec.jobs)
  /\ LET job == spec.jobs[next]
     IN /\ JobProblem(job) = "ok"
        /\ indegree' = [j \in DOMAIN indegree \cup {job.id} |->
                          IF j = job.id THEN 0 ELSE indegree[j]]
  /\ next' = next + 1
  /\ UNCHANGED <<spec, pc, queue, order, verdict>>

RejectJob ==
  /\ pc = "jobs" /\ next <= Len(spec.jobs)
  /\ JobProblem(spec.jobs[next]) # "ok"
  /\ Return(JobProblem(spec.jobs[next]))

JobsChecked ==
  /\ pc = "jobs" /\ next > Len(spec.jobs)
  /\ pc' = "edges"
  /\ next' = 1
  /\ UNCHANGED <<spec, indegree, queue, order, verdict>>

-----------------------------------------------------------------------------
\* What is wrong with an edge.
EdgeProblem(edge) ==
  IF edge[1] = edge[2] THEN "Cycle"
  ELSE IF edge[1] \notin DOMAIN indegree \/ edge[2] \notin DOMAIN indegree
       THEN "UnknownJob"
  ELSE "ok"

\* Mutant: the parents of a job are counted, not the edges into it.
CheckDistinctEdge ==
  /\ pc = "edges" /\ next <= Len(spec.dependencies)
  /\ LET edge == spec.dependencies[next]
         again == \E k \in 1..(next - 1) : spec.dependencies[k] = edge
     IN /\ EdgeProblem(edge) = "ok"
        /\ indegree' = [indegree EXCEPT ![edge[2]] = IF again THEN @ ELSE @ + 1]
  /\ next' = next + 1
  /\ UNCHANGED <<spec, pc, queue, order, verdict>>

CheckEdge ==
  /\ pc = "edges" /\ next <= Len(spec.dependencies)
  /\ LET edge == spec.dependencies[next]
     IN /\ EdgeProblem(edge) = "ok"
        /\ indegree' = [indegree EXCEPT ![edge[2]] = @ + 1]
  /\ next' = next + 1
  /\ UNCHANGED <<spec, pc, queue, order, verdict>>

RejectEdge ==
  /\ pc = "edges" /\ next <= Len(spec.dependencies)
  /\ EdgeProblem(spec.dependencies[next]) # "ok"
  /\ Return(EdgeProblem(spec.dependencies[next]))

-----------------------------------------------------------------------------
\* Mutant: as the map yields them.
AnyOrder(q) == TRUE

Sorted(q) == \A m, n \in DOMAIN q : m < n => q[m] < q[n]

\* The queue starts with the jobs without parents, in the order of their ids.
Seed ==
  /\ pc = "edges" /\ next > Len(spec.dependencies)
  /\ \E q \in SetToSeqs({j \in DOMAIN indegree : indegree[j] = 0}) :
       Sorted(q) /\ queue' = q
  /\ pc' = "visit"
  /\ UNCHANGED <<spec, next, indegree, order, verdict>>

\* Mutant: a repeated edge counts once.
DistinctEdge(i, j) ==
  {k \in DOMAIN spec.dependencies :
     /\ spec.dependencies[k] = <<i, j>>
     /\ \A l \in 1..(k - 1) : spec.dependencies[l] # <<i, j>>}

\* Positions of the edges from i to j, each of which lowers j's indegree.
EdgesBetween(i, j) == {k \in DOMAIN spec.dependencies : spec.dependencies[k] = <<i, j>>}

\* The first job of the queue is visited; its children that have no other
\* parent left join the queue, in the order of their ids.
Visit ==
  /\ pc = "visit" /\ queue # <<>>
  /\ LET id == Head(queue)
         left == [j \in DOMAIN indegree |->
                    indegree[j] - Cardinality(EdgesBetween(id, j))]
         ready == {j \in DOMAIN indegree : EdgesBetween(id, j) # {} /\ left[j] = 0}
     IN /\ order' = Append(order, id)
        /\ indegree' = left
        /\ \E q \in SetToSeqs(ready) : Sorted(q) /\ queue' = Tail(queue) \o q
  /\ UNCHANGED <<spec, pc, next, verdict>>

\* Mutant: an empty queue is taken for success.
AcceptAll ==
  /\ pc = "visit" /\ queue = <<>>
  /\ Return("ok")

Accept ==
  /\ pc = "visit" /\ queue = <<>>
  /\ Len(order) = Len(spec.jobs)
  /\ Return("ok")

RejectCycle ==
  /\ pc = "visit" /\ queue = <<>>
  /\ Len(order) # Len(spec.jobs)
  /\ Return("Cycle")

-----------------------------------------------------------------------------
Init ==
  /\ spec \in Specs
  /\ pc = "counts"
  /\ next = 1
  /\ indegree = [j \in {} |-> 0]
  /\ queue = <<>>
  /\ order = <<>>
  /\ verdict = "none"

Next ==
  \/ CheckCounts \/ RejectCounts
  \/ CheckJob \/ RejectJob \/ JobsChecked
  \/ CheckEdge \/ RejectEdge
  \/ Seed \/ Visit \/ Accept \/ RejectCycle

Spec == Init /\ [][Next]_vars

-----------------------------------------------------------------------------
JobIds(sp) == {sp.jobs[i].id : i \in DOMAIN sp.jobs}

\* A graph has a cycle if and only if, in some set of its nodes, every node has
\* a parent in the set.
Cyclic(sp) ==
  \E S \in SUBSET {sp.dependencies[k][2] : k \in DOMAIN sp.dependencies} :
    /\ S # {}
    /\ \A j \in S : \E k \in DOMAIN sp.dependencies :
         sp.dependencies[k][2] = j /\ sp.dependencies[k][1] \in S

\* Request sp has the defect that the error v names.
Defect(sp, v) ==
  \/ /\ v = "InvalidIdentifier"
     /\ sp.id \notin ValidIds \/ \E i \in DOMAIN sp.jobs : sp.jobs[i].id \notin ValidIds
  \/ v = "InvalidJobCount" /\ Len(sp.jobs) \notin 1..MaxJobs
  \/ v = "InvalidDependencyCount" /\ Len(sp.dependencies) > MaxDependencies
  \/ /\ v = "DuplicateJob"
     /\ \E i, k \in DOMAIN sp.jobs : i # k /\ sp.jobs[i].id = sp.jobs[k].id
  \/ /\ v = "UnknownJob"
     /\ \E k \in DOMAIN sp.dependencies :
          {sp.dependencies[k][1], sp.dependencies[k][2]} \ JobIds(sp) # {}
  \/ v = "Cycle" /\ Cyclic(sp)
  \/ /\ v = "PayloadTooLarge"
     /\ \E i \in DOMAIN sp.jobs : sp.jobs[i].payload.bytes > MaxPayloadBytes
  \/ /\ v = "InvalidDelay"
     /\ \E i \in DOMAIN sp.jobs : /\ sp.jobs[i].kind = "delay"
                                  /\ sp.jobs[i].payload.number \notin 0..MaxDelay
  \/ /\ v = "InvalidPolicy"
     /\ \E i \in DOMAIN sp.jobs : \/ sp.jobs[i].max_attempts \notin 1..20
                                  \/ sp.jobs[i].priority \notin -100..100

\* Type invariant of the locals of validate.
TypeOK ==
  /\ spec \in DagSpec
  /\ pc \in {"counts", "jobs", "edges", "visit", "done"}
  /\ next \in Nat \ {0}
  /\ DOMAIN indegree \subseteq Ids
  /\ indegree \in [DOMAIN indegree -> Nat]
  /\ queue \in Seq(DOMAIN indegree)
  /\ order \in Seq(DOMAIN indegree)
  /\ verdict \in Verdict
  /\ verdict = "none" <=> pc # "done"

\* Positions of the edges into j that the loops have counted and not yet
\* discounted.
PendingEdges(j) ==
  {k \in DOMAIN spec.dependencies :
     /\ spec.dependencies[k][2] = j
     /\ pc = "edges" => k < next
     /\ spec.dependencies[k][1] \notin ToSet(order)}

\* The counters are exact: indegree[j] is the number of edges into j from jobs
\* that were not visited, repeated edges included.  So the unsigned
\* subtraction never underflows and a job joins the queue when, and only when,
\* its last parent has been visited.
IndegreeExact ==
  pc \in {"edges", "visit"} =>
    \A j \in DOMAIN indegree : indegree[j] = Cardinality(PendingEdges(j))

\* validate accepts exactly the requests without a defect, and the error it
\* returns names a defect the request has: Kahn's algorithm accepts no cycle
\* and takes no acyclic graph for a cyclic one.
VerdictCorrect ==
  verdict # "none" =>
    IF verdict = "ok" THEN \A v \in Verdict : ~Defect(spec, v)
                      ELSE Defect(spec, verdict)

\* The order returned lists every job once, each after all its parents.
OrderTopological ==
  verdict = "ok" =>
    /\ ToSet(order) = JobIds(spec)
    /\ \A m, n \in DOMAIN order : order[m] = order[n] => m = n
    /\ \A k \in DOMAIN spec.dependencies, m, n \in DOMAIN order :
         order[m] = spec.dependencies[k][1] /\ order[n] = spec.dependencies[k][2] => m < n

\* The places in order of the parents of j, and the last of them (0 for a job
\* without parents).
ParentPlaces ==
  [j \in Ids |-> {m \in DOMAIN order : EdgesBetween(order[m], j) # {}}]

LastParent ==
  [j \in Ids |-> IF ParentPlaces[j] = {} THEN 0 ELSE Max(ParentPlaces[j])]

\* The order returned is a function of the graph: jobs appear by the place of
\* their last parent, then by id.  Neither the order of the lists in the
\* request nor the iteration order of the hash map shows in it.
OrderStable ==
  verdict = "ok" =>
    \A m, n \in DOMAIN order : m < n =>
      \/ LastParent[order[m]] < LastParent[order[n]]
      \/ LastParent[order[m]] = LastParent[order[n]] /\ order[m] < order[n]

\* What is admitted can be executed: the worker's second check of the payload
\* never fails.  Only the upper-case form of a payload may be too long.
AdmittedRuns ==
  verdict = "ok" =>
    \A i \in DOMAIN spec.jobs :
      LET job == spec.jobs[i]
      IN \/ execute(job.kind, job.payload) = "ok"
         \/ /\ execute(job.kind, job.payload) = "ResultTooLarge"
            /\ job.kind = "uppercase"
            /\ job.payload.upper_bytes > job.payload.bytes
=============================================================================
