-------------------------- MODULE DagValidationInv --------------------------
(***************************************************************************)
(* The inductive invariant of validate: what its loops have established    *)
(* when they have read a part of the lists.                                *)
(***************************************************************************)
EXTENDS DagValidation

\* No check has failed so far.
Live == verdict \in {"none", "ok"}

\* The queue has been seeded, and no check has failed.
Visiting == pc = "visit" \/ verdict = "ok"

\* How many jobs and how many edges the loops have read.
JobsRead == IF pc = "counts" THEN 0 ELSE IF pc = "jobs" THEN next - 1 ELSE Len(spec.jobs)
EdgesRead == IF Visiting THEN Len(spec.dependencies)
             ELSE IF pc = "edges" THEN next - 1 ELSE 0

GoodJob(job) ==
  /\ validate_identifier(job.id)
  /\ validate_payload(job.kind, job.payload) = "ok"
  /\ job.max_attempts \in 1..20
  /\ job.priority \in -100..100

GoodEdge(edge) == edge[1] # edge[2] /\ edge[1] \in JobIds(spec) /\ edge[2] \in JobIds(spec)

CountsGood == Live /\ pc # "counts" => CountsProblem(spec) = "ok"

\* The jobs read are good, their ids differ and are the keys of indegree.
JobsGood ==
  Live =>
    /\ JobsRead \in 0..Len(spec.jobs)
    /\ \A i \in 1..JobsRead : GoodJob(spec.jobs[i])
    /\ \A i, k \in 1..JobsRead : spec.jobs[i].id = spec.jobs[k].id => i = k
    /\ DOMAIN indegree = {spec.jobs[i].id : i \in 1..JobsRead}

EdgesGood ==
  Live =>
    /\ EdgesRead \in 0..Len(spec.dependencies)
    /\ \A k \in 1..EdgesRead : GoodEdge(spec.dependencies[k])

\* Each loop starts at the first element.  Nothing is counted before the edges are read, nothing listed before Seed.
Fresh ==
  /\ pc = "counts" => next = 1
  /\ pc \in {"counts", "jobs", "edges"} => queue = <<>> /\ order = <<>>
  /\ pc \in {"counts", "jobs"} => \A j \in DOMAIN indegree : indegree[j] = 0

\* The jobs in the order they were queued: those visited, then the queue.
Listed == order \o queue

\* Jobs a and b come in the order of their last parents, then of their ids.
Earlier(a, b) ==
  \/ LastParent[a] < LastParent[b]
  \/ LastParent[a] = LastParent[b] /\ a < b

\* A job is listed, once, when all its parents were visited; the list is sorted.
ListedExact ==
  Visiting =>
    /\ \A m, n \in DOMAIN Listed : Listed[m] = Listed[n] => m = n
    /\ ToSet(Listed) = {j \in DOMAIN indegree : indegree[j] = 0}
    /\ \A m \in DOMAIN Listed : LastParent[Listed[m]] \in 0..Len(order)
    /\ \A m, n \in DOMAIN Listed : m < n => Earlier(Listed[m], Listed[n])

\* All the parents of a visited job were visited before it.
ParentsFirst ==
  Visiting =>
    \A n \in DOMAIN order, k \in DOMAIN spec.dependencies :
      spec.dependencies[k][2] = order[n] =>
        \E m \in 1..(n - 1) : order[m] = spec.dependencies[k][1]

\* In S every job has a parent in S.
SelfSupporting(S) ==
  \A j \in S : \E k \in DOMAIN spec.dependencies :
    spec.dependencies[k][2] = j /\ spec.dependencies[k][1] \in S

\* No job that lies on a cycle, or below one, is ever visited.
NoCycleVisited ==
  Visiting => \A S \in SUBSET Ids : SelfSupporting(S) => S \cap ToSet(order) = {}

\* The list that is accepted is complete.
AllListed ==
  verdict = "ok" => queue = <<>> /\ ToSet(order) = JobIds(spec)

\* The inductive invariant of validate: types, what the loops over jobs and
\* edges have checked, exact counters, the list in the order of queueing and
\* the absence of cycles among the jobs visited.
DagInv ==
  /\ TypeOK
  /\ CountsGood /\ JobsGood /\ EdgesGood /\ Fresh
  /\ IndegreeExact /\ ListedExact /\ ParentsFirst /\ NoCycleVisited /\ AllListed
  /\ VerdictCorrect
=============================================================================
