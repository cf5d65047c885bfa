------------------------ MODULE DagValidationProofs ------------------------
(***************************************************************************)
(* DagInv is inductive, and implies what the run DagValidation checks of   *)
(* validate: its verdict is right for every request, whatever the number   *)
(* of jobs and edges, and the order it returns is topological and stable.  *)
(***************************************************************************)
EXTENDS DagValidationInv, TLAPS, FiniteSetTheorems

-----------------------------------------------------------------------------
\* Sets and sequences

\* A sequence without repetitions has as many elements as places.
LEMMA CountDistinct ==
  ASSUME NEW S, NEW q \in Seq(S),
         \A m, n \in DOMAIN q : q[m] = q[n] => m = n
  PROVE  IsFiniteSet(ToSet(q)) /\ Cardinality(ToSet(q)) = Len(q)
<1>1. Len(q) \in Nat /\ DOMAIN q = 1..Len(q)
  OBVIOUS
<1>2. IsFiniteSet(1..Len(q)) /\ Cardinality(1..Len(q)) = Len(q)
  BY <1>1, FS_Interval
<1>3. q \in [1..Len(q) -> ToSet(q)]
  BY <1>1 DEF ToSet
<1>4. q \in Injection(1..Len(q), ToSet(q))
  BY <1>1, <1>3 DEF Injection, IsInjective
<1>5. q \in Surjection(1..Len(q), ToSet(q))
  BY <1>1, <1>3 DEF Surjection, ToSet
<1> QED
  BY <1>2, <1>4, <1>5, FS_Surjection

\* A sequence that SetToSeqs enumerates lists the elements of the set, once each.
LEMMA OrderingOf ==
  ASSUME NEW S, IsFiniteSet(S), NEW q \in SetToSeqs(S)
  PROVE  /\ q \in Seq(S)
         /\ ToSet(q) = S
         /\ \A m, n \in DOMAIN q : q[m] = q[n] => m = n
<1> DEFINE n == Cardinality(S)
<1>2. n \in Nat
  BY FS_CardinalityType
<1>3. /\ q \in [1..n -> S]
      /\ \A i, k \in 1..n : i # k => q[i] # q[k]
  BY DEF SetToSeqs
<1>4. q \in Seq(S) /\ DOMAIN q = 1..n
  BY <1>2, <1>3
<1>5. Cardinality(1..n) = n
  BY <1>2, FS_Interval
<1>6. q \in Injection(1..n, S)
  BY <1>3 DEF Injection, IsInjective
<1>7. q \in Surjection(1..n, S)
  BY <1>5, <1>6, FS_Injection
<1>8. ToSet(q) = S
  BY <1>3, <1>4, <1>7 DEF Surjection, ToSet
<1> QED
  BY <1>3, <1>4, <1>8

\* Elements removed from a finite set are counted off.
LEMMA CountRemoved ==
  ASSUME NEW S, IsFiniteSet(S), NEW T \in SUBSET S
  PROVE  /\ Cardinality(S) \in Nat /\ Cardinality(T) \in Nat
         /\ Cardinality(S \ T) = Cardinality(S) - Cardinality(T)
         /\ Cardinality(T) <= Cardinality(S)
<1>1. IsFiniteSet(T) /\ IsFiniteSet(S \ T) /\ Cardinality(T) <= Cardinality(S)
  BY FS_Subset
<1>2. /\ Cardinality(S) \in Nat /\ Cardinality(T) \in Nat
      /\ Cardinality(S \ T) \in Nat
  BY <1>1, FS_CardinalityType
<1>3. T \cup (S \ T) = S /\ T \cap (S \ T) = {}
  OBVIOUS
<1>4. Cardinality(S) = Cardinality(T) + Cardinality(S \ T) - Cardinality({})
  BY <1>1, <1>3, FS_Union
<1> QED
  BY <1>1, <1>2, <1>4, FS_EmptySet

\* Taking the head of a queue over to a list leaves their concatenation as it was.
LEMMA MoveHead ==
  ASSUME NEW S, NEW s \in Seq(S), NEW t \in Seq(S), NEW q \in Seq(S), t # <<>>
  PROVE  Append(s, Head(t)) \o (Tail(t) \o q) = (s \o t) \o q
<1> DEFINE l == Append(s, Head(t)) \o (Tail(t) \o q)
           r == (s \o t) \o q
<1>1. Len(t) > 0 /\ Head(t) \in S /\ Head(t) = t[1] /\ Tail(t) \in Seq(S)
      /\ Len(Tail(t)) = Len(t) - 1
      /\ \A i \in 1..(Len(t) - 1) : Tail(t)[i] = t[i + 1]
  OBVIOUS
<1>2. Tail(t) \o q \in Seq(S) /\ Len(Tail(t) \o q) = Len(t) - 1 + Len(q)
      /\ \A i \in 1..(Len(t) - 1 + Len(q)) :
           (Tail(t) \o q)[i] = IF i <= Len(t) - 1 THEN t[i + 1] ELSE q[i - (Len(t) - 1)]
  BY <1>1
<1>3. Append(s, Head(t)) \in Seq(S) /\ Len(Append(s, Head(t))) = Len(s) + 1
      /\ \A i \in 1..(Len(s) + 1) :
           Append(s, Head(t))[i] = IF i <= Len(s) THEN s[i] ELSE t[1]
  BY <1>1
<1>4. l \in Seq(S) /\ r \in Seq(S)
      /\ Len(l) = Len(s) + Len(t) + Len(q) /\ Len(r) = Len(s) + Len(t) + Len(q)
  BY <1>2, <1>3
<1>5. ASSUME NEW i \in 1..(Len(s) + Len(t) + Len(q)) PROVE l[i] = r[i]
  <2>1. r[i] = IF i <= Len(s) THEN s[i]
               ELSE IF i <= Len(s) + Len(t) THEN t[i - Len(s)]
               ELSE q[i - Len(s) - Len(t)]
    BY <1>5
  <2>2. l[i] = IF i <= Len(s) + 1 THEN Append(s, Head(t))[i]
               ELSE (Tail(t) \o q)[i - (Len(s) + 1)]
    BY <1>2, <1>3, <1>5
  <2>3. i > Len(s) + 1 =>
          (Tail(t) \o q)[i - (Len(s) + 1)] =
             IF i <= Len(s) + Len(t) THEN t[i - Len(s)] ELSE q[i - Len(s) - Len(t)]
    <3> SUFFICES ASSUME i > Len(s) + 1
                 PROVE  (Tail(t) \o q)[i - (Len(s) + 1)] =
                          IF i <= Len(s) + Len(t) THEN t[i - Len(s)]
                          ELSE q[i - Len(s) - Len(t)]
      OBVIOUS
    <3>1. i - (Len(s) + 1) \in 1..(Len(t) - 1 + Len(q))
      BY <1>1, <1>5
    <3>2. /\ i - (Len(s) + 1) + 1 = i - Len(s)
          /\ (i - (Len(s) + 1)) - (Len(t) - 1) = i - Len(s) - Len(t)
      BY <1>1, <1>5
    <3> QED
      BY <1>2, <3>1, <3>2
  <2> QED
    BY <1>1, <1>3, <2>1, <2>2, <2>3
<1>6. l = r
  BY <1>4, <1>5
<1> QED
  BY <1>6

\* A list of two parts: where its elements are.
LEMMA Concatenated ==
  ASSUME NEW S, NEW s \in Seq(S), NEW t \in Seq(S)
  PROVE  /\ s \o t \in Seq(S)
         /\ DOMAIN (s \o t) = 1..(Len(s) + Len(t))
         /\ \A i \in 1..(Len(s) + Len(t)) :
              (s \o t)[i] = IF i <= Len(s) THEN s[i] ELSE t[i - Len(s)]
         /\ ToSet(s \o t) = ToSet(s) \cup ToSet(t)
<1>1. /\ s \o t \in Seq(S)
      /\ DOMAIN (s \o t) = 1..(Len(s) + Len(t))
      /\ \A i \in 1..(Len(s) + Len(t)) :
           (s \o t)[i] = IF i <= Len(s) THEN s[i] ELSE t[i - Len(s)]
  OBVIOUS
<1>2. ASSUME NEW i \in DOMAIN s PROVE s[i] \in ToSet(s \o t)
  BY <1>1 DEF ToSet
<1>3. ASSUME NEW i \in DOMAIN t PROVE t[i] \in ToSet(s \o t)
  <2>1. Len(s) + i \in 1..(Len(s) + Len(t)) /\ (s \o t)[Len(s) + i] = t[i]
    BY <1>1, <1>3
  <2> QED
    BY <2>1, <1>1 DEF ToSet
<1>4. ASSUME NEW i \in 1..(Len(s) + Len(t)) PROVE (s \o t)[i] \in ToSet(s) \cup ToSet(t)
  <2>1. CASE i <= Len(s)
    BY <1>1, <2>1 DEF ToSet
  <2>2. CASE i > Len(s)
    <3>1. i - Len(s) \in DOMAIN t /\ (s \o t)[i] = t[i - Len(s)]
      BY <1>1, <2>2
    <3> QED
      BY <3>1 DEF ToSet
  <2> QED
    BY <2>1, <2>2
<1> QED
  BY <1>1, <1>2, <1>3, <1>4 DEF ToSet


-----------------------------------------------------------------------------
\* The request

\* What the types of the request say, spelled out.
LEMMA RequestTypes ==
  ASSUME TypeOK
  PROVE  /\ spec.jobs \in Seq(JobSpec)
         /\ spec.dependencies \in Seq(Ids \X Ids)
         /\ Len(spec.jobs) \in Nat /\ DOMAIN spec.jobs = 1..Len(spec.jobs)
         /\ Len(spec.dependencies) \in Nat
         /\ DOMAIN spec.dependencies = 1..Len(spec.dependencies)
         /\ \A i \in DOMAIN spec.jobs : spec.jobs[i] \in JobSpec /\ spec.jobs[i].id \in Ids
         /\ \A k \in DOMAIN spec.dependencies :
              /\ spec.dependencies[k][1] \in Ids /\ spec.dependencies[k][2] \in Ids
              /\ spec.dependencies[k] = <<spec.dependencies[k][1], spec.dependencies[k][2]>>
<1>1. spec.jobs \in Seq(JobSpec) /\ spec.dependencies \in Seq(Ids \X Ids)
  BY DEF TypeOK, DagSpec
<1>2. /\ Len(spec.jobs) \in Nat /\ DOMAIN spec.jobs = 1..Len(spec.jobs)
      /\ Len(spec.dependencies) \in Nat
      /\ DOMAIN spec.dependencies = 1..Len(spec.dependencies)
  BY <1>1
<1>3. \A i \in DOMAIN spec.jobs : spec.jobs[i] \in JobSpec
  BY <1>1
<1>4. \A k \in DOMAIN spec.dependencies : spec.dependencies[k] \in Ids \X Ids
  BY <1>1
<1> QED
  BY <1>1, <1>2, <1>3, <1>4 DEF JobSpec

\* Any set of positions in the list of edges is finite.
LEMMA EdgeSetsFinite ==
  ASSUME TypeOK, NEW E \in SUBSET DOMAIN spec.dependencies
  PROVE  IsFiniteSet(E) /\ Cardinality(E) \in Nat /\ (Cardinality(E) = 0 <=> E = {})
<1> DEFINE n == Len(spec.dependencies)
<1>0. n \in Nat /\ DOMAIN spec.dependencies = 1..n
  BY RequestTypes
<1>1. IsFiniteSet(DOMAIN spec.dependencies)
  BY <1>0, FS_Interval
<1>2. IsFiniteSet(E)
  BY <1>1, FS_Subset
<1> QED
  BY <1>2, FS_CardinalityType, FS_EmptySet

\* The ids of the request are finitely many; the keys of indegree are among them.
LEMMA KeysFinite ==
  ASSUME TypeOK, JobsGood, Live
  PROVE  /\ IsFiniteSet(DOMAIN indegree)
         /\ JobsRead = Len(spec.jobs) =>
              /\ DOMAIN indegree = JobIds(spec)
              /\ Cardinality(JobIds(spec)) = Len(spec.jobs)
<1> USE DEF JobsGood
<1>1. JobsRead \in Nat /\ JobsRead <= Len(spec.jobs)
  BY RequestTypes
<1> DEFINE q == [i \in 1..JobsRead |-> spec.jobs[i].id]
<1>2. q \in Seq(Ids) /\ DOMAIN q = 1..JobsRead /\ Len(q) = JobsRead
  BY <1>1, RequestTypes
<1>3. ToSet(q) = DOMAIN indegree
  BY <1>2 DEF ToSet
<1>4. \A m, n \in DOMAIN q : q[m] = q[n] => m = n
  BY <1>2
<1>5. IsFiniteSet(DOMAIN indegree) /\ Cardinality(DOMAIN indegree) = JobsRead
  BY <1>2, <1>3, <1>4, CountDistinct
<1>6. JobsRead = Len(spec.jobs) => DOMAIN indegree = JobIds(spec)
  BY RequestTypes DEF JobIds
<1> QED
  BY <1>5, <1>6

-----------------------------------------------------------------------------
\* The checks that fail

\* An error that names a defect of the request ends validate rightly.
LEMMA KeepReject ==
  ASSUME DagInv, NEW v \in Verdict \ {"none", "ok"}, Return(v), Defect(spec, v)
  PROVE  DagInv'
<1> USE DEF Return
<1>1. TypeOK'
  BY DEF DagInv, TypeOK
<1>2. ~ Live' /\ ~ Visiting' /\ pc' = "done" /\ verdict' # "ok"
  BY DEF Live, Visiting
<1>3. CountsGood' /\ JobsGood' /\ EdgesGood' /\ Fresh'
  BY <1>2 DEF CountsGood, JobsGood, EdgesGood, Fresh
<1>4. IndegreeExact' /\ ListedExact' /\ ParentsFirst' /\ NoCycleVisited' /\ AllListed'
  BY <1>2 DEF IndegreeExact, ListedExact, ParentsFirst, NoCycleVisited, AllListed
<1>5. VerdictCorrect'
  BY <1>2 DEF VerdictCorrect
<1> QED
  BY <1>1, <1>3, <1>4, <1>5 DEF DagInv

LEMMA RejectCountsKeeps == ASSUME DagInv, RejectCounts PROVE DagInv'
<1> DEFINE v == CountsProblem(spec)
<1>1. TypeOK
  BY DEF DagInv
<1>2. v \in Verdict \ {"none", "ok"}
  BY DEF RejectCounts, CountsProblem, Verdict
<1>3. Defect(spec, v)
  <2>1. spec.jobs = <<>> \/ Len(spec.jobs) > MaxJobs => Len(spec.jobs) \notin 1..MaxJobs
    BY <1>1, RequestTypes, LimitsAssumption
  <2> QED
    BY <2>1 DEF RejectCounts, CountsProblem, Defect, validate_identifier
<1> QED
  BY <1>2, <1>3, KeepReject DEF RejectCounts

LEMMA RejectJobKeeps == ASSUME DagInv, RejectJob PROVE DagInv'
<1> DEFINE job == spec.jobs[next]
           v == JobProblem(job)
<1>1. TypeOK /\ JobsGood
  BY DEF DagInv
<1>2. next \in DOMAIN spec.jobs /\ pc = "jobs" /\ next \in Nat \ {0}
  BY <1>1, RequestTypes DEF RejectJob, TypeOK
<1>3. job \in JobSpec /\ v # "ok"
  BY <1>1, <1>2, RequestTypes DEF RejectJob
<1>4. v \in Verdict \ {"none", "ok"}
  BY <1>3 DEF JobProblem, validate_payload, Verdict
<1>5. Defect(spec, v)
  <2>1. CASE v = "InvalidIdentifier"
    <3>1. job.id \notin ValidIds
      BY <2>1 DEF JobProblem, validate_payload, validate_identifier
    <3> QED
      BY <1>2, <2>1, <3>1 DEF Defect
  <2>2. CASE v = "PayloadTooLarge"
    <3>1. job.payload.bytes > MaxPayloadBytes
      BY <2>2 DEF JobProblem, validate_payload
    <3> QED
      BY <1>2, <2>2, <3>1 DEF Defect
  <2>3. CASE v = "InvalidDelay"
    <3>1. job.kind = "delay" /\ job.payload.number \notin 0..MaxDelay
      BY <2>3 DEF JobProblem, validate_payload
    <3> QED
      BY <1>2, <2>3, <3>1 DEF Defect
  <2>4. CASE v = "InvalidPolicy"
    <3>1. job.max_attempts \notin 1..20 \/ job.priority \notin -100..100
      BY <2>4 DEF JobProblem, validate_payload
    <3> QED
      BY <1>2, <2>4, <3>1 DEF Defect
  <2>5. CASE v = "DuplicateJob"
    <3>1. job.id \in DOMAIN indegree
      BY <2>5 DEF JobProblem, validate_payload
    <3>2. Live /\ JobsRead = next - 1
      BY <1>1, <1>2 DEF Live, JobsRead, TypeOK
    <3>3. PICK i \in 1..(next - 1) : spec.jobs[i].id = job.id
      BY <1>1, <3>1, <3>2 DEF JobsGood
    <3>4. i \in DOMAIN spec.jobs /\ i # next
      BY <1>1, <1>2, RequestTypes
    <3> QED
      BY <1>2, <2>5, <3>3, <3>4 DEF Defect
  <2> QED
    BY <1>3, <2>1, <2>2, <2>3, <2>4, <2>5 DEF JobProblem, validate_payload
<1> QED
  BY <1>4, <1>5, KeepReject DEF RejectJob

LEMMA RejectEdgeKeeps == ASSUME DagInv, RejectEdge PROVE DagInv'
<1> DEFINE edge == spec.dependencies[next]
           v == EdgeProblem(edge)
<1>1. TypeOK /\ JobsGood
  BY DEF DagInv
<1>2. next \in DOMAIN spec.dependencies /\ pc = "edges"
  BY <1>1, RequestTypes DEF RejectEdge, TypeOK
<1>3. v \in Verdict \ {"none", "ok"}
  BY DEF RejectEdge, EdgeProblem, Verdict
<1>4. DOMAIN indegree = JobIds(spec)
  <2>1. Live /\ JobsRead = Len(spec.jobs)
    BY <1>1, <1>2 DEF Live, JobsRead, TypeOK
  <2> QED
    BY <1>1, <2>1, KeysFinite
<1>5. Defect(spec, v)
  <2>1. CASE edge[1] = edge[2]
    <3> DEFINE S == {edge[2]}
    <3>1. S \in SUBSET {spec.dependencies[k][2] : k \in DOMAIN spec.dependencies}
      BY <1>2
    <3>2. Cyclic(spec)
      BY <1>2, <2>1, <3>1 DEF Cyclic
    <3> QED
      BY <2>1, <3>2 DEF Defect, EdgeProblem
  <2>2. CASE edge[1] # edge[2]
    <3>1. v = "UnknownJob" /\ {edge[1], edge[2]} \ JobIds(spec) # {}
      BY <1>4, <2>2 DEF RejectEdge, EdgeProblem
    <3> QED
      BY <1>2, <3>1 DEF Defect
  <2> QED
    BY <2>1, <2>2
<1> QED
  BY <1>3, <1>5, KeepReject DEF RejectEdge

-----------------------------------------------------------------------------
\* The loops over jobs and edges

\* A step of the checks: nothing is listed yet, and validate goes on.
LEMMA KeepChecking ==
  ASSUME DagInv, spec' = spec, pc \in {"counts", "jobs", "edges"},
         pc' \in {"jobs", "edges"}, UNCHANGED <<queue, order, verdict>>, TypeOK'
  PROVE  /\ verdict = "none" /\ Live /\ Live' /\ ~ Visiting' /\ ~ Visiting
         /\ queue' = <<>> /\ order' = <<>> /\ order = <<>>
         /\ ListedExact' /\ ParentsFirst' /\ NoCycleVisited' /\ AllListed' /\ VerdictCorrect'
<1>1. verdict = "none" /\ verdict' = "none"
  BY DEF DagInv, TypeOK
<1>2. Live /\ Live' /\ ~ Visiting' /\ ~ Visiting
  BY <1>1 DEF Live, Visiting
<1>3. queue' = <<>> /\ order' = <<>> /\ order = <<>>
  BY DEF DagInv, Fresh
<1> QED
  BY <1>1, <1>2, <1>3
     DEF ListedExact, ParentsFirst, NoCycleVisited, AllListed, VerdictCorrect

LEMMA CheckCountsKeeps == ASSUME DagInv, CheckCounts PROVE DagInv'
<1> USE DEF CheckCounts
<1>1. TypeOK /\ CountsGood /\ JobsGood /\ EdgesGood /\ Fresh /\ TypeOK'
  BY DEF DagInv, TypeOK
<1>2. /\ Live /\ Live' /\ ~ Visiting' /\ ~ Visiting /\ queue' = <<>> /\ order' = <<>>
      /\ ListedExact' /\ ParentsFirst' /\ NoCycleVisited' /\ AllListed' /\ VerdictCorrect'
  BY <1>1, KeepChecking
<1>3. CountsGood'
  BY DEF CountsGood, CountsProblem
<1>4. JobsRead = 0 /\ JobsRead' = next - 1
  BY DEF JobsRead
<1>5. JobsGood'
  <2>1. JobsRead' = 0
    BY <1>1, <1>4 DEF Fresh
  <2> QED
    BY <1>1, <1>2, <1>4, <2>1, RequestTypes DEF JobsGood
<1>6. EdgesGood'
  <2>1. EdgesRead' = 0
    BY <1>2 DEF EdgesRead
  <2> QED
    BY <1>1, <2>1, RequestTypes DEF EdgesGood
<1>7. Fresh' /\ IndegreeExact'
  BY <1>1, <1>2 DEF Fresh, IndegreeExact
<1> QED
  BY <1>1, <1>2, <1>3, <1>5, <1>6, <1>7 DEF DagInv

LEMMA CheckJobKeeps == ASSUME DagInv, CheckJob PROVE DagInv'
<1> DEFINE new == spec.jobs[next]
<1>1. TypeOK /\ CountsGood /\ JobsGood /\ EdgesGood /\ Fresh
  BY DEF DagInv
<1>2. /\ pc = "jobs" /\ next \in DOMAIN spec.jobs /\ next \in Nat \ {0}
      /\ new \in JobSpec /\ new.id \in Ids /\ JobProblem(new) = "ok"
      /\ indegree' = [j \in DOMAIN indegree \cup {new.id} |->
                        IF j = new.id THEN 0 ELSE indegree[j]]
      /\ next' = next + 1
      /\ UNCHANGED <<spec, pc, queue, order, verdict>>
  BY <1>1, RequestTypes DEF CheckJob, TypeOK
<1>3. GoodJob(new) /\ new.id \notin DOMAIN indegree
  BY <1>2 DEF JobProblem, GoodJob
<1>4. queue = <<>> /\ order = <<>> /\ \A j \in DOMAIN indegree : indegree[j] = 0
  BY <1>1, <1>2 DEF Fresh
<1>5. /\ DOMAIN indegree' = DOMAIN indegree \cup {new.id}
      /\ \A j \in DOMAIN indegree' : indegree'[j] = 0
  BY <1>2, <1>4
<1>6. TypeOK'
  <2>1. DOMAIN indegree' \subseteq Ids /\ indegree' \in [DOMAIN indegree' -> Nat]
    BY <1>1, <1>2, <1>5 DEF TypeOK
  <2>2. queue' \in Seq(DOMAIN indegree') /\ order' \in Seq(DOMAIN indegree')
    BY <1>2, <1>4
  <2> QED
    BY <1>1, <1>2, <2>1, <2>2 DEF TypeOK
<1>7. /\ Live /\ Live' /\ ~ Visiting' /\ ~ Visiting /\ queue' = <<>> /\ order' = <<>>
      /\ ListedExact' /\ ParentsFirst' /\ NoCycleVisited' /\ AllListed' /\ VerdictCorrect'
  BY <1>2, <1>6, KeepChecking
<1>8. CountsGood' /\ EdgesGood' /\ Fresh' /\ IndegreeExact'
  BY <1>1, <1>2, <1>5, <1>7, RequestTypes
     DEF CountsGood, EdgesGood, EdgesRead, Fresh, IndegreeExact
<1>9. JobsGood'
  <2>1. JobsRead = next - 1 /\ JobsRead' = next
    BY <1>2 DEF JobsRead
  <2>2. 1..next = 1..(next - 1) \cup {next}
    BY <1>2
  <2>3. /\ \A i \in 1..(next - 1) : GoodJob(spec.jobs[i])
        /\ \A i, k \in 1..(next - 1) : spec.jobs[i].id = spec.jobs[k].id => i = k
        /\ DOMAIN indegree = {spec.jobs[i].id : i \in 1..(next - 1)}
    BY <1>1, <1>7, <2>1 DEF JobsGood
  <2>4. \A i \in 1..next : GoodJob(spec.jobs[i])
    BY <1>3, <2>2, <2>3
  <2>5. \A i, k \in 1..next : spec.jobs[i].id = spec.jobs[k].id => i = k
    BY <1>3, <2>2, <2>3
  <2>6. DOMAIN indegree' = {spec.jobs[i].id : i \in 1..next}
    BY <1>5, <2>2, <2>3
  <2>7. next \in 0..Len(spec.jobs)
    BY <1>1, <1>2, RequestTypes
  <2> QED
    BY <1>2, <2>1, <2>4, <2>5, <2>6, <2>7 DEF JobsGood
<1> QED
  BY <1>6, <1>7, <1>8, <1>9 DEF DagInv

LEMMA JobsCheckedKeeps == ASSUME DagInv, JobsChecked PROVE DagInv'
<1>1. TypeOK /\ CountsGood /\ JobsGood /\ EdgesGood /\ Fresh
  BY DEF DagInv
<1>2. /\ pc = "jobs" /\ next > Len(spec.jobs) /\ pc' = "edges" /\ next' = 1
      /\ UNCHANGED <<spec, indegree, queue, order, verdict>>
  BY DEF JobsChecked
<1>3. TypeOK'
  BY <1>1, <1>2 DEF TypeOK
<1>4. /\ Live /\ Live' /\ ~ Visiting' /\ ~ Visiting /\ queue' = <<>> /\ order' = <<>>
      /\ ListedExact' /\ ParentsFirst' /\ NoCycleVisited' /\ AllListed' /\ VerdictCorrect'
  BY <1>2, <1>3, KeepChecking
<1>5. CountsGood'
  BY <1>1, <1>2, <1>4 DEF CountsGood
<1>6. JobsGood'
  <2>1. JobsRead = next - 1 /\ JobsRead' = Len(spec.jobs) /\ JobsRead <= Len(spec.jobs)
    BY <1>1, <1>2, <1>4, RequestTypes DEF JobsRead, JobsGood
  <2>2. JobsRead' = JobsRead
    BY <1>1, <1>2, <2>1, RequestTypes DEF TypeOK
  <2> QED
    BY <1>1, <1>2, <1>4, <2>2 DEF JobsGood, GoodJob
<1>7. EdgesRead' = 0
  BY <1>2, <1>4 DEF EdgesRead
<1>8. EdgesGood' /\ Fresh'
  BY <1>1, <1>2, <1>4, <1>7, RequestTypes DEF EdgesGood, Fresh
<1>9. IndegreeExact'
  <2> SUFFICES ASSUME NEW j \in DOMAIN indegree
               PROVE  indegree'[j] = Cardinality(PendingEdges(j)')
    BY <1>2 DEF IndegreeExact
  <2>1. PendingEdges(j)' = {}
    BY <1>1, <1>2, RequestTypes DEF PendingEdges
  <2>2. indegree'[j] = 0
    BY <1>1, <1>2 DEF Fresh
  <2> QED
    BY <2>1, <2>2, FS_EmptySet
<1> QED
  BY <1>3, <1>4, <1>5, <1>6, <1>8, <1>9 DEF DagInv

LEMMA CheckEdgeKeeps == ASSUME DagInv, CheckEdge PROVE DagInv'
<1> DEFINE e == spec.dependencies[next]
<1>1. TypeOK /\ CountsGood /\ JobsGood /\ EdgesGood /\ Fresh /\ IndegreeExact
  BY DEF DagInv
<1>2. /\ pc = "edges" /\ next \in DOMAIN spec.dependencies /\ next \in Nat \ {0}
      /\ EdgeProblem(e) = "ok"
      /\ indegree' = [indegree EXCEPT ![e[2]] = @ + 1]
      /\ next' = next + 1
      /\ UNCHANGED <<spec, pc, queue, order, verdict>>
  BY <1>1, RequestTypes DEF CheckEdge, TypeOK
<1>3. e[1] # e[2] /\ e[1] \in DOMAIN indegree /\ e[2] \in DOMAIN indegree
  BY <1>2 DEF EdgeProblem
<1>4. TypeOK' /\ DOMAIN indegree' = DOMAIN indegree
  BY <1>1, <1>2, <1>3 DEF TypeOK
<1>5. /\ Live /\ Live' /\ ~ Visiting' /\ ~ Visiting /\ queue' = <<>> /\ order' = <<>>
      /\ order = <<>>
      /\ ListedExact' /\ ParentsFirst' /\ NoCycleVisited' /\ AllListed' /\ VerdictCorrect'
  BY <1>2, <1>4, KeepChecking
<1>6. JobsRead = Len(spec.jobs) /\ JobsRead' = Len(spec.jobs)
  BY <1>2 DEF JobsRead
<1>7. CountsGood' /\ JobsGood' /\ Fresh'
  BY <1>1, <1>2, <1>4, <1>5, <1>6 DEF CountsGood, JobsGood, GoodJob, Fresh
<1>8. EdgesGood'
  <2>1. EdgesRead = next - 1 /\ EdgesRead' = next
    BY <1>2, <1>5 DEF EdgesRead
  <2>2. 1..next = 1..(next - 1) \cup {next}
    BY <1>2
  <2>3. GoodEdge(e)
    BY <1>1, <1>3, <1>5, <1>6, KeysFinite DEF GoodEdge
  <2>4. \A k \in 1..next : GoodEdge(spec.dependencies[k])
    BY <1>1, <1>5, <2>1, <2>2, <2>3 DEF EdgesGood
  <2> QED
    BY <1>1, <1>2, <2>1, <2>4, RequestTypes DEF EdgesGood, GoodEdge
<1>9. IndegreeExact'
  <2> SUFFICES ASSUME NEW j \in DOMAIN indegree
               PROVE  indegree'[j] = Cardinality(PendingEdges(j)')
    BY <1>2, <1>4 DEF IndegreeExact
  <2>1. indegree[j] = Cardinality(PendingEdges(j))
    BY <1>1, <1>2 DEF IndegreeExact
  <2>2. ToSet(order) = {} /\ ToSet(order') = {}
    BY <1>5 DEF ToSet
  <2>3. PendingEdges(j) \in SUBSET DOMAIN spec.dependencies
    BY DEF PendingEdges
  <2>4. IsFiniteSet(PendingEdges(j)) /\ Cardinality(PendingEdges(j)) \in Nat
    BY <1>1, <2>3, EdgeSetsFinite
  <2>5. next \notin PendingEdges(j)
    BY <1>2 DEF PendingEdges
  <2>6. CASE j = e[2]
    <3>1. PendingEdges(j)' = PendingEdges(j) \cup {next}
      BY <1>1, <1>2, <2>2, <2>6, RequestTypes DEF PendingEdges
    <3>2. Cardinality(PendingEdges(j) \cup {next}) = Cardinality(PendingEdges(j)) + 1
      BY <2>4, <2>5, FS_AddElement
    <3>3. indegree'[j] = indegree[j] + 1
      BY <1>1, <1>2, <2>6 DEF TypeOK
    <3> QED
      BY <2>1, <3>1, <3>2, <3>3
  <2>7. CASE j # e[2]
    <3>1. PendingEdges(j)' = PendingEdges(j)
      BY <1>1, <1>2, <2>2, <2>7, RequestTypes DEF PendingEdges
    <3>2. indegree'[j] = indegree[j]
      BY <1>1, <1>2, <2>7 DEF TypeOK
    <3> QED
      BY <2>1, <3>1, <3>2
  <2> QED
    BY <2>6, <2>7
<1> QED
  BY <1>4, <1>5, <1>7, <1>8, <1>9 DEF DagInv

-----------------------------------------------------------------------------
\* The visits of Kahn's algorithm

\* What holds whenever validate visits jobs, in one place.
LEMMA VisitFacts ==
  ASSUME DagInv, pc = "visit"
  PROVE  /\ TypeOK /\ verdict = "none" /\ Live /\ Visiting
         /\ DOMAIN indegree = JobIds(spec) /\ IsFiniteSet(DOMAIN indegree)
         /\ Cardinality(JobIds(spec)) = Len(spec.jobs)
         /\ \A k \in DOMAIN spec.dependencies : GoodEdge(spec.dependencies[k])
         /\ \A j \in DOMAIN indegree : indegree[j] = Cardinality(PendingEdges(j))
         /\ \A j \in DOMAIN indegree : indegree[j] = 0 <=> PendingEdges(j) = {}
         /\ queue \in Seq(DOMAIN indegree) /\ order \in Seq(DOMAIN indegree)
<1>1. TypeOK /\ verdict = "none" /\ Live /\ Visiting
  BY DEF DagInv, TypeOK, Live, Visiting
<1>2. JobsRead = Len(spec.jobs) /\ EdgesRead = Len(spec.dependencies)
  BY <1>1 DEF JobsRead, EdgesRead
<1>3. /\ DOMAIN indegree = JobIds(spec) /\ IsFiniteSet(DOMAIN indegree)
      /\ Cardinality(JobIds(spec)) = Len(spec.jobs)
  BY <1>1, <1>2, KeysFinite DEF DagInv
<1>4. \A k \in DOMAIN spec.dependencies : GoodEdge(spec.dependencies[k])
  BY <1>1, <1>2, RequestTypes DEF DagInv, EdgesGood
<1>5. ASSUME NEW j \in DOMAIN indegree
      PROVE  indegree[j] = Cardinality(PendingEdges(j))
             /\ (indegree[j] = 0 <=> PendingEdges(j) = {})
  <2>1. indegree[j] = Cardinality(PendingEdges(j))
    BY DEF DagInv, IndegreeExact
  <2>2. PendingEdges(j) \in SUBSET DOMAIN spec.dependencies
    BY DEF PendingEdges
  <2> QED
    BY <1>1, <2>1, <2>2, EdgeSetsFinite
<1> QED
  BY <1>1, <1>3, <1>4, <1>5 DEF TypeOK

LEMMA SeedKeeps == ASSUME DagInv, Seed PROVE DagInv'
<1> DEFINE Z == {j \in DOMAIN indegree : indegree[j] = 0}
<1>1. /\ TypeOK /\ CountsGood /\ JobsGood /\ EdgesGood /\ Fresh /\ IndegreeExact
      /\ pc = "edges" /\ next > Len(spec.dependencies) /\ pc' = "visit"
      /\ UNCHANGED <<spec, next, indegree, order, verdict>>
  BY DEF DagInv, Seed
<1>2. PICK q \in SetToSeqs(Z) : Sorted(q) /\ queue' = q
  BY DEF Seed
<1>3. verdict = "none" /\ Live /\ Live' /\ Visiting' /\ ~ Visiting
  BY <1>1 DEF TypeOK, Live, Visiting
<1>4. JobsRead = Len(spec.jobs) /\ JobsRead' = JobsRead
  BY <1>1 DEF JobsRead
<1>5. IsFiniteSet(Z)
  BY <1>1, <1>3, KeysFinite, FS_Subset
<1>6. /\ q \in Seq(Z) /\ ToSet(q) = Z
      /\ \A m, n \in DOMAIN q : q[m] = q[n] => m = n
  BY <1>5, OrderingOf
<1>7. q \in Seq(DOMAIN indegree) /\ \A m \in DOMAIN q : q[m] \in Ids
  BY <1>1, <1>6 DEF TypeOK
<1>8. order = <<>> /\ order' = <<>>
  BY <1>1 DEF Fresh
<1>9. TypeOK'
  BY <1>1, <1>2, <1>7 DEF TypeOK
<1>10. CountsGood' /\ JobsGood' /\ Fresh'
  BY <1>1, <1>3, <1>4 DEF CountsGood, JobsGood, Fresh
<1>11. EdgesGood'
  <2>1. EdgesRead = next - 1 /\ EdgesRead' = Len(spec.dependencies)
    BY <1>1, <1>3 DEF EdgesRead
  <2>2. EdgesRead' = EdgesRead
    BY <1>1, <1>3, <2>1, RequestTypes DEF EdgesGood, TypeOK
  <2> QED
    BY <1>1, <1>3, <2>2 DEF EdgesGood, GoodEdge
<1>12. IndegreeExact'
  <2> SUFFICES ASSUME NEW j \in DOMAIN indegree
               PROVE  indegree'[j] = Cardinality(PendingEdges(j)')
    BY <1>1 DEF IndegreeExact
  <2>1. PendingEdges(j)' = PendingEdges(j)
    BY <1>1, RequestTypes DEF PendingEdges, TypeOK
  <2> QED
    BY <1>1, <2>1 DEF IndegreeExact
<1>13. Listed' = q
  BY <1>2, <1>7, <1>8 DEF Listed
<1>14. \A j \in Ids : LastParent'[j] = 0
  BY <1>8 DEF LastParent, ParentPlaces, EdgesBetween
<1>15. ListedExact'
  <2>3. \A m, n \in DOMAIN Listed' : m < n => Earlier(Listed[m], Listed[n])'
    BY <1>2, <1>7, <1>13, <1>14 DEF Sorted, Earlier
  <2>4. \A m \in DOMAIN Listed' : LastParent[Listed[m]]' \in 0..Len(order')
    BY <1>7, <1>8, <1>13, <1>14
  <2> QED
    BY <1>1, <1>6, <1>13, <2>3, <2>4 DEF ListedExact
<1>16. ToSet(order') = {} /\ DOMAIN order' = {}
  BY <1>8 DEF ToSet
<1>17. ParentsFirst' /\ NoCycleVisited'
  BY <1>16 DEF ParentsFirst, NoCycleVisited
<1>18. AllListed' /\ VerdictCorrect'
  BY <1>1, <1>3 DEF AllListed, VerdictCorrect
<1> QED
  BY <1>9, <1>10, <1>11, <1>12, <1>15, <1>17, <1>18 DEF DagInv

\* If the order falls short of the jobs, the jobs left out are on or below a
\* cycle: each of them has a parent among them.
LEMMA RejectCycleKeeps == ASSUME DagInv, RejectCycle PROVE DagInv'
<1>1. /\ pc = "visit" /\ queue = <<>> /\ Len(order) # Len(spec.jobs) /\ Return("Cycle")
  BY DEF RejectCycle
<1>2. /\ TypeOK /\ Visiting
      /\ DOMAIN indegree = JobIds(spec)
      /\ Cardinality(JobIds(spec)) = Len(spec.jobs)
      /\ \A k \in DOMAIN spec.dependencies : GoodEdge(spec.dependencies[k])
      /\ \A j \in DOMAIN indegree : indegree[j] = 0 <=> PendingEdges(j) = {}
      /\ order \in Seq(DOMAIN indegree)
  BY <1>1, VisitFacts
<1>3. Listed = order
  BY <1>1, <1>2 DEF Listed
<1>4. /\ \A m, n \in DOMAIN order : order[m] = order[n] => m = n
      /\ ToSet(order) = {j \in DOMAIN indegree : indegree[j] = 0}
  BY <1>2, <1>3 DEF DagInv, ListedExact
<1>5. Cardinality(ToSet(order)) = Len(order)
  BY <1>2, <1>4, CountDistinct
<1> DEFINE S == JobIds(spec) \ ToSet(order)
<1>6. S # {}
  <2> SUFFICES ASSUME S = {} PROVE FALSE
    OBVIOUS
  <2>1. ToSet(order) = JobIds(spec)
    BY <1>2, <1>4
  <2> QED
    BY <1>1, <1>2, <1>5, <2>1
<1>7. ASSUME NEW j \in S
      PROVE  \E k \in DOMAIN spec.dependencies :
               spec.dependencies[k][2] = j /\ spec.dependencies[k][1] \in S
  <2>1. PendingEdges(j) # {}
    BY <1>2, <1>4
  <2>2. PICK k \in PendingEdges(j) : TRUE
    BY <2>1
  <2>3. /\ k \in DOMAIN spec.dependencies /\ spec.dependencies[k][2] = j
        /\ spec.dependencies[k][1] \notin ToSet(order)
    BY <2>2 DEF PendingEdges
  <2>4. spec.dependencies[k][1] \in JobIds(spec)
    BY <1>2, <2>3 DEF GoodEdge
  <2> QED
    BY <2>3, <2>4
<1>8. S \in SUBSET {spec.dependencies[k][2] : k \in DOMAIN spec.dependencies}
  BY <1>7
<1>9. Cyclic(spec)
  BY <1>6, <1>7, <1>8 DEF Cyclic
<1> QED
  BY <1>1, <1>9, KeepReject DEF Defect, Verdict

\* A complete order leaves no room for a cycle, and the checks before it no
\* room for the other defects.
LEMMA AcceptKeeps == ASSUME DagInv, Accept PROVE DagInv'
<1>1. /\ pc = "visit" /\ queue = <<>> /\ Len(order) = Len(spec.jobs) /\ Return("ok")
  BY DEF Accept
<1>2. /\ TypeOK /\ verdict = "none" /\ Live /\ Visiting
      /\ DOMAIN indegree = JobIds(spec) /\ IsFiniteSet(DOMAIN indegree)
      /\ Cardinality(JobIds(spec)) = Len(spec.jobs)
      /\ \A k \in DOMAIN spec.dependencies : GoodEdge(spec.dependencies[k])
      /\ order \in Seq(DOMAIN indegree)
  BY <1>1, VisitFacts
<1>3. /\ pc' = "done" /\ verdict' = "ok"
      /\ UNCHANGED <<spec, next, indegree, queue, order>>
  BY <1>1 DEF Return
<1>4. TypeOK'
  BY <1>2, <1>3 DEF TypeOK, Verdict
<1>5. Live' /\ Visiting' /\ JobsRead' = JobsRead /\ EdgesRead' = EdgesRead
      /\ JobsRead = Len(spec.jobs)
  BY <1>1, <1>2, <1>3 DEF Live, Visiting, JobsRead, EdgesRead
<1>6. CountsGood /\ JobsGood /\ EdgesGood /\ ListedExact /\ ParentsFirst /\ NoCycleVisited
  BY DEF DagInv
<1>7. CountsGood' /\ JobsGood' /\ EdgesGood' /\ Fresh' /\ IndegreeExact'
  BY <1>1, <1>2, <1>3, <1>5, <1>6
     DEF CountsGood, JobsGood, EdgesGood, GoodEdge, Fresh, IndegreeExact
<1>8. ListedExact'
  <2>1. Listed' = Listed /\ LastParent' = LastParent
    BY <1>3 DEF Listed, LastParent, ParentPlaces, EdgesBetween
  <2> QED
    BY <1>2, <1>3, <1>6, <2>1 DEF ListedExact, Earlier
<1>9. ParentsFirst' /\ NoCycleVisited'
  BY <1>2, <1>3, <1>6 DEF ParentsFirst, NoCycleVisited, SelfSupporting
<1>10. ToSet(order) = JobIds(spec)
  <2>1. Listed = order
    BY <1>1, <1>2 DEF Listed
  <2>2. \A m, n \in DOMAIN order : order[m] = order[n] => m = n
    BY <1>2, <1>6, <2>1 DEF ListedExact
  <2>3. Cardinality(ToSet(order)) = Len(order)
    BY <1>2, <2>2, CountDistinct
  <2>4. ToSet(order) \in SUBSET JobIds(spec)
    BY <1>2 DEF ToSet
  <2> QED
    BY <1>1, <1>2, <2>3, <2>4, FS_Subset
<1>11. AllListed'
  BY <1>1, <1>3, <1>10 DEF AllListed
<1>12. ~ Cyclic(spec)
  <2> SUFFICES ASSUME NEW S \in SUBSET {spec.dependencies[k][2] : k \in DOMAIN spec.dependencies},
                      S # {}, SelfSupporting(S)
               PROVE  FALSE
    BY DEF Cyclic, SelfSupporting
  <2>1. S \subseteq JobIds(spec)
    BY <1>2 DEF GoodEdge
  <2>2. S \in SUBSET Ids
    BY <1>2, <2>1 DEF TypeOK
  <2>3. S \cap ToSet(order) = {}
    BY <1>2, <1>6, <2>2 DEF NoCycleVisited
  <2> QED
    BY <1>10, <2>1, <2>3
<1>13. \A i \in DOMAIN spec.jobs : GoodJob(spec.jobs[i]) /\ spec.jobs[i] \in JobSpec
  BY <1>2, <1>5, <1>6, RequestTypes DEF JobsGood
<1>14. \A i, k \in DOMAIN spec.jobs : spec.jobs[i].id = spec.jobs[k].id => i = k
  BY <1>2, <1>5, <1>6, RequestTypes DEF JobsGood
<1>15. ASSUME NEW v \in Verdict PROVE ~ Defect(spec, v)
  <2>1. CountsProblem(spec) = "ok"
    BY <1>1, <1>2, <1>6 DEF CountsGood
  <2>2. /\ spec.id \in ValidIds /\ Len(spec.jobs) \in 1..MaxJobs
        /\ ~ (Len(spec.dependencies) > MaxDependencies)
    BY <1>2, <2>1, RequestTypes, LimitsAssumption DEF CountsProblem, validate_identifier
  <2>3. ASSUME NEW i \in DOMAIN spec.jobs
        PROVE  /\ spec.jobs[i].id \in ValidIds
               /\ ~ (spec.jobs[i].payload.bytes > MaxPayloadBytes)
               /\ spec.jobs[i].kind = "delay" => spec.jobs[i].payload.number \in 0..MaxDelay
               /\ spec.jobs[i].max_attempts \in 1..20
               /\ spec.jobs[i].priority \in -100..100
    BY <1>13, <2>3 DEF GoodJob, validate_identifier, validate_payload
  <2>4. \A k \in DOMAIN spec.dependencies :
          {spec.dependencies[k][1], spec.dependencies[k][2]} \ JobIds(spec) = {}
    BY <1>2 DEF GoodEdge
  <2> QED
    BY <1>12, <1>14, <2>2, <2>3, <2>4 DEF Defect
<1>16. VerdictCorrect'
  BY <1>3, <1>15 DEF VerdictCorrect
<1> QED
  BY <1>4, <1>7, <1>8, <1>9, <1>11, <1>16 DEF DagInv

\* A visit takes the head of the queue into the order and appends the jobs whose
\* last parent it was: the list grows at its end.
LEMMA VisitKeeps == ASSUME DagInv, Visit PROVE DagInv'
<1> DEFINE id == Head(queue)
           L == Len(order)
           zero == {j \in DOMAIN indegree : indegree[j] = 0}
           left == [j \in DOMAIN indegree |->
                      indegree[j] - Cardinality(EdgesBetween(id, j))]
           ready == {j \in DOMAIN indegree : EdgesBetween(id, j) # {} /\ left[j] = 0}
<1>1. /\ pc = "visit" /\ queue # <<>> /\ order' = Append(order, id) /\ indegree' = left
      /\ UNCHANGED <<spec, pc, next, verdict>>
  BY DEF Visit
<1>2. PICK q \in SetToSeqs(ready) : Sorted(q) /\ queue' = Tail(queue) \o q
  BY DEF Visit
<1>3. /\ TypeOK /\ verdict = "none" /\ Live /\ Visiting
      /\ DOMAIN indegree = JobIds(spec) /\ IsFiniteSet(DOMAIN indegree)
      /\ \A k \in DOMAIN spec.dependencies : GoodEdge(spec.dependencies[k])
      /\ \A j \in DOMAIN indegree : indegree[j] = Cardinality(PendingEdges(j))
      /\ \A j \in DOMAIN indegree : indegree[j] = 0 <=> PendingEdges(j) = {}
      /\ queue \in Seq(DOMAIN indegree) /\ order \in Seq(DOMAIN indegree)
  BY <1>1, VisitFacts
<1>4. /\ CountsGood /\ JobsGood /\ EdgesGood /\ ListedExact /\ ParentsFirst
      /\ NoCycleVisited
  BY DEF DagInv
<1>5. /\ L \in Nat /\ DOMAIN order = 1..L
      /\ id \in DOMAIN indegree /\ id = queue[1] /\ Len(queue) > 0
      /\ Tail(queue) \in Seq(DOMAIN indegree)
  BY <1>1, <1>3
<1>6. /\ order' \in Seq(DOMAIN indegree) /\ Len(order') = L + 1
      /\ DOMAIN order' = 1..(L + 1) /\ order'[L + 1] = id
      /\ \A m \in 1..L : order'[m] = order[m]
  BY <1>1, <1>3, <1>5
<1>7. /\ Listed \in Seq(DOMAIN indegree)
      /\ DOMAIN Listed = 1..(L + Len(queue))
      /\ \A i \in 1..(L + Len(queue)) :
           Listed[i] = IF i <= L THEN order[i] ELSE queue[i - L]
      /\ ToSet(Listed) = ToSet(order) \cup ToSet(queue)
  BY <1>3, Concatenated DEF Listed
<1>8. /\ \A m, n \in DOMAIN Listed : Listed[m] = Listed[n] => m = n
      /\ ToSet(Listed) = zero
      /\ \A m \in DOMAIN Listed : LastParent[Listed[m]] \in 0..L
      /\ \A m, n \in DOMAIN Listed : m < n => Earlier(Listed[m], Listed[n])
  BY <1>3, <1>4 DEF ListedExact
<1>9. id \notin ToSet(order) /\ id \in zero
  <2>1. L + 1 \in DOMAIN Listed /\ Listed[L + 1] = id
    BY <1>3, <1>5, <1>7
  <2>2. ASSUME NEW m \in 1..L, order[m] = id PROVE FALSE
    <3>1. m \in DOMAIN Listed /\ Listed[m] = id /\ m # L + 1
      BY <1>3, <1>5, <1>7, <2>2
    <3> QED
      BY <1>8, <2>1, <3>1
  <2>3. id \in ToSet(Listed)
    BY <2>1 DEF ToSet
  <2> QED
    BY <1>5, <1>8, <2>2, <2>3 DEF ToSet
<1>10. ToSet(order') = ToSet(order) \cup {id}
  <2>1. 1..(L + 1) = 1..L \cup {L + 1}
    BY <1>5
  <2> QED
    BY <1>5, <1>6, <2>1 DEF ToSet
<1>11. ASSUME NEW j \in DOMAIN indegree
       PROVE  /\ PendingEdges(j)' = PendingEdges(j) \ EdgesBetween(id, j)
              /\ EdgesBetween(id, j) \subseteq PendingEdges(j)
              /\ left[j] = Cardinality(PendingEdges(j)')
              /\ left[j] \in Nat
  <2>1. \A k \in DOMAIN spec.dependencies :
          spec.dependencies[k] = <<id, j>> <=>
            spec.dependencies[k][1] = id /\ spec.dependencies[k][2] = j
    BY <1>3, RequestTypes
  <2>2. PendingEdges(j)' = PendingEdges(j) \ EdgesBetween(id, j)
    BY <1>1, <1>10, <2>1 DEF PendingEdges, EdgesBetween
  <2>3. EdgesBetween(id, j) \subseteq PendingEdges(j)
    BY <1>1, <1>9, <2>1 DEF PendingEdges, EdgesBetween
  <2>4. PendingEdges(j) \in SUBSET DOMAIN spec.dependencies
    BY DEF PendingEdges
  <2>5. IsFiniteSet(PendingEdges(j))
    BY <1>3, <2>4, EdgeSetsFinite
  <2>6. /\ Cardinality(PendingEdges(j)) \in Nat
        /\ Cardinality(EdgesBetween(id, j)) \in Nat
        /\ Cardinality(PendingEdges(j) \ EdgesBetween(id, j))
             = Cardinality(PendingEdges(j)) - Cardinality(EdgesBetween(id, j))
        /\ Cardinality(EdgesBetween(id, j)) <= Cardinality(PendingEdges(j))
    BY <2>3, <2>5, CountRemoved
  <2> QED
    BY <1>3, <2>2, <2>3, <2>6
<1> HIDE DEF left
<1>12. DOMAIN left = DOMAIN indegree
  BY DEF left
<1>13. TypeOK' /\ DOMAIN indegree' = DOMAIN indegree
  <2>1. indegree' \in [DOMAIN indegree' -> Nat] /\ DOMAIN indegree' = DOMAIN indegree
    BY <1>1, <1>11, <1>12 DEF left
  <2>2. IsFiniteSet(ready)
    BY <1>3, FS_Subset
  <2>3. q \in Seq(DOMAIN indegree)
    BY <1>2, <2>2, OrderingOf
  <2>4. queue' \in Seq(DOMAIN indegree)
    BY <1>2, <1>5, <2>3
  <2> QED
    BY <1>1, <1>3, <1>6, <2>1, <2>4 DEF TypeOK
<1>14. \A j \in zero : EdgesBetween(id, j) = {}
  BY <1>3, <1>11
<1>15. /\ {j \in DOMAIN indegree' : indegree'[j] = 0} = zero \cup ready
       /\ zero \cap ready = {}
  <2>1. \A j \in zero : left[j] = 0
    BY <1>3, <1>11, FS_EmptySet
  <2>2. ASSUME NEW j \in DOMAIN indegree, left[j] = 0, j \notin zero PROVE j \in ready
    <3>1. EdgesBetween(id, j) = {} => left[j] = indegree[j]
      BY <1>3, <1>11
    <3> QED
      BY <2>2, <3>1
  <2> QED
    BY <1>1, <1>12, <1>13, <1>14, <2>1, <2>2
<1>16. /\ q \in Seq(ready) /\ ToSet(q) = ready
       /\ \A m, n \in DOMAIN q : q[m] = q[n] => m = n
       /\ q \in Seq(DOMAIN indegree)
  <2>1. IsFiniteSet(ready)
    BY <1>3, FS_Subset
  <2>2. /\ q \in Seq(ready) /\ ToSet(q) = ready
        /\ \A m, n \in DOMAIN q : q[m] = q[n] => m = n
    BY <1>2, <2>1, OrderingOf
  <2> QED
    BY <2>2
<1> DEFINE N == L + Len(queue)
<1>17. /\ DOMAIN Listed' = 1..(N + Len(q))
       /\ \A i \in 1..(N + Len(q)) : Listed'[i] = IF i <= N THEN Listed[i] ELSE q[i - N]
       /\ ToSet(Listed') = ToSet(Listed) \cup ToSet(q)
       /\ N \in Nat /\ Len(q) \in Nat /\ DOMAIN q = 1..Len(q)
  <2>1. Append(order, id) \o (Tail(queue) \o q) = (order \o queue) \o q
    BY <1>1, <1>3, <1>16, MoveHead
  <2>2. Listed' = Listed \o q
    BY <1>1, <1>2, <2>1 DEF Listed
  <2>3. Len(Listed) = N /\ N \in Nat /\ Len(q) \in Nat /\ DOMAIN q = 1..Len(q)
    BY <1>5, <1>7, <1>16
  <2>4. /\ DOMAIN (Listed \o q) = 1..(Len(Listed) + Len(q))
        /\ \A i \in 1..(Len(Listed) + Len(q)) :
             (Listed \o q)[i] = IF i <= Len(Listed) THEN Listed[i] ELSE q[i - Len(Listed)]
        /\ ToSet(Listed \o q) = ToSet(Listed) \cup ToSet(q)
    BY <1>7, <1>16, Concatenated
  <2> QED
    BY <2>2, <2>3, <2>4
<1>18. \A j \in zero : j \in Ids /\ LastParent'[j] = LastParent[j]
  <2> TAKE j \in zero
  <2>1. j \in Ids
    BY <1>3 DEF TypeOK
  <2>2. ParentPlaces'[j] = ParentPlaces[j]
    BY <1>1, <1>5, <1>6, <1>14, <2>1 DEF ParentPlaces, EdgesBetween
  <2> QED
    BY <2>1, <2>2 DEF LastParent
<1>19. \A j \in ready : j \in Ids /\ LastParent'[j] = L + 1
  <2> TAKE j \in ready
  <2>1. j \in Ids
    BY <1>3 DEF TypeOK
  <2>2. ParentPlaces'[j] \subseteq 1..(L + 1) /\ L + 1 \in ParentPlaces'[j]
    BY <1>1, <1>5, <1>6, <2>1 DEF ParentPlaces, EdgesBetween
  <2>3. Max(ParentPlaces'[j]) = L + 1
    BY <1>5, <2>2 DEF Max
  <2> QED
    BY <2>1, <2>2, <2>3 DEF LastParent
<1>20. /\ \A i \in 1..N : Listed'[i] = Listed[i] /\ Listed[i] \in zero
       /\ \A i \in (N + 1)..(N + Len(q)) :
            i - N \in DOMAIN q /\ Listed'[i] = q[i - N] /\ q[i - N] \in ready
  <2>1. ASSUME NEW i \in 1..N PROVE Listed'[i] = Listed[i] /\ Listed[i] \in zero
    <3>1. Listed[i] \in ToSet(Listed)
      BY <1>7, <2>1 DEF ToSet
    <3> QED
      BY <1>8, <1>17, <2>1, <3>1
  <2>2. ASSUME NEW i \in (N + 1)..(N + Len(q))
        PROVE  i - N \in DOMAIN q /\ Listed'[i] = q[i - N] /\ q[i - N] \in ready
    <3>1. i - N \in DOMAIN q /\ i \in 1..(N + Len(q)) /\ ~ (i <= N)
      BY <1>17, <2>2
    <3>2. q[i - N] \in ToSet(q)
      BY <3>1 DEF ToSet
    <3> QED
      BY <1>16, <1>17, <3>1, <3>2
  <2> QED
    BY <2>1, <2>2
<1>21. ListedExact'
  <2>1. ASSUME NEW m \in DOMAIN Listed', NEW n \in DOMAIN Listed',
               Listed'[m] = Listed'[n]
        PROVE  m = n
    <3>1. CASE m <= N /\ n <= N
      BY <1>7, <1>8, <1>17, <1>20, <2>1, <3>1
    <3>2. CASE m > N /\ n > N
      <4>1. m - N \in DOMAIN q /\ n - N \in DOMAIN q /\ q[m - N] = q[n - N]
        BY <1>17, <1>20, <2>1, <3>2
      <4>2. m - N = n - N
        BY <1>16, <4>1
      <4> QED
        BY <1>17, <4>2
    <3>3. CASE m <= N /\ n > N
      BY <1>15, <1>17, <1>20, <2>1, <3>3
    <3>4. CASE m > N /\ n <= N
      BY <1>15, <1>17, <1>20, <2>1, <3>4
    <3> QED
      BY <1>17, <3>1, <3>2, <3>3, <3>4
  <2>2. ToSet(Listed') = {j \in DOMAIN indegree' : indegree'[j] = 0}
    BY <1>8, <1>15, <1>16, <1>17
  <2>3. /\ \A i \in 1..N : /\ LastParent'[Listed'[i]] = LastParent[Listed[i]]
                            /\ LastParent'[Listed'[i]] \in 0..L
        /\ \A i \in (N + 1)..(N + Len(q)) : LastParent'[Listed'[i]] = L + 1
    BY <1>7, <1>8, <1>18, <1>19, <1>20
  <2>4. \A m \in DOMAIN Listed' : LastParent'[Listed'[m]] \in 0..Len(order')
    BY <1>5, <1>6, <1>17, <2>3
  <2>5. ASSUME NEW m \in DOMAIN Listed', NEW n \in DOMAIN Listed', m < n
        PROVE  Earlier(Listed[m], Listed[n])'
    <3>1. CASE n <= N
      <4>1. m \in 1..N /\ n \in 1..N
        BY <1>17, <2>5, <3>1
      <4>2. Earlier(Listed[m], Listed[n])
        BY <1>7, <1>8, <2>5, <4>1
      <4> QED
        BY <1>20, <2>3, <4>1, <4>2 DEF Earlier
    <3>2. CASE m <= N /\ n > N
      <4>1. m \in 1..N /\ n \in (N + 1)..(N + Len(q))
        BY <1>17, <3>2
      <4>2. LastParent'[Listed'[m]] < LastParent'[Listed'[n]]
        BY <1>5, <2>3, <4>1
      <4> QED
        BY <4>2 DEF Earlier
    <3>3. CASE m > N
      <4>1. m \in (N + 1)..(N + Len(q)) /\ n \in (N + 1)..(N + Len(q))
        BY <1>17, <2>5, <3>3
      <4>2. LastParent'[Listed'[m]] = LastParent'[Listed'[n]]
        BY <2>3, <4>1
      <4>3. q[m - N] < q[n - N] /\ Listed'[m] = q[m - N] /\ Listed'[n] = q[n - N]
        BY <1>2, <1>17, <1>20, <2>5, <4>1 DEF Sorted
      <4> QED
        BY <4>2, <4>3 DEF Earlier
    <3> QED
      BY <1>17, <3>1, <3>2, <3>3
  <2> QED
    BY <2>1, <2>2, <2>4, <2>5 DEF ListedExact
<1>22. \A k \in DOMAIN spec.dependencies :
         spec.dependencies[k][2] = id => spec.dependencies[k][1] \in ToSet(order)
  BY <1>1, <1>3, <1>9 DEF PendingEdges
<1>23. ParentsFirst'
  <2> SUFFICES ASSUME NEW n \in 1..(L + 1), NEW k \in DOMAIN spec.dependencies,
                      spec.dependencies[k][2] = order'[n]
               PROVE  \E m \in 1..(n - 1) : order'[m] = spec.dependencies[k][1]
    BY <1>1, <1>6 DEF ParentsFirst
  <2>1. CASE n <= L
    <3>1. n \in DOMAIN order /\ order'[n] = order[n]
      BY <1>5, <1>6, <2>1
    <3>2. PICK m \in 1..(n - 1) : order[m] = spec.dependencies[k][1]
      BY <1>3, <1>4, <3>1 DEF ParentsFirst
    <3> QED
      BY <1>5, <1>6, <2>1, <3>2
  <2>2. CASE n = L + 1
    <3>1. PICK m \in 1..L : order[m] = spec.dependencies[k][1]
      BY <1>5, <1>6, <1>22, <2>2 DEF ToSet
    <3> QED
      BY <1>5, <1>6, <2>2, <3>1
  <2> QED
    BY <1>5, <2>1, <2>2
<1>24. NoCycleVisited'
  <2> SUFFICES ASSUME NEW S \in SUBSET Ids, SelfSupporting(S)
               PROVE  S \cap ToSet(order') = {}
    BY <1>1 DEF NoCycleVisited, SelfSupporting
  <2>1. S \cap ToSet(order) = {}
    BY <1>3, <1>4 DEF NoCycleVisited
  <2>2. id \notin S
    BY <1>22, <2>1 DEF SelfSupporting
  <2> QED
    BY <1>10, <2>1, <2>2
<1>25. Live' /\ Visiting' /\ JobsRead' = JobsRead /\ EdgesRead' = EdgesRead
  BY <1>1, <1>3 DEF Live, Visiting, JobsRead, EdgesRead
<1>26. CountsGood' /\ JobsGood' /\ EdgesGood' /\ Fresh'
  BY <1>1, <1>3, <1>4, <1>13, <1>25 DEF CountsGood, JobsGood, EdgesGood, GoodEdge, Fresh
<1>27. IndegreeExact'
  BY <1>1, <1>11, <1>13 DEF IndegreeExact
<1>28. AllListed' /\ VerdictCorrect'
  BY <1>1, <1>3 DEF AllListed, VerdictCorrect
<1> QED
  BY <1>13, <1>21, <1>23, <1>24, <1>26, <1>27, <1>28 DEF DagInv

-----------------------------------------------------------------------------
\* The theorems

LEMMA InitEstablishes == ASSUME Init PROVE DagInv
<1>1. TypeOK /\ DOMAIN indegree = {} /\ order = <<>> /\ queue = <<>> /\ pc = "counts"
      /\ verdict = "none" /\ next = 1
  BY SpecsAssumption DEF Init, TypeOK, Verdict
<1>2. Live /\ ~ Visiting /\ JobsRead = 0 /\ EdgesRead = 0
  BY <1>1 DEF Live, Visiting, JobsRead, EdgesRead
<1>3. CountsGood /\ JobsGood /\ EdgesGood /\ Fresh /\ IndegreeExact
  BY <1>1, <1>2, RequestTypes
     DEF CountsGood, JobsGood, EdgesGood, Fresh, IndegreeExact
<1>4. ListedExact /\ ParentsFirst /\ NoCycleVisited /\ AllListed /\ VerdictCorrect
  BY <1>1, <1>2 DEF ListedExact, ParentsFirst, NoCycleVisited, AllListed, VerdictCorrect
<1> QED
  BY <1>1, <1>3, <1>4 DEF DagInv

LEMMA StepKeeps == ASSUME DagInv, [Next]_vars PROVE DagInv'
<1>1. CASE UNCHANGED vars
  <2> USE <1>1 DEF vars
  <2>1. TypeOK' /\ CountsGood' /\ Fresh' /\ VerdictCorrect' /\ AllListed'
    BY DEF DagInv, TypeOK, CountsGood, Live, Fresh, VerdictCorrect, AllListed
  <2>2. JobsGood' /\ EdgesGood'
    BY DEF DagInv, JobsGood, EdgesGood, GoodEdge, Live, JobsRead, EdgesRead, Visiting
  <2>3. IndegreeExact' /\ ParentsFirst' /\ NoCycleVisited'
    BY DEF DagInv, IndegreeExact, PendingEdges, ParentsFirst, NoCycleVisited, Visiting,
           SelfSupporting
  <2>4. Listed' = Listed /\ LastParent' = LastParent
    BY DEF Listed, LastParent, ParentPlaces, EdgesBetween
  <2>5. ListedExact'
    BY <2>4 DEF DagInv, ListedExact, Earlier, Visiting
  <2> QED
    BY <2>1, <2>2, <2>3, <2>5 DEF DagInv
<1>2. CASE Next
  BY <1>2, CheckCountsKeeps, RejectCountsKeeps, CheckJobKeeps, RejectJobKeeps,
     JobsCheckedKeeps, CheckEdgeKeeps, RejectEdgeKeeps, SeedKeeps, VisitKeeps,
     AcceptKeeps, RejectCycleKeeps
     DEF Next
<1> QED
  BY <1>1, <1>2

\* DagInv holds throughout validate, for every request: Init establishes it and
\* every iteration of the loops preserves it.
THEOREM DagInvHolds == Spec => []DagInv
<1>1. Init => DagInv
  BY InitEstablishes
<1>2. DagInv /\ [Next]_vars => DagInv'
  BY StepKeeps
<1> QED
  BY <1>1, <1>2, PTL DEF Spec

\* The locals of validate keep their types; the unsigned counters never
\* underflow, whatever the number of jobs and edges.
THEOREM ValidationTypes == Spec => []TypeOK
<1>1. DagInv => TypeOK
  BY DEF DagInv
<1> QED
  BY <1>1, DagInvHolds, PTL

\* The counters of Kahn's algorithm are exact for every list of edges, with
\* repetitions: no job is queued before its last parent was visited.
THEOREM CountersExact == Spec => []IndegreeExact
<1>1. DagInv => IndegreeExact
  BY DEF DagInv
<1> QED
  BY <1>1, DagInvHolds, PTL

\* The verdict is right for every request: validate accepts those without a
\* defect, cycles included, and names a defect of each one it rejects.
THEOREM VerdictHolds == Spec => []VerdictCorrect
<1>1. DagInv => VerdictCorrect
  BY DEF DagInv
<1> QED
  BY <1>1, DagInvHolds, PTL

\* What an accepted request satisfies, and its order.
LEMMA Accepted ==
  ASSUME DagInv, verdict = "ok"
  PROVE  /\ TypeOK /\ Live /\ Visiting /\ Listed = order
         /\ \A i \in DOMAIN spec.jobs : GoodJob(spec.jobs[i]) /\ spec.jobs[i] \in JobSpec
<1>1. TypeOK /\ Live /\ Visiting /\ pc = "done" /\ queue = <<>> /\ order \in Seq(DOMAIN indegree)
  BY DEF DagInv, TypeOK, Live, Visiting, AllListed
<1>2. Listed = order
  BY <1>1 DEF Listed
<1>3. JobsRead = Len(spec.jobs)
  BY <1>1 DEF JobsRead
<1> QED
  BY <1>1, <1>2, <1>3, RequestTypes DEF DagInv, JobsGood

\* The order that validate returns is a topological order of the jobs of the
\* request, each of them once.
THEOREM OrderIsTopological == Spec => []OrderTopological
<1>1. ASSUME DagInv PROVE OrderTopological
  <2> SUFFICES ASSUME verdict = "ok"
               PROVE  /\ ToSet(order) = JobIds(spec)
                      /\ \A m, n \in DOMAIN order : order[m] = order[n] => m = n
                      /\ \A k \in DOMAIN spec.dependencies, m, n \in DOMAIN order :
                           /\ order[m] = spec.dependencies[k][1]
                           /\ order[n] = spec.dependencies[k][2]
                           => m < n
    BY DEF OrderTopological
  <2>1. TypeOK /\ Visiting /\ Listed = order
    BY <1>1, Accepted
  <2>2. \A m, n \in DOMAIN order : order[m] = order[n] => m = n
    BY <1>1, <2>1 DEF DagInv, ListedExact
  <2>3. ASSUME NEW k \in DOMAIN spec.dependencies,
               NEW m \in DOMAIN order, NEW n \in DOMAIN order,
               order[m] = spec.dependencies[k][1], order[n] = spec.dependencies[k][2]
        PROVE  m < n
    <3>1. PICK l \in 1..(n - 1) : order[l] = spec.dependencies[k][1]
      BY <1>1, <2>1, <2>3 DEF DagInv, ParentsFirst
    <3>2. DOMAIN order = 1..Len(order) /\ Len(order) \in Nat
      BY <2>1 DEF TypeOK
    <3>3. l \in DOMAIN order /\ l < n
      BY <2>3, <3>1, <3>2
    <3> QED
      BY <2>2, <2>3, <3>1, <3>3
  <2> QED
    BY <1>1, <2>2, <2>3 DEF DagInv, AllListed
<1>2. DagInv => OrderTopological
  BY <1>1
<1> QED
  BY <1>2, DagInvHolds, PTL

\* The order returned depends on the graph alone, not on the order of the lists
\* in the request nor on the iteration order of the hash map.
THEOREM OrderIsStable == Spec => []OrderStable
<1>1. ASSUME DagInv PROVE OrderStable
  BY <1>1, Accepted DEF DagInv, OrderStable, ListedExact, Earlier
<1>2. DagInv => OrderStable
  BY <1>1
<1> QED
  BY <1>2, DagInvHolds, PTL

\* A worker can execute whatever validate admits; only an upper-case form that
\* is longer than its payload can be too long.
THEOREM AdmittedCanRun == Spec => []AdmittedRuns
<1>1. ASSUME DagInv, verdict = "ok", NEW i \in DOMAIN spec.jobs
      PROVE  LET job == spec.jobs[i]
             IN \/ execute(job.kind, job.payload) = "ok"
                \/ /\ execute(job.kind, job.payload) = "ResultTooLarge"
                   /\ job.kind = "uppercase"
                   /\ job.payload.upper_bytes > job.payload.bytes
  <2> DEFINE job == spec.jobs[i]
  <2>1. GoodJob(job) /\ job \in JobSpec
    BY <1>1, Accepted
  <2>2. /\ validate_payload(job.kind, job.payload) = "ok"
        /\ job.payload.bytes \in Nat /\ job.payload.upper_bytes \in Nat
        /\ job.kind \in {"delay", "checksum", "uppercase"}
        /\ job.payload.bytes <= MaxPayloadBytes
    BY <2>1, PayloadAssumption DEF GoodJob, JobSpec, Payload, JobKind, validate_payload
  <2>3. CASE job.kind = "uppercase"
    <3>1. OutputBytes(job.kind, job.payload) = job.payload.upper_bytes
      BY <2>3 DEF OutputBytes
    <3> QED
      BY <2>2, <2>3, <3>1, PayloadAssumption DEF execute
  <2>4. CASE job.kind # "uppercase"
    <3>1. OutputBytes(job.kind, job.payload) \in {12, 64}
      BY <2>2, <2>4 DEF OutputBytes
    <3> QED
      BY <2>2, <3>1, PayloadAssumption, ResultsFitAssumption DEF execute
  <2> QED
    BY <2>3, <2>4
<1>2. DagInv => AdmittedRuns
  BY <1>1 DEF AdmittedRuns
<1> QED
  BY <1>2, DagInvHolds, PTL
=============================================================================
