-------------------------- MODULE MCDagValidation --------------------------
(***************************************************************************)
(* The requests that validation is checked on: every graph on four jobs,   *)
(* every list of at most three edges between three jobs and an unknown one *)
(* (self-edges and repetitions included), and every list of at most three  *)
(* jobs drawn from good ones and ones with a single defect.                *)
(***************************************************************************)
EXTENDS DagValidationInv

Text == [bytes |-> 4, number |-> NotANumber, upper_bytes |-> 4]

Job(i) == [id |-> i, kind |-> "uppercase", payload |-> Text,
           max_attempts |-> 3, priority |-> 0]

GoodJobs(n) == [i \in 1..n |-> Job(i)]

Request(js, deps) == [id |-> 1, jobs |-> js, dependencies |-> deps]

FourJobPairs == {e \in (1..4) \X (1..4) : e[1] # e[2]}

\* The edges come in the opposite order of the jobs' ids.
Descending == [k \in 1..16 |-> <<4 - ((k - 1) % 4), 4 - ((k - 1) \div 4)>>]
EdgeList(E) == SelectSeq(Descending, LAMBDA e : e \in E)

AllGraphs == {Request(GoodJobs(4), EdgeList(E)) : E \in SUBSET FourJobPairs}

Unknown == 5
EdgeLists ==
  {Request(GoodJobs(3), deps) :
     deps \in SeqOf(({1, 2, 3, Unknown} \X {1, 2, 3, Unknown}), 3)}

Number(n) == [bytes |-> 4, number |-> n, upper_bytes |-> 4]

JobKindsTried ==
  {Job(1), Job(2), Job(3),
   [Job(1) EXCEPT !.id = 9],
   [Job(1) EXCEPT !.payload.bytes = MaxPayloadBytes],
   [Job(1) EXCEPT !.payload.bytes = MaxPayloadBytes + 1],
   [Job(2) EXCEPT !.payload.upper_bytes = MaxPayloadBytes + 1],
   [Job(2) EXCEPT !.kind = "delay"],
   [Job(2) EXCEPT !.kind = "delay", !.payload = Number(MaxDelay)],
   [Job(2) EXCEPT !.kind = "delay", !.payload = Number(MaxDelay + 1)],
   [Job(2) EXCEPT !.kind = "checksum", !.max_attempts = 20, !.priority = -100],
   [Job(3) EXCEPT !.max_attempts = 0],
   [Job(3) EXCEPT !.max_attempts = 21],
   [Job(3) EXCEPT !.priority = 101]}

JobLists == {Request(js, <<>>) : js \in SeqOf(JobKindsTried, 3)}

Oversized ==
  {Request(GoodJobs(5), <<>>),
   Request(GoodJobs(2), [k \in 1..MaxDependencies |-> <<1, 2>>]),
   Request(GoodJobs(2), [k \in 1..(MaxDependencies + 1) |-> <<1, 2>>]),
   [Request(GoodJobs(2), <<>>) EXCEPT !.id = 9]}

AllRequests == AllGraphs \cup EdgeLists \cup JobLists \cup Oversized
=============================================================================
