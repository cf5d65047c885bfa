---------------------------- MODULE MCScheduler ----------------------------
(***************************************************************************)
(* Small instances of Scheduler.  Join: in one DAG, a and b precede c and  *)
(* the edge from a to c is given twice; e is a DAG of its own.  Pair: two  *)
(* independent jobs, the second one more urgent.                           *)
(***************************************************************************)
EXTENDS SchedulerInv

JoinEdges == <<<<"a", "c">>, <<"a", "c">>, <<"b", "c">>>>
NoEdges == <<>>

TwoDags ==
  LET first == CHOOSE d \in Dags : TRUE
      second == CHOOSE d \in Dags : d # first
  IN [j \in Jobs |-> IF j = "e" THEN second ELSE first]
RetryFirst == [j \in Jobs |-> IF j = "a" THEN 2 ELSE 1]
OneAttempt == [j \in Jobs |-> 1]
LaterIsUrgent == [j \in Jobs |-> IF j = "a" THEN 0 ELSE 5]
Alphabetical ==
  [j \in Jobs |-> CASE j = "a" -> 1 [] j = "b" -> 2 [] j = "c" -> 3 [] OTHER -> 4]
Spread == [j \in Jobs |-> IF j = "a" THEN 5 ELSE 7]
SequenceTokens == Jobs \X (1..MaxSequence)
=============================================================================
