--------------------------- MODULE MCWorkerFleet ---------------------------
(***************************************************************************)
(* A small instance of WorkerFleet: a, which may be tried twice, then b,   *)
(* whose result is too long; c, which takes longer than its lease.         *)
(***************************************************************************)
EXTENDS WorkerFleetInv

FleetEdges == <<<<"a", "b">>>>
FleetDags ==
  LET first == CHOOSE d \in Dags : TRUE
      second == CHOOSE d \in Dags : d # first
  IN [j \in Jobs |-> IF j \in {"a", "b"} THEN first ELSE second]
FleetAttempts == [j \in Jobs |-> IF j = "b" THEN 1 ELSE 2]
FleetKinds == [j \in Jobs |-> IF j = "b" THEN "uppercase" ELSE "delay"]
FleetPayloads ==
  [j \in Jobs |->
     CASE j = "a" -> [bytes |-> 1, number |-> 1, upper_bytes |-> 1]
       [] j = "b" -> [bytes |-> MaxPayloadBytes, number |-> NotANumber,
                      upper_bytes |-> MaxPayloadBytes + 1]
       [] OTHER   -> [bytes |-> 1, number |-> LeaseTicks, upper_bytes |-> 1]]
SamePriority == [j \in Jobs |-> 0]
Alphabetical == [j \in Jobs |-> CASE j = "a" -> 1 [] j = "b" -> 2 [] OTHER -> 3]
=============================================================================
