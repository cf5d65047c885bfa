------------------------------ MODULE MCStore ------------------------------
(***************************************************************************)
(* Small instances of Store.  Join: parents a and b share the child c.     *)
(* Chain: a then b.  Rejected: beside the join a DAG of e then f, whose    *)
(* request names the edge twice.  Identifiers rank alphabetically.         *)
(***************************************************************************)
EXTENDS StoreInv

JoinEdges == <<<<"a", "c">>, <<"b", "c">>>>
RejectedEdges == JoinEdges \o <<<<"e", "f">>, <<"e", "f">>>>
ChainEdges == <<<<"a", "b">>>>

OneDag == [j \in Jobs |-> CHOOSE d \in Dags : TRUE]
JoinAndRejected ==
  LET first == CHOOSE d \in Dags : TRUE
      second == CHOOSE d \in Dags : d # first
  IN [j \in Jobs |-> IF j \in {"a", "b", "c"} THEN first ELSE second]
OneAttempt == [j \in Jobs |-> 1]
RetryFirst == [j \in Jobs |-> IF j = "a" THEN 2 ELSE 1]
SamePriority == [j \in Jobs |-> 0]
Alphabetical == [j \in Jobs |-> CASE j = "a" -> 1 [] j = "b" -> 2 [] j = "c" -> 3
                                     [] j = "e" -> 4 [] OTHER -> 5]

SessionSymmetry == Permutations(Sessions)
SessionOwnerSymmetry == Permutations(Sessions) \cup Permutations(Owners)
=============================================================================
