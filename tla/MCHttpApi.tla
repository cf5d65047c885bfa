----------------------------- MODULE MCHttpApi -----------------------------
(***************************************************************************)
(* A small instance of HttpApi: two DAGs of two jobs, a then b, and e then *)
(* f with the edge named twice in the request.                             *)
(***************************************************************************)
EXTENDS HttpApi

ApiEdges == <<<<"a", "b">>, <<"e", "f">>, <<"e", "f">>>>
ApiDags ==
  LET first == CHOOSE d \in Dags : TRUE
      second == CHOOSE d \in Dags : d # first
  IN [j \in Jobs |-> IF j \in {"a", "b"} THEN first ELSE second]
OneAttempt == [j \in Jobs |-> 1]
SamePriority == [j \in Jobs |-> 0]
Alphabetical ==
  [j \in Jobs |-> CASE j = "a" -> 1 [] j = "b" -> 2 [] j = "e" -> 3 [] OTHER -> 4]
=============================================================================
