-------------------------- MODULE ReadSideProofs --------------------------
(***************************************************************************)
(* Proofs about the dashboard, the snapshot and the walk over the pages,   *)
(* for any number of DAGs and of overlapping refreshes.                    *)
(***************************************************************************)
EXTENDS ReadSide, TLAPS

\* A refresh that awaits nothing has forgotten what it worked with.
Shape ==
  /\ DOMAIN refresh = Refreshes
  /\ refresh = [f \in Refreshes |-> refresh[f]]
  /\ \A f \in Refreshes :
       refresh[f].awaits = "nothing" => refresh[f] = Idle

\* The latest refresh that met no other one is still the only one, and after
\* the list it works with the selected DAG, the first of the options.
AloneOK ==
  alone =>
    /\ \A f, g \in Refreshes : refresh[f] # Idle /\ refresh[g] # Idle => f = g
    /\ \A f \in Refreshes :
         refresh[f].awaits \in {"exists", "rows", "snapshot"} =>
           selected = refresh[f].dag /\ selected = Head(options)

DashboardInv == Shape /\ AloneOK /\ SettledWhenIdle /\ ShownIsNamed

\* The DAG of a snapshot existed when its first statement ran: it exists still
\* or was deleted since.
SnapshotOK ==
  /\ dags = rows
  /\ \A f \in Refreshes : refresh[f].awaits = "rows" => refresh[f].dag \in dags \/ f \in gone
  /\ NoEmptyDag

-----------------------------------------------------------------------------
\* A refresh that awaits something is not idle.
LEMMA AwaitsNotIdle == ASSUME NEW r, r.awaits # "nothing" PROVE r # Idle
BY DEF Idle, Awaiting

\* A step of one refresh that leaves it in flight leaves not all idle.
LEMMA InFlight ==
  ASSUME Shape, NEW f \in Refreshes, NEW r, r.awaits # "nothing",
         refresh' = [refresh EXCEPT ![f] = r]
  PROVE  ~AllIdle' /\ refresh'[f] = r
<1>1. refresh'[f] = r
  BY DEF Shape
<1>2. refresh'[f] # Idle
  BY <1>1, AwaitsNotIdle
<1>3. QED
  BY <1>1, <1>2 DEF AllIdle, Idle, Awaiting

\* A step of one refresh preserves the shape of all of them.
LEMMA ContinueShape ==
  ASSUME Shape, NEW f \in Refreshes, NEW r,
         r.awaits = "nothing" => r = Idle,
         refresh' = [refresh EXCEPT ![f] = r]
  PROVE  Shape'
<1>1. DOMAIN refresh' = Refreshes /\ refresh' = [g \in Refreshes |-> refresh'[g]]
  BY DEF Shape
<1>2. \A g \in Refreshes : refresh'[g] = IF g = f THEN r ELSE refresh[g]
  BY DEF Shape
<1>3. ASSUME NEW g \in Refreshes
      PROVE  refresh'[g].awaits = "nothing" => refresh'[g] = Idle
  <2>1. CASE g = f
    BY <1>2, <2>1
  <2>2. CASE g # f
    BY <1>2, <2>2 DEF Shape
  <2>3. QED
    BY <2>1, <2>2
<1>4. QED
  BY <1>1, <1>3 DEF Shape, Idle, Awaiting

-----------------------------------------------------------------------------
\* A step that leaves a refresh in flight and the page as it was, and does not
\* put it to work with another DAG once it has one.
LEMMA AnswerPreserves ==
  ASSUME DashboardInv, NEW f \in Refreshes, NEW r,
         refresh[f].awaits # "nothing", r.awaits # "nothing",
         r.awaits \in {"exists", "rows", "snapshot"} =>
           /\ refresh[f].awaits \in {"exists", "rows", "snapshot"}
           /\ r.dag = refresh[f].dag,
         refresh' = [refresh EXCEPT ![f] = r], UNCHANGED page
  PROVE  DashboardInv'
<1> USE DEF DashboardInv
<1>1. Shape'
  BY ContinueShape
<1>2. ~AllIdle'
  BY InFlight
<1>3. \A g \in Refreshes : refresh'[g] = IF g = f THEN r ELSE refresh[g]
  BY DEF Shape
<1>4. refresh[f] # Idle
  BY AwaitsNotIdle
<1>5. AloneOK'
  <2>1. SUFFICES ASSUME alone PROVE AloneOK'
    BY DEF AloneOK, page
  <2>2. \A g \in Refreshes : refresh'[g] # Idle => g = f
    BY <1>3, <1>4, <2>1 DEF AloneOK
  <2>3. \A g \in Refreshes : refresh'[g].awaits \in {"exists", "rows", "snapshot"} =>
          selected = refresh'[g].dag /\ selected = Head(options)
    BY <1>3, <2>1 DEF AloneOK
  <2>4. QED
    BY <2>2, <2>3 DEF AloneOK, page, Idle, Awaiting
<1>6. QED
  BY <1>1, <1>2, <1>5 DEF SettledWhenIdle, ShownIsNamed

LEMMA AnswerListPreserves ==
  ASSUME DashboardInv, NEW f \in Refreshes, AnswerList(f)
  PROVE  DashboardInv'
<1>0. PICK items \in list_dags(0, DashboardLimit) :
        Continue(f, Awaiting("page", items, Null, FALSE))
  BY DEF AnswerList
<1> DEFINE r == Awaiting("page", items, Null, FALSE)
<1>1. refresh' = [refresh EXCEPT ![f] = r] /\ UNCHANGED page
  BY <1>0 DEF AnswerList, Continue, DashboardInv, Shape
<1>2. r.awaits = "page" /\ refresh[f].awaits = "list"
  BY DEF AnswerList, Awaiting
<1> HIDE DEF r
<1>3. QED
  BY <1>1, <1>2, AnswerPreserves

LEMMA AnswerExistsPreserves ==
  ASSUME DashboardInv, NEW f \in Refreshes, AnswerExists(f)
  PROVE  DashboardInv'
<1> DEFINE r == Awaiting("rows", <<>>, refresh[f].dag, FALSE)
<1>1. refresh' = [refresh EXCEPT ![f] = r] /\ UNCHANGED page
  BY DEF AnswerExists, Continue, DashboardInv, Shape
<1>2. /\ r.awaits = "rows"
      /\ r.dag = refresh[f].dag /\ refresh[f].awaits = "exists"
  BY DEF AnswerExists, Awaiting
<1> HIDE DEF r
<1>3. QED
  BY <1>1, <1>2, AnswerPreserves

LEMMA AnswerRowsPreserves ==
  ASSUME DashboardInv, NEW f \in Refreshes, AnswerRows(f)
  PROVE  DashboardInv'
<1> DEFINE r == Awaiting("snapshot", <<>>, refresh[f].dag, refresh[f].dag \in rows)
<1>1. refresh' = [refresh EXCEPT ![f] = r] /\ UNCHANGED page
  BY DEF AnswerRows, Continue, DashboardInv, Shape
<1>2. /\ r.awaits = "snapshot"
      /\ r.dag = refresh[f].dag /\ refresh[f].awaits = "rows"
  BY DEF AnswerRows, Awaiting
<1> HIDE DEF r
<1>3. QED
  BY <1>1, <1>2, AnswerPreserves

LEMMA ReceiveListPreserves ==
  ASSUME DashboardInv, NEW f \in Refreshes, ReceiveList(f)
  PROVE  DashboardInv'
<1> USE DEF DashboardInv
<1> DEFINE r == Awaiting("exists", <<>>, Head(refresh[f].ids), FALSE)
<1>1. /\ refresh' = [refresh EXCEPT ![f] = r]
      /\ options' = refresh[f].ids /\ selected' = Head(refresh[f].ids)
      /\ alone' = alone
  BY DEF ReceiveList, renderDagList, Continue, Shape
<1>2. /\ r.awaits = "exists"
      /\ r.dag = selected' /\ selected' = Head(options') /\ refresh[f].awaits = "page"
  BY <1>1 DEF ReceiveList, Awaiting
<1> HIDE DEF r
<1>3. Shape' /\ ~AllIdle'
  BY <1>1, <1>2, ContinueShape, InFlight
<1>4. \A g \in Refreshes : refresh'[g] = IF g = f THEN r ELSE refresh[g]
  BY <1>1 DEF Shape
<1>5. refresh[f] # Idle
  BY <1>2, AwaitsNotIdle
<1>6. AloneOK'
  <2>1. SUFFICES ASSUME alone PROVE AloneOK'
    BY <1>1 DEF AloneOK
  <2>2. \A g \in Refreshes : refresh'[g] # Idle => g = f
    BY <1>4, <1>5, <2>1 DEF AloneOK
  <2>3. \A g \in Refreshes : refresh'[g].awaits = "nothing" \/ g = f
    BY <2>2 DEF Idle, Awaiting
  <2>4. \A g \in Refreshes : refresh'[g].awaits \in {"exists", "rows", "snapshot"} =>
          selected' = refresh'[g].dag /\ selected' = Head(options')
    BY <1>2, <1>4, <2>3
  <2>5. QED
    BY <2>2, <2>4 DEF AloneOK, Idle, Awaiting
<1>7. QED
  BY <1>3, <1>6 DEF SettledWhenIdle, ShownIsNamed

\* The facts that hold as soon as a refresh has begun.
LEMMA BeginPreserves ==
  ASSUME DashboardInv, NEW f \in Refreshes, Begin(f)
  PROVE  DashboardInv'
<1> USE DEF DashboardInv
<1> DEFINE r == Awaiting("list", <<>>, Null, FALSE)
<1>1. refresh' = [refresh EXCEPT ![f] = r]
  BY DEF Begin, Shape
<1>2. r.awaits = "list"
  BY DEF Awaiting
<1> HIDE DEF r
<1>3. Shape' /\ ~AllIdle'
  BY <1>1, <1>2, ContinueShape, InFlight
<1>4. AloneOK'
  <2>1. SUFFICES ASSUME AllIdle PROVE AloneOK'
    BY DEF AloneOK, Begin
  <2>2. \A g \in Refreshes : g # f => refresh'[g] = Idle
    BY <1>1, <2>1 DEF Shape, AllIdle
  <2>3. refresh'[f].awaits = "list"
    BY <1>1, <1>2 DEF Shape
  <2>4. \A g \in Refreshes : refresh'[g].awaits \in {"nothing", "list"}
    BY <2>2, <2>3 DEF Idle, Awaiting
  <2>5. QED
    BY <2>2, <2>4 DEF AloneOK, Idle, Awaiting
<1>5. QED
  BY <1>3, <1>4 DEF SettledWhenIdle, ShownIsNamed

\* A refresh ends: the button works and the status says something else.
LEMMA EndPreserves ==
  ASSUME DashboardInv, NEW f \in Refreshes, refresh[f] # Idle,
         refresh' = [refresh EXCEPT ![f] = Idle], enabled' = TRUE,
         status' # <<"refreshing">>, UNCHANGED alone, ShownIsNamed',
         alone => \A g \in Refreshes : g # f => refresh[g] = Idle
  PROVE  DashboardInv'
<1> USE DEF DashboardInv
<1>1. Shape'
  BY ContinueShape DEF Idle, Awaiting
<1>2. AloneOK'
  <2>1. SUFFICES ASSUME alone PROVE AloneOK'
    BY DEF AloneOK
  <2>2. \A g \in Refreshes : refresh'[g] = Idle
    BY <2>1 DEF Shape
  <2>3. \A g \in Refreshes : refresh'[g].awaits = "nothing"
    BY <2>2 DEF Idle, Awaiting
  <2>4. QED
    BY <2>2, <2>3 DEF AloneOK, Idle, Awaiting
<1>3. QED
  BY <1>1, <1>2 DEF SettledWhenIdle

\* A refresh that met no other one is the only one in flight.
LEMMA OnlyOne ==
  ASSUME AloneOK, alone, NEW f \in Refreshes, refresh[f] # Idle
  PROVE  \A g \in Refreshes : g # f => refresh[g] = Idle
BY DEF AloneOK

LEMMA ReceiveEmptyListPreserves ==
  ASSUME DashboardInv, NEW f \in Refreshes, ReceiveEmptyList(f)
  PROVE  DashboardInv'
<1>1. refresh[f] # Idle
  BY AwaitsNotIdle DEF ReceiveEmptyList
<1>2. /\ refresh' = [refresh EXCEPT ![f] = Idle] /\ enabled' = TRUE
      /\ status' = <<"none">> /\ UNCHANGED alone
  BY DEF ReceiveEmptyList, Continue
<1>3. status'[1] # "showing" /\ status' # <<"refreshing">>
  BY <1>2
<1>4. QED
  BY <1>1, <1>2, <1>3, OnlyOne, EndPreserves DEF ShownIsNamed, DashboardInv

LEMMA FailPreserves ==
  ASSUME DashboardInv, NEW f \in Refreshes, Fail(f)
  PROVE  DashboardInv'
<1>1. /\ refresh' = [refresh EXCEPT ![f] = Idle] /\ enabled' = TRUE
      /\ status' = <<"error">> /\ UNCHANGED alone /\ refresh[f] # Idle
  BY DEF Fail, Continue
<1>2. status'[1] # "showing" /\ status' # <<"refreshing">>
  BY <1>1
<1>3. QED
  BY <1>1, <1>2, OnlyOne, EndPreserves DEF ShownIsNamed, DashboardInv

LEMMA ReceiveSnapshotPreserves ==
  ASSUME DashboardInv, NEW f \in Refreshes, ReceiveSnapshot(f)
  PROVE  DashboardInv'
<1>1. refresh[f] # Idle
  BY AwaitsNotIdle DEF ReceiveSnapshot
<1>2. /\ refresh' = [refresh EXCEPT ![f] = Idle] /\ enabled' = TRUE
      /\ status' = <<"showing", selected>>
      /\ table' = refresh[f].dag
      /\ UNCHANGED <<alone, options, selected>>
  BY DEF ReceiveSnapshot, Continue
<1>3. status'[2] = selected' /\ table' = refresh[f].dag /\ status' # <<"refreshing">>
  BY <1>2
<1>4. alone => refresh[f].dag = selected /\ selected = Head(options)
  BY DEF ReceiveSnapshot, DashboardInv, AloneOK
<1>5. ShownIsNamed'
  BY <1>2, <1>3, <1>4 DEF ShownIsNamed
<1>6. QED
  BY <1>1, <1>2, <1>3, <1>5, OnlyOne, EndPreserves DEF DashboardInv

\* Steps of the database and of the walking client do not touch the dashboard.
LEMMA ElsewherePreserves ==
  ASSUME DashboardInv, UNCHANGED <<refresh, page>>
  PROVE  DashboardInv'
BY DEF DashboardInv, Shape, AloneOK, SettledWhenIdle, ShownIsNamed, AllIdle, Idle,
       Awaiting, page

-----------------------------------------------------------------------------
\* The invariant of the dashboard holds from the first refresh on.
LEMMA DashboardInit == Init => DashboardInv
<1> SUFFICES ASSUME Init PROVE DashboardInv
  OBVIOUS
<1>1. PICK f \in Refreshes :
        refresh = [g \in Refreshes |->
                     IF g = f THEN Awaiting("list", <<>>, Null, FALSE) ELSE Idle]
  BY DEF Init
<1>2. \A g \in Refreshes : g # f => refresh[g] = Idle
  BY <1>1
<1>3. refresh[f].awaits = "list"
  BY <1>1 DEF Awaiting
<1>4. ~AllIdle
  BY <1>3, AwaitsNotIdle DEF AllIdle
<1>5. \A g \in Refreshes : refresh[g].awaits \in {"nothing", "list"}
  BY <1>2, <1>3 DEF Idle, Awaiting
<1>6. Shape
  BY <1>1, <1>2, <1>3 DEF Shape
<1>7. AloneOK
  BY <1>2, <1>5 DEF AloneOK
<1>8. QED
  BY <1>4, <1>6, <1>7 DEF DashboardInv, SettledWhenIdle, ShownIsNamed

\* Every step preserves it.
LEMMA DashboardStep == DashboardInv /\ [Next]_vars => DashboardInv'
<1> SUFFICES ASSUME DashboardInv, [Next]_vars PROVE DashboardInv'
  OBVIOUS
<1>1. ASSUME NEW d, SubmitDag(d) \/ Purge(d) PROVE DashboardInv'
  BY <1>1, ElsewherePreserves DEF SubmitDag, Purge
<1>2. CASE StartWalk \/ NextPage \/ LastPage
  BY <1>2, ElsewherePreserves DEF StartWalk, NextPage, LastPage
<1>3. ASSUME NEW f \in Refreshes, Click(f) \/ Change(f) PROVE DashboardInv'
  BY <1>3, BeginPreserves DEF Click, Change
<1>4. ASSUME NEW f \in Refreshes, AnswerList(f) PROVE DashboardInv'
  BY <1>4, AnswerListPreserves
<1>5. ASSUME NEW f \in Refreshes, ReceiveList(f) PROVE DashboardInv'
  BY <1>5, ReceiveListPreserves
<1>6. ASSUME NEW f \in Refreshes, ReceiveEmptyList(f) PROVE DashboardInv'
  BY <1>6, ReceiveEmptyListPreserves
<1>7. ASSUME NEW f \in Refreshes, AnswerExists(f) PROVE DashboardInv'
  BY <1>7, AnswerExistsPreserves
<1>8. ASSUME NEW f \in Refreshes, AnswerRows(f) PROVE DashboardInv'
  BY <1>8, AnswerRowsPreserves
<1>9. ASSUME NEW f \in Refreshes, ReceiveSnapshot(f) PROVE DashboardInv'
  BY <1>9, ReceiveSnapshotPreserves
<1>10. ASSUME NEW f \in Refreshes, Fail(f) PROVE DashboardInv'
  BY <1>10, FailPreserves
<1>11. CASE UNCHANGED vars
  BY <1>11, ElsewherePreserves DEF vars
<1>12. QED
  BY <1>1, <1>2, <1>3, <1>4, <1>5, <1>6, <1>7, <1>8, <1>9, <1>10, <1>11 DEF Next

\* However many refreshes overlap and fail: once none is in flight the button
\* works and the status no longer says that one is (the finally of refresh).
THEOREM DashboardSettles == Spec => []SettledWhenIdle
<1>1. DashboardInv => SettledWhenIdle
  BY DEF DashboardInv
<1>2. QED
  BY <1>1, DashboardInit, DashboardStep, PTL DEF Spec

\* Once no refresh is in flight the status names the selected DAG, and if the
\* latest refresh met no other one, the table shows that DAG.
THEOREM DashboardNames == Spec => []ShownIsNamed
<1>1. DashboardInv => ShownIsNamed
  BY DEF DashboardInv
<1>2. QED
  BY <1>1, DashboardInit, DashboardStep, PTL DEF Spec

-----------------------------------------------------------------------------
\* A refresh that goes on after an await.
LEMMA SnapshotContinue ==
  ASSUME SnapshotOK, DOMAIN refresh = Refreshes, NEW f \in Refreshes, NEW r, Continue(f, r),
         r.awaits = "rows" => r.dag \in dags,
         r.awaits = "snapshot" /\ ~r.jobs => f \in gone
  PROVE  SnapshotOK'
<1>1. \A g \in Refreshes : refresh'[g] = IF g = f THEN r ELSE refresh[g]
  BY DEF Continue
<1>2. /\ UNCHANGED <<dags, rows>> /\ gone \subseteq gone' \cup {f}
      /\ r.awaits = "snapshot" => gone' = gone
  BY DEF Continue
<1>3. \A g \in Refreshes :
        /\ refresh'[g].awaits = "rows" => refresh'[g].dag \in dags' \/ g \in gone'
        /\ refresh'[g].awaits = "snapshot" /\ ~refresh'[g].jobs => g \in gone'
  BY <1>1, <1>2 DEF SnapshotOK, NoEmptyDag
<1>4. QED
  BY <1>2, <1>3 DEF SnapshotOK, NoEmptyDag

LEMMA SnapshotInit == Init => SnapshotOK
<1> SUFFICES ASSUME Init PROVE SnapshotOK
  OBVIOUS
<1>1. \A g \in Refreshes : refresh[g].awaits \in {"nothing", "list"}
  BY DEF Init, Idle, Awaiting
<1>2. QED
  BY <1>1 DEF Init, SnapshotOK, NoEmptyDag

\* Every step preserves the invariant of the snapshots.
LEMMA SnapshotStep == Shape /\ SnapshotOK /\ [Next]_vars => SnapshotOK'
<1> SUFFICES ASSUME Shape, SnapshotOK, [Next]_vars PROVE SnapshotOK'
  OBVIOUS
<1>0. DOMAIN refresh = Refreshes
  BY DEF Shape
<1>1. ASSUME NEW d \in Ids, SubmitDag(d) PROVE SnapshotOK'
  BY <1>1 DEF SubmitDag, SnapshotOK, NoEmptyDag
<1>2. ASSUME NEW d \in Purgeable, Purge(d) PROVE SnapshotOK'
  BY <1>2 DEF Purge, SnapshotOK, NoEmptyDag
<1>3. CASE StartWalk \/ NextPage \/ LastPage
  <2>1. UNCHANGED <<dags, rows, refresh, gone>>
    BY <1>3 DEF StartWalk, NextPage, LastPage
  <2>2. QED
    BY <2>1 DEF SnapshotOK, NoEmptyDag
<1>4. ASSUME NEW f \in Refreshes, Begin(f) PROVE SnapshotOK'
  <2> DEFINE r == Awaiting("list", <<>>, Null, FALSE)
  <2>1. r.awaits = "list"
    BY DEF Awaiting
  <2>2. refresh' = [refresh EXCEPT ![f] = r] /\ UNCHANGED <<dags, rows, gone>>
    BY <1>4 DEF Begin
  <2> HIDE DEF r
  <2>3. \A g \in Refreshes : refresh'[g] = IF g = f THEN r ELSE refresh[g]
    BY <1>0, <2>2
  <2>4. QED
    BY <2>1, <2>2, <2>3 DEF SnapshotOK, NoEmptyDag
<1>5. ASSUME NEW f \in Refreshes, AnswerList(f) PROVE SnapshotOK'
  <2>0. PICK items \in list_dags(0, DashboardLimit) :
          Continue(f, Awaiting("page", items, Null, FALSE))
    BY <1>5 DEF AnswerList
  <2> DEFINE r == Awaiting("page", items, Null, FALSE)
  <2>1. r.awaits = "page"
    BY DEF Awaiting
  <2> HIDE DEF r
  <2>2. QED
    BY <1>0, <2>0, <2>1, SnapshotContinue DEF r
<1>6. ASSUME NEW f \in Refreshes, ReceiveList(f) PROVE SnapshotOK'
  <2> DEFINE r == Awaiting("exists", <<>>, Head(refresh[f].ids), FALSE)
  <2>1. r.awaits = "exists" /\ Continue(f, r)
    BY <1>6 DEF Awaiting, ReceiveList
  <2> HIDE DEF r
  <2>2. QED
    BY <1>0, <2>1, SnapshotContinue
<1>7. ASSUME NEW f \in Refreshes, AnswerExists(f) PROVE SnapshotOK'
  <2> DEFINE r == Awaiting("rows", <<>>, refresh[f].dag, FALSE)
  <2>1. r.awaits = "rows" /\ r.dag \in dags /\ Continue(f, r)
    BY <1>7 DEF Awaiting, AnswerExists
  <2> HIDE DEF r
  <2>2. QED
    BY <1>0, <2>1, SnapshotContinue
<1>8. ASSUME NEW f \in Refreshes, AnswerRows(f) PROVE SnapshotOK'
  <2> DEFINE r == Awaiting("snapshot", <<>>, refresh[f].dag, refresh[f].dag \in rows)
  <2>1. r.awaits = "snapshot" /\ Continue(f, r)
    BY <1>8 DEF Awaiting, AnswerRows
  <2>2. r.jobs <=> refresh[f].dag \in rows
    BY DEF Awaiting
  <2>3. ~r.jobs => f \in gone
    BY <1>8, <2>2 DEF AnswerRows, SnapshotOK
  <2> HIDE DEF r
  <2>4. QED
    BY <1>0, <2>1, <2>3, SnapshotContinue
<1>9. ASSUME NEW f \in Refreshes, ReceiveEmptyList(f) \/ ReceiveSnapshot(f) \/ Fail(f)
      PROVE SnapshotOK'
  <2>1. Idle.awaits = "nothing"
    BY DEF Idle, Awaiting
  <2>2. Continue(f, Idle)
    BY <1>9 DEF ReceiveEmptyList, ReceiveSnapshot, Fail
  <2>3. QED
    BY <1>0, <2>1, <2>2, SnapshotContinue
<1>10. CASE UNCHANGED vars
  BY <1>10 DEF vars, SnapshotOK, NoEmptyDag
<1>11. QED
  BY <1>1, <1>2, <1>3, <1>4, <1>5, <1>6, <1>7, <1>8, <1>9, <1>10 DEF Next, Click, Change

\* snapshot reads the DAG and its jobs in two statements without a common
\* transaction: it answers without jobs only if the DAG was deleted in between.
THEOREM SnapshotWhole == Spec => []NoEmptyDag
<1>1. DashboardInv => Shape
  BY DEF DashboardInv
<1>2. SnapshotOK => NoEmptyDag
  BY DEF SnapshotOK
<1>3. QED
  BY <1>1, <1>2, DashboardInit, DashboardStep, SnapshotInit, SnapshotStep, PTL DEF Spec


-----------------------------------------------------------------------------
\* The walk over the pages

\* The walking client's record, and where a DAG can be.
WalkType ==
  /\ dags \subseteq Ids
  /\ walk \in [cursor : Nat \cup {Null}, listed : Seq(Ids), started : SUBSET Ids]
  /\ walk.started \subseteq dags

\* The listed DAGs are in order.  Those that were there from the start on have
\* been listed as far as the cursor, and nothing beyond it has been.
WalkOK ==
  /\ \A m, n \in DOMAIN walk.listed : m < n => walk.listed[m] < walk.listed[n]
  /\ walk.cursor # Null =>
       /\ \A m \in DOMAIN walk.listed : walk.listed[m] <= walk.cursor
       /\ \A d \in walk.started :
            d <= walk.cursor => \E m \in DOMAIN walk.listed : walk.listed[m] = d
  /\ walk.cursor = Null =>
       \A d \in walk.started : \E m \in DOMAIN walk.listed : walk.listed[m] = d

WalkInv == WalkType /\ WalkOK

\* Sequences of identifiers are sequences of numbers.
LEMMA IdSeq ==
  ASSUME NEW s \in Seq(Ids)
  PROVE  /\ Len(s) \in Nat /\ DOMAIN s = 1..Len(s)
         /\ \A m \in 1..Len(s) : s[m] \in Nat
<1>1. Len(s) \in Nat /\ DOMAIN s = 1..Len(s) /\ \A m \in 1..Len(s) : s[m] \in Ids
  OBVIOUS
<1>2. \A d \in Ids : d \in Nat
  BY IdsAssumption
<1> QED
  BY <1>1, <1>2

\* What list_dags returns.
LEMMA PageFacts ==
  ASSUME NEW after, NEW limit \in Nat, NEW items \in list_dags(after, limit)
  PROVE  /\ items \in Seq(Ids)
         /\ \A m, n \in DOMAIN items : m < n => items[m] < items[n]
         /\ \A m \in DOMAIN items : items[m] \in dags /\ items[m] > after
         /\ \A d \in dags : d > after =>
              \/ \E m \in DOMAIN items : items[m] = d
              \/ Len(items) = limit /\ \A m \in DOMAIN items : items[m] < d
<1>1. /\ items \in SeqOf(Ids, limit)
      /\ \A m, n \in DOMAIN items : m < n => items[m] < items[n]
      /\ ToSet(items) \subseteq {d \in dags : d > after}
      /\ \A d \in {e \in dags : e > after} \ ToSet(items) :
           Len(items) = limit /\ \A m \in DOMAIN items : items[m] < d
  BY DEF list_dags, Ordered
<1>2. items \in Seq(Ids)
  BY <1>1 DEF SeqOf
<1>3. \A m \in DOMAIN items : items[m] \in ToSet(items)
  BY DEF ToSet
<1>4. \A d : d \in ToSet(items) => \E m \in DOMAIN items : items[m] = d
  BY DEF ToSet
<1> QED
  BY <1>1, <1>2, <1>3, <1>4

\* A page is appended to what was listed, in order, and moves the cursor.
LEMMA NextPageWalk ==
  ASSUME WalkInv, NextPage
  PROVE  WalkInv'
<1>1. PICK items \in list_dags(walk.cursor, Limit) :
        /\ items # <<>>
        /\ walk' = [walk EXCEPT !.listed = @ \o items, !.cursor = Last(items)]
  BY DEF NextPage
<1> DEFINE old == walk.listed
           new == old \o items
           c == walk.cursor
           l == items[Len(items)]
<1>2. UNCHANGED dags /\ c # Null
  BY DEF NextPage
<1>3. /\ old \in Seq(Ids) /\ c \in Nat
      /\ walk \in [cursor : Nat \cup {Null}, listed : Seq(Ids), started : SUBSET Ids]
  BY <1>2 DEF WalkInv, WalkType
<1>4. Limit \in Nat /\ Ids \subseteq Nat
  BY LimitsAssumption, IdsAssumption
<1>5. /\ items \in Seq(Ids)
      /\ \A m, n \in DOMAIN items : m < n => items[m] < items[n]
      /\ \A m \in DOMAIN items : items[m] \in dags /\ items[m] > c
      /\ \A d \in dags : d > c =>
           \/ \E m \in DOMAIN items : items[m] = d
           \/ Len(items) = Limit /\ \A m \in DOMAIN items : items[m] < d
  BY <1>4, PageFacts
<1>6. Len(items) \in DOMAIN items /\ l \in Ids /\ l \in Nat
  BY <1>1, <1>4, <1>5
<1>7. ASSUME NEW m \in DOMAIN items PROVE items[m] \in Nat /\ items[m] <= l
  <2>1. items[m] \in Nat /\ DOMAIN items = 1..Len(items) /\ Len(items) \in Nat
    BY <1>5, IdSeq
  <2>2. CASE m = Len(items)
    BY <2>1, <2>2
  <2>3. CASE m # Len(items)
    <3>1. m < Len(items)
      BY <2>1, <2>3
    <3>2. items[m] < items[Len(items)]
      BY <1>5, <1>6, <3>1
    <3> QED
      BY <1>6, <2>1, <3>2
  <2> QED
    BY <2>2, <2>3
<1>8. /\ new \in Seq(Ids) /\ Len(new) = Len(old) + Len(items)
      /\ \A m \in 1..Len(old) : new[m] = old[m]
      /\ \A m \in 1..Len(items) : new[Len(old) + m] = items[m]
  BY <1>3, <1>5
<1>9. walk'.listed = new /\ walk'.cursor = l /\ walk'.started = walk.started
      /\ walk' \in [cursor : Nat \cup {Null}, listed : Seq(Ids), started : SUBSET Ids]
  <2> HIDE DEF new
  <2>1. walk' = [walk EXCEPT !.listed = new, !.cursor = l]
    BY <1>1, <1>3 DEF Last, new
  <2> HIDE DEF l
  <2> QED
    BY <1>3, <1>6, <1>8, <2>1
<1> HIDE DEF new, l, old, c
<1>10. /\ \A m \in 1..Len(old) : old[m] \in Nat /\ old[m] <= c
       /\ \A m, n \in 1..Len(old) : m < n => old[m] < old[n]
       /\ \A d \in walk.started : d <= c => \E m \in 1..Len(old) : old[m] = d
  <2>1. DOMAIN old = 1..Len(old) /\ \A m \in 1..Len(old) : old[m] \in Nat
    BY <1>3, IdSeq
  <2>2. /\ \A m \in DOMAIN old : old[m] <= c
        /\ \A m, n \in DOMAIN old : m < n => old[m] < old[n]
        /\ \A d \in walk.started : d <= c => \E m \in DOMAIN old : old[m] = d
    BY <1>2 DEF WalkInv, WalkOK, old, c
  <2> QED
    BY <2>1, <2>2
<1>11. ASSUME NEW m \in 1..Len(new)
       PROVE  \/ m \in 1..Len(old) /\ new[m] = old[m]
              \/ \E i \in 1..Len(items) : m = Len(old) + i /\ new[m] = items[i]
  <2>1. CASE m <= Len(old)
    BY <1>3, <1>8, <2>1
  <2>2. CASE m > Len(old)
    <3>1. m - Len(old) \in 1..Len(items) /\ m = Len(old) + (m - Len(old))
      BY <1>3, <1>5, <1>8, <2>2
    <3> QED
      BY <1>8, <3>1
  <2> QED
    BY <1>3, <2>1, <2>2
<1>12. l > c /\ c \in Nat
  BY <1>3, <1>5, <1>6 DEF l
<1>13. \A i \in 1..Len(items) : items[i] \in Nat /\ items[i] > c /\ items[i] <= l
  BY <1>5, <1>7
<1>14. \A m \in 1..Len(new) : new[m] \in Nat /\ new[m] <= l
  <2>1. \A m \in 1..Len(old) : old[m] \in Nat /\ old[m] <= l
    BY <1>6, <1>10, <1>12
  <2> QED
    BY <1>11, <1>13, <2>1
<1>15. ASSUME NEW m \in 1..Len(new), NEW n \in 1..Len(new), m < n
       PROVE  new[m] < new[n]
  <2>1. CASE n \in 1..Len(old) /\ new[n] = old[n]
    <3>1. m \in 1..Len(old) /\ new[m] = old[m]
      BY <1>3, <1>8, <1>15, <2>1
    <3> QED
      BY <1>10, <1>15, <2>1, <3>1
  <2>2. ASSUME NEW i \in 1..Len(items), n = Len(old) + i, new[n] = items[i]
        PROVE  new[m] < new[n]
    <3>1. CASE m \in 1..Len(old) /\ new[m] = old[m]
      BY <1>10, <1>12, <1>13, <2>2, <3>1
    <3>2. ASSUME NEW k \in 1..Len(items), m = Len(old) + k, new[m] = items[k]
          PROVE  new[m] < new[n]
      <4>1. k < i
        BY <1>3, <1>5, <1>15, <2>2, <3>2
      <4> QED
        BY <1>5, <2>2, <3>2, <4>1
    <3> QED
      BY <1>11, <3>1, <3>2
  <2> QED
    BY <1>11, <2>1, <2>2
<1>16. ASSUME NEW d \in walk.started, d <= l
       PROVE  \E m \in 1..Len(new) : new[m] = d
  <2>1. d \in dags /\ d \in Nat
    BY <1>4 DEF WalkInv, WalkType
  <2>2. CASE d <= c
    <3>1. PICK m \in 1..Len(old) : old[m] = d
      BY <1>10, <2>2
    <3>2. m \in 1..Len(new)
      BY <1>3, <1>5, <1>8
    <3> QED
      BY <1>8, <3>1, <3>2
  <2>3. CASE d > c
    <3>1. PICK i \in 1..Len(items) : items[i] = d
      BY <1>5, <1>6, <1>16, <2>1, <2>3 DEF l
    <3>2. Len(old) + i \in 1..Len(new)
      BY <1>3, <1>5, <1>8
    <3> QED
      BY <1>8, <3>1, <3>2
  <2> QED
    BY <1>12, <2>1, <2>2, <2>3
<1>17. WalkType'
  BY <1>2, <1>9 DEF WalkInv, WalkType
<1>18. DOMAIN new = 1..Len(new) /\ l # Null
  BY <1>6, <1>8, IdsAssumption
<1>19. WalkOK'
  BY <1>2, <1>9, <1>14, <1>15, <1>16, <1>18 DEF WalkOK
<1> QED
  BY <1>17, <1>19 DEF WalkInv

\* An empty page: there is nothing beyond the cursor.
LEMMA LastPageWalk ==
  ASSUME WalkInv, LastPage
  PROVE  WalkInv'
<1>1. /\ walk' = [walk EXCEPT !.cursor = Null] /\ UNCHANGED dags
      /\ walk.cursor # Null /\ <<>> \in list_dags(walk.cursor, Limit)
  BY DEF LastPage
<1>2. /\ walk \in [cursor : Nat \cup {Null}, listed : Seq(Ids), started : SUBSET Ids]
      /\ walk.cursor \in Nat /\ dags \subseteq Nat
  BY <1>1, IdsAssumption DEF WalkInv, WalkType
<1>3. /\ walk'.cursor = Null /\ walk'.listed = walk.listed /\ walk'.started = walk.started
      /\ walk' \in [cursor : Nat \cup {Null}, listed : Seq(Ids), started : SUBSET Ids]
  BY <1>1, <1>2
<1>4. \A d \in dags : ~(d > walk.cursor)
  <2>1. Limit \in Nat /\ Limit # 0 /\ Len(<<>>) = 0 /\ DOMAIN <<>> = {}
    BY LimitsAssumption
  <2>2. \A d \in dags : d > walk.cursor =>
          \/ \E m \in DOMAIN <<>> : <<>>[m] = d
          \/ Len(<<>>) = Limit /\ \A m \in DOMAIN <<>> : <<>>[m] < d
    BY <1>1, <2>1, PageFacts
  <2> QED
    BY <2>1, <2>2
<1>5. \A d \in walk.started : d <= walk.cursor
  <2>1. walk.started \subseteq dags
    BY DEF WalkInv, WalkType
  <2>2. SUFFICES ASSUME NEW d \in walk.started PROVE d <= walk.cursor
    OBVIOUS
  <2>3. d \in Nat /\ walk.cursor \in Nat /\ ~(d > walk.cursor)
    BY <1>2, <1>4, <2>1
  <2> QED
    BY <2>3
<1>6. WalkType' /\ WalkOK'
  BY <1>1, <1>3, <1>5 DEF WalkInv, WalkType, WalkOK
<1> QED
  BY <1>6 DEF WalkInv

LEMMA WalkInit == Init => WalkInv
BY DEF Init, WalkInv, WalkType, WalkOK

LEMMA WalkStep == WalkInv /\ [Next]_vars => WalkInv'
<1> SUFFICES ASSUME WalkInv, [Next]_vars PROVE WalkInv'
  OBVIOUS
<1>1. ASSUME NEW d \in Ids, SubmitDag(d) PROVE WalkInv'
  BY <1>1 DEF SubmitDag, WalkInv, WalkType, WalkOK
<1>2. ASSUME NEW d \in Purgeable, Purge(d) PROVE WalkInv'
  BY <1>2 DEF Purge, WalkInv, WalkType, WalkOK
<1>3. CASE StartWalk
  <2>1. /\ walk' = [cursor |-> 0, listed |-> <<>>, started |-> dags]
        /\ UNCHANGED dags
    BY <1>3 DEF StartWalk
  <2>2. /\ walk'.cursor = 0 /\ walk'.listed = <<>> /\ walk'.started = dags
        /\ walk' \in [cursor : Nat \cup {Null}, listed : Seq(Ids), started : SUBSET Ids]
    BY <2>1 DEF WalkInv, WalkType
  <2>3. 0 # Null /\ \A d \in dags : d \in Nat \ {0}
    BY IdsAssumption DEF WalkInv, WalkType
  <2>4. WalkType' /\ WalkOK'
    BY <2>1, <2>2, <2>3 DEF WalkInv, WalkType, WalkOK
  <2> QED
    BY <2>4 DEF WalkInv
<1>4. CASE NextPage
  BY <1>4, NextPageWalk
<1>5. CASE LastPage
  BY <1>5, LastPageWalk
<1>6. ASSUME UNCHANGED <<dags, walk>> PROVE WalkInv'
  BY <1>6 DEF WalkInv, WalkType, WalkOK
<1>7. ASSUME NEW f \in Refreshes,
             \/ Click(f) \/ Change(f) \/ AnswerList(f) \/ ReceiveList(f)
             \/ ReceiveEmptyList(f) \/ AnswerExists(f) \/ AnswerRows(f)
             \/ ReceiveSnapshot(f) \/ Fail(f)
      PROVE  UNCHANGED <<dags, walk>>
  BY <1>7 DEF Click, Change, Begin, AnswerList, ReceiveList, ReceiveEmptyList, AnswerExists,
              AnswerRows, ReceiveSnapshot, Fail, Continue
<1>8. CASE UNCHANGED vars
  BY <1>6, <1>8 DEF vars
<1> QED
  BY <1>1, <1>2, <1>3, <1>4, <1>5, <1>6, <1>7, <1>8 DEF Next

\* Keyset pagination: a walk lists no DAG twice and none out of order, and at its
\* end every DAG that was there from its start on, for any page size and whatever
\* is submitted, deleted or submitted again between the requests.
THEOREM WalkCompletes == Spec => []WalkComplete
<1>1. WalkInv => WalkComplete
  BY DEF WalkInv, WalkOK, WalkComplete, ToSet
<1> QED
  BY <1>1, WalkInit, WalkStep, PTL DEF Spec
=============================================================================
