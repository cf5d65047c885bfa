------------------------------ MODULE ReadSide ------------------------------
(***************************************************************************)
(* The readers: a client that walks the pages of GET /v1/dags, and the     *)
(* browser dashboard, whose refreshes read the first page and then the     *)
(* snapshot of a DAG.  Submissions go on meanwhile; operators may delete   *)
(* old DAGs from the database (the data model document tells them to).     *)
(*                                                                         *)
(* DAG identifiers are numbers, in the order of the primary key.  Between  *)
(* two awaits the code of the page runs without interruption, so an action *)
(* of the dashboard is what happens from one await to the next.            *)
(***************************************************************************)
EXTENDS Integers, SequencesExt

CONSTANTS
  Ids,             \* identifiers that DAGs may have
  Limit,           \* page size the walking client asks for
  DashboardLimit,  \* page size of the dashboard, 100 in the code
  Refreshes,       \* bound: refreshes that may overlap
  Purgeable,       \* bound: DAGs that operators may delete
  Null

ASSUME IdsAssumption == Ids \subseteq Nat \ {0} /\ Null \notin Nat
ASSUME LimitsAssumption == Limit \in 1..100 /\ DashboardLimit \in 1..100

VARIABLES
  dags,      \* committed rows of table dags
  rows,      \* DAGs that have committed rows in table jobs
  walk,      \* the walking client: cursor, listed, and started: the DAGs that were
             \* there at its start and have not been deleted since
  refresh,   \* by refresh: what it awaits, the page and the DAG it works with
  gone,      \* history: refreshes whose DAG was deleted between the statements of snapshot
  options,   \* options of the select element
  selected,  \* its value, Null when there are no options
  table,     \* the DAG whose snapshot is on display
  status,    \* text beside the button
  enabled,   \* the button can be clicked
  alone      \* history: the latest refresh to start has met no other one

page == <<options, selected, table, status, enabled, alone>>
vars == <<dags, rows, walk, refresh, gone, page>>

-----------------------------------------------------------------------------
\* The database

\* Mutant: the jobs are inserted by another transaction.
SubmitDagFirst(d) ==
  /\ d \notin dags
  /\ dags' = dags \cup {d}
  /\ UNCHANGED <<rows, walk, refresh, gone, page>>

\* An identifier is free again once its DAG has been deleted.
SubmitDag(d) ==
  /\ d \notin dags
  /\ dags' = dags \cup {d}
  /\ rows' = rows \cup {d}
  /\ UNCHANGED <<walk, refresh, gone, page>>

\* DELETE FROM dags, which cascades.
Purge(d) ==
  /\ d \in dags
  /\ dags' = dags \ {d}
  /\ rows' = rows \ {d}
  /\ walk' = [walk EXCEPT !.started = @ \ {d}]
  /\ gone' = gone \cup {f \in Refreshes : refresh[f].awaits = "rows" /\ refresh[f].dag = d}
  /\ UNCHANGED <<refresh, page>>

\* ORDER BY id LIMIT limit: the sequences that hold the least rows in order.
Ordered(rowset, limit) ==
  {items \in SeqOf(Ids, limit) :
     /\ \A m, n \in DOMAIN items : m < n => items[m] < items[n]
     /\ ToSet(items) \subseteq rowset
     /\ \A d \in rowset \ ToSet(items) :
          Len(items) = limit /\ \A m \in DOMAIN items : items[m] < d}

\* Mutant: the cursor's own row again.
list_dags_from(after, limit) == Ordered({d \in dags : d >= after}, limit)

\* WHERE id > after; no cursor is below all ids.  The query has one answer: the
\* set of possible pages has one member.
list_dags(after, limit) == Ordered({d \in dags : d > after}, limit)

-----------------------------------------------------------------------------
\* The walking client

\* A page with items: next_cursor is the last of them, even if none follow.
NextPage ==
  /\ walk.cursor # Null
  /\ \E items \in list_dags(walk.cursor, Limit) :
       /\ items # <<>>
       /\ walk' = [walk EXCEPT !.listed = @ \o items, !.cursor = Last(items)]
  /\ UNCHANGED <<dags, rows, refresh, gone, page>>

\* An empty page: next_cursor is null.
LastPage ==
  /\ walk.cursor # Null
  /\ <<>> \in list_dags(walk.cursor, Limit)
  /\ walk' = [walk EXCEPT !.cursor = Null]
  /\ UNCHANGED <<dags, rows, refresh, gone, page>>

\* The client starts over.
StartWalk ==
  /\ walk.cursor = Null
  /\ walk' = [cursor |-> 0, listed |-> <<>>, started |-> dags]
  /\ UNCHANGED <<dags, rows, refresh, gone, page>>

-----------------------------------------------------------------------------
\* The dashboard

\* A refresh: what it awaits, the page it received, the DAG of its snapshot
\* and whether that came with jobs.
Awaiting(a, ids, d, j) == [awaits |-> a, ids |-> ids, dag |-> d, jobs |-> j]

Idle == Awaiting("nothing", <<>>, Null, FALSE)

AllIdle == \A f \in Refreshes : refresh[f] = Idle

\* refresh() up to its first await.
Begin(f) ==
  /\ refresh[f] = Idle
  /\ refresh' = [refresh EXCEPT ![f] = Awaiting("list", <<>>, Null, FALSE)]
  /\ enabled' = FALSE
  /\ status' = <<"refreshing">>
  /\ alone' = AllIdle
  /\ UNCHANGED <<dags, rows, walk, gone, options, table>>

Click(f) == enabled /\ Begin(f) /\ UNCHANGED selected

\* The user chooses another option.
Change(f) ==
  /\ \E d \in ToSet(options) \ {selected} : selected' = d
  /\ Begin(f)

\* The refresh goes on after an await with the given record.  Deletions are
\* remembered from the first statement of snapshot until its answer arrives.
Continue(f, r) ==
  /\ refresh' = [refresh EXCEPT ![f] = r]
  /\ gone' = IF r.awaits = "snapshot" THEN gone ELSE gone \ {f}
  /\ UNCHANGED <<dags, rows, walk>>

\* GET /v1/dags?limit=100 is answered; the answer is on its way.
AnswerList(f) ==
  /\ refresh[f].awaits = "list"
  /\ \E items \in list_dags(0, DashboardLimit) :
       Continue(f, Awaiting("page", items, Null, FALSE))
  /\ UNCHANGED page

\* Mutant: the selection survives, the snapshot is still that of the first DAG.
RenderListKeeping(ids) ==
  options' = ids /\ selected' = IF selected \in ToSet(ids) THEN selected ELSE Head(ids)

\* The options are replaced, and the element selects the first of the new ones.
renderDagList(ids) == options' = ids /\ selected' = Head(ids)

ReceiveList(f) ==
  /\ refresh[f].awaits = "page" /\ refresh[f].ids # <<>>
  /\ renderDagList(refresh[f].ids)
  /\ Continue(f, Awaiting("exists", <<>>, Head(refresh[f].ids), FALSE))
  /\ UNCHANGED <<table, status, enabled, alone>>

\* There are no DAGs; the table keeps what it shows.
ReceiveEmptyList(f) ==
  /\ refresh[f].awaits = "page" /\ refresh[f].ids = <<>>
  /\ options' = <<>>
  /\ selected' = Null
  /\ status' = <<"none">>
  /\ enabled' = TRUE
  /\ Continue(f, Idle)
  /\ UNCHANGED <<table, alone>>

\* snapshot, first statement: the DAG exists.
AnswerExists(f) ==
  /\ refresh[f].awaits = "exists" /\ refresh[f].dag \in dags
  /\ Continue(f, Awaiting("rows", <<>>, refresh[f].dag, FALSE))
  /\ UNCHANGED page

\* snapshot, second statement: its jobs.
AnswerRows(f) ==
  /\ refresh[f].awaits = "rows"
  /\ Continue(f, Awaiting("snapshot", <<>>, refresh[f].dag, refresh[f].dag \in rows))
  /\ UNCHANGED page

\* renderSnapshot; the status names what is selected now.
ReceiveSnapshot(f) ==
  /\ refresh[f].awaits = "snapshot"
  /\ table' = refresh[f].dag
  /\ status' = <<"showing", selected>>
  /\ enabled' = TRUE
  /\ Continue(f, Idle)
  /\ UNCHANGED <<options, selected, alone>>

\* Mutant: no finally.
FailDisabled(f) ==
  /\ refresh[f] # Idle
  /\ status' = <<"error">>
  /\ Continue(f, Idle)
  /\ UNCHANGED <<options, selected, table, enabled, alone>>

\* The request in flight fails, with 404 or 500 or without an answer.
Fail(f) ==
  /\ refresh[f] # Idle
  /\ status' = <<"error">>
  /\ enabled' = TRUE
  /\ Continue(f, Idle)
  /\ UNCHANGED <<options, selected, table, alone>>

-----------------------------------------------------------------------------
\* The page has been loaded and refreshes for the first time.
Init ==
  /\ dags = {} /\ rows = {}
  /\ walk = [cursor |-> Null, listed |-> <<>>, started |-> {}]
  /\ \E f \in Refreshes :
       refresh = [g \in Refreshes |->
                    IF g = f THEN Awaiting("list", <<>>, Null, FALSE) ELSE Idle]
  /\ gone = {}
  /\ options = <<>> /\ selected = Null
  /\ table = Null
  /\ status = <<"refreshing">>
  /\ enabled = FALSE
  /\ alone = TRUE

Next ==
  \/ \E d \in Ids : SubmitDag(d)
  \/ \E d \in Purgeable : Purge(d)
  \/ StartWalk \/ NextPage \/ LastPage
  \/ \E f \in Refreshes :
       \/ Click(f) \/ Change(f)
       \/ AnswerList(f) \/ ReceiveList(f) \/ ReceiveEmptyList(f)
       \/ AnswerExists(f) \/ AnswerRows(f) \/ ReceiveSnapshot(f) \/ Fail(f)

Spec == Init /\ [][Next]_vars

-----------------------------------------------------------------------------
\* A walk over the pages lists no DAG twice and none out of order, and at its
\* end it has listed every DAG that was there from its start on, whatever was
\* submitted, deleted or submitted again between its requests.
WalkComplete ==
  /\ \A m, n \in DOMAIN walk.listed : m < n => walk.listed[m] < walk.listed[n]
  /\ walk.cursor = Null => walk.started \subseteq ToSet(walk.listed)

\* However refreshes overlap and fail: when none is in flight the button works
\* and the status no longer says that one is.
SettledWhenIdle == AllIdle => enabled /\ status # <<"refreshing">>

\* When no refresh is in flight, the status names the selected DAG.  If the
\* latest refresh met no other one, that is the DAG whose jobs are shown, and
\* always the first of the list, whichever one the user had chosen.  (When
\* refreshes overlap, the jobs of one DAG may stand under the name of another.)
ShownIsNamed ==
  AllIdle /\ status[1] = "showing" =>
    /\ status[2] = selected
    /\ alone => table = selected /\ selected = Head(options)

\* snapshot reads the DAG and its jobs in two statements: it answers with a DAG
\* without jobs only if that DAG was deleted between the two, even if operators
\* deleted it before and it was submitted again.
NoEmptyDag ==
  \A f \in Refreshes : refresh[f].awaits = "snapshot" /\ ~refresh[f].jobs => f \in gone
=============================================================================
