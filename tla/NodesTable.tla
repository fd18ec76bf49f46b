------------------------------ MODULE NodesTable ------------------------------
(***************************************************************************)
(* The table of repeaters on the dashboard page: the search box with its   *)
(* delay, paging, and refreshNodesList() (client/dashboard.js), beside the *)
(* range data of RangeRefresh.  refreshNodesList() neither aborts nor      *)
(* numbers its requests, and renders with the offset of the moment.        *)
(***************************************************************************)
EXTENDS RangeRefresh, SequencesExt

CONSTANTS
  Texts,      \* what can be in the search box
  NoText,     \* the empty search
  Total,      \* per text: how many repeaters match
  PageSize    \* NODES_PAGE_SIZE

ASSUME TableAssumption ==
  /\ NoText \in Texts /\ Total \in [Texts -> Nat]
  /\ PageSize \in Nat \ {0} /\ "repeaters" \in Views

VARIABLES
  box, typing,      \* the text in the box; nodesSearchDebounce
  search, offset,   \* nodesSearchQuery, nodesOffset
  lists,            \* requests under way, in the order they were sent
  table,            \* search and offset of the rows, and the offset they are labelled with
  listStatus,       \* #nodes-data-status
  disturbed         \* history: did requests overlap, one overtake another, or fail?

tableVars == <<box, typing, search, offset, lists, table, listStatus, disturbed>>
pageVars == <<rangeVars, tableVars>>

ListRequest == [search : Texts, offset : Nat]

TableTypeOK ==
  /\ box \in Texts /\ typing \in BOOLEAN /\ search \in Texts /\ offset \in Nat
  /\ lists \in Seq(ListRequest)
  /\ table \in [search : Texts, offset : Nat, label : Nat, drawn : BOOLEAN]
  /\ listStatus \in Kinds /\ disturbed \in SUBSET {"overlap", "overtaken", "failure"}

-----------------------------------------------------------------------------
\* refreshNodesList() up to its await.
Lists(q, o) ==
  /\ search' = q /\ offset' = o
  /\ lists' = Append(lists, [search |-> q, offset |-> o])
  /\ listStatus' = "loading"
  /\ disturbed' = IF lists = <<>> THEN disturbed ELSE disturbed \cup {"overlap"}

PageInit ==
  /\ RangeInit
  /\ box = NoText /\ typing = FALSE /\ search = NoText /\ offset = 0
  /\ lists = IF view = "repeaters" THEN <<[search |-> NoText, offset |-> 0]>> ELSE <<>>
  /\ table = [search |-> NoText, offset |-> 0, label |-> 0, drawn |-> FALSE]
  /\ listStatus = "loading" /\ disturbed = {}

ShowView(v) ==
  /\ ShowDashboardView(v)
  /\ IF v = "repeaters" THEN Lists(search, offset) /\ UNCHANGED <<box, typing, table>>
     ELSE UNCHANGED tableVars

\* What the user does to the table, while its view is on the screen.
AtTable ==
  /\ view = "repeaters" /\ Clicks
  /\ UNCHANGED <<choiceVars, shown, status, requestVars, streamVars, faults>>

\* Mutation of FirstPage: a new search starts on the page of the old one.
SamePage == offset

FirstPage == 0

Types(t) ==
  /\ AtTable
  /\ box' = t /\ typing' = TRUE
  /\ UNCHANGED <<search, offset, lists, table, listStatus, disturbed>>

\* The box has been left alone for a while.
Searches ==
  /\ typing /\ typing' = FALSE
  /\ Lists(box, FirstPage)
  /\ UNCHANGED <<box, table, rangeVars>>

\* The buttons are as the last rows that were drawn left them.
Prev ==
  /\ AtTable
  /\ table.drawn => table.label # 0
  /\ Lists(search, IF offset > PageSize THEN offset - PageSize ELSE 0)
  /\ UNCHANGED <<box, typing, table>>

Next ==
  /\ AtTable
  /\ table.drawn => table.label + PageSize < Total[table.search]
  /\ Lists(search, offset + PageSize)
  /\ UNCHANGED <<box, typing, table>>

\* Requests settle in any order.
Overtakes(i) == IF i = 1 THEN {} ELSE {"overtaken"}

\* renderNodesList() uses nodesOffset.
ListAnswered(i) ==
  /\ table' = [search |-> lists[i].search, offset |-> lists[i].offset,
               label |-> offset, drawn |-> TRUE]
  /\ listStatus' = "ready"
  /\ lists' = RemoveAt(lists, i)
  /\ disturbed' = disturbed \cup Overtakes(i)
  /\ UNCHANGED <<box, typing, search, offset, rangeVars>>

ListFails(i) ==
  /\ faults < MaxFaults /\ faults' = faults + 1
  /\ listStatus' = "error"
  /\ lists' = RemoveAt(lists, i)
  /\ disturbed' = disturbed \cup {"failure"} \cup Overtakes(i)
  /\ UNCHANGED <<box, typing, search, offset, table,
                 choiceVars, shown, status, requestVars, streamVars, clicks>>

RangeStep == RangeChoice \/ StreamStep \/ \E s \in Slots : RequestStep(s)

PageNext ==
  \/ RangeStep /\ UNCHANGED tableVars
  \/ \E v \in Views : ShowView(v)
  \/ \E t \in Texts : Types(t)
  \/ Searches \/ Prev \/ Next
  \/ \E i \in DOMAIN lists : ListAnswered(i) \/ ListFails(i)

PageSpec == PageInit /\ [][PageNext]_pageVars

PageFairSpec ==
  /\ PageSpec
  /\ WF_pageVars(StreamOpens /\ UNCHANGED tableVars)
  /\ WF_pageVars(SnapshotArrives /\ UNCHANGED tableVars)
  /\ \A s \in Slots : WF_pageVars(RequestStep(s) /\ UNCHANGED tableVars)
-----------------------------------------------------------------------------
(* Properties.                                                              *)

Settled == lists = <<>> /\ listStatus = "ready"

\* The rows are those of the page and the search that were asked for last,
\* and are labelled so; and they do not start past the end of what was found.
RowsAsAsked ==
  table.search = search /\ table.offset = offset /\ table.label = offset

RowsExist == table.offset = 0 \/ table.offset < Total[table.search]

\* The first as long as no request is overtaken by a newer one, however many of
\* them overlap or fail; the second as long as they neither overlap nor fail:
\* nodesOffset has moved on by then.
TableIsTrue ==
  /\ Settled /\ "overtaken" \notin disturbed => RowsAsAsked
  /\ disturbed = {} => RowsExist

\* What the comments on the table and the plan of the dashboard promise.
TableShowsTheSearch == Settled => RowsAsAsked
=============================================================================
