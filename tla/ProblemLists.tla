----------------------------- MODULE ProblemLists -----------------------------
(***************************************************************************)
(* The lists of problems in the web client: the public catalogue, which is  *)
(* walked with cursors (problem-list-page.tsx), the administrator's list    *)
(* with numbered pages and the dialog that creates a problem                *)
(* (admin-problem-list-page.tsx, admin-problem-create-dialog.tsx), and the  *)
(* overview (admin-dashboard-page.tsx), over the lists that problem-service *)
(* computes.                                                                *)
(*                                                                         *)
(* A key names a query: the list and the whole search.  A page is keyed by  *)
(* its search, so that another search is another page with a query of its   *)
(* own; what was fetched stays in the cache.  Others touch, hide, show and  *)
(* archive problems at any time.                                            *)
(***************************************************************************)
EXTENDS Integers, Sequences, FiniteSets, SequencesExt

CONSTANTS
    Problems,       \* the ids, numbers
    Kind,           \* what can be filtered: [Problems -> [text, difficulty, language, codeMode]]
    Title,          \* the titles, as numbers in their order: [Problems -> Nat]
    Created,        \* the id a new problem gets
    Size,           \* how many problems a batch or a page holds
    MaxActs,        \* how often the user goes somewhere or sends something
    MaxFaults       \* how often others act or a request is lost

ASSUME ListsAssumption ==
    /\ IsFiniteSet(Problems) /\ Problems \subseteq Nat /\ Created \in Problems
    /\ Title \in [Problems -> Nat]
    /\ Size \in Nat \ {0}

Fields == {"text", "difficulty", "language", "codeMode"}
Sorts == {"UPDATED_DESC", "UPDATED_ASC", "TITLE_ASC"}
NoFilter == [f \in Fields |-> ""]
NoCursor == [sort |-> "none", key |-> 0, id |-> 0, filter |-> NoFilter]

VARIABLES
    rows,           \* [Problems -> [visibility, status, updated]]; status "none": not there
    clock,          \* the time of the last change
    route, search,  \* the page: "catalog", "list", "dashboard", "workbench"; its key
    cache,          \* the queries, by key
    walk,           \* the batches left behind by going on from the first
    dialog,         \* the dialog that creates: open, its values
    create,         \* the mutation
    known,          \* the creation was acknowledged
    acts, faults

serverVars == <<rows, clock>>
vars == <<serverVars, route, search, cache, walk, dialog, create, known, acts, faults>>

Acted == acts < MaxActs /\ acts' = acts + 1
Disturbed == faults < MaxFaults /\ faults' = faults + 1

-----------------------------------------------------------------------------
(* Keys and queries. *)

CatalogKey(filter, sort, cursor) ==
    [list |-> "catalog", filter |-> filter, sort |-> sort, cursor |-> cursor, page |-> 0]

AdminKey(text, status, page) ==
    [list |-> "admin", filter |-> [text |-> text, status |-> status], sort |-> "none",
     cursor |-> NoCursor, page |-> page]

OtherKey(name) == [AdminKey("", "ALL", 1) EXCEPT !.list = name]

DashboardKey == AdminKey("", "ACTIVE", 1)
FirstSearch == CatalogKey(NoFilter, "UPDATED_DESC", NoCursor)

NoData == [items |-> <<>>, more |-> FALSE, next |-> NoCursor, pages |-> -1, all |-> {}]

\* overtaken is a history: the data (before there are any, the first answer)
\* were computed before an invalidation that did not fetch them anew.
Idle == [data |-> NoData, error |-> "none", stale |-> FALSE, asked |-> "no", reply |-> NoData, failures |-> 0,
         overtaken |-> FALSE]

Query(k) == IF k \in DOMAIN cache THEN cache[k] ELSE Idle

isPending(k) == Query(k).data = NoData /\ Query(k).error = "none"
isError(k) == Query(k).error # "none"
isFetching(k) == Query(k).asked # "no"

Asking(q) ==
    [q EXCEPT !.asked = "sent", !.reply = NoData, !.failures = 0,
              !.overtaken = (q.overtaken /\ q.data # NoData),
              !.error = IF q.data = NoData THEN "none" ELSE q.error]

Cancelled(q) == [q EXCEPT !.asked = "no", !.reply = NoData, !.failures = 0]

Observed(r, s) ==
    CASE r = "catalog" -> {s}
      [] r = "list" -> {s, OtherKey("languages")}
      [] r = "dashboard" -> {DashboardKey, OtherKey("users"), OtherKey("nodes")}
      [] r = "workbench" -> {}

\* The cache when page r with search s is shown.
Mounted(r, s, old) ==
    [k \in DOMAIN cache \cup Observed(r, s) |->
        IF k \notin Observed(r, s) THEN Cancelled(cache[k])
        ELSE IF ~isFetching(k) /\ (Query(k).data = NoData \/ Query(k).stale \/ old)
        THEN Asking(Query(k))
        ELSE Query(k)]

\* navigate: another search is another page; the dialog goes with its page.
Closed == [open |-> FALSE, slug |-> "", title |-> "", language |-> ""]

Goes(r, s) ==
    /\ route' = r /\ search' = s
    /\ \E old \in BOOLEAN : cache' = Mounted(r, s, old)
    /\ dialog' = IF <<r, s>> = <<route, search>> THEN dialog ELSE Closed

-----------------------------------------------------------------------------
(* problem-service. *)

KeyOf(sort, id) == IF sort = "TITLE_ASC" THEN Title[id] ELSE rows[id].updated

\* ORDER BY of the sort: the key, then the id.
Precedes(sort, a, b) ==
    LET x == KeyOf(sort, a) y == KeyOf(sort, b) IN
    IF sort = "UPDATED_DESC" THEN x > y \/ (x = y /\ a > b) ELSE x < y \/ (x = y /\ a < b)

\* Mutant: the id of the cursor does not count.
FollowsByKey(sort, id, c) ==
    LET x == KeyOf(sort, id) IN
    c = NoCursor \/ (IF sort = "UPDATED_DESC" THEN x < c.key ELSE x > c.key)

\* Is the place of the key x and the id behind the cursor?
After(sort, x, id, c) ==
    \/ c = NoCursor
    \/ IF sort = "UPDATED_DESC" THEN x < c.key \/ (x = c.key /\ id < c.id)
       ELSE x > c.key \/ (x = c.key /\ id > c.id)

Follows(sort, id, c) == After(sort, KeyOf(sort, id), id, c)

MatchesFilter(id, filter) == \A f \in Fields : filter[f] \in {"", Kind[id][f]}

Catalogue(filter) ==
    {id \in Problems : /\ rows[id].visibility = "PUBLIC" /\ rows[id].status = "ACTIVE"
                       /\ MatchesFilter(id, filter)}

Snapshot(ids) ==
    {[id |-> id, updated |-> rows[id].updated, visibility |-> rows[id].visibility] : id \in ids}

\* The ids in the order of the sort.
InOrder(ids, sort) ==
    CHOOSE s \in [1..Cardinality(ids) -> ids] :
        \A i, j \in 1..Cardinality(ids) : i < j => Precedes(sort, s[i], s[j])

findPublicProblems(k) ==
    LET found == InOrder({id \in Catalogue(k.filter) : Follows(k.sort, id, k.cursor)}, k.sort)
        more == Len(found) > Size
        items == SubSeq(found, 1, IF more THEN Size ELSE Len(found)) IN
    [items |-> items, more |-> more, pages |-> 0, all |-> Snapshot(Catalogue(k.filter)),
     next |-> IF more THEN [sort |-> k.sort, key |-> KeyOf(k.sort, Last(items)), id |-> Last(items),
                            filter |-> k.filter] ELSE NoCursor]

\* decode: a cursor is good for the sort and the filter it was made for.
decode(k) == k.cursor = NoCursor \/ (k.cursor.sort = k.sort /\ k.cursor.filter = k.filter)

Managed(filter) ==
    {id \in Problems : /\ rows[id].status # "none"
                       /\ filter.status \in {"ALL", rows[id].status}
                       /\ filter.text \in {"", Kind[id].text}}

listProblems(k) ==
    LET found == InOrder(Managed(k.filter), "UPDATED_DESC")
        from == (k.page - 1) * Size
        to == IF from + Size < Len(found) THEN from + Size ELSE Len(found) IN
    [items |-> SubSeq(found, from + 1, to),
     more |-> FALSE, next |-> NoCursor, pages |-> (Len(found) + Size - 1) \div Size,
     all |-> Snapshot(Managed(k.filter))]

\* The pages that are not lists of problems have one answer.
Answer(k) ==
    CASE k.list = "catalog" -> findPublicProblems(k)
      [] k.list = "admin" -> listProblems(k)
      [] OTHER -> [NoData EXCEPT !.pages = 1]

Serve(k) ==
    /\ Query(k).asked = "sent"
    /\ \/ cache' = [cache EXCEPT ![k].asked = IF k.list = "catalog" /\ ~decode(k) THEN "INVALID_CURSOR"
                                              ELSE "ok",
                                 ![k].reply = IF k.list = "catalog" /\ ~decode(k) THEN NoData
                                              ELSE Answer(k)]
          /\ faults' = faults
       \/ /\ IF cache[k].failures = 0 THEN Disturbed ELSE faults' = faults
          /\ cache' = [cache EXCEPT ![k].asked = "lost"]
    /\ UNCHANGED <<serverVars, route, search, walk, dialog, create, known, acts>>

\* A lost request is tried once more (app/query-client.ts).
Hear(k) ==
    LET q == Query(k) IN
    /\ q.asked \in {"ok", "lost", "INVALID_CURSOR"}
    /\ cache' = [cache EXCEPT ![k] =
           CASE q.asked = "ok" ->
                    [Cancelled(q) EXCEPT !.data = q.reply, !.error = "none", !.stale = FALSE,
                                         !.overtaken = (q.overtaken /\ q.data = NoData)]
             [] q.asked = "lost" /\ q.failures = 0 -> [q EXCEPT !.asked = "sent", !.failures = 1]
             [] OTHER -> [Cancelled(q) EXCEPT !.error = q.asked]]
    /\ UNCHANGED <<serverVars, route, search, walk, dialog, create, known, acts, faults>>

\* The window gets the focus, the interval is over, or the user tries again.
Refetch ==
    \E k \in Observed(route, search) :
        /\ ~isFetching(k) /\ Acted
        /\ cache' = [cache EXCEPT ![k] = Asking(cache[k])]
        /\ UNCHANGED <<serverVars, route, search, walk, dialog, create, known, faults>>

-----------------------------------------------------------------------------
(* The public catalogue. *)

filtered == \E f \in Fields : search.filter[f] # ""

\* What stands in the place of the rows.
pageState ==
    CASE isPending(search) -> "loading"
      [] isError(search) /\ Query(search).data = NoData ->
             IF Query(search).error = "INVALID_CURSOR" THEN "first" ELSE "retry"
      [] Query(search).data # NoData /\ Query(search).data.items = <<>> -> "empty"
      [] OTHER -> "rows"

languageOptions ==
    {Kind[id].language : id \in Range(Query(search).data.items)} \cup {search.filter.language, ""}

\* The values a field of the toolbar offers.
toolbar(f) ==
    IF f = "language" THEN languageOptions ELSE {Kind[id][f] : id \in Problems} \cup {""}

\* The controls under and above the rows.
pagination ==
    CASE pageState = "rows" ->
             (IF search.cursor # NoCursor THEN {"first"} ELSE {})
             \cup (IF Query(search).data.more /\ ~isFetching(search) THEN {"next"} ELSE {})
      [] pageState = "first" -> {"first"}
      [] OTHER -> {}

\* A search with other filters starts from the first batch.
Filtered(filter) == CatalogKey(filter, search.sort, NoCursor)

catalogVars == <<serverVars, create, known, faults>>

\* applyText and the selects.
ChooseFilter ==
    /\ route = "catalog" /\ Acted
    /\ \E f \in Fields : \E v \in toolbar(f) \ {search.filter[f]} :
           Goes("catalog", Filtered([search.filter EXCEPT ![f] = v]))
    /\ walk' = <<>>
    /\ UNCHANGED catalogVars

ChooseSort ==
    /\ route = "catalog" /\ Acted
    /\ \E s \in Sorts \ {search.sort} : Goes("catalog", CatalogKey(search.filter, s, NoCursor))
    /\ walk' = <<>>
    /\ UNCHANGED catalogVars

clearFilters ==
    /\ route = "catalog" /\ filtered /\ Acted
    /\ Goes("catalog", FirstSearch) /\ walk' = <<>>
    /\ UNCHANGED catalogVars

FirstBatch ==
    /\ route = "catalog" /\ "first" \in pagination /\ Acted
    /\ Goes("catalog", Filtered(search.filter)) /\ walk' = <<>>
    /\ UNCHANGED catalogVars

NextBatch ==
    /\ route = "catalog" /\ "next" \in pagination /\ Acted
    /\ Goes("catalog", CatalogKey(search.filter, search.sort, Query(search).data.next))
    /\ walk' = Append(walk, Query(search).data)
    /\ UNCHANGED catalogVars

-----------------------------------------------------------------------------
(* The overview. *)

dashboardKeys == Observed("dashboard", DashboardKey)

loading == \E k \in dashboardKeys : isPending(k)
failed == \E k \in dashboardKeys : isError(k)

\* The private problems it lists, when it lists anything.
DashboardRows ==
    LET data == Query(DashboardKey).data IN
    IF loading \/ failed THEN {}
    ELSE {row \in data.all : row.visibility = "PRIVATE" /\ row.id \in Range(data.items)}

RetryDashboard ==
    /\ route = "dashboard" /\ ~loading /\ failed /\ Acted
    /\ cache' = [k \in DOMAIN cache |-> IF k \in dashboardKeys THEN Asking(cache[k]) ELSE cache[k]]
    /\ UNCHANGED <<serverVars, route, search, walk, dialog, create, known, faults>>

-----------------------------------------------------------------------------
(* The administrator's list. *)

ListState ==
    CASE isPending(search) -> "loading"
      [] isError(search) -> "retry"
      [] Query(search).data.items = <<>> -> "empty"
      [] OTHER -> "rows"

\* The pages the list offers to go to.
ListPages ==
    IF ListState = "rows" /\ Query(search).data.pages > 1
    THEN {p \in {search.page - 1, search.page + 1} : p \in 1..Query(search).data.pages} ELSE {}

adminVars == <<serverVars, walk, create, known, faults>>

\* The status, the text or another page.
ChooseList ==
    /\ route = "list" /\ ~dialog.open /\ Acted
    /\ \/ \E status \in {"ALL", "ACTIVE", "ARCHIVED"} \ {search.filter.status} :
              Goes("list", AdminKey(search.filter.text, status, 1))
       \/ \E text \in {Kind[id].text : id \in Problems} \cup {""} :
              text # search.filter.text /\ Goes("list", AdminKey(text, search.filter.status, 1))
       \/ \E page \in ListPages :
              Goes("list", AdminKey(search.filter.text, search.filter.status, page))
    /\ UNCHANGED adminVars

\* A link of the navigation or of a row.
Navigate ==
    /\ route # "catalog" /\ ~dialog.open /\ Acted
    /\ \/ route # "list" /\ Goes("list", AdminKey("", "ALL", 1))
       \/ route # "dashboard" /\ Goes("dashboard", DashboardKey)
       \/ /\ \/ route = "list" /\ ListState = "rows"
             \/ route = "dashboard" /\ DashboardRows # {}
          /\ Goes("workbench", search)
    /\ UNCHANGED adminVars

-----------------------------------------------------------------------------
(* The dialog that creates a problem. *)

creating == create # "none"

OpenDialog ==
    /\ route = "list" /\ ~dialog.open
    /\ dialog' = [Closed EXCEPT !.open = TRUE]
    /\ UNCHANGED <<serverVars, route, search, cache, walk, create, known, acts, faults>>

CloseDialog ==
    /\ dialog.open /\ ~creating
    /\ dialog' = Closed
    /\ UNCHANGED <<serverVars, route, search, cache, walk, create, known, acts, faults>>

\* The fields; the languages must be there to choose one.
FillDialog ==
    /\ dialog.open /\ ~creating
    /\ \E slug \in {"new", "taken"}, title \in {"", "title"}, language \in {"", "language"} :
           /\ language # "" => Query(OtherKey("languages")).data # NoData
           /\ dialog' = [dialog EXCEPT !.slug = slug, !.title = title, !.language = language]
    /\ dialog' # dialog
    /\ UNCHANGED <<serverVars, route, search, cache, walk, create, known, acts, faults>>

\* Nothing is sent before every field has a value.
onSubmit ==
    /\ dialog.open /\ ~creating /\ "" \notin {dialog.title, dialog.slug, dialog.language}
    /\ Acted /\ create' = "sent"
    /\ UNCHANGED <<serverVars, route, search, cache, walk, dialog, known, faults>>

Taken == dialog.slug = "taken" \/ rows[Created].status # "none"

\* problem-service creates a private problem; the answer may be lost.
ServeCreate ==
    /\ create = "sent"
    /\ IF Taken
       THEN create' = "409" /\ UNCHANGED <<serverVars, faults>>
       ELSE /\ clock' = clock + 1
            /\ rows' = [rows EXCEPT ![Created] = [visibility |-> "PRIVATE", status |-> "ACTIVE",
                                                  updated |-> clock + 1]]
            /\ \/ create' = "201" /\ UNCHANGED faults
               \/ create' = "lost" /\ Disturbed
    /\ UNCHANGED <<route, search, cache, walk, dialog, known, acts>>

\* A shown list is fetched anew, except one that is still fetched for the first
\* time: the cache keeps that request, and its answer, which may have been
\* computed already, then counts as fresh.
Refetched(q) ==
    IF q.data = NoData /\ q.asked # "no" THEN [q EXCEPT !.overtaken = (q.asked = "ok")]
    ELSE Asking(q)

\* invalidateQueries: every list of the administrator; the ones shown are
\* fetched anew.
invalidateQueries ==
    [k \in DOMAIN cache |->
        IF k.list # "admin" THEN cache[k]
        ELSE [IF k \in Observed(route, search) THEN Refetched(cache[k]) ELSE cache[k]
                 EXCEPT !.stale = TRUE]]

\* Mutant: the lists are left as they are.
HearCreateKeepingLists ==
    /\ create \in {"201", "409", "lost"}
    /\ create' = IF create = "201" THEN "refreshing" ELSE "none"
    /\ known' = (known \/ create = "201")
    /\ UNCHANGED <<serverVars, route, search, cache, walk, dialog, acts, faults>>

HearCreate ==
    /\ create \in {"201", "409", "lost"}
    /\ IF create = "201"
       THEN /\ create' = "refreshing" /\ known' = TRUE
            /\ cache' = invalidateQueries
       ELSE create' = "none" /\ UNCHANGED <<known, cache>>
    /\ UNCHANGED <<serverVars, route, search, walk, dialog, acts, faults>>

\* The lists shown were fetched: the workbench of the new problem is opened.
FinishCreate ==
    /\ create = "refreshing"
    /\ \A k \in Observed(route, search) : k.list = "admin" => ~isFetching(k)
    /\ create' = "none"
    /\ Goes("workbench", search)
    /\ UNCHANGED <<serverVars, walk, known, acts, faults>>

-----------------------------------------------------------------------------
(* Others change problems. *)

Others ==
    \E id \in Problems :
        /\ Disturbed
        /\ rows[id].status = "ACTIVE"
        /\ clock' = clock + 1
        /\ \/ rows' = [rows EXCEPT ![id].updated = clock + 1]
           \/ rows' = [rows EXCEPT ![id].updated = clock + 1,
                                   ![id].visibility = IF rows[id].visibility = "PUBLIC" THEN "PRIVATE" ELSE "PUBLIC"]
           \/ /\ rows[id].visibility = "PRIVATE"
              /\ rows' = [rows EXCEPT ![id].updated = clock + 1, ![id].status = "ARCHIVED"]
        /\ UNCHANGED <<route, search, cache, walk, dialog, create, known, acts>>

Init ==
    /\ \/ route = "catalog" /\ search = FirstSearch
       \/ route = "dashboard" /\ search = DashboardKey
    /\ clock = 2
    /\ \E times \in [Problems \ {Created} -> 1..2] :
           /\ route = "dashboard" => times = [id \in Problems \ {Created} |-> 1]
           /\ rows = [id \in Problems |->
                         IF id = Created THEN [visibility |-> "PRIVATE", status |-> "none", updated |-> 0]
                         ELSE [visibility |-> "PUBLIC", status |-> "ACTIVE", updated |-> times[id]]]
    /\ cache = [k \in Observed(route, search) |-> Asking(Idle)]
    /\ walk = <<>> /\ dialog = Closed /\ create = "none" /\ known = FALSE
    /\ acts = 0 /\ faults = 0

Next ==
    \/ \E k \in DOMAIN cache : Serve(k) \/ Hear(k)
    \/ Refetch
    \/ ChooseFilter \/ ChooseSort \/ clearFilters \/ FirstBatch \/ NextBatch
    \/ ChooseList \/ Navigate
    \/ OpenDialog \/ CloseDialog \/ FillDialog \/ onSubmit
    \/ ServeCreate \/ HearCreate \/ FinishCreate
    \/ RetryDashboard \/ Others

Spec == Init /\ [][Next]_vars

-----------------------------------------------------------------------------
(* Properties. *)

\* A cursor is only ever sent with the search it was issued for, so that the
\* catalogue never answers INVALID_CURSOR to a user who only uses its controls.
CursorIsOfSearch ==
    \A k \in DOMAIN cache : k.list = "catalog" => decode(k)

\* Going on from the first batch to the last shows every problem that stayed
\* as it was in all the answers on the way exactly once, whatever others
\* changed between the batches and however old the cached ones are.
WalkIsComplete ==
    LET data == Query(search).data
        batches == Append(walk, data) IN
    route = "catalog" /\ data # NoData /\ ~data.more =>
        \A row \in data.all :
            (\A i \in 1..Len(batches) : row \in batches[i].all) =>
                Cardinality({i \in 1..Len(batches) : row.id \in Range(batches[i].items)}) = 1

\* The catalogue as the user walks it: cursors stay with their search, and the
\* batches make up one list.
WalkIsSound == CursorIsOfSearch /\ WalkIsComplete

\* Once the creation of a problem is acknowledged, no list of the
\* administrator in which it belonged when it was created is taken as current
\* without it: such a list is fetched anew, now or when its page is opened.
\* One list is excepted, which the code does leave without the new problem: a
\* list whose first answer was computed before the creation and arrives after
\* it (the dialog can be used while the list loads, admin-problem-list-page.tsx:64).
NoListHidesTheCreated ==
    known =>
        \A k \in DOMAIN cache :
            LET q == cache[k] IN
            k.list = "admin" /\ k.filter.status # "ARCHIVED"
                /\ Created \in Managed(k.filter) /\ q.data # NoData
                /\ q.error = "none" /\ ~q.stale /\ ~q.overtaken =>
                    \E row \in q.data.all : row.id = Created

-----------------------------------------------------------------------------
(* The inductive invariant behind them. *)

Row == [visibility: {"PUBLIC", "PRIVATE"}, status: {"none", "ACTIVE", "ARCHIVED"}, updated: Nat]

RowsOK == rows \in [Problems -> Row] /\ clock \in Nat

\* Is the problem, as it was read, behind the cursor?
Behind(sort, row, c) ==
    After(sort, IF sort = "TITLE_ASC" THEN Title[row.id] ELSE row.updated, row.id, c)

CursorOK(c) == c.key \in Nat /\ c.id \in Nat

\* The items of a batch are the rows of its catalogue between two cursors, the
\* one it was asked with and the one it names, and the second is behind the
\* first.  An answer says where its cursor belongs.
BatchOK(k, b) ==
    /\ b.more \in BOOLEAN /\ CursorOK(b.next)
    /\ \A row \in b.all :
           /\ row.id \in Problems /\ row.updated \in Nat
           /\ row.id \in Range(b.items) <=>
                  Behind(k.sort, row, k.cursor) /\ (b.more => ~Behind(k.sort, row, b.next))
    /\ b.more => /\ b.next.sort = k.sort /\ b.next.filter = k.filter
                 /\ After(k.sort, b.next.key, b.next.id, k.cursor)

\* A catalogue's query knows its cursor, and has batches of its own search.
QueryOK(k, q) ==
    /\ q = [f \in DOMAIN Idle |-> q[f]]
    /\ k.list = "catalog" =>
           /\ k.sort \in Sorts /\ CursorOK(k.cursor) /\ decode(k)
           /\ BatchOK(k, q.data) /\ BatchOK(k, q.reply)

\* A list in which the created problem belongs, once the creation is known.
Owes(k) ==
    known /\ k.list = "admin" /\ k.filter.status # "ARCHIVED" /\ Created \in Managed(k.filter)

Shows(b) == \E row \in b.all : row.id = Created

\* What it takes as current and what is on the way were computed after the
\* creation, if no first answer was overtaken by it.
Current(q) ==
    /\ q.data # NoData /\ ~q.stale /\ ~q.overtaken => Shows(q.data)
    /\ q.asked = "ok" /\ ~(q.overtaken /\ q.data = NoData) => Shows(q.reply)

\* What is not shown waits for nothing.
CacheOK ==
    /\ cache = [k \in DOMAIN cache |-> cache[k]]
    /\ Observed(route, search) \subseteq DOMAIN cache
    /\ \A k \in DOMAIN cache :
           /\ QueryOK(k, cache[k])
           /\ k \notin Observed(route, search) => cache[k].asked = "no"
           /\ Owes(k) => Current(cache[k])

CreationOK == create = "201" \/ known => rows[Created].status # "none"

\* A problem that is in the catalogue of every batch left behind is in exactly
\* one of them, or it is behind the cursor and in none.
WalkOK ==
    route = "catalog" =>
        /\ search.list = "catalog"
        /\ walk = <<>> => search.cursor = NoCursor
        /\ \A row \in UNION {walk[i].all : i \in 1..Len(walk)} :
               (\A i \in 1..Len(walk) : row \in walk[i].all) =>
                   /\ row.id \in Problems /\ row.updated \in Nat
                   /\ IF Behind(search.sort, row, search.cursor)
                      THEN \A i \in 1..Len(walk) : row.id \notin Range(walk[i].items)
                      ELSE \E i \in 1..Len(walk) :
                               /\ row.id \in Range(walk[i].items)
                               /\ \A j \in 1..Len(walk) \ {i} : row.id \notin Range(walk[j].items)

ListsIInv == RowsOK /\ CacheOK /\ CreationOK /\ walk \in Seq(Range(walk)) /\ WalkOK
=============================================================================
