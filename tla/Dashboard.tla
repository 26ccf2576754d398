-------------------------------- MODULE Dashboard --------------------------------
(***************************************************************************)
(* The dashboard, system and database pages of app.js: the user's clicks,  *)
(* requests in flight, the debounced search, the refresh timer and the     *)
(* animation frames of StatsTable, each run to its end by the one thread   *)
(* of the browser.  Responses arrive in any order and may be errors.  What *)
(* the server answers is any of the answers for the mode of the request;   *)
(* the other fields of the form only narrow them.                          *)
(***************************************************************************)
EXTENDS StatsTable, StatsCharts

CONSTANTS
    Answers,        \* Answers[mode]: the server's possible answers, sequences of rows
    StartPages,     \* pages a URL may name when the dashboard is opened
    DefaultLevel,   \* 'INFO', the level selected at first
    MaxLoads,       \* bound: calls of loadStats
    MaxActs         \* bound: what the user does, and refreshes

Pages == {"dashboard", "system", "database", "stream"}

\* The endpoints of the information pages and the panels their answers fill.
Fills == [build |-> {"buildInfo"}, system |-> {"memoryStats", "runtimeStats"},
          dbstats |-> {"dbStats", "storageStats", "recentActivity"}]
Panels == UNION {Fills[e] : e \in DOMAIN Fills}
Asked(p) == CASE p = "system" -> {"build", "system"} [] p = "database" -> {"dbstats"} [] OTHER -> {}
Filled(p) == UNION {Fills[e] : e \in Asked(p)}

\* The counts of the rows are counts: zero or more messages.
ASSUME DashboardAssumption ==
    /\ Answers \in [Modes -> SUBSET Seq(Rows)]
    /\ \A row \in Rows : CountOf(row) \in Nat
    /\ DefaultLevel \in Levels /\ StartPages \subseteq Pages
    /\ MaxLoads \in Nat /\ MaxLoads >= 2 /\ MaxActs \in Nat

VARIABLES
    viewMode,           \* the value of the form's select
    thead,              \* the mode the table's head is made for
    inflight,           \* requests of loadStats without a response
    loads,              \* requests of loadStats so far
    newest,             \* history: the response shown answers the newest request
    loading, errorShown,
    searchInput,        \* the text in the search field
    searchTimer,        \* the debounce timer is pending
    availableLoggers, selectedLoggers, selectedLevels,
    levelChart, timeSeriesChart,
    autoRefresh,        \* autoRefreshInterval is set
    panels,             \* what the panels of the information pages show
    fetches,            \* requests of those pages in flight, by endpoint
    acts

loadVars == <<viewMode, thead, inflight, loads, newest, loading, errorShown>>
searchVars == <<searchInput, searchTimer>>
chartVars == <<availableLoggers, selectedLoggers, selectedLevels, levelChart, timeSeriesChart>>
pageVars == <<panels, fetches>>
dashboardVars == <<tableVars, loadVars, searchVars, chartVars, pageVars, autoRefresh, acts>>

DashboardTypeOK ==
    /\ TableTypeOK
    /\ viewMode \in Modes /\ thead \in Modes
    /\ inflight \in SUBSET [id : 1 .. MaxLoads, viewMode : Modes] /\ loads \in 0 .. MaxLoads
    /\ newest \in BOOLEAN /\ loading \in BOOLEAN /\ errorShown \in BOOLEAN
    /\ searchInput \in Texts /\ searchTimer \in BOOLEAN
    /\ selectedLevels \in SUBSET Levels
    /\ autoRefresh \in BOOLEAN
    /\ panels \in [Panels -> {"", "loading", "shown", "error"}]
    /\ fetches \in [DOMAIN Fills -> Nat]
    /\ acts \in 0 .. MaxActs

\* DOMContentLoaded: the page of the URL is opened, which loads the statistics when it
\* is the dashboard, and they are loaded once more whatever the page.
DashboardInit ==
    /\ TableInit
    /\ viewMode = "detailed" /\ thead = "detailed"
    /\ \E p \in StartPages :
          /\ loads = IF p = "dashboard" THEN 2 ELSE 1
          /\ panels = [x \in Panels |-> IF x \in Filled(p) THEN "loading" ELSE ""]
          /\ fetches = [e \in DOMAIN Fills |-> IF e \in Asked(p) THEN 1 ELSE 0]
    /\ inflight = [id : 1 .. loads, viewMode : {viewMode}]
    /\ newest = FALSE /\ loading = TRUE /\ errorShown = FALSE
    /\ searchInput = NoText /\ searchTimer = FALSE
    /\ availableLoggers = {} /\ selectedLoggers = {} /\ selectedLevels = {DefaultLevel}
    /\ levelChart = LevelsChart(<<>>) /\ timeSeriesChart = SeriesChart(<<>>, {}, {})
    /\ autoRefresh = FALSE
    /\ acts = 0

Act == acts < MaxActs /\ acts' = acts + 1

----------------------------------------------------------------------------
(* loadStats.                                                              *)

\* buildQueryParams, of which the view mode counts here.
Request(mode) == [id |-> loads', viewMode |-> mode]

BeginLoad_HeadKept(mode) ==
    /\ loads < MaxLoads /\ loads' = loads + 1
    /\ inflight' = inflight \cup {Request(mode)}
    /\ newest' = FALSE /\ UNCHANGED thead
    /\ loading' = TRUE /\ errorShown' = FALSE
    /\ notice' = "" /\ shown' = <<>> /\ cleared' = TRUE
    /\ UNCHANGED <<currentData, filteredData, sortColumn, sortDirection, quickFilterText,
                   quickFilterLevel, frames, drawn>>

\* Up to the fetch, with the view mode of the form: the body is emptied, the head made
\* for the mode.  Renderings under way go on.
BeginLoad(mode) ==
    /\ loads < MaxLoads /\ loads' = loads + 1
    /\ inflight' = inflight \cup {Request(mode)}
    /\ thead' = mode /\ newest' = FALSE
    /\ loading' = TRUE /\ errorShown' = FALSE
    /\ notice' = "" /\ shown' = <<>> /\ cleared' = TRUE
    /\ UNCHANGED <<currentData, filteredData, sortColumn, sortDirection, quickFilterText,
                   quickFilterLevel, frames, drawn>>

\* updateLoggerList: with no logger at all the selection is left as it is.
UpdateLoggerList(data) ==
    /\ availableLoggers' = Loggers(data)
    /\ selectedLoggers' = IF Loggers(data) = {} THEN selectedLoggers
                          ELSE selectedLoggers \cap Loggers(data)

DrawCharts(data) ==
    /\ levelChart' = LevelsChart(data)
    /\ UpdateLoggerList(data)
    /\ timeSeriesChart' = SeriesChart(data, selectedLoggers', selectedLevels)

\* A response without rows: a message, an empty level chart, and nothing else.
ShowNothing ==
    /\ notice' = "no statistics" /\ shown' = <<>>
    /\ frames' = Detached /\ Meets("aggregated") /\ cleared' = FALSE
    /\ levelChart' = LevelsChart(<<>>)
    /\ UNCHANGED <<availableLoggers, selectedLoggers, timeSeriesChart>>

ResetQuickFilter_LevelKept ==
    quickFilterText' = NoText /\ UNCHANGED quickFilterLevel /\ searchInput' = NoText

\* The fields are emptied too; a pending timer of the search stays.
ResetQuickFilter ==
    quickFilterText' = NoText /\ quickFilterLevel' = NoLevel /\ searchInput' = NoText

\* The response of request r: filteredData is a copy made before currentData is
\* sorted, and the rows are drawn in the mode of the request.
Loaded(r, answer) ==
    /\ r \in inflight /\ inflight' = inflight \ {r}
    /\ loading' = FALSE /\ newest' = (r.id = loads)
    /\ currentData' = Sorted(answer, sortColumn, sortDirection)
    /\ filteredData' = answer
    /\ ResetQuickFilter
    /\ IF answer = <<>> THEN ShowNothing
       ELSE RenderTableData(r.viewMode, currentData', FALSE, Detached) /\ DrawCharts(answer)
    /\ UNCHANGED <<sortColumn, sortDirection, currentViewMode, viewMode, thead, loads,
                   errorShown, searchTimer, selectedLevels, pageVars, autoRefresh, acts>>

LoadFails_StillLoading(r) ==
    /\ r \in inflight /\ inflight' = inflight \ {r}
    /\ errorShown' = TRUE
    /\ UNCHANGED <<tableVars, viewMode, thead, loads, newest, loading, searchVars, chartVars, pageVars,
                   autoRefresh, acts>>

\* The fetch fails, or the response is not ok, or no JSON.
LoadFails(r) ==
    /\ r \in inflight /\ inflight' = inflight \ {r}
    /\ loading' = FALSE /\ errorShown' = TRUE
    /\ UNCHANGED <<tableVars, viewMode, thead, loads, newest, searchVars, chartVars, pageVars,
                   autoRefresh, acts>>

----------------------------------------------------------------------------
(* What makes the statistics load.                                         *)

\* Apply and the manual refresh.
Refresh ==
    /\ Act /\ BeginLoad(viewMode)
    /\ UNCHANGED <<currentViewMode, viewMode, searchVars, chartVars, pageVars, autoRefresh>>

ChangeViewMode(mode) ==
    /\ Act /\ mode # viewMode /\ viewMode' = mode
    /\ BeginLoad(mode)
    /\ currentViewMode' = mode
    /\ UNCHANGED <<searchVars, chartVars, pageVars, autoRefresh>>

ClearFilters_Blank ==
    /\ Act /\ viewMode' = ""
    /\ BeginLoad("detailed")
    /\ UNCHANGED <<currentViewMode, searchVars, chartVars, pageVars, autoRefresh>>

\* Clear filters resets the form, its view mode too; no change event follows, and
\* currentViewMode stays.
ClearFilters ==
    /\ Act /\ viewMode' = "detailed"
    /\ BeginLoad("detailed")
    /\ UNCHANGED <<currentViewMode, searchVars, chartVars, pageVars, autoRefresh>>

\* The checkbox: startAutoRefresh and stopAutoRefresh.  A change of the frequency stops
\* one interval and starts another.
ToggleAutoRefresh ==
    /\ Act /\ autoRefresh' = ~autoRefresh
    /\ UNCHANGED <<tableVars, loadVars, searchVars, chartVars, pageVars>>

AutoRefreshFires ==
    /\ autoRefresh /\ Act /\ BeginLoad(viewMode)
    /\ UNCHANGED <<currentViewMode, viewMode, searchVars, chartVars, pageVars, autoRefresh>>

\* navigateToPage, for a click on a tab and for the browser's back and forward: the
\* page's data is requested anew.  What the stream page does is in LogStreamClient.
Navigate(p) ==
    /\ Act
    /\ panels' = [x \in Panels |-> IF x \in Filled(p) THEN "loading" ELSE panels[x]]
    /\ fetches' = [e \in DOMAIN Fills |-> IF e \in Asked(p) THEN fetches[e] + 1 ELSE fetches[e]]
    /\ IF p = "dashboard" THEN BeginLoad(viewMode) /\ UNCHANGED <<currentViewMode, viewMode>>
                          ELSE UNCHANGED <<tableVars, loadVars>>
    /\ UNCHANGED <<searchVars, chartVars, autoRefresh>>

\* A response for the system or the database page: the panels show it, or an error.
InfoAnswered(e, outcome) ==
    /\ fetches[e] > 0 /\ fetches' = [fetches EXCEPT ![e] = @ - 1]
    /\ panels' = [x \in Panels |-> IF x \in Fills[e] THEN outcome ELSE panels[x]]
    /\ UNCHANGED <<tableVars, loadVars, searchVars, chartVars, autoRefresh, acts>>

----------------------------------------------------------------------------
(* Quick filter, sort, selections.                                         *)

\* Typing restarts the debounce timer.
Type(text) ==
    /\ Act /\ searchInput' = text /\ searchTimer' = TRUE
    /\ UNCHANGED <<tableVars, loadVars, chartVars, pageVars, autoRefresh>>

ApplyQuickFilter(text, level) ==
    /\ FilterTable(text, level)
    /\ DrawCharts(filteredData')
    /\ UNCHANGED <<loadVars, selectedLevels, pageVars, autoRefresh>>

\* The timer reads the field when it fires.
SearchTimerFires ==
    /\ searchTimer /\ searchTimer' = FALSE
    /\ ApplyQuickFilter(searchInput, quickFilterLevel)
    /\ UNCHANGED <<searchInput, acts>>

PickLevel(level) ==
    /\ Act /\ ApplyQuickFilter(quickFilterText, level)
    /\ UNCHANGED searchVars

\* The clear button empties the fields; a pending timer stays.
ClearQuickFilter ==
    /\ Act /\ searchInput' = NoText
    /\ ApplyQuickFilter(NoText, NoLevel)
    /\ UNCHANGED searchTimer

\* A click on a sortable header of the table.
ClickHeader(column) ==
    /\ Act /\ SortTable(column)
    /\ UNCHANGED <<loadVars, searchVars, chartVars, pageVars, autoRefresh>>

DrawSeries(loggers, levels) ==
    /\ selectedLoggers' = loggers /\ selectedLevels' = levels
    /\ timeSeriesChart' = SeriesChart(filteredData, loggers, levels)
    /\ UNCHANGED <<tableVars, loadVars, searchVars, availableLoggers, levelChart, pageVars,
                   autoRefresh>>

\* The list of loggers with its buttons for all and none.
SelectLoggers(loggers) == Act /\ DrawSeries(loggers, selectedLevels)

SelectTopLoggers ==
    /\ Act /\ availableLoggers # {}
    /\ \E top \in TopLoggers(filteredData) : DrawSeries(top, selectedLevels)

SelectLevels_NotDrawn(levels) ==
    /\ Act /\ selectedLevels' = levels
    /\ UNCHANGED <<tableVars, loadVars, searchVars, availableLoggers, selectedLoggers, levelChart,
                   timeSeriesChart, pageVars, autoRefresh>>

\* The list of levels with its buttons for all and none.
SelectLevels(levels) == Act /\ DrawSeries(selectedLoggers, levels)

Frame == AnimationFrame /\ UNCHANGED <<loadVars, searchVars, chartVars, pageVars, autoRefresh, acts>>

----------------------------------------------------------------------------
LoadAnswered ==
    \E r \in inflight :
        \/ \E answer \in Answers[r.viewMode] : Loaded(r, answer)
        \/ LoadFails(r)

InfoResponse(e) == \E outcome \in {"shown", "error"} : InfoAnswered(e, outcome)

DashboardNext ==
    \/ LoadAnswered \/ Frame \/ SearchTimerFires \/ AutoRefreshFires
    \/ \E e \in DOMAIN Fills : InfoResponse(e)
    \/ Refresh \/ ClearFilters \/ ToggleAutoRefresh \/ ClearQuickFilter \/ SelectTopLoggers
    \/ \E mode \in Modes : ChangeViewMode(mode)
    \/ \E p \in Pages : Navigate(p)
    \/ \E text \in Texts : Type(text)
    \/ \E level \in Levels \cup {NoLevel} : PickLevel(level)
    \/ \E column \in Columns[thead] : ClickHeader(column)
    \/ \E loggers \in SUBSET availableLoggers : SelectLoggers(loggers)
    \/ \E levels \in SUBSET Levels : SelectLevels(levels)

\* The browser draws frames, and every request ends in a response or an error.
DashboardFairness ==
    /\ WF_dashboardVars(Frame)
    /\ WF_dashboardVars(LoadAnswered)
    /\ \A e \in DOMAIN Fills : WF_dashboardVars(InfoResponse(e))

DashboardSpec == DashboardInit /\ [][DashboardNext]_dashboardVars /\ DashboardFairness

----------------------------------------------------------------------------
(* Properties.                                                             *)

ShownRows == [i \in DOMAIN shown |-> shown[i].row]
SortedRows == Sorted(filteredData, sortColumn, sortDirection)

IsSubsequence(s, t) ==
    \E p \in [DOMAIN s -> DOMAIN t] :
        \A i, j \in DOMAIN s : (i < j => p[i] < p[j]) /\ s[i] = t[p[i]]

\* Once nothing is being rendered, the table has all rows that pass the quick filter, in
\* the order of the sort, however many renderings appended to it; and it has
\* nothing but them if the last one was alone.  A rendering at once that older chunks
\* follow (renderAggregatedTableData) is the exception, as is a table a load has emptied.
TableComplete ==
    frames = <<>> /\ ~cleared /\ drawn # "over others" =>
        /\ IsSubsequence(SortedRows, ShownRows)
        /\ drawn = "alone" => ShownRows = SortedRows

\* The rows fit the head if the response drawn last is the newest request's and no renderings
\* have met: every row is one of an answer in the head's mode, and, while currentViewMode is
\* the form's, drawn in that mode, after sorts and quick filters too.  An older response that
\* arrives last is the exception (ViewAsChosen).
RowsFitHeaders ==
    frames = <<>> /\ newest /\ drawn = "alone" =>
        \A i \in DOMAIN shown :
            /\ \E answer \in Answers[thead] : Contains(answer, shown[i].row)
            /\ currentViewMode = viewMode => shown[i].cells = thead

\* The text in force is the one in the search field unless the user is still typing, and
\* filteredData is what text and level in force leave of currentData, whatever loads, clears
\* and late timers came in between.  (The level field has no timer: it is not a variable.)
FilterInForce ==
    /\ ~searchTimer => quickFilterText = searchInput
    /\ ToBag(filteredData) = ToBag(Filtered(currentData, quickFilterText, quickFilterLevel))

\* Both charts show the filtered rows and the selections of now; only an empty
\* answer leaves the time series as they were.  With every logger and every level
\* selected both count the same messages per bucket.
ChartsFollowData ==
    /\ levelChart = LevelsChart(filteredData)
    /\ currentData # <<>> =>
          timeSeriesChart = SeriesChart(filteredData, selectedLoggers, selectedLevels)
    /\ currentData # <<>> /\ selectedLoggers = Loggers(filteredData) /\ selectedLevels = {}
          /\ {row.Level : row \in ToSet(filteredData)} \subseteq ChartLevels
       => \A ts \in Buckets(filteredData) :
             SumFunction([g \in DOMAIN timeSeriesChart |-> timeSeriesChart[g][ts]])
                = SumFunction([l \in DOMAIN levelChart |-> levelChart[l][ts]])

\* The display says that it is loading or rendering: the table, or a panel of the
\* information pages.
Busy == loading \/ notice = "rendering" \/ \E x \in Panels : panels[x] = "loading"

\* It does not say so for ever, whichever requests fail, overtake each other or meet a
\* rendering, once the user lets it rest.
DisplaySettles == Busy ~> ~Busy

\* sortTable: "Re-render the table with filtered and sorted data": once it is rendered,
\* the table has these rows and no others.
TableIsFilteredData ==
    frames = <<>> /\ ~cleared /\ drawn # "over others" => ShownRows = SortedRows

\* index.html:44, the select "View Mode:" with "Detailed (by Logger)" and "Aggregated (Sum by
\* Level)": once every request is answered and drawn, the rows are in the view it shows.
ViewAsChosen ==
    inflight = {} /\ frames = <<>> /\ ~errorShown /\ drawn = "alone" =>
        \A i \in DOMAIN shown : shown[i].cells = viewMode
=============================================================================
