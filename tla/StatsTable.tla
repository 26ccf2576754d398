------------------------------- MODULE StatsTable -------------------------------
(***************************************************************************)
(* The statistics table of the dashboard (app.js): the rows of the last    *)
(* answer, the quick filter, the sort, and the rendering in chunks.        *)
(*                                                                         *)
(* The detailed view is drawn by renderChunk, one chunk of rows per        *)
(* animation frame.  A rendering under way is never cancelled: what is     *)
(* left of it stays in frames and appends to whatever the table holds by   *)
(* then.  It reads its array when the frame comes; live says that this     *)
(* array is the one in filteredData, which sortTable sorts in place.       *)
(* The operators with primed variables are parts of the handlers of        *)
(* Dashboard, which calls them with the values its own steps set.          *)
(***************************************************************************)
EXTENDS Integers, SequencesExt

CONSTANTS
    Rows,           \* rows of the server's answers: records with the fields of the JSON
    Columns,        \* Columns[mode]: the sortable columns of the head made for the mode,
                    \* named for the field of a row they show
    Texts,          \* texts of the quick search, NoText among them
    NoText,
    Found,          \* Found[t]: the rows whose host, logger or level contain t
    Levels,         \* log levels
    ChunkSize       \* CHUNK_SIZE

NoLevel == ""
NoColumn == ""
Modes == {"detailed", "aggregated"}

\* The values compared are numbers, or stand for the texts of a column by their order.
ASSUME StatsTableAssumption ==
    /\ \A row \in Rows, m \in Modes : \A c \in Columns[m] : c \in DOMAIN row => row[c] \in Int
    /\ NoText \in Texts
    /\ Found \in [Texts -> SUBSET Rows] /\ Found[NoText] = Rows
    /\ ChunkSize \in Nat \ {0}
    /\ NoLevel \notin Levels /\ NoColumn \notin UNION {Columns[m] : m \in Modes}

VARIABLES
    currentData,        \* the rows of the last answer
    filteredData,       \* those the quick filter lets through
    sortColumn, sortDirection,
    quickFilterText, quickFilterLevel,
    currentViewMode,    \* the mode sortTable and applyQuickFilter draw in
    notice,             \* the message in the table's body, "" for none
    shown,              \* the rows in the table's body, below it
    frames,             \* renderings under way, in the order of their animation frames
    drawn,              \* history: how the last rendering met those still under way
    cleared             \* history: a load has emptied the body since the last rendering

tableVars == <<currentData, filteredData, sortColumn, sortDirection, quickFilterText,
               quickFilterLevel, currentViewMode, notice, shown, frames, drawn, cleared>>

Rendering == [data : Seq(Rows), index : Nat, live : BOOLEAN]

TableTypeOK ==
    /\ currentData \in Seq(Rows) /\ filteredData \in Seq(Rows)
    /\ sortColumn \in (UNION {Columns[m] : m \in Modes}) \cup {NoColumn}
    /\ sortDirection \in {"asc", "desc"}
    /\ quickFilterText \in Texts /\ quickFilterLevel \in Levels \cup {NoLevel}
    /\ currentViewMode \in Modes
    /\ notice \in {"", "rendering", "nothing matches", "no statistics"}
    /\ shown \in Seq([row : Rows, cells : Modes])
    /\ frames \in Seq(Rendering)
    /\ drawn \in {"alone", "after others", "over others"} /\ cleared \in BOOLEAN

TableInit ==
    /\ currentData = <<>> /\ filteredData = <<>>
    /\ sortColumn = NoColumn /\ sortDirection = "asc"
    /\ quickFilterText = NoText /\ quickFilterLevel = NoLevel
    /\ currentViewMode = "detailed"
    /\ notice = "" /\ shown = <<>> /\ frames = <<>>
    /\ drawn = "alone" /\ cleared = FALSE

----------------------------------------------------------------------------
(* Sorting and filtering.                                                  *)

\* What the comparison sees of a column that the rows of the mode may not have.
Value(row, column) == IF column \in DOMAIN row THEN row[column] ELSE 0

\* The members of a finite set in an order, given as a set of pairs: as many come before
\* the k-th as there are numbers below k.
InOrder(I, order) ==
    [k \in 1 .. Cardinality(I) |->
        CHOOSE i \in I : Cardinality({j \in I : <<j, i>> \in order}) = k - 1]

\* The rows of data at the places of a set, in the order they have there.
RowsAt(data, places) ==
    LET ascending == InOrder(places, {e \in places \X places : e[1] < e[2]})
    IN  [k \in DOMAIN ascending |-> data[ascending[k]]]

\* sortTableData: by column and direction, rows with equal values as they were.
Comes(a, b, column, direction) ==
    IF direction = "asc" THEN Value(a, column) < Value(b, column)
                         ELSE Value(a, column) > Value(b, column)

Before(data, column, direction) ==
    {e \in (DOMAIN data) \X (DOMAIN data) :
        \/ Comes(data[e[1]], data[e[2]], column, direction)
        \/ ~Comes(data[e[2]], data[e[1]], column, direction) /\ e[1] < e[2]}

Sorted(data, column, direction) ==
    LET places == InOrder(DOMAIN data, Before(data, column, direction))
    IN  IF column = NoColumn THEN data ELSE [i \in DOMAIN data |-> data[places[i]]]

\* The two filters of applyQuickFilter.
Filtered(data, text, level) ==
    RowsAt(data, {i \in DOMAIN data : /\ data[i] \in Found[text]
                                      /\ level = NoLevel \/ data[i].Level = level})

----------------------------------------------------------------------------
(* Rendering.                                                              *)

Cells(data, mode) == [i \in DOMAIN data |-> [row |-> data[i], cells |-> mode]]

\* renderAggregatedTableData: at once.
RenderAggregated(data, others) ==
    /\ notice' = "" /\ shown' = Cells(data, "aggregated")
    /\ frames' = others

\* renderDetailedTableData: from the next animation frame on.
RenderDetailed(data, live, others) ==
    /\ notice' = "rendering" /\ shown' = <<>>
    /\ frames' = Append(others, [data |-> data, index |-> 0, live |-> live])

\* A rendering in this mode meets the earlier ones: it takes its turn after them, or,
\* at once, is over before they go on.
Meets(mode) ==
    drawn' = IF frames = <<>> THEN "alone"
             ELSE IF mode = "aggregated" THEN "over others" ELSE "after others"

\* A rendering in this mode; others are the renderings under way as the step leaves them.
RenderTableData(mode, data, live, others) ==
    /\ IF mode = "aggregated" THEN RenderAggregated(data, others)
                              ELSE RenderDetailed(data, live, others)
    /\ Meets(mode) /\ cleared' = FALSE

\* filteredData becomes another array: the renderings under way keep the old one.
Detached == [i \in DOMAIN frames |-> [frames[i] EXCEPT !.live = FALSE]]

ChunkEnd(f) == Min({f.index + ChunkSize, Len(f.data)})

AppendChunk_AlwaysClears(body, f) ==
    [notice |-> "", rows |-> Cells(SubSeq(f.data, f.index + 1, ChunkEnd(f)), "detailed")]

\* renderChunk: the first chunk clears the body, later ones append.
AppendChunk(body, f) ==
    LET chunk == Cells(SubSeq(f.data, f.index + 1, ChunkEnd(f)), "detailed")
    IN  IF f.index = 0 THEN [notice |-> "", rows |-> chunk]
                       ELSE [body EXCEPT !.rows = @ \o chunk]

\* One animation frame runs the chunks that were waiting for it, in order; a rendering
\* with rows left waits for the next.
AnimationFrame ==
    /\ frames # <<>>
    /\ LET body == FoldLeft(AppendChunk, [notice |-> notice, rows |-> shown], frames)
       IN  notice' = body.notice /\ shown' = body.rows
    /\ frames' = RowsAt([i \in DOMAIN frames |-> [frames[i] EXCEPT !.index = ChunkEnd(frames[i])]],
                        {i \in DOMAIN frames : ChunkEnd(frames[i]) < Len(frames[i].data)})
    /\ UNCHANGED <<currentData, filteredData, sortColumn, sortDirection, quickFilterText,
                   quickFilterLevel, currentViewMode, drawn, cleared>>

\* sortTable: toggles the direction of a column, sorts filteredData in place, and
\* with it the array of the live renderings, and renders.
SortTable(column) ==
    LET direction == IF column = sortColumn /\ sortDirection = "asc" THEN "desc" ELSE "asc"
        data == Sorted(filteredData, column, direction)
    IN  /\ sortColumn' = column /\ sortDirection' = direction
        /\ filteredData' = data
        /\ RenderTableData(currentViewMode, data, TRUE,
              [i \in DOMAIN frames |->
                  IF frames[i].live THEN [frames[i] EXCEPT !.data = data] ELSE frames[i]])
        /\ UNCHANGED <<currentData, quickFilterText, quickFilterLevel, currentViewMode>>

\* applyQuickFilter, the table's part: filter, sort, render; the message for no
\* match replaces what the rendering has just put there.
FilterTable(text, level) ==
    LET data == Sorted(Filtered(currentData, text, level), sortColumn, sortDirection)
    IN  /\ quickFilterText' = text /\ quickFilterLevel' = level
        /\ filteredData' = data
        /\ IF data = <<>> /\ currentData # <<>>
           THEN /\ notice' = "nothing matches" /\ shown' = <<>>
                /\ frames' = IF currentViewMode = "aggregated" THEN Detached
                             ELSE Append(Detached, [data |-> data, index |-> 0, live |-> TRUE])
                /\ Meets(currentViewMode) /\ cleared' = FALSE
           ELSE RenderTableData(currentViewMode, data, TRUE, Detached)
        /\ UNCHANGED <<currentData, sortColumn, sortDirection, currentViewMode>>
=============================================================================
