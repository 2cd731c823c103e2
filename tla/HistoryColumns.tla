---------------------------- MODULE HistoryColumns ----------------------------
(***************************************************************************)
(* The columns of the commit list: lib/columns.ts, the drag handles of     *)
(* GraphColumnResizer.tsx, the menu of GraphColumnMenu.tsx, and the widths *)
(* HistoryPane.tsx keeps during a drag.  The pointer moves more often than *)
(* a frame is drawn: moves are gathered and applied with the next frame,   *)
(* and the settings hear of the width when the pointer is let go.  Widths  *)
(* are pixels; the graph column follows its lanes until it is dragged.     *)
(***************************************************************************)
EXTENDS Integers, Sequences, FiniteSets, SequencesExt

CONSTANTS ColumnOrder,  \* GRAPH_COLUMNS, "refs" and "graph" among them
          ColumnFloor,  \* GRAPH_COLUMN_MIN_WIDTH
          BornWidths,   \* DEFAULT_GRAPH_COLUMN_WIDTHS, Follow for the graph
          TightWidths,  \* COMPACT_GRAPH_COLUMN_WIDTHS
          LaneExtents,  \* widths at which all lanes of a history fit
          Pointers,     \* where the pointer can be
          ColumnBound   \* keys, moves of the pointer and choices in a run

MostWidth   == 2000
IconWidth   == 60
Follow      == -1
NoWidths    == <<>>
NoDrag      == [column |-> ""]
ColumnNames == {ColumnOrder[i] : i \in DOMAIN ColumnOrder}

ASSUME ColumnAssumption ==
    /\ {"refs", "graph"} \subseteq ColumnNames
    /\ \A e \in LaneExtents : ColumnFloor["graph"] < e /\ e <= MostWidth
    /\ \A c \in ColumnNames : ColumnFloor[c] \in Nat
    /\ {BornWidths, TightWidths} \subseteq [ColumnNames -> Int]

VARIABLES
    columnWidths,  \* settings.graph_column_widths
    columnsShown,  \* settings.graph_columns, the visible ones
    draftWidths,   \* widths of this pane alone, or NoWidths
    columnDrag,    \* the handle held: column, pointer and width at its start, and
                   \* whether a key was pressed after the last move
    pointer,       \* where the pointer is
    pendingWidth,  \* the newest width asked for in this drag
    frameAsked,    \* an animation frame is asked for
    laneExtent,    \* the lanes of the history on the screen
    columnActs     \* keys, moves and choices so far (bound)

columnVars == <<columnWidths, columnsShown, draftWidths, columnDrag, pointer,
                pendingWidth, frameAsked, laneExtent, columnActs>>

Between(low, value, high) ==
    IF value > high THEN high ELSE IF value < low THEN low ELSE value

-----------------------------------------------------------------------------
(* lib/columns.ts *)

VisibleColumns == SelectSeq(ColumnOrder, LAMBDA c : c \in columnsShown)
Trailing       == VisibleColumns[Len(VisibleColumns)]

\* effectiveGraphColumnWidth and graphColumnWidth.
ColumnWidth(c, widths) ==
    IF c # "graph" THEN Between(ColumnFloor[c], widths[c], MostWidth)
    ELSE IF widths[c] = Follow THEN laneExtent
    ELSE Between(ColumnFloor[c], widths[c], laneExtent)

\* trailingColumnMinWidth: the last column takes what is left of the row.
TrailingFloor(widths) ==
    IF Trailing = "graph" THEN ColumnWidth("graph", widths) ELSE ColumnFloor[Trailing]

\* graphColumnsTemplate: the width of every visible column, in order.
Template(widths) ==
    [i \in DOMAIN VisibleColumns |->
        IF i = Len(VisibleColumns) THEN TrailingFloor(widths)
        ELSE ColumnWidth(VisibleColumns[i], widths)]

\* graphColumnOffset: what stands left of the lanes.
LaneOffset(widths) == IF "refs" \in columnsShown THEN ColumnWidth("refs", widths) ELSE 0

\* isRefColumnIconOnly: a column that stretches is never compact.
IconOnly(widths) == Trailing # "refs" /\ ColumnWidth("refs", widths) < IconWidth

-----------------------------------------------------------------------------
ActiveWidths == IF draftWidths = NoWidths THEN columnWidths ELSE draftWidths

LeastOf(c) == ColumnFloor[c]
MostOf(c)  == IF c = "graph" THEN laneExtent ELSE MostWidth

HandleOn(c) == c \in columnsShown /\ c # Trailing

ColumnInit ==
    /\ columnWidths = BornWidths /\ columnsShown = ColumnNames
    /\ draftWidths = NoWidths /\ columnDrag = NoDrag
    /\ pointer \in Pointers /\ pendingWidth = 0 /\ frameAsked = FALSE
    /\ laneExtent \in LaneExtents
    /\ columnActs = 0

ActOnColumns == columnActs < ColumnBound /\ columnActs' = columnActs + 1

\* resizeColumn of the pane: the draft of one column.
Resized(c, width) == [ActiveWidths EXCEPT ![c] = width]

\* beginDrag: what the handle knows of its width and limits stays as it is now.
BeginDrag(c) ==
    /\ columnDrag = NoDrag /\ HandleOn(c) /\ ActOnColumns
    /\ columnDrag' = [column |-> c, from |-> pointer, width |-> ColumnWidth(c, ActiveWidths),
                      most |-> MostOf(c), typed |-> FALSE]
    /\ UNCHANGED <<columnWidths, columnsShown, draftWidths, pointer, pendingWidth, frameAsked,
                   laneExtent>>

UnderPointer(drag, at) ==
    Between(LeastOf(drag.column), drag.width + at - drag.from, drag.most)

\* move: the newest width waits for the frame.
MovePointer(at) ==
    /\ at # pointer /\ pointer' = at /\ ActOnColumns
    /\ IF columnDrag = NoDrag THEN UNCHANGED <<columnDrag, pendingWidth, frameAsked>>
       ELSE /\ columnDrag' = [columnDrag EXCEPT !.typed = FALSE]
            /\ pendingWidth' = UnderPointer(columnDrag, at) /\ frameAsked' = TRUE
    /\ UNCHANGED <<columnWidths, columnsShown, draftWidths, laneExtent>>

\* The frame: the width asked for last is drawn.
DrawFrame ==
    /\ frameAsked /\ frameAsked' = FALSE
    /\ draftWidths' = Resized(columnDrag.column, pendingWidth)
    /\ UNCHANGED <<columnWidths, columnsShown, columnDrag, pointer, pendingWidth, laneExtent,
                   columnActs>>

\* The frame is cancelled and its width forgotten.
AtReleaseUnflushed == draftWidths

\* end: a frame that has not come is not waited for.
AtRelease ==
    IF frameAsked THEN Resized(columnDrag.column, pendingWidth) ELSE draftWidths

\* end and commitResize: the draft, if any, goes to the settings.
EndDrag ==
    /\ columnDrag # NoDrag
    /\ columnWidths' = IF AtRelease = NoWidths THEN columnWidths ELSE AtRelease
    /\ draftWidths' = NoWidths /\ columnDrag' = NoDrag /\ frameAsked' = FALSE
    /\ UNCHANGED <<columnsShown, pointer, pendingWidth, laneExtent, columnActs>>

\* handleKeyDown: the arrows, Home and End change the draft and nothing else.
PressOnHandle(c) ==
    /\ HandleOn(c) /\ ActOnColumns
    /\ LET width == ColumnWidth(c, ActiveWidths) IN
       \E next \in {Between(LeastOf(c), width + step, MostOf(c)) : step \in {-32, -8, 8, 32}}
                     \cup {LeastOf(c), MostOf(c)} :
           draftWidths' = Resized(c, next)
    /\ columnDrag' = IF columnDrag = NoDrag THEN NoDrag ELSE [columnDrag EXCEPT !.typed = TRUE]
    /\ UNCHANGED <<columnWidths, columnsShown, pointer, pendingWidth, frameAsked,
                   laneExtent>>

\* The menu: a column is shown or hidden, never the last one.
ToggleColumn(c) ==
    /\ columnDrag = NoDrag /\ ActOnColumns
    /\ c \in columnsShown => Cardinality(columnsShown) > 1
    /\ columnsShown' = (columnsShown \ {c}) \cup ({c} \ columnsShown)
    /\ UNCHANGED <<columnWidths, draftWidths, columnDrag, pointer, pendingWidth, frameAsked,
                   laneExtent>>

ResetColumns(layout) ==
    /\ columnDrag = NoDrag /\ ActOnColumns
    /\ columnsShown' = ColumnNames /\ columnWidths' = layout
    /\ UNCHANGED <<draftWidths, columnDrag, pointer, pendingWidth, frameAsked, laneExtent>>

\* Another page, tab or branch: the history has other lanes.
LanesChange(extent) ==
    /\ extent # laneExtent /\ laneExtent' = extent /\ ActOnColumns
    /\ UNCHANGED <<columnWidths, columnsShown, draftWidths, columnDrag, pointer, pendingWidth,
                   frameAsked>>

ColumnNext ==
    \/ \E c \in ColumnNames : BeginDrag(c) \/ PressOnHandle(c) \/ ToggleColumn(c)
    \/ \E at \in Pointers : MovePointer(at)
    \/ DrawFrame \/ EndDrag
    \/ \E layout \in {BornWidths, TightWidths} : ResetColumns(layout)
    \/ \E extent \in LaneExtents : LanesChange(extent)

ColumnSpec == ColumnInit /\ [][ColumnNext]_columnVars

-----------------------------------------------------------------------------
ColumnTypeOK ==
    /\ columnsShown \subseteq ColumnNames /\ columnsShown # {}
    /\ frameAsked \in BOOLEAN /\ frameAsked => columnDrag # NoDrag
    /\ pointer \in Pointers /\ laneExtent \in LaneExtents
    /\ columnActs \in 0..ColumnBound

\* A drag that moved ends under the pointer: the settings get the width it stands
\* at when it is let go (no key being pressed since), also when the frame of the last move has not come, and
\* also when the history got other lanes on the way.  (GraphColumnResizer.tsx:
\* "The newest position always wins, so a fast drag still ends exactly under the
\* cursor.")
DragEndsUnderPointer ==
    [][columnDrag # NoDrag /\ columnDrag' = NoDrag /\ ~columnDrag.typed
       /\ (frameAsked \/ pointer # columnDrag.from)
       => columnWidths'[columnDrag.column] = UnderPointer(columnDrag, pointer)]_columnVars

\* The lanes of the rows begin where the header says: the offset of a row is the
\* sum of the columns left of the graph.  (graphColumnOffset, graphColumnsTemplate.)
LanesUnderHeader ==
    "graph" \in columnsShown =>
        LET place == CHOOSE i \in DOMAIN VisibleColumns : VisibleColumns[i] = "graph"
        IN  FoldLeft(LAMBDA a, b : a + b, 0, SubSeq(Template(ActiveWidths), 1, place - 1))
              = LaneOffset(ActiveWidths)

\* A reset is seen: the columns get the widths of the layout.
\* (GraphColumnMenu.tsx: "Both resets restore every column too: a layout is the
\* widths and the visibility together.")
ResetIsSeen ==
    [][\A layout \in {BornWidths, TightWidths} :
         ResetColumns(layout) => ActiveWidths' = layout]_columnVars
=============================================================================
