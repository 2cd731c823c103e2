------------------------------ MODULE GraphPaint ------------------------------
(***************************************************************************)
(* What the client draws of the rows the backend laid out: the routes of   *)
(* components/CommitGraph.tsx and the colours of                           *)
(* components/graphPresentation.ts.  Everything here is computed from the  *)
(* rows delivered so far; a page that arrives recomputes it.               *)
(***************************************************************************)
EXTENDS GraphLayout

CONSTANTS Slots,       \* GRAPH_LANE_SLOTS: colours of the palette
          ColumnWidths \* pixel widths the graph column is tried at

ASSUME PaintAssumption == Slots \in Nat \ {0} /\ ColumnWidths \subseteq Nat

Shown   == 1 .. delivered
Edges   == {e \in Shown \X (1 .. 2) : e[2] \in DOMAIN log.parents[e[1]]}
ParentOf(e)      == log.parents[e[1]][e[2]]
ParentVisible(e) == ParentOf(e) \in Shown

\* An edge ends on the lane of its parent's row, or on the lane the backend
\* gave it when that row is not loaded.
EndLane(e)   == IF ParentVisible(e) THEN lane[ParentOf(e)] ELSE toLane[e[1]][e[2]]
EndRow(e)    == IF ParentVisible(e) THEN ParentOf(e) ELSE delivered + 1

\* buildEdgePath: a merge edge leaves sideways and drops in the parent's lane,
\* a first-parent edge drops in its own lane and turns at the parent; an edge
\* to a row below the page bends at once.
DropLane(e) ==
    IF e[2] > 1 \/ ~ParentVisible(e) THEN EndLane(e) ELSE lane[e[1]]

-----------------------------------------------------------------------------
(* Pixels. *)

Padding    == 24
LaneWidth  == 18
Radius     == 11
NodeGap    == 6
MinExtent  == 96
MinColumn  == 41

AtMost(a, b)  == IF a < b THEN a ELSE b
AtLeast(a, b) == IF a > b THEN a ELSE b

MaxX(width) == AtLeast(Padding, width - Radius - NodeGap)

LaneX(l, maxX)  == AtMost(Padding + l * LaneWidth, maxX)
Collapsed(width) == MaxX(width) <= Padding

\* Every lane of the rows and of both ends of their edges.
LanesInUse ==
    {lane[row] : row \in Shown}
        \cup UNION {{toLane[row][i] : i \in DOMAIN toLane[row]} : row \in Shown}
LastLane    == IF LanesInUse = {} THEN 0 ELSE Largest(LanesInUse)
LaneExtent  == AtLeast(MinExtent, Padding * 2 + LastLane * LaneWidth + LaneWidth)
LastLaneX   == Padding + LastLane * LaneWidth

\* effectiveGraphColumnWidth of a dragged column.
GraphWidth(dragged) == AtLeast(MinColumn, AtMost(dragged, LaneExtent))

\* getCommitGraphOverflowEdge: <<left, width>> of the band over parked routes.
OverflowEdge(width) ==
    LET hidden == LastLaneX - MaxX(width)
        room   == MaxX(width) - Padding
        right  == MaxX(width) - Radius
        band   == AtMost(2 * Radius, AtMost(hidden, right))
    IN  IF hidden <= 0 \/ room <= 0 THEN <<>> ELSE <<right - band, band>>

\* getWipLane, and the two paths of the working copy.
WipLane == IF log.head \in Shown THEN lane[log.head] ELSE lane[1]

-----------------------------------------------------------------------------
(* Colours. *)

\* buildPrimaryComponent: what HEAD is connected to, through parents and
\* children, loaded or not.
PrimaryComponent(head) ==
    LET near(set) == set \cup {ParentOf(e) : e \in {f \in Edges : f[1] \in set}}
                         \cup {e[1] : e \in {f \in Edges : ParentOf(f) \in set}}
        grow[n \in 0 .. RowCount] ==
            IF n = 0 THEN {head} ELSE near(grow[n - 1])
    IN  grow[RowCount]

NoGroup == 0

\* g is [of, spans]: the group of each commit and the rows, lane and anchor
\* of each group, in the order the groups are opened.
Open(g, row, l, anchor) ==
    [g EXCEPT !.spans = Append(@, [first |-> row, last |-> row, lane |-> l,
                                   anchor |-> anchor, stash |-> FALSE])]
Extend(g, group, row) ==
    [g EXCEPT !.spans[group].first = AtMost(@, row),
              !.spans[group].last = AtLeast(@, row)]
ParentRow(parent) == IF parent \in Shown THEN parent ELSE delivered + 1

\* The first parent continues the group of its child, unless another child
\* claimed it and this one does not run straight into it.
ClaimFirst(g, row, group) ==
    LET parent   == log.parents[row][1]
        straight == lane[row] = toLane[row][1]
        claimed  == IF g.of[parent] = NoGroup \/ straight
                    THEN [g EXCEPT !.of[parent] = group] ELSE g
    IN  IF straight THEN Extend(claimed, group, ParentRow(parent)) ELSE claimed

\* Another parent has a group of its own, from the merge row on.
ClaimMerged(g, row, i) ==
    LET parent == log.parents[row][i]
        opened == IF g.of[parent] # NoGroup THEN g
                  ELSE LET o == Open(g, row, toLane[row][i], parent)
                       IN  [o EXCEPT !.of[parent] = Len(o.spans)]
        group  == opened.of[parent]
    IN  Extend(Extend(opened, group, row), group, ParentRow(parent))

\* A mutant: a commit stays in the group that claimed it, on another lane too.
GroupRowAnyLane(g, row) ==
    LET opened == IF g.of[row] # NoGroup THEN g
                  ELSE LET o == Open(g, row, lane[row], row)
                       IN  [o EXCEPT !.of[row] = Len(o.spans)]
        group  == opened.of[row]
        own    == Extend(opened, group, row)
        first  == IF log.parents[row] = <<>> THEN own ELSE ClaimFirst(own, row, group)
    IN  IF IsStash(row) THEN g
        ELSE IF Len(log.parents[row]) < 2 THEN first ELSE ClaimMerged(first, row, 2)

\* A commit opens a group unless one claimed it on this very lane.
GroupRow(g, row) ==
    LET mine   == g.of[row]
        opened == IF mine # NoGroup /\ g.spans[mine].lane = lane[row] THEN g
                  ELSE LET o == Open(g, row, lane[row], row)
                       IN  [o EXCEPT !.of[row] = Len(o.spans)]
        group  == opened.of[row]
        own    == Extend(opened, group, row)
        first  == IF log.parents[row] = <<>> THEN own ELSE ClaimFirst(own, row, group)
    IN  IF IsStash(row) THEN g
        ELSE IF Len(log.parents[row]) < 2 THEN first ELSE ClaimMerged(first, row, 2)

GroupStash(g, row) ==
    LET o     == Open(g, row, lane[row], row)
        group == Len(o.spans)
        mine  == [o EXCEPT !.of[row] = group, !.spans[group].stash = TRUE]
    IN  IF ~IsStash(row) \/ g.of[row] # NoGroup THEN g
        ELSE Extend(mine, group, ParentRow(log.parents[row][1]))

\* The commits first, row by row, then the stashes that no commit claimed.
CommitGroups ==
    LET g[n \in 0 .. delivered] ==
            IF n = 0 THEN [of |-> [row \in Rows |-> NoGroup], spans |-> <<>>]
            ELSE GroupRow(g[n - 1], n)
    IN  g[delivered]

Groups ==
    LET g[n \in 0 .. delivered] ==
            IF n = 0 THEN CommitGroups ELSE GroupStash(g[n - 1], n)
    IN  g[delivered]

\* Spans by first row, then lane, then the order they were opened in.
Before(spans, a, b) ==
    \/ spans[a].first < spans[b].first
    \/ spans[a].first = spans[b].first /\ spans[a].lane < spans[b].lane
    \/ spans[a].first = spans[b].first /\ spans[a].lane = spans[b].lane /\ a < b

FirstLeft(spans, left) ==
    CHOOSE a \in left : \A b \in left \ {a} : Before(spans, a, b)

Overlap(a, b) == a.first <= b.last /\ b.first <= a.last

NoSlot == -1

\* The slot of the next group; s is [slots, restart, left], the groups left
\* to come.
GiveSlot(spans, primary, s) ==
    LET group == FirstLeft(spans, s.left)
        span  == spans[group]
        floor == IF span.stash /\ log.changes THEN 1 ELSE 0
        block(g) == spans[g].lane \div Slots
        taken == {s.slots[g] : g \in
                     {h \in DOMAIN spans :
                         /\ s.slots[h] # NoSlot
                         /\ span.anchor \notin primary \/ block(h) = block(group)
                         /\ Overlap(spans[h], span)}}
        preferred == AtLeast(floor, span.lane % Slots)
        free == {k \in 0 .. Slots - 1 :
                    LET c == (preferred + k) % Slots IN c >= floor /\ c \notin taken}
        slot == IF span.lane < Slots /\ span.lane >= floor THEN span.lane
                ELSE IF free # {} THEN (preferred + Smallest(free)) % Slots
                ELSE AtLeast(floor, s.restart % Slots)
        exhausted == ~(span.lane < Slots /\ span.lane >= floor) /\ free = {}
    IN  [slots |-> [s.slots EXCEPT ![group] = slot],
         restart |-> IF exhausted THEN s.restart + 1 ELSE s.restart,
         left |-> s.left \ {group}]

\* The commit HEAD decorates when it is loaded, else the first row.
HeadRow == IF log.head \in Shown THEN log.head ELSE 1

\* The slots of the groups, given in the order of Before.
SlotsOf(spans, primary) ==
    LET s[n \in 0 .. Len(spans)] ==
            IF n = 0 THEN [slots |-> [a \in DOMAIN spans |-> NoSlot],
                           restart |-> 0, left |-> DOMAIN spans]
            ELSE GiveSlot(spans, primary, s[n - 1])
    IN  s[Len(spans)].slots

Colours ==
    LET g     == Groups
        slots == SlotsOf(g.spans, PrimaryComponent(HeadRow))
    IN  [row \in Rows |-> IF g.of[row] = NoGroup THEN 0 ELSE slots[g.of[row]]]

\* getGraphEdgeColor: a merge edge has the colour of the parent it leads to.
EdgeColour(colours, e) ==
    IF e[2] = 1 \/ IsStash(e[1]) THEN colours[e[1]] ELSE colours[ParentOf(e)]

-----------------------------------------------------------------------------
(* Properties, of the rows between two pages. *)

Drawn == ~laying /\ delivered > 0

\* The line of a branch, from a commit down to its first parent, never runs
\* behind another commit (lane_for_commit skips every lane that waits for a
\* commit; a branch that bends keeps its lane closed down to the parent).
BranchLineIsClear ==
    Drawn => \A e \in Edges :
        e[2] = 1 /\ ~IsStash(e[1]) /\ ParentVisible(e) =>
            \A row \in e[1] + 1 .. EndRow(e) - 1 : lane[row] # DropLane(e)

\* The line from the WIP row down to HEAD is lane 0 and has no commit on it:
\* the lane is reserved before the first row is laid out.
WipLineIsClear ==
    Drawn /\ WipHead \in Shown =>
        WipLane = 0 /\ \A row \in 1 .. log.head - 1 : lane[row] # 0

\* A commit in one of the first lanes has the colour of its lane, whatever
\* groups its children claimed for it, and HEAD under a WIP row has the
\* colour the WIP line is drawn with.
ColourIsStable ==
    Drawn => LET colours == Colours
             IN  /\ \A row \in Shown :
                        lane[row] < Slots /\ ~(IsStash(row) /\ log.changes) =>
                            colours[row] = lane[row]
                 /\ WipHead \in Shown => colours[log.head] = 0
                 /\ \A e \in Edges :
                        e[2] = 1 /\ ParentVisible(e) /\ ~IsStash(e[1])
                        /\ lane[e[1]] = EndLane(e) /\ EndLane(e) = toLane[e[1]][1]
                            => EdgeColour(colours, e) = colours[ParentOf(e)]

\* At every width of the column all nodes are inside it and the band marks
\* exactly the columns where some lane is parked and some is not.
ParkedLanesAreMarked ==
    Drawn => \A dragged \in ColumnWidths :
        LET width == GraphWidth(dragged)
            band  == OverflowEdge(width)
            parked == {l \in LanesInUse : Padding + l * LaneWidth > MaxX(width)}
        IN  /\ \A l \in LanesInUse : LaneX(l, MaxX(width)) + Radius <= width
            /\ band # <<>> <=> parked # {} /\ ~Collapsed(width)
            /\ band # <<>> => band[1] >= 0 /\ band[1] + band[2] + Radius <= width

\* The lanes can be told apart at every width: by colour, and by the band where
\* some are parked on one another.
LanesAreToldApart == ColourIsStable /\ ParkedLanesAreMarked
=============================================================================
