----------------------------- MODULE GraphLayout -----------------------------
(***************************************************************************)
(* The lane layout of the commit graph (gitcat-core/src/graph.rs), one     *)
(* step per row, and the way `history` of the backend calls it page by     *)
(* page with the lanes of the cursor carried over.                         *)
(*                                                                         *)
(* A commit is the number of its row in the log: a parent always has a     *)
(* larger number (topological order).  The vector `heads` is padded with   *)
(* NoCommit up to MaxLane: the code reads a missing entry and a None entry *)
(* alike, and an allocation past the end gives the same lane either way.   *)
(***************************************************************************)
EXTENDS Integers, FiniteSets, SequencesExt

CONSTANTS RowCount,    \* commits of the log
          PageRows,    \* commits of one history page
          StashRows    \* the rows that may be stashes

ASSUME GraphAssumption ==
    /\ RowCount \in Nat \ {0}
    /\ PageRows \in Nat \ {0}
    /\ StashRows \subseteq 1 .. RowCount

VARIABLES
    log,          \* what git answers: the parents of each row, the stashes,
                  \* HEAD, and whether the worktree has changes
    laying,       \* a page is being laid out
    laid,         \* rows laid out so far
    delivered,    \* rows of the pages already answered
    heads,        \* LaneState.heads: the commit each lane waits for
    reserved,     \* LaneState.merge_reserved
    materialized, \* lanes with a visible line, of the page being laid out
    terminated,   \* lanes whose route ended, of the page being laid out
    parentLane,   \* parent_lanes of the page being laid out
    lane,         \* the lane of each row laid out
    toLane        \* to_lane of each edge of a delivered row, by parent

graphVars == <<log, laying, laid, delivered, heads, reserved, materialized,
               terminated, parentLane, lane, toLane>>

Rows     == 1 .. RowCount
NoCommit == 0
NoLane   == -1
MaxLane  == 2 * RowCount
Lanes    == 0 .. MaxLane

\* What a row of git log may list as parents: at most two, below the row,
\* never a stash; a stash has its base only.
ParentLists(row, stashes) ==
    LET below == {p \in Rows : p > row} \ stashes
        one   == {<<p>> : p \in below}
    IN  IF row \in stashes THEN one
        ELSE {<<>>} \cup one
             \cup ({<<p, q>> : p, q \in below} \ {<<p, p>> : p \in below})

\* The logs of RowCount rows, built row after row.
ParentsOfRows(stashes) ==
    LET upTo[row \in 0 .. RowCount] ==
            IF row = 0 THEN {<<>>}
            ELSE {Append(rows, list) : rows \in upTo[row - 1],
                                       list \in ParentLists(row, stashes)}
    IN  upTo[RowCount]

Histories ==
    UNION {[parents : ParentsOfRows(stashes), stashes : {stashes},
            head : Rows \ stashes, changes : BOOLEAN] :
               stashes \in SUBSET StashRows}

IsStash(row) == row \in log.stashes
WipHead      == IF log.changes THEN log.head ELSE NoCommit
Page         == {row \in Rows : delivered < row /\ row <= delivered + PageRows}

Smallest(set) == CHOOSE x \in set : \A y \in set : x <= y
Largest(set)  == CHOOSE x \in set : \A y \in set : x >= y

Claims(hs, commit) == {l \in Lanes : hs[l] = commit}
Taken(hs)          == {l \in Lanes : hs[l] # NoCommit}
FirstClaim(hs, commit) ==
    IF Claims(hs, commit) = {} THEN NoLane ELSE Smallest(Claims(hs, commit))

\* allocate_lane without a preference: the first open lane from the floor on.
FirstOpen(hs, floor) == Smallest({l \in Lanes : l >= floor /\ hs[l] = NoCommit})

-----------------------------------------------------------------------------
\* reachable_ancestors: through the parents of the commits of this page.
Reachable ==
    LET reach[row \in Rows] ==
            {row} \cup (IF row \notin Page THEN {}
                        ELSE UNION {reach[log.parents[row][i]] :
                                       i \in DOMAIN log.parents[row]})
    IN  reach

\* build_merge_convergences: the first later row of the page that every
\* parent of a merge reaches.
Convergence(row) ==
    LET parents == log.parents[row]
        common  == {c \in Page : /\ c > row
                                 /\ \A i \in DOMAIN parents :
                                       c \in Reachable[parents[i]]}
    IN  IF Len(parents) < 2 \/ common = {} THEN NoCommit ELSE Smallest(common)

\* allocate_interior_hole_or_after_rightmost and allocate_after_rightmost:
\* a hole between two active lanes that no ended route left, or the lane
\* after the last active one.
LaneOfNewTip ==
    LET taken == Taken(heads)
        holes == {l \in Lanes \ terminated :
                     /\ heads[l] = NoCommit
                     /\ \E left, right \in taken : left < l /\ l < right}
    IN  IF holes # {} THEN Smallest(holes)
        ELSE IF taken = {} THEN 0 ELSE Largest(taken) + 1

\* The stash branch of lane_for_commit: a lane reserved for a branch without
\* a row may be shared, a visible line may not.
LaneOfStash ==
    Smallest({l \in Lanes : ~(l \in materialized /\ heads[l] # NoCommit)})

LaneForCommit(row) ==
    LET merge == reserved[row]
    IN  IF merge # NoLane /\ heads[merge] = row THEN merge
        ELSE IF Claims(heads, row) # {} THEN FirstClaim(heads, row)
        ELSE IF IsStash(row) THEN LaneOfStash
        ELSE LaneOfNewTip

\* The loop over the parents of one commit: where each parent will be drawn
\* and which lanes wait for it.  s carries heads, merge_reserved and
\* parent_lanes from one parent to the next.
PlaceParent(row, at, s, i) ==
    LET parent    == log.parents[row][i]
        claimed   == FirstClaim(s.heads, parent)
        mergeLane == s.reserved[parent]
        \* The WIP branch keeps its lane, and so does a branch further left
        \* than the lane a row above claimed for the shared ancestor.
        keeps == /\ i = 1
                 /\ \/ WipHead = row
                    \/ /\ ~IsStash(row)
                       /\ s.heads[at] = NoCommit
                       /\ mergeLane # claimed
                       /\ claimed # NoLane /\ at < claimed
        target == IF keeps THEN at
                  ELSE IF claimed # NoLane THEN claimed
                  ELSE IF i > 1 THEN FirstOpen(s.heads, at + 1)
                  ELSE IF ~IsStash(row) /\ s.heads[at] = NoCommit THEN at
                  ELSE FirstOpen(s.heads, 0)
        opens  == keeps \/ claimed = NoLane
        placed == IF opens THEN [s.heads EXCEPT ![target] = parent] ELSE s.heads
        \* A first parent a merge reserved further right: the own lane stays
        \* closed until the step out to it.
        stepsOut == /\ i = 1 /\ ~IsStash(row)
                    /\ target > at /\ mergeLane = target
                    /\ placed[at] = NoCommit
    IN  [heads      |-> IF stepsOut THEN [placed EXCEPT ![at] = parent] ELSE placed,
         reserved   |-> IF ~keeps /\ claimed = NoLane /\ i > 1
                        THEN [s.reserved EXCEPT ![parent] = target]
                        ELSE s.reserved,
         parentLane |-> [s.parentLane EXCEPT ![parent] = target]]

PlaceParents(row, at, start) ==
    LET count == Len(log.parents[row])
        s[i \in 0 .. count] ==
            IF i = 0 THEN start ELSE PlaceParent(row, at, s[i - 1], i)
    IN  s[count]

\* A lane left of the merge is held for the commit its parents meet at.
HoldConvergence(row, at, hs) ==
    LET meeting == Convergence(row)
        open    == FirstOpen(hs, 0)
    IN  IF meeting # NoCommit /\ Claims(hs, meeting) = {} /\ open < at
        THEN [hs EXCEPT ![open] = meeting]
        ELSE hs

\* A mutant: the lane of a bending route is open for the rows below.
HoldNoBend(row, at, lanesOfParents, hs) == hs

\* A route that bends left keeps its own lane closed down to the parent.
HoldBend(row, at, lanesOfParents, hs) ==
    LET parents == log.parents[row]
        bending == {i \in DOMAIN parents : lanesOfParents[parents[i]] < at}
    IN  IF hs[at] = NoCommit /\ bending # {}
        THEN [hs EXCEPT ![at] = parents[Smallest(bending)]]
        ELSE hs

-----------------------------------------------------------------------------
GraphInit ==
    /\ log \in Histories
    /\ laying = FALSE /\ laid = 0 /\ delivered = 0
    /\ heads = [l \in Lanes |-> NoCommit]
    /\ reserved = [row \in Rows |-> NoLane]
    /\ materialized = {} /\ terminated = {}
    /\ parentLane = [row \in Rows |-> NoLane]
    /\ lane = [row \in Rows |-> NoLane]
    /\ toLane = [row \in Rows |-> <<>>]

\* The start of layout_commits_with_context: an empty cursor is seeded with
\* HEAD when there is a WIP row; everything but heads and merge_reserved is
\* fresh on every page.
StartPage ==
    /\ ~laying /\ Page # {}
    /\ laying' = TRUE
    /\ heads' = IF Taken(heads) = {} /\ log.changes
                THEN [heads EXCEPT ![0] = WipHead] ELSE heads
    /\ materialized' = Taken(heads')
    /\ terminated' = {}
    /\ parentLane' = [row \in Rows |-> NoLane]
    /\ UNCHANGED <<log, laid, delivered, reserved, lane, toLane>>

\* One commit of the loop.
LayRow ==
    /\ laying /\ laid + 1 \in Page
    /\ LET row      == laid + 1
           at       == LaneForCommit(row)
           consumed == [l \in Lanes |->
                           IF heads[l] = row THEN NoCommit ELSE heads[l]]
           placed   == PlaceParents(row, at,
                           [heads |-> consumed, reserved |-> reserved,
                            parentLane |-> parentLane])
           held     == HoldConvergence(row, at, placed.heads)
           final    == HoldBend(row, at, placed.parentLane, held)
       IN  /\ laid' = row
           /\ lane' = [lane EXCEPT ![row] = at]
           /\ heads' = final
           /\ reserved' = placed.reserved
           /\ parentLane' = placed.parentLane
           /\ materialized' = materialized \cup {at}
           /\ terminated' = (terminated \ Taken(final))
                            \cup (IF final[at] = NoCommit THEN {at} ELSE {})
    /\ UNCHANGED <<log, laying, delivered, toLane>>

\* The last loop: the edges get the lane their parent has at the end of the
\* page, and the page is answered with the cursor for the next one.
EndPage ==
    /\ laying /\ laid + 1 \notin Page
    /\ laying' = FALSE
    /\ toLane' = [row \in Rows |->
                     IF row \in Page
                     THEN [i \in DOMAIN log.parents[row] |->
                              parentLane[log.parents[row][i]]]
                     ELSE toLane[row]]
    /\ delivered' = laid
    /\ UNCHANGED <<log, laid, heads, reserved, materialized, terminated,
                   parentLane, lane>>

GraphNext == StartPage \/ LayRow \/ EndPage
GraphSpec == GraphInit /\ [][GraphNext]_graphVars

-----------------------------------------------------------------------------
GraphTypeOK ==
    /\ log \in Histories
    /\ laying \in BOOLEAN
    /\ delivered \in 0 .. RowCount /\ laid \in delivered .. RowCount
    /\ heads \in [Lanes -> 0 .. RowCount]
    /\ reserved \in [Rows -> {NoLane} \cup Lanes]
    /\ materialized \subseteq Lanes /\ terminated \subseteq Lanes
    /\ parentLane \in [Rows -> {NoLane} \cup Lanes]
    /\ lane \in [Rows -> {NoLane} \cup Lanes]
=============================================================================
