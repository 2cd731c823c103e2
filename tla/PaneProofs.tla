------------------------------ MODULE PaneProofs ------------------------------
(***************************************************************************)
(* Proofs about the panes, for any addresses, targets, columns, settings,  *)
(* tabs, paths, hosts, lists, branches and bounds: the avatars, the        *)
(* conflict indicator, the drag of a column, the preview of the            *)
(* preferences, drafts, folders, repository lists, badges, and the head of *)
(* the demo.                                                               *)
(***************************************************************************)
EXTENDS MCPanes, SequenceTheorems, FiniteSetTheorems, WellFoundedInduction, TLAPS

-----------------------------------------------------------------------------
(***************************************************************************)
(* AvatarRounds: nobody is left without a picture and off both records.    *)
(***************************************************************************)
View(v) == v = [web |-> v.web, tip |-> v.tip, emails |-> v.emails]
Round(r) == r = [live |-> r.live, emails |-> r.emails, web |-> r.web, source |-> r.source]
Pictured(e) == \E i \in images : i.email = e

\* An address on the record of what was asked has a picture or is open still, also
\* one that is not in view any more; a round somebody waits for is of the screen.
AvatarInv ==
    /\ View(authors)
    /\ \A e \in askedSet : Pictured(e) \/ e \in unresolved
    /\ \A i \in images : i.web = authors.web /\ i.source = source
    /\ \A r \in rounds : Round(r) /\ (r.live => r.web = authors.web /\ r.source = source)

LEMMA RoundAsked ==
    ASSUME AvatarInv, NEW snapshot, NEW from, NEW over \in BOOLEAN, AskRound(snapshot, from, over),
           View(snapshot), authors' = snapshot, source' = from,
           ~ over => snapshot.web = authors.web /\ from = source
    PROVE  AvatarInv'
<1>1. \A e \in askedSet' : Pictured(e)' \/ e \in unresolved'
  <2> SUFFICES ASSUME NEW e \in askedSet' PROVE Pictured(e)' \/ e \in unresolved'
    OBVIOUS
  <2>1. CASE over
    BY <2>1 DEF AskRound
  <2>2. CASE ~ over
    BY <2>2 DEF AskRound, AvatarInv, Pictured
  <2> QED BY <2>1, <2>2
<1>2. \A i \in images' : i.web = authors'.web /\ i.source = source'
  BY DEF AskRound, AvatarInv
<1>3. ASSUME NEW r \in rounds' PROVE Round(r) /\ (r.live => r.web = snapshot.web /\ r.source = from)
  <2>1. CASE \E q \in rounds : r = [q EXCEPT !.live = FALSE]
    BY <2>1 DEF AvatarInv, Round
  <2>2. CASE \E pending : r = [live |-> TRUE, emails |-> pending, web |-> snapshot.web, source |-> from]
    BY <2>2 DEF Round
  <2> QED BY <1>3, <2>1, <2>2 DEF AskRound
<1> QED BY <1>1, <1>2, <1>3 DEF AvatarInv

LEMMA AvatarStepHolds == ASSUME AvatarInv, [AvatarNext]_avatarVars PROVE AvatarInv'
<1>1. CASE ViewLoaded
  <2>1. PICK v \in Views : /\ authors' = v /\ source' = source
                           /\ AskRound(v, source, v.web # authors.web)
    BY <1>1 DEF ViewLoaded
  <2>2. View(v)
    BY DEF Views, View
  <2> QED BY <2>1, <2>2, RoundAsked
<1>2. CASE PageLoaded
  <2>1. PICK more : LET v == [authors EXCEPT !.emails = @ \cup more]
                    IN  authors' = v /\ source' = source /\ AskRound(v, source, FALSE)
    BY <1>2 DEF PageLoaded
  <2> DEFINE v == [authors EXCEPT !.emails = @ \cup more]
  <2>2. View(v) /\ v.web = authors.web
    <3>1. authors \in [web : {authors.web}, tip : {authors.tip}, emails : {authors.emails}]
      BY DEF AvatarInv, View
    <3>2. v = [web |-> authors.web, tip |-> authors.tip, emails |-> authors.emails \cup more]
      BY <3>1
    <3> QED BY <3>2 DEF View
  <2>3. authors' = v /\ source' = source /\ AskRound(v, source, FALSE)
    BY <2>1
  <2> HIDE DEF v
  <2> QED BY <2>2, <2>3, RoundAsked
<1>3. CASE SetSource
  <2>1. PICK s : authors' = authors /\ source' = s /\ AskRound(authors, s, TRUE)
    BY <1>3 DEF SetSource
  <2>2. View(authors)
    BY DEF AvatarInv
  <2> QED BY <2>1, <2>2, RoundAsked
<1>4. CASE RoundResolves
  <2>1. PICK r \in rounds, found \in SUBSET UNION {q.emails : q \in rounds} :
          /\ unresolved' = IF r.live THEN unresolved \ found ELSE unresolved
          /\ images' = IF r.live
                       THEN {i \in images : i.email \notin found}
                            \cup {[email |-> e, web |-> r.web, source |-> r.source] : e \in found}
                       ELSE images
          /\ rounds' = rounds \ {r}
          /\ UNCHANGED <<authors, source, askedSet>>
    BY <1>4 DEF RoundResolves, StillOpen, OffTheRecord
  <2>2. ASSUME NEW e \in askedSet' PROVE Pictured(e)' \/ e \in unresolved'
    <3>1. Pictured(e) \/ e \in unresolved
      BY <2>1, <2>2 DEF AvatarInv
    <3>2. CASE r.live /\ e \in found
      <4>1. [email |-> e, web |-> r.web, source |-> r.source] \in images'
        BY <2>1, <3>2
      <4> QED BY <4>1 DEF Pictured
    <3>3. CASE ~ (r.live /\ e \in found)
      BY <2>1, <3>1, <3>3 DEF Pictured
    <3> QED BY <3>2, <3>3
  <2>3. \A i \in images' : i.web = authors'.web /\ i.source = source'
    BY <2>1 DEF AvatarInv
  <2> QED BY <2>1, <2>2, <2>3 DEF AvatarInv
<1>5. CASE RoundFails
  BY <1>5 DEF RoundFails, AvatarInv, Pictured
<1>6. CASE UNCHANGED avatarVars
  BY <1>6 DEF avatarVars, AvatarInv, Pictured
<1> QED BY <1>1, <1>2, <1>3, <1>4, <1>5, <1>6 DEF AvatarNext

\* An author with an initial can be asked about again, and a picture is of the
\* repository and the source on the screen, whatever the rounds of useAvatars.ts
\* are answered with, and in which order.
THEOREM AvatarsAreRetried == AvatarSpec => []InitialsAreRetried
<1>1. AvatarInit => AvatarInv
  BY DEF AvatarInit, AvatarInv, View, Pictured
<1>2. AvatarInv => InitialsAreRetried
  BY DEF AvatarInv, InitialsAreRetried, Pictured
<1> QED BY <1>1, <1>2, AvatarStepHolds, PTL DEF AvatarSpec

-----------------------------------------------------------------------------
(***************************************************************************)
(* ConflictPreflight: the indicator speaks of what is on the screen.       *)
(***************************************************************************)
\* The question the effect would ask now.
Target == conflictTarget(trialTab, targetChosen, trialView)
Asking(c) ==
    /\ c.tab = trialTab /\ c.target = Target
    /\ c.head = trialView.head /\ c.oid = conflictTargetOid(trialView, Target)

\* A question with the current number is the one of the screen, and the only one.
TrialInv ==
    /\ IndicatorIsOfScreen
    /\ trialSeq \in Nat
    /\ \A c \in trials : c.seq \in Nat /\ c.seq <= trialSeq
    /\ \A c \in trials : c.seq = trialSeq =>
          /\ Asking(c) /\ c.tab # NoTab /\ ~ trialView.conflicts
          /\ \A d \in trials : d.seq = trialSeq => d = c

LEMMA TrialAsked ==
    ASSUME TrialInv, NEW tab, NEW choice, NEW snapshot, TryMerge(tab, choice, snapshot),
           trialTab' = tab, targetChosen' = choice, trialView' = snapshot
    PROVE  TrialInv'
<1> DEFINE target == conflictTarget(tab, choice, snapshot)
<1>1. Target' = target
  BY DEF Target, conflictTarget
<1>2. CASE Deps(tab, choice, snapshot) = Deps(trialTab, targetChosen, trialView)
  <2>1. /\ snapshot.conflicts = trialView.conflicts /\ tab = trialTab /\ snapshot.head = trialView.head
        /\ target = Target /\ conflictTargetOid(snapshot, target) = conflictTargetOid(trialView, Target)
    BY <1>2 DEF Deps, DepsWithTips, Target
  <2>2. UNCHANGED <<preflight, checking, trials, trialSeq>>
    BY <1>2 DEF TryMerge
  <2>3. \A c : Asking(c)' <=> Asking(c)
    BY <1>1, <2>1 DEF Asking, conflictTargetOid
  <2>4. IndicatorIsOfScreen'
    BY <1>1, <2>1, <2>2 DEF TrialInv, IndicatorIsOfScreen, Target, conflictTargetOid
  <2> QED BY <2>1, <2>2, <2>3, <2>4 DEF TrialInv
<1>3. CASE Deps(tab, choice, snapshot) # Deps(trialTab, targetChosen, trialView)
  <2> DEFINE asks == tab # NoTab /\ ~snapshot.conflicts /\ target # NoTarget
             new  == [seq |-> trialSeq + 1, tab |-> tab, target |-> target,
                      head |-> snapshot.head, oid |-> conflictTargetOid(snapshot, target)]
  <2>1. /\ trialSeq' = trialSeq + 1 /\ preflight' = NoAnswer /\ checking' = asks
        /\ trials' = trials \cup (IF asks THEN {new} ELSE {})
    BY <1>3 DEF TryMerge
  <2>2. \A c \in trials' : c.seq = trialSeq' => asks /\ c = new
    BY <2>1 DEF TrialInv
  <2>3. /\ new.seq = trialSeq + 1 /\ new.tab = tab /\ new.target = target
        /\ new.head = snapshot.head /\ new.oid = conflictTargetOid(snapshot, target)
    OBVIOUS
  <2>4. ASSUME NEW c, c = new PROVE Asking(c)'
    BY <1>1, <2>4 DEF Asking, conflictTargetOid
  <2>5. checking' <=> \E c \in trials' : c.seq = trialSeq'
    BY <2>1, <2>2, <2>3
  <2>6. IndicatorIsOfScreen'
    BY <1>1, <2>1, <2>5 DEF IndicatorIsOfScreen, Target
  <2>7. trialSeq' \in Nat /\ \A c \in trials' : c.seq \in Nat /\ c.seq <= trialSeq'
    BY <2>1, <2>3 DEF TrialInv
  <2> HIDE DEF new, target
  <2> QED BY <2>1, <2>2, <2>3, <2>4, <2>6, <2>7 DEF TrialInv
<1> QED BY <1>2, <1>3

LEMMA TrialStepHolds == ASSUME TrialInv, [TrialNext]_trialVars PROVE TrialInv'
<1>1. CASE SwitchTab
  BY <1>1, TrialAsked DEF SwitchTab
<1>2. CASE TrialOverview
  BY <1>2, TrialAsked DEF TrialOverview
<1>3. CASE selectConflictTarget
  <2>1. PICK choice : /\ TryMerge(trialTab, choice, trialView) /\ targetChosen' = choice
                      /\ UNCHANGED <<trialTab, trialView>>
    BY <1>3 DEF selectConflictTarget
  <2> QED BY <2>1, TrialAsked
<1>4. CASE RepositoryMoves
  BY <1>4 DEF RepositoryMoves, TrialInv, IndicatorIsOfScreen, Asking, Target, conflictTarget,
              conflictTargetOid
<1>5. CASE TrialAnswers
  <2>1. PICK c \in trials, state \in {"clean", "conflicting", "unavailable"} :
          /\ preflight' = IF c.seq = trialSeq /\ c.tab = trialTab
                          THEN [tab |-> c.tab, target |-> c.target, head |-> c.head,
                                oid |-> c.oid, state |-> state]
                          ELSE preflight
          /\ checking' = IF c.seq = trialSeq THEN FALSE ELSE checking
          /\ trials' = trials \ {c}
          /\ UNCHANGED <<trialTab, targetChosen, trialView, trialSeq>>
    BY <1>5 DEF TrialAnswers
  <2>2. Target' = Target /\ \A d : Asking(d)' <=> Asking(d)
    BY <2>1 DEF Target, Asking, conflictTarget, conflictTargetOid
  <2>3. CASE c.seq = trialSeq
    <3>1. Asking(c) /\ c.tab # NoTab /\ ~ trialView.conflicts /\ \A d \in trials' : d.seq # trialSeq
      BY <2>1, <2>3 DEF TrialInv
    <3>2. /\ preflight' = [tab |-> c.tab, target |-> c.target, head |-> c.head,
                           oid |-> c.oid, state |-> state]
          /\ ~ checking'
      BY <2>1, <2>3, <3>1 DEF Asking
    <3>3. /\ preflight'.tab = c.tab /\ preflight'.target = c.target
          /\ preflight'.head = c.head /\ preflight'.oid = c.oid
          /\ preflight' # NoAnswer
      BY <3>1, <3>2 DEF NoAnswer
    <3>4. IndicatorIsOfScreen'
      BY <2>1, <2>2, <3>1, <3>2, <3>3 DEF IndicatorIsOfScreen, Asking, Target, conflictTargetOid
    <3> QED BY <2>1, <3>1, <3>4 DEF TrialInv
  <2>4. CASE c.seq # trialSeq
    <3>1. IndicatorIsOfScreen'
      BY <2>1, <2>2, <2>4 DEF TrialInv, IndicatorIsOfScreen, Target, conflictTargetOid
    <3> QED BY <2>1, <2>2, <2>4, <3>1 DEF TrialInv
  <2> QED BY <2>3, <2>4
<1>6. CASE UNCHANGED trialVars
  BY <1>6 DEF trialVars, TrialInv, IndicatorIsOfScreen, Asking, Target, conflictTarget,
              conflictTargetOid
<1> QED BY <1>1, <1>2, <1>3, <1>4, <1>5, <1>6 DEF TrialNext

\* However tabs, targets, overviews and trial merges interleave, the indicator of
\* useConflictPreflight.ts speaks of the repository, the target and the commits on
\* the screen, and checks exactly as long as an answer to that is on its way.
THEOREM IndicatorFollowsScreen == TrialSpec => []IndicatorIsOfScreen
<1>1. TrialInit => TrialInv
  BY DEF TrialInit, TrialInv, IndicatorIsOfScreen
<1>2. TrialInv => IndicatorIsOfScreen
  BY DEF TrialInv
<1> QED BY <1>1, <1>2, TrialStepHolds, PTL DEF TrialSpec

-----------------------------------------------------------------------------
(***************************************************************************)
(* HistoryColumns: a drag ends under the pointer.                          *)
(***************************************************************************)
OnColumns(widths) == widths = [c \in ColumnNames |-> widths[c]]
Dragging(d) ==
    d \in [column : ColumnNames, from : {d.from}, width : {d.width}, most : {d.most}, typed : BOOLEAN]

\* The width that waits for its frame is the one under the pointer, and once the
\* frame is drawn the draft has it; a key pressed in between takes it from there.
DragInv ==
    /\ OnColumns(columnWidths)
    /\ draftWidths = NoWidths \/ OnColumns(draftWidths)
    /\ columnDrag = NoDrag \/ Dragging(columnDrag)
    /\ frameAsked => columnDrag # NoDrag /\ pendingWidth = UnderPointer(columnDrag, pointer)
    /\ columnDrag # NoDrag /\ ~ columnDrag.typed /\ ~ frameAsked /\ pointer # columnDrag.from =>
          /\ draftWidths # NoWidths
          /\ draftWidths[columnDrag.column] = UnderPointer(columnDrag, pointer)

LEMMA ResizedColumns ==
    ASSUME DragInv, NEW c \in ColumnNames, NEW width
    PROVE  /\ OnColumns(Resized(c, width)) /\ Resized(c, width) # NoWidths
           /\ Resized(c, width)[c] = width
<1>1. OnColumns(ActiveWidths)
  BY DEF DragInv, ActiveWidths
<1>2. Resized(c, width) = [d \in ColumnNames |-> IF d = c THEN width ELSE ActiveWidths[d]]
  BY <1>1 DEF OnColumns, Resized
<1>3. Resized(c, width) # NoWidths
  <2>1. c \in DOMAIN Resized(c, width)
    BY <1>2
  <2>2. DOMAIN NoWidths = {}
    BY DEF NoWidths
  <2> QED BY <2>1, <2>2
<1> QED BY <1>2, <1>3 DEF OnColumns

LEMMA TypedDrag ==
    ASSUME NEW d, Dragging(d), NEW typed \in BOOLEAN
    PROVE  LET e == [d EXCEPT !.typed = typed]
           IN  /\ Dragging(e) /\ e.typed = typed /\ e.column = d.column /\ e.from = d.from
               /\ \A at : UnderPointer(e, at) = UnderPointer(d, at)
BY DEF Dragging, UnderPointer

LEMMA NotDragging == ASSUME NEW d, Dragging(d) PROVE d # NoDrag
<1>1. "from" \in DOMAIN d
  BY DEF Dragging
<1>2. "from" \notin DOMAIN NoDrag
  BY DEF NoDrag
<1> QED BY <1>1, <1>2

LEMMA ColumnStepHolds == ASSUME DragInv, [ColumnNext]_columnVars PROVE DragInv'
<1>1. ASSUME NEW c \in ColumnNames, BeginDrag(c) PROVE DragInv'
  <2>1. /\ Dragging(columnDrag') /\ columnDrag'.from = pointer /\ ~ frameAsked
        /\ UNCHANGED <<columnWidths, draftWidths, pointer, frameAsked>>
    BY <1>1 DEF BeginDrag, Dragging, DragInv
  <2> QED BY <2>1 DEF DragInv, OnColumns
<1>2. ASSUME NEW c \in ColumnNames, PressOnHandle(c) PROVE DragInv'
  <2>1. /\ OnColumns(draftWidths') /\ draftWidths' # NoWidths
        /\ UNCHANGED <<columnWidths, pointer, pendingWidth, frameAsked>>
    BY <1>2, ResizedColumns DEF PressOnHandle
  <2>2. CASE columnDrag = NoDrag
    BY <1>2, <2>1, <2>2 DEF PressOnHandle, DragInv, OnColumns
  <2>3. CASE columnDrag # NoDrag
    <3>1. Dragging(columnDrag) /\ columnDrag' = [columnDrag EXCEPT !.typed = TRUE]
      BY <1>2, <2>3 DEF PressOnHandle, DragInv
    <3>2. /\ Dragging(columnDrag') /\ columnDrag'.typed /\ columnDrag' # NoDrag
          /\ \A at : UnderPointer(columnDrag', at) = UnderPointer(columnDrag, at)
      BY <3>1, TypedDrag, NotDragging
    <3>3. frameAsked => pendingWidth = UnderPointer(columnDrag', pointer)
      BY <3>2 DEF DragInv
    <3>4. UnderPointer(columnDrag, pointer)' = UnderPointer(columnDrag', pointer)
      BY <2>1 DEF UnderPointer, LeastOf
    <3>5. OnColumns(columnWidths)'
      BY <2>1 DEF DragInv, OnColumns
    <3> QED BY <2>1, <3>2, <3>3, <3>4, <3>5 DEF DragInv
  <2> QED BY <2>2, <2>3
<1>3. ASSUME NEW c \in ColumnNames, ToggleColumn(c) PROVE DragInv'
  BY <1>3 DEF ToggleColumn, DragInv, OnColumns
<1>4. ASSUME NEW at \in Pointers, MovePointer(at) PROVE DragInv'
  <2>1. CASE columnDrag = NoDrag
    BY <1>4, <2>1 DEF MovePointer, DragInv, OnColumns
  <2>2. CASE columnDrag # NoDrag
    <3>1. /\ Dragging(columnDrag) /\ columnDrag' = [columnDrag EXCEPT !.typed = FALSE]
          /\ pendingWidth' = UnderPointer(columnDrag, at) /\ frameAsked' /\ pointer' = at
          /\ UNCHANGED <<columnWidths, draftWidths>>
      BY <1>4, <2>2 DEF MovePointer, DragInv
    <3>2. /\ Dragging(columnDrag') /\ columnDrag' # NoDrag
          /\ UnderPointer(columnDrag', at) = UnderPointer(columnDrag, at)
      BY <3>1, TypedDrag, NotDragging
    <3>3. UnderPointer(columnDrag, pointer)' = UnderPointer(columnDrag', at)
      BY <3>1 DEF UnderPointer, LeastOf
    <3> QED BY <3>1, <3>2, <3>3 DEF DragInv, OnColumns
  <2> QED BY <2>1, <2>2
<1>5. CASE DrawFrame
  <2>1. /\ Dragging(columnDrag) /\ pendingWidth = UnderPointer(columnDrag, pointer)
        /\ draftWidths' = Resized(columnDrag.column, pendingWidth)
        /\ UNCHANGED <<columnWidths, columnDrag, pointer>> /\ ~ frameAsked'
    BY <1>5 DEF DrawFrame, DragInv
  <2>2. columnDrag.column \in ColumnNames
    BY <2>1 DEF Dragging
  <2>3. /\ OnColumns(draftWidths') /\ draftWidths' # NoWidths
        /\ draftWidths'[columnDrag.column] = UnderPointer(columnDrag, pointer)
    BY <2>1, <2>2, ResizedColumns
  <2>4. UnderPointer(columnDrag, pointer)' = UnderPointer(columnDrag, pointer)
    BY <2>1 DEF UnderPointer, LeastOf
  <2> QED BY <2>1, <2>3, <2>4 DEF DragInv, OnColumns
<1>6. CASE EndDrag
  <2>1. Dragging(columnDrag) /\ columnDrag.column \in ColumnNames
    BY <1>6 DEF EndDrag, DragInv, Dragging
  <2>2. OnColumns(columnWidths')
    BY <1>6, <2>1, ResizedColumns DEF EndDrag, AtRelease, DragInv
  <2> QED BY <1>6, <2>2 DEF EndDrag, DragInv
<1>7. ASSUME NEW layout \in {BornWidths, TightWidths}, ResetColumns(layout) PROVE DragInv'
  <2>1. OnColumns(layout)
    BY ColumnAssumption DEF OnColumns
  <2> QED BY <1>7, <2>1 DEF ResetColumns, DragInv, OnColumns
<1>8. ASSUME NEW extent \in LaneExtents, LanesChange(extent) PROVE DragInv'
  BY <1>8 DEF LanesChange, DragInv, OnColumns, UnderPointer, LeastOf
<1>9. CASE UNCHANGED columnVars
  BY <1>9 DEF columnVars, DragInv, OnColumns, UnderPointer, LeastOf
<1> QED BY <1>1, <1>2, <1>3, <1>4, <1>5, <1>6, <1>7, <1>8, <1>9 DEF ColumnNext

\* A drag of GraphColumnResizer.tsx that moved leaves the width under the pointer
\* in the settings, however moves, frames, keys and new lanes interleave.
THEOREM DragsEndUnderPointer == ColumnSpec => DragEndsUnderPointer
<1> DEFINE Ends ==
      columnDrag # NoDrag /\ columnDrag' = NoDrag /\ ~columnDrag.typed
      /\ (frameAsked \/ pointer # columnDrag.from)
      => columnWidths'[columnDrag.column] = UnderPointer(columnDrag, pointer)
<1>1. ColumnInit => DragInv
  <2>1. OnColumns(BornWidths)
    BY ColumnAssumption DEF OnColumns
  <2> QED BY <2>1 DEF ColumnInit, DragInv
<1>2. ASSUME DragInv, ColumnNext PROVE Ends
  <2> SUFFICES ASSUME columnDrag # NoDrag, columnDrag' = NoDrag, ~columnDrag.typed,
                      frameAsked \/ pointer # columnDrag.from
               PROVE  columnWidths'[columnDrag.column] = UnderPointer(columnDrag, pointer)
    OBVIOUS
  <2>1. Dragging(columnDrag) /\ columnDrag.column \in ColumnNames
    BY <1>2 DEF DragInv, Dragging
  <2>2. \A typed \in BOOLEAN : [columnDrag EXCEPT !.typed = typed] # NoDrag
    BY <2>1, TypedDrag, NotDragging
  <2>3. EndDrag
    BY <1>2, <2>2 DEF ColumnNext, BeginDrag, PressOnHandle, ToggleColumn, MovePointer, DrawFrame,
                      ResetColumns, LanesChange
  <2>4. AtRelease # NoWidths /\ AtRelease[columnDrag.column] = UnderPointer(columnDrag, pointer)
    BY <1>2, <2>1, ResizedColumns DEF DragInv, AtRelease
  <2> QED BY <2>3, <2>4 DEF EndDrag
<1>3. DragInv /\ [ColumnNext]_columnVars => [Ends]_columnVars
  BY <1>2
<1> QED BY <1>1, <1>3, ColumnStepHolds, PTL DEF ColumnSpec, DragEndsUnderPointer

-----------------------------------------------------------------------------
(***************************************************************************)
(* SettingsDraft: a preview ends with its dialog.                          *)
(***************************************************************************)
\* Settings, and so a draft of them, are never taken for the absence of a draft.
Whole(s) == "themes" \in DOMAIN s

PreviewInv ==
    /\ PreviewEnds
    /\ Whole(disk.settings) /\ Whole(inUse)
    /\ draft # NoDraft => Whole(draft)

LEMMA WholeIsDraft == ASSUME NEW s, Whole(s) PROVE s # NoDraft
<1>1. "themes" \notin DOMAIN NoDraft
  BY DEF NoDraft
<1> QED BY <1>1 DEF Whole

LEMMA ShapeIsWhole == ASSUME NEW s, SettingsShape(s) PROVE Whole(s)
BY DEF SettingsShape, Whole

LEMMA FileSettings == ASSUME NEW file \in StateFiles PROVE Whole(file.settings)
BY FilesAssumption, ShapeIsWhole

LEMMA NormalizedWhole ==
    ASSUME NEW s, Whole(s), NEW legacy PROVE Whole(Normalized(s, legacy))
BY DEF Whole, Normalized

LEMMA FilledWhole ==
    ASSUME NEW file, Whole(file.settings) PROVE Whole(Filled(file))
BY DEF Whole, Filled

\* What an edit makes of a draft is a draft, and is shown.
LEMMA EditHolds == ASSUME PreviewInv, NEW s, Whole(s), EditDraft(s) PROVE PreviewInv'
BY WholeIsDraft DEF PreviewInv, PreviewEnds, EditDraft

LEMMA PreviewStepHolds == ASSUME PreviewInv, [SettingsNext]_settingsVars PROVE PreviewInv'
<1>1. CASE LoadSettings
  BY <1>1, NormalizedWhole, FilledWhole DEF LoadSettings, PreviewInv, PreviewEnds
<1>2. CASE SaveState
  BY <1>2 DEF SaveState, PreviewInv, PreviewEnds
<1>3. CASE WorkspaceMoves
  BY <1>3 DEF WorkspaceMoves, PreviewInv, PreviewEnds
<1>4. CASE RestartSettings
  <2>1. Whole(DefaultSettings)
    BY DEF Whole, DefaultSettings
  <2> QED BY <1>4, <2>1 DEF RestartSettings, PreviewInv, PreviewEnds
<1>5. CASE OpenSettings
  BY <1>5 DEF OpenSettings, PreviewInv, PreviewEnds
<1>6. CASE CancelSettings
  BY <1>6 DEF CancelSettings, CloseDialog, PaintAfterDialog, PreviewInv, PreviewEnds
<1>7. CASE SaveSettings
  BY <1>7, NormalizedWhole
     DEF SaveSettings, CloseDialog, PaintAfterDialog, PreviewInv, PreviewEnds
<1>8. CASE ResetDefaults
  <2>1. Whole(DefaultSettings)
    BY DEF Whole, DefaultSettings
  <2> QED BY <1>8, <2>1, EditHolds DEF ResetDefaults
<1>9. ASSUME NEW f, NEW n, TypeNumber(f, n) PROVE PreviewInv'
  <2>1. Whole([draft EXCEPT !.numbers[f] = n])
    BY <1>9 DEF TypeNumber, Turned, PreviewInv, Whole
  <2> QED BY <1>9, <2>1, EditHolds DEF TypeNumber
<1>10. ASSUME NEW f, ToggleFlag(f) PROVE PreviewInv'
  <2>1. Whole([draft EXCEPT !.flags = (@ \ {f}) \cup ({f} \ @)])
    BY <1>10 DEF ToggleFlag, Turned, PreviewInv, Whole
  <2> QED BY <1>10, <2>1, EditHolds DEF ToggleFlag
<1>11. ASSUME NEW m, ChoosePullMode(m) PROVE PreviewInv'
  <2>1. Whole([draft EXCEPT !.mode = m])
    BY <1>11 DEF ChoosePullMode, Turned, PreviewInv, Whole
  <2> QED BY <1>11, <2>1, EditHolds DEF ChoosePullMode
<1>12. ASSUME NEW a, Record(a) \/ ResetKey(a) PROVE PreviewInv'
  <2>1. CASE Record(a)
    BY <2>1 DEF Record, PreviewInv, PreviewEnds
  <2>2. CASE ResetKey(a)
    <3>1. Whole([draft EXCEPT !.keys[a] = DefaultKeys[a]])
      BY <2>2 DEF ResetKey, PreviewInv, Whole
    <3> QED BY <2>2, <3>1, EditHolds DEF ResetKey
  <2> QED BY <1>12, <2>1, <2>2
<1>13. CASE StopRecording
  BY <1>13 DEF StopRecording, PreviewInv, PreviewEnds
<1>14. ASSUME NEW e, Capture(e) PROVE PreviewInv'
  <2>1. \A key : Whole([draft EXCEPT !.keys[recording] = key])
    BY <1>14 DEF Capture, PreviewInv, Whole
  <2>2. \/ \E key : EditDraft([draft EXCEPT !.keys[recording] = key])
        \/ UNCHANGED <<disk, inUse, draft, painted>>
    BY <1>14 DEF Capture
  <2>3. CASE \E key : EditDraft([draft EXCEPT !.keys[recording] = key])
    BY <2>1, <2>3, EditHolds
  <2>4. CASE UNCHANGED <<disk, inUse, draft, painted>>
    BY <2>4 DEF PreviewInv, PreviewEnds
  <2> QED BY <2>2, <2>3, <2>4
<1>15. CASE CreateTheme \/ DuplicateTheme
  <2>1. PICK themes, active : EditDraft([draft EXCEPT !.active = active, !.themes = themes])
    BY <1>15 DEF CreateTheme, DuplicateTheme, AddTheme
  <2>2. draft # NoDraft
    BY <1>15 DEF CreateTheme, DuplicateTheme, Turned
  <2>3. Whole([draft EXCEPT !.active = active, !.themes = themes])
    BY <2>2 DEF PreviewInv, Whole
  <2> QED BY <2>1, <2>3, EditHolds
<1>16. ASSUME NEW id, SelectTheme(id) PROVE PreviewInv'
  <2>1. Whole([draft EXCEPT !.active = id])
    BY <1>16 DEF SelectTheme, Turned, PreviewInv, Whole
  <2> QED BY <1>16, <2>1, EditHolds DEF SelectTheme
<1>17. CASE DeleteTheme
  <2>1. PICK themes, active : EditDraft([draft EXCEPT !.active = active, !.themes = themes])
    BY <1>17 DEF DeleteTheme
  <2>2. draft # NoDraft
    BY <1>17 DEF DeleteTheme, OwnTheme, Turned
  <2>3. Whole([draft EXCEPT !.active = active, !.themes = themes])
    BY <2>2 DEF PreviewInv, Whole
  <2> QED BY <2>1, <2>3, EditHolds
<1>18. ASSUME NEW v, RenameTheme(v) \/ ChangeColour(v) \/ ChangeLanes(v) PROVE PreviewInv'
  <2>1. PICK themes : EditDraft([draft EXCEPT !.themes = themes])
    BY <1>18 DEF RenameTheme, ChangeColour, ChangeLanes, ChangeTheme
  <2>2. draft # NoDraft
    BY <1>18 DEF RenameTheme, ChangeColour, ChangeLanes, ChangeTheme, OwnTheme, Turned
  <2>3. Whole([draft EXCEPT !.themes = themes])
    BY <2>2 DEF PreviewInv, Whole
  <2> QED BY <2>1, <2>3, EditHolds
<1>19. ASSUME NEW h, NEW service, AddHost(h, service) \/ RemoveHost(h) PROVE PreviewInv'
  <2>1. PICK hosts : EditDraft([draft EXCEPT !.hosts = hosts])
    BY <1>19 DEF AddHost, RemoveHost
  <2>2. draft # NoDraft
    BY <1>19 DEF AddHost, RemoveHost, Turned
  <2>3. Whole([draft EXCEPT !.hosts = hosts])
    BY <2>2 DEF PreviewInv, Whole
  <2> QED BY <2>1, <2>3, EditHolds
<1>20. ASSUME NEW kind, StartTransfer(kind) PROVE PreviewInv'
  BY <1>20 DEF StartTransfer, PreviewInv, PreviewEnds
<1>21. ASSUME NEW file \in StateFiles, NEW native, ImportAnswers(file, native) PROVE PreviewInv'
  <2>1. Whole(Imported(file, native))
    BY FileSettings, NormalizedWhole, FilledWhole DEF Imported
  <2> QED BY <1>21, <2>1, EditHolds DEF ImportAnswers
<1>22. CASE ImportFails \/ ExportAnswers
  BY <1>22 DEF ImportFails, ExportAnswers, PreviewInv, PreviewEnds
<1>23. CASE UNCHANGED settingsVars
  BY <1>23 DEF settingsVars, PreviewInv, PreviewEnds
<1> QED BY <1>1, <1>2, <1>3, <1>4, <1>5, <1>6, <1>7, <1>8, <1>9, <1>10, <1>11, <1>12, <1>13,
          <1>14, <1>15, <1>16, <1>17, <1>18, <1>19, <1>20, <1>21, <1>22, <1>23 DEF SettingsNext

\* Whatever is read, edited, imported, saved or given up, without the dialog of
\* SettingsDialog.tsx the window shows the theme of the settings in use.
THEOREM PreviewsEnd == SettingsSpec => []PreviewEnds
<1>1. SettingsInit => PreviewInv
  <2>1. Whole(DefaultSettings)
    BY DEF Whole, DefaultSettings
  <2> QED BY <2>1, FileSettings DEF SettingsInit, PreviewInv, PreviewEnds
<1>2. PreviewInv => PreviewEnds
  BY DEF PreviewInv
<1> QED BY <1>1, <1>2, PreviewStepHolds, PTL DEF SettingsSpec

-----------------------------------------------------------------------------
(***************************************************************************)
(* WorktreePane: the end of a command is about its own tab.                *)
(***************************************************************************)
\* The commands asked for are a sequence, and the one that runs is its first.
CommandInv ==
    /\ \E S : asked \in Seq(S)
    /\ started \in BOOLEAN
    /\ started => asked # <<>>

LEMMA RequestQueues ==
    ASSUME CommandInv, NEW kind, NEW files, Request(kind, files)
    PROVE  CommandInv' /\ asked' # Tail(asked)
<1>1. PICK S : asked \in Seq(S)
  BY DEF CommandInv
<1>2. PICK x : asked' = Append(asked, x) /\ started' = started
  BY DEF Request
<1>3. asked \in Seq(S \cup {x}) /\ asked' \in Seq(S \cup {x}) /\ Len(asked') = Len(asked) + 1
  BY <1>1, <1>2
<1>4. asked' # Tail(asked)
  <2>1. CASE asked = <<>>
    BY <1>2, <2>1
  <2>2. CASE asked # <<>>
    BY <1>1, <1>3, <2>2
  <2> QED BY <2>1, <2>2
<1> QED BY <1>2, <1>3, <1>4 DEF CommandInv

LEMMA QueueStays ==
    ASSUME CommandInv, UNCHANGED queueVars
    PROVE  CommandInv' /\ ~ (started /\ asked' = Tail(asked))
<1>1. PICK S : asked \in Seq(S)
  BY DEF CommandInv
<1>2. asked # <<>> => asked # Tail(asked)
  BY <1>1
<1> QED BY <1>2 DEF CommandInv, queueVars

\* The two at once: the invariant is kept, and a command that ends is the first,
\* whose own draft at most is another one afterwards.
LEMMA PaneStepHolds ==
    ASSUME CommandInv, [PaneNext]_paneVars
    PROVE  /\ CommandInv'
           /\ started /\ asked' = Tail(asked) =>
                drafts' = drafts \/ drafts' = Cleared(asked[1])
<1>1. CASE TypeInForm \/ TypeInWipRow \/ OpenFileMenu \/ OpenFolderMenu \/ CloseMenuUnused
           \/ RefreshStarts \/ RefreshEnds \/ SilentRefresh \/ SwitchPane \/ ClosePane
           \/ UNCHANGED paneVars
  <2>1. UNCHANGED queueVars
    BY <1>1 DEF TypeInForm, TypeInWipRow, OpenFileMenu, OpenFolderMenu, CloseMenuUnused,
       RefreshStarts, RefreshEnds, SilentRefresh, SwitchPane, ClosePane, paneVars
  <2> QED BY <2>1, QueueStays
<1>2. CASE SubmitCommit \/ StageFiles \/ UnstageFiles \/ DiscardEverything \/ ResolveFiles
           \/ ControlFromForm \/ ChooseInMenu
  <2>1. \E kind, files : Request(kind, files)
    BY <1>2 DEF SubmitCommit, StageFiles, UnstageFiles, DiscardEverything, ResolveFiles,
       ControlFromForm, ChooseInMenu
  <2> QED BY <2>1, RequestQueues
<1>3. CASE CommandStarts
  <2>1. PICK S : asked \in Seq(S)
    BY DEF CommandInv
  <2> QED BY <1>3, <2>1 DEF CommandStarts, CommandInv
<1>4. CASE CommandEnds
  <2>1. PICK S : asked \in Seq(S)
    BY DEF CommandInv
  <2>2. asked # <<>>
    BY <1>4 DEF CommandEnds, CommandInv
  <2>3. asked' \in Seq(S)
    BY <1>4, <2>1, <2>2 DEF CommandEnds
  <2> QED BY <1>4, <2>3 DEF CommandEnds, CommandInv
<1> QED BY <1>1, <1>2, <1>3, <1>4 DEF PaneNext

\* A command of WorktreePanel.tsx that ends clears no draft but that of the tab it
\* was asked in, whichever tab the user has gone to and whatever was typed, opened
\* or closed while it waited.
THEOREM ReturnsClearTheirOwn == PaneSpec => ReturnClearsItsOwn
<1>1. CommandInv /\ [PaneNext]_paneVars =>
        [\A t \in PaneTabs :
          started /\ asked' = Tail(asked) /\ t # asked[1].tab
             => /\ t \in DOMAIN drafts' <=> t \in DOMAIN drafts
                /\ t \in DOMAIN drafts => drafts'[t] = drafts[t]]_paneVars
  BY PaneStepHolds DEF Cleared, WithDraft
<1>2. PaneInit => CommandInv
  <2>1. <<>> \in Seq({})
    OBVIOUS
  <2> QED BY <2>1 DEF PaneInit, CommandInv
<1>3. CommandInv /\ [PaneNext]_paneVars => CommandInv'
  BY PaneStepHolds
<1> QED BY <1>1, <1>2, <1>3, PTL DEF PaneSpec, ReturnClearsItsOwn

-----------------------------------------------------------------------------
(***************************************************************************)
(* FileTrees: a click on a folder is about that folder.                    *)
(***************************************************************************)
Names == Nat \ {0}
Path(p) == p \in Seq(Names)

\* The first n segments of a path.
LEMMA Cut ==
    ASSUME NEW p, Path(p), NEW n \in 0..Len(p)
    PROVE  /\ Path(SubSeq(p, 1, n)) /\ Len(SubSeq(p, 1, n)) = n
           /\ \A i \in 1..n : SubSeq(p, 1, n)[i] = p[i]
<1>1. n \in Int /\ \A i \in 1..n : p[i] \in Names
  BY DEF Path
<1> DEFINE s == SubSeq(p, 1, n)
<1>2. /\ s \in Seq(Names) /\ Len(s) = IF 1 <= n THEN n - 1 + 1 ELSE 0
      /\ \A i \in 1..n - 1 + 1 : s[i] = p[1 + i - 1]
  BY <1>1, SubSeqProperties
<1> HIDE DEF s
<1>3. Len(s) = n
  BY <1>2
<1>4. \A i \in 1..n : s[i] = p[i]
  BY <1>2
<1> QED BY <1>2, <1>3, <1>4 DEF Path, s

LEMMA PrefixIsPointwise ==
    ASSUME NEW s, Path(s), NEW t, Path(t)
    PROVE  IsPrefix(s, t) <=> Len(s) <= Len(t) /\ \A i \in 1..Len(s) : s[i] = t[i]
<1> DEFINE n == Len(s)
<1>1. n \in Nat /\ Len(t) \in Nat
  BY DEF Path
<1>2. ASSUME n <= Len(t)
      PROVE  SubSeq(s, 1, n) = SubSeq(t, 1, n) <=> \A i \in 1..n : s[i] = t[i]
  <2>1. n \in 0..Len(s) /\ n \in 0..Len(t)
    BY <1>1, <1>2
  <2> DEFINE a == SubSeq(s, 1, n)
             b == SubSeq(t, 1, n)
  <2>2. Path(a) /\ Len(a) = n /\ \A i \in 1..n : a[i] = s[i]
    BY <2>1, Cut
  <2>3. Path(b) /\ Len(b) = n /\ \A i \in 1..n : b[i] = t[i]
    BY <2>1, Cut
  <2> HIDE DEF a, b, n
  <2>4. ASSUME \A i \in 1..n : s[i] = t[i] PROVE a = b
    <3>1. a \in Seq(Names) /\ b \in Seq(Names) /\ Len(a) = Len(b)
      BY <2>2, <2>3 DEF Path
    <3>2. \A i \in 1..Len(a) : a[i] = b[i]
      BY <2>2, <2>3, <2>4
    <3> QED BY <3>1, <3>2, SeqEqual
  <2>5. ASSUME a = b PROVE \A i \in 1..n : s[i] = t[i]
    BY <2>2, <2>3, <2>5
  <2> QED BY <2>4, <2>5 DEF a, b
<1> QED BY <1>2 DEF IsPrefix

\* The folders a path is in are paths, and prefixes of it that are shorter.
LEMMA FolderOf ==
    ASSUME NEW f, Path(f), NEW h \in Ancestry(f)
    PROVE  Path(h) /\ Len(h) \in 1..(Len(f) - 1) /\ \A i \in 1..Len(h) : h[i] = f[i]
<1>1. PICK n \in 1..(Len(f) - 1) : h = SubSeq(f, 1, n)
  BY DEF Ancestry
<1>2. n \in 0..Len(f)
  BY DEF Path
<1> QED BY <1>1, <1>2, Cut

LEMMA AncestorIsPrefix ==
    ASSUME NEW f, Path(f), NEW h \in Ancestry(f)
    PROVE  IsPrefix(h, f)
BY FolderOf, PrefixIsPointwise DEF Path

\* What is above a folder is above what is in it.
LEMMA AboveFolder ==
    ASSUME NEW f, Path(f), NEW h \in Ancestry(f), NEW s, Path(s), IsPrefix(s, h)
    PROVE  IsPrefix(s, f) /\ (s # <<>> => s \in Ancestry(f))
<1>1. Path(h) /\ Len(h) \in 1..(Len(f) - 1) /\ \A i \in 1..Len(h) : h[i] = f[i]
  BY FolderOf
<1>2. Len(s) <= Len(h) /\ \A i \in 1..Len(s) : s[i] = h[i]
  BY <1>1, PrefixIsPointwise
<1>3. Len(s) \in Nat /\ Len(h) \in Nat /\ Len(f) \in Nat
  BY <1>1 DEF Path
<1>4. Len(s) <= Len(f) /\ \A i \in 1..Len(s) : s[i] = f[i]
  BY <1>1, <1>2, <1>3
<1>5. IsPrefix(s, f)
  BY <1>4, PrefixIsPointwise
<1>6. ASSUME s # <<>> PROVE s \in Ancestry(f)
  <2> DEFINE n == Len(s)
             b == SubSeq(f, 1, n)
  <2>1. n \in 1..(Len(f) - 1)
    <3>1. n # 0
      BY <1>6 DEF Path
    <3> QED BY <1>1, <1>2, <1>3, <3>1
  <2>2. n \in 0..Len(f)
    BY <1>3, <1>4
  <2>3. Path(b) /\ Len(b) = n /\ \A i \in 1..n : b[i] = f[i]
    BY <2>2, Cut
  <2> HIDE DEF b
  <2>4. s = b
    <3>1. s \in Seq(Names) /\ b \in Seq(Names) /\ Len(s) = Len(b)
      BY <2>3 DEF Path
    <3>2. \A i \in 1..Len(s) : s[i] = b[i]
      BY <1>4, <2>3
    <3> QED BY <3>1, <3>2, SeqEqual
  <2> QED BY <2>1, <2>4 DEF Ancestry, b
<1> QED BY <1>5, <1>6

Holds == FoldersIn(TreePaths) \cup {Root}

LEMMA HoldsArePaths ==
    /\ \A p \in TreePaths : Path(p)
    /\ \A h \in Holds : Path(h) /\ h # NoPath
<1>1. \A p \in TreePaths : Path(p)
  BY TreeAssumption DEF Path, Names
<1>2. ASSUME NEW h, Path(h) PROVE h # NoPath
  <2>1. CASE Len(h) = 1
    <3>1. h[1] # 0
      <4>1. h \in Seq(Names) /\ 1 \in 1..Len(h)
        BY <1>2, <2>1 DEF Path
      <4>2. h[1] \in Names
        BY <4>1
      <4> QED BY <4>2 DEF Names
    <3>2. NoPath[1] = 0
      BY DEF NoPath
    <3> QED BY <3>1, <3>2
  <2>2. CASE Len(h) # 1
    <3>1. Len(NoPath) = 1
      BY DEF NoPath
    <3> QED BY <2>2, <3>1
  <2> QED BY <2>1, <2>2
<1>3. ASSUME NEW h \in FoldersIn(TreePaths) PROVE Path(h)
  <2>1. PICK f \in TreePaths : h \in Ancestry(f)
    BY DEF FoldersIn
  <2> QED BY <1>1, <2>1, FolderOf
<1>4. Path(Root)
  BY DEF Path, Root
<1> QED BY <1>1, <1>2, <1>3, <1>4 DEF Holds

\* What a hold that came while the tree was there has shut stays shut by hand.
Held(target, byHand, default) ==
    IF target = Root THEN DOMAIN byHand = {} /\ default = Shut
    ELSE target \in DOMAIN byHand /\ byHand[target] = FALSE

TreeInv ==
    /\ items \subseteq TreePaths
    /\ forced \in Holds \cup {NoPath} /\ collapse \in Holds \cup {NoPath}
    /\ forced # NoPath => collapse = forced
    /\ forced # NoPath /\ ~forcedAtMount => Held(forced, expansion, defaultOpen)

\* The way to a file that is selected is never through the folder kept shut.
LEMMA RevealHolds ==
    ASSUME NEW files \in SUBSET TreePaths, NEW file, NEW mode, NEW target \in Holds,
           NEW byHand, NEW skipped, NEW default,
           Reveal(files, file, mode, target, byHand, skipped), Held(target, byHand, default)
    PROVE  Held(target, expansion', default)
<1>1. CASE expansion' = byHand
  BY <1>1
<1>2. CASE file \in files /\ ~IsForced(target, file)
           /\ expansion' = SetFolders(byHand, WayTo(file), TRUE)
  <2>1. Path(file) /\ Path(target) /\ target # NoPath
    BY <1>2, HoldsArePaths
  <2>2. target # Root
    <3>1. IsPrefix(<<>>, file)
      <4>1. Path(<<>>) /\ Len(<<>>) = 0 /\ Len(file) \in Nat
        BY <2>1 DEF Path
      <4> QED BY <2>1, <4>1, PrefixIsPointwise
    <3> QED BY <1>2, <2>1, <3>1 DEF IsForced, Root
  <2>3. target \notin WayTo(file)
    BY <1>2, <2>1, AncestorIsPrefix DEF IsForced, WayTo
  <2>4. target \in DOMAIN byHand /\ byHand[target] = FALSE
    BY <2>2 DEF Held
  <2> QED BY <1>2, <2>2, <2>3, <2>4 DEF Held, SetFolders
<1> QED BY <1>1, <1>2 DEF Reveal

LEMMA RevealKeeps ==
    ASSUME TreeInv, NEW files \in SUBSET TreePaths, NEW file, NEW mode,
           Reveal(files, file, mode, forced, expansion, skip), items' = files,
           UNCHANGED <<defaultOpen, forced, collapse, forcedAtMount>>
    PROVE  TreeInv'
<1>1. CASE forced # NoPath /\ ~forcedAtMount
  <2>1. forced \in Holds /\ Held(forced, expansion, defaultOpen)
    BY <1>1 DEF TreeInv
  <2>2. Held(forced, expansion', defaultOpen)
    BY <2>1, RevealHolds
  <2> QED BY <2>2 DEF TreeInv
<1>2. CASE ~(forced # NoPath /\ ~forcedAtMount)
  BY <1>2 DEF TreeInv
<1> QED BY <1>1, <1>2

LEMMA BulkHolds == ASSUME TreeInv, BulkArrives PROVE TreeInv' /\ forced' # NoPath
<1>1. PICK target \in Holds :
        /\ items' \in SUBSET TreePaths
        /\ collapse' = target /\ forced' = target /\ forcedAtMount' = FALSE
        /\ IF target = Root
           THEN /\ defaultOpen' = Shut
                /\ Reveal(items', picked, treeMode, Root, [f \in {} |-> FALSE], picked)
           ELSE /\ UNCHANGED defaultOpen
                /\ Reveal(items', picked, treeMode, target,
                          SetFolders(expansion, ShutByHand(target), FALSE), skip)
  BY DEF BulkArrives, Holds
<1>2. target # NoPath
  BY HoldsArePaths
<1>3. CASE target = Root
  <2> DEFINE none == [f \in {} |-> FALSE]
  <2>1. Held(target, none, Shut)
    BY <1>3 DEF Held
  <2>2. Reveal(items', picked, treeMode, target, none, picked)
    BY <1>1, <1>3
  <2> HIDE DEF none
  <2>3. Held(target, expansion', Shut)
    BY <1>1, <2>1, <2>2, RevealHolds
  <2> QED BY <1>1, <1>2, <1>3, <2>3 DEF TreeInv
<1>4. CASE target # Root
  <2> DEFINE byHand == SetFolders(expansion, ShutByHand(target), FALSE)
  <2>1. Held(target, byHand, defaultOpen)
    BY <1>4 DEF Held, SetFolders, ShutByHand
  <2>2. Reveal(items', picked, treeMode, target, byHand, skip)
    BY <1>1, <1>4
  <2> HIDE DEF byHand
  <2>3. Held(target, expansion', defaultOpen)
    BY <1>1, <2>1, <2>2, RevealHolds
  <2> QED BY <1>1, <1>2, <1>4, <2>3 DEF TreeInv
<1> QED BY <1>3, <1>4

\* What a click on a folder leaves of any other, in a tree that holds one shut.
LEMMA ToggledElsewhere ==
    ASSUME TreeInv, forced # NoPath, ~forcedAtMount, NEW folder \in FoldersIn(items),
           NEW open, NEW f \in items \cup FoldersIn(items), ~IsPrefix(folder, f),
           expansion' = SetFolders(expansion,
                                   {g \in FoldersIn(items) : IsPrefix(folder, g)}, open),
           forced' = NoPath, defaultOpen' = defaultOpen
    PROVE  VisibleRows(f) <=> VisibleRows(f)'
<1> DEFINE below == {g \in FoldersIn(items) : IsPrefix(folder, g)}
<1>1. Path(f) /\ Path(folder)
  <2>1. \A p \in items : Path(p)
    BY HoldsArePaths DEF TreeInv
  <2>2. \A g \in FoldersIn(items) : Path(g)
    BY <2>1, FolderOf DEF FoldersIn
  <2> QED BY <2>1, <2>2
<1>2. forced \in Holds /\ Path(forced) /\ Held(forced, expansion, defaultOpen)
  BY HoldsArePaths DEF TreeInv
<1>3. ASSUME NEW h \in Ancestry(f) PROVE h \notin below
  BY <1>1, <1>3, AboveFolder
<1> HIDE DEF below
<1>4. ASSUME NEW h \in Ancestry(f)
      PROVE  /\ h \in DOMAIN expansion' <=> h \in DOMAIN expansion
             /\ h \in DOMAIN expansion => expansion'[h] = expansion[h]
  BY <1>3 DEF SetFolders, below
<1>5. ASSUME NEW h \in Ancestry(f)
      PROVE  IsOpen(h)' <=> Expanded(h, NoPath, expansion, defaultOpen)
  BY <1>4 DEF IsOpen, Expanded, IsForced
<1>6. ASSUME NEW h \in Ancestry(f), ~IsForced(forced, h)
      PROVE  IsOpen(h) <=> IsOpen(h)'
  BY <1>5, <1>6 DEF IsOpen, Expanded, IsForced
<1>7. ASSUME NEW h \in Ancestry(f), IsForced(forced, h)
      PROVE  \E g \in Ancestry(f) : ~IsOpen(g) /\ ~IsOpen(g)'
  <2>1. ~IsOpen(h)
    BY <1>7 DEF IsOpen, Expanded
  <2>2. CASE forced = Root
    <3>1. ~Expanded(h, NoPath, expansion, defaultOpen)
      BY <1>2, <2>2 DEF Held, Expanded, IsForced, Shut
    <3> QED BY <1>5, <1>7, <2>1, <3>1
  <2>3. CASE forced # Root
    <3>1. forced \in Ancestry(f) /\ IsPrefix(forced, forced)
      <4>1. forced \in Ancestry(f)
        BY <1>1, <1>2, <1>7, <2>3, AboveFolder DEF IsForced, Root
      <4>2. Len(forced) \in Nat
        BY <1>2 DEF Path
      <4> QED BY <1>2, <4>1, <4>2, PrefixIsPointwise
    <3>2. ~IsOpen(forced)
      BY <3>1 DEF IsOpen, Expanded, IsForced
    <3>3. ~Expanded(forced, NoPath, expansion, defaultOpen)
      BY <1>2, <2>3 DEF Held, Expanded, IsForced
    <3> QED BY <1>5, <3>1, <3>2, <3>3
  <2> QED BY <2>2, <2>3
<1>8. VisibleRows(f)' <=> \A h \in Ancestry(f) : IsOpen(h)'
  BY DEF VisibleRows
<1> QED BY <1>6, <1>7, <1>8 DEF VisibleRows

Local ==
    \E g \in FoldersIn(items) :
        \A f \in items \cup FoldersIn(items) :
            ~IsPrefix(g, f) => (VisibleRows(f) <=> VisibleRows(f)')

LEMMA TreeStepHolds ==
    ASSUME TreeInv, [TreeNext]_treeVars
    PROVE  /\ TreeInv'
           /\ forced' = NoPath /\ forced # NoPath /\ ~forcedAtMount /\ DOMAIN expansion' # {}
                => Local
<1>1. CASE PickFile
  <2>1. PICK f : /\ Reveal(items, f, treeMode, forced, expansion, skip)
                 /\ UNCHANGED <<items, defaultOpen, forced, collapse, forcedAtMount>>
    BY <1>1 DEF PickFile
  <2>2. items \in SUBSET TreePaths
    BY DEF TreeInv
  <2> QED BY <2>1, <2>2, RevealKeeps
<1>2. CASE ItemsChange
  BY <1>2, RevealKeeps DEF ItemsChange
<1>3. CASE ModeChanges
  <2>1. items \in SUBSET TreePaths
    BY DEF TreeInv
  <2> QED BY <1>3, <2>1, RevealKeeps DEF ModeChanges
<1>4. CASE BulkArrives
  BY <1>4, BulkHolds
<1>5. CASE ToggleFolder
  <2>1. PICK folder \in FoldersIn(items) :
          expansion' = SetFolders(expansion,
                                  {g \in FoldersIn(items) : IsPrefix(folder, g)},
                                  ~IsOpen(folder))
    BY <1>5 DEF ToggleFolder
  <2>2. forced' = NoPath /\ UNCHANGED <<items, defaultOpen, collapse>>
    BY <1>5 DEF ToggleFolder
  <2>3. TreeInv'
    BY <2>2 DEF TreeInv
  <2>4. forced # NoPath /\ ~forcedAtMount => Local
    BY <2>1, <2>2, ToggledElsewhere DEF Local
  <2> QED BY <2>3, <2>4
<1>6. CASE ToggleAll
  BY <1>6 DEF ToggleAll, TreeInv
<1>7. CASE Remount
  BY <1>7 DEF Remount, TreeInv
<1>8. CASE UNCHANGED treeVars
  BY <1>8 DEF treeVars, TreeInv, Held
<1> QED BY <1>1, <1>2, <1>3, <1>4, <1>5, <1>6, <1>7, <1>8 DEF TreeNext

\* A click on a folder of FileTree.tsx opens or shuts what is below that folder and
\* nothing else, also in a tree a bulk stage has shut and the selection has opened
\* again; only a tree that was mounted with the hold is left out.
THEOREM TogglesAreLocal == TreeSpec => ToggleIsLocal
<1>1. TreeInit => TreeInv
  BY DEF TreeInit, TreeInv
<1>2. TreeInv /\ [TreeNext]_treeVars =>
        [forced' = NoPath /\ forced # NoPath /\ ~forcedAtMount /\ DOMAIN expansion' # {}
           => \E g \in FoldersIn(items) :
                 \A f \in items \cup FoldersIn(items) :
                    ~IsPrefix(g, f) => (VisibleRows(f) <=> VisibleRows(f)')]_treeVars
  BY TreeStepHolds DEF Local
<1>3. TreeInv /\ [TreeNext]_treeVars => TreeInv'
  BY TreeStepHolds
<1> QED BY <1>1, <1>2, <1>3, PTL DEF TreeSpec, ToggleIsLocal

-----------------------------------------------------------------------------
\* A set of numbers has a least.
LEMMA LeastNatural ==
    ASSUME NEW T, T \subseteq Nat, T # {}
    PROVE  \E x \in T : \A y \in T : x <= y
<1> DEFINE R == OpToRel(<, Nat)
<1>1. IsWellFoundedOn(R, Nat)
  BY NatLessThanWellFounded
<1>2. \A x, y \in Nat : <<y, x>> \in R <=> y < x
  BY DEF OpToRel
<1> HIDE DEF R
<1>3. PICK x \in T : \A y \in T : ~ (<<y, x>> \in R)
  <2>1. \E x \in T : \A y \in T : ~ (<<y, x>> \in R)
    BY <1>1, WFMin
  <2> QED BY <2>1
<1>4. ASSUME NEW y \in T PROVE x <= y
  <2>1. x \in Nat /\ y \in Nat
    OBVIOUS
  <2>2. ~ (<<y, x>> \in R)
    BY <1>3
  <2>3. ~ (y < x)
    BY <1>2, <2>1, <2>2, Zenon
  <2> QED BY <2>1, <2>3
<1> QED BY <1>4



(***************************************************************************)
(* RepositoryForms: the list is of the host above it.                      *)
(***************************************************************************)
Picker(p) == p = [host |-> p.host, call |-> p.call, repositories |-> p.repositories,
                  from |-> p.from, loading |-> p.loading, error |-> p.error,
                  open |-> p.open, filter |-> p.filter]

FreshFrom(p) == ~p.loading /\ ~p.error => p.from = p.host

Numbered(n) ==
    /\ \A c \in listCalls : c.id \in 0..n
    /\ picker.host # "" => picker.call \in 0..n

\* The call that carries the picker's number asks its host; numbers are below a
\* bound, so that the next one is new.
ListInv ==
    /\ \E n \in Nat : Numbered(n)
    /\ picker.host # "" => /\ Picker(picker) /\ FreshFrom(picker)
                           /\ \A c \in listCalls : c.id = picker.call => c.host = picker.host

LEMMA UpTo ==
    ASSUME NEW m \in Nat
    PROVE  m \in 0..m /\ \A x \in Nat : x < m => x \in 0..m /\ x # m
OBVIOUS

LEMMA OpenedPicker ==
    ASSUME NEW p, Picker(p), NEW q, q = [p EXCEPT !.open = TRUE]
    PROVE  Picker(q)
BY DEF Picker

\* A set of numbers from 0 to n with 0 in it has a greatest.
LEMMA GreatestOf ==
    ASSUME NEW n \in Nat, NEW S \in SUBSET (0..n), 0 \in S
    PROVE  Max(S) \in S /\ \A y \in S : Max(S) >= y
<1> DEFINE Above == {u \in Nat : \A y \in S : u >= y}
<1>1. n \in Above
  OBVIOUS
<1>2. PICK u \in Above : \A v \in Above : u <= v
  <2>1. Above \subseteq Nat /\ Above # {}
    BY <1>1
  <2> HIDE DEF Above
  <2> QED BY <2>1, LeastNatural
<1>3. u \in S
  <2>1. CASE u = 0
    BY <2>1
  <2>2. CASE u # 0 /\ u \notin S
    <3>1. u - 1 \in Above
      BY <2>2
    <3> QED BY <1>2, <3>1
  <2> QED BY <2>1, <2>2
<1>4. \E x \in S : \A y \in S : x >= y
  BY <1>3
<1> QED BY <1>4 DEF Max

LEMMA NextCallIsNew ==
    ASSUME ListInv
    PROVE  /\ NextCall \in Nat
           /\ \A c \in listCalls : c.id \in Nat /\ c.id < NextCall
           /\ picker.host # "" => picker.call < NextCall
<1>1. PICK n \in Nat : Numbered(n)
  BY DEF ListInv
<1> DEFINE S == {0} \cup {c.id : c \in listCalls}
                \cup (IF picker.host = "" THEN {} ELSE {picker.call})
<1>2. S \in SUBSET (0..n) /\ 0 \in S
  <2>1. {c.id : c \in listCalls} \subseteq 0..n
    BY <1>1 DEF Numbered
  <2>2. (IF picker.host = "" THEN {} ELSE {picker.call}) \subseteq 0..n
    BY <1>1 DEF Numbered
  <2>3. 0 \in 0..n
    OBVIOUS
  <2> QED BY <2>1, <2>2, <2>3
<1>3. /\ \A c \in listCalls : c.id \in S
      /\ picker.host # "" => picker.call \in S
  OBVIOUS
<1>4. NextCall = 1 + Max(S)
  BY DEF NextCall
<1> HIDE DEF S
<1>5. Max(S) \in S /\ \A y \in S : Max(S) >= y
  BY <1>2, GreatestOf
<1>6. PICK m \in 0..n : m = Max(S) /\ \A y \in S : y \in 0..n /\ m >= y
  BY <1>2, <1>5
<1>7. NextCall = 1 + m /\ m \in Nat
  BY <1>4, <1>6
<1>11. NextCall \in Nat
  BY <1>7
<1>8. ASSUME NEW x, x \in S PROVE x \in Nat /\ x < NextCall
  <2>1. x \in 0..n /\ m >= x
    BY <1>6, <1>8
  <2> QED BY <1>7, <2>1
<1>9. ASSUME NEW c \in listCalls PROVE c.id \in Nat /\ c.id < NextCall
  <2>1. c.id \in S
    BY <1>3
  <2> QED BY <1>8, <2>1
<1>10. picker.host # "" => picker.call < NextCall
  BY <1>3, <1>8
<1> QED BY <1>9, <1>10, <1>11

\* A list that is asked for is loading, and its call is the newest.
LEMMA AskedIsNewest ==
    ASSUME ListInv, NEW p, Picker(p), NEW h, h # "", NEW calls \in SUBSET listCalls,
           AskList(p, h, calls)
    PROVE  ListInv'
<1>1. /\ NextCall \in Nat
      /\ \A c \in listCalls : c.id \in Nat /\ c.id < NextCall
  BY NextCallIsNew
<1> DEFINE k == stored'[h]
<1>9. PICK m \in Nat : m = NextCall
  BY <1>1
<1>10. m \in Nat
  BY <1>9
<1>2. picker' = [host |-> h, call |-> m, repositories |-> p.repositories, from |-> p.from,
                 loading |-> TRUE, error |-> FALSE, open |-> p.open, filter |-> p.filter]
  BY <1>9 DEF AskList, Picker
<1>3. listCalls' = calls \cup {[id |-> m, host |-> h, credential |-> k]}
  BY <1>9 DEF AskList
<1>4. \A c \in calls : c.id \in Nat /\ c.id < m
  BY <1>1, <1>9
<1> HIDE DEF k
<1>5. ASSUME NEW c \in listCalls'
      PROVE  c.id \in 0..m /\ (c.id = m => c.host = h)
  <2>1. CASE c \in calls
    <3>1. c.id \in Nat /\ c.id < m
      BY <1>4, <2>1
    <3>2. \A x \in Nat : x < m => x \in 0..m /\ x # m
      BY <1>10, UpTo, Zenon
    <3> QED BY <3>1, <3>2
  <2>2. CASE c = [id |-> m, host |-> h, credential |-> k]
    <3>1. c.id = m /\ c.host = h
      BY <2>2
    <3>2. m \in 0..m
      BY <1>10, UpTo, Zenon
    <3> QED BY <3>1, <3>2
  <2> QED BY <1>3, <2>1, <2>2
<1>6. picker'.host = h /\ picker'.call = m /\ picker'.loading /\ Picker(picker')
  BY <1>2 DEF Picker
<1>7. Numbered(m)'
  <2>1. m \in 0..m
    BY <1>10, UpTo, Zenon
  <2> QED BY <1>5, <1>6, <2>1 DEF Numbered
<1>8. FreshFrom(picker')
  BY <1>6 DEF FreshFrom
<1> QED BY <1>5, <1>6, <1>7, <1>8 DEF ListInv, FreshFrom, Picker

\* What becomes of the list after any step: p is the list as the step leaves it.
LEMMA PickerKept ==
    ASSUME ListInv, NEW p, NEW calls \in SUBSET listCalls, PickerBecomes(p, calls),
           picker.host = "" => p = picker,
           picker.host # "" => /\ Picker(p) /\ FreshFrom(p)
                               /\ p.host = picker.host /\ p.call = picker.call
    PROVE  ListInv'
<1> DEFINE h == ListedHost(form)'
<1>1. CASE h = picker.host
  <2>1. picker' = p /\ listCalls' = calls
    BY <1>1 DEF PickerBecomes
  <2>2. p.host = picker.host
    OBVIOUS
  <2> QED BY <2>1, <2>2 DEF ListInv, Numbered
<1>2. CASE h # picker.host /\ h = ""
  <2>1. picker' = NoPicker /\ listCalls' = calls
    BY <1>2 DEF PickerBecomes
  <2> QED BY <2>1 DEF ListInv, Numbered, NoPicker
<1>3. CASE h # picker.host /\ h # ""
  <2>1. PICK q : Picker(q) /\ AskList(q, h, calls)
    BY <1>3 DEF PickerBecomes, FreshPicker, Picker
  <2> HIDE DEF h
  <2> QED BY <1>3, <2>1, AskedIsNewest
<1> QED BY <1>1, <1>2, <1>3

LEMMA ListKept ==
    ASSUME ListInv, PickerFollows
    PROVE  ListInv'
BY PickerKept DEF PickerFollows, ListInv

LEMMA AnswerIsOfHost ==
    ASSUME ListInv, NEW call \in listCalls, NEW fails \in BOOLEAN, ListArrives(call, fails)
    PROVE  ListInv'
<1> DEFINE refusal == call.credential \notin accepted[call.host]
           lists == ~refusal /\ ~fails
           answered == [picker EXCEPT !.loading = FALSE, !.error = ~lists,
                          !.repositories = IF lists THEN Listed[call.host] ELSE @,
                          !.from = IF lists THEN call.host ELSE @]
           p == IF AnswerIsLive(call) THEN answered ELSE picker
<1>1. PickerBecomes(p, listCalls \ {call})
  BY DEF ListArrives
<1>2. picker.host = "" => p = picker
  BY DEF AnswerIsLive
<1>3. ASSUME picker.host # ""
      PROVE  Picker(p) /\ FreshFrom(p) /\ p.host = picker.host /\ p.call = picker.call
  <2>1. CASE ~AnswerIsLive(call)
    BY <1>3, <2>1 DEF ListInv
  <2>2. CASE AnswerIsLive(call)
    <3>1. call.host = picker.host /\ Picker(picker)
      BY <1>3, <2>2 DEF ListInv, AnswerIsLive
    <3>2. p = [host |-> picker.host, call |-> picker.call,
               repositories |-> IF lists THEN Listed[call.host] ELSE picker.repositories,
               from |-> IF lists THEN call.host ELSE picker.from,
               loading |-> FALSE, error |-> ~lists, open |-> picker.open,
               filter |-> picker.filter]
      BY <2>2, <3>1 DEF Picker
    <3> HIDE DEF p, lists
    <3> QED BY <3>1, <3>2 DEF Picker, FreshFrom
  <2> QED BY <2>1, <2>2
<1> HIDE DEF p
<1> QED BY <1>1, <1>2, <1>3, PickerKept

LEMMA FormStepHolds == ASSUME ListInv, [FormNext]_formVars PROVE ListInv'
<1>1. CASE \/ \E dialog \in {"clone", "create", "remote"} : OpenForm(dialog)
           \/ CloseForm \/ TypeField \/ SubmitForm
           \/ \E service \in Services \cup {"url", "local"} : ChooseSource(service)
           \/ \E h \in Hosts : ChooseHost(h)
           \/ \E h \in Hosts, signsIn \in BOOLEAN : SignInChanges(h, signsIn)
  BY <1>1, ListKept DEF OpenForm, CloseForm, TypeField, SubmitForm, ChooseSource, ChooseHost, SignInChanges
<1>2. CASE \E call \in listCalls, fails \in BOOLEAN : ListArrives(call, fails)
  BY <1>2, AnswerIsOfHost
<1>3. CASE BusyChanges \/ (\E h \in Hosts : Revoke(h)) \/ UNCHANGED formVars
  BY <1>3 DEF BusyChanges, Revoke, formVars, ListInv, Numbered
<1>4. CASE \E r \in UNION {Listed[h] : h \in Hosts} : PickRepository(r)
  <2>1. picker.host # "" /\ picker' = [picker EXCEPT !.open = FALSE] /\ UNCHANGED listCalls
    BY <1>4 DEF PickRepository, InList
  <2> QED BY <2>1 DEF ListInv, Numbered, Picker, FreshFrom
<1>5. CASE FieldOfList
  <2>1. /\ picker.host # "" /\ UNCHANGED listCalls
        /\ \/ picker' = [picker EXCEPT !.open = ~@]
           \/ \E text : picker' = [picker EXCEPT !.filter = text]
    BY <1>5 DEF FieldOfList
  <2> QED BY <2>1 DEF ListInv, Numbered, Picker, FreshFrom
<1>6. CASE ReloadList
  <2>1. Picker([picker EXCEPT !.open = TRUE])
    <3>1. Picker(picker)
      BY <1>6 DEF ReloadList, ListInv
    <3> QED BY <3>1, OpenedPicker
  <2> DEFINE q == [picker EXCEPT !.open = TRUE]
             h == picker.host
  <2>2. AskList(q, h, listCalls) /\ h # ""
    BY <1>6 DEF ReloadList
  <2> HIDE DEF q, h
  <2>3. Picker(q)
    BY <2>1 DEF q
  <2> QED BY <2>2, <2>3, AskedIsNewest
<1> QED BY <1>1, <1>2, <1>3, <1>4, <1>5, <1>6 DEF FormNext

\* The list of ForgeRepositoryPicker.tsx that is on the screen is of the host above
\* it, whichever services, hosts, reloads and sign-ins follow one another and in
\* whatever order their calls are answered.
THEOREM ListsAreOfTheirHost == FormSpec => []ListIsOfHost
<1>1. FormInit => ListInv
  <2>1. FormInit => picker = NoPicker /\ listCalls = {}
    BY DEF FormInit
  <2>2. FormInit => picker.host = ""
    <3>1. NoPicker.host = ""
      BY DEF NoPicker
    <3> QED BY <2>1, <3>1
  <2>3. FormInit => Numbered(0)
    BY <2>1, <2>2 DEF Numbered
  <2>4. 0 \in Nat
    OBVIOUS
  <2> QED BY <2>2, <2>3, <2>4 DEF ListInv
<1>2. ListInv => ListIsOfHost
  BY DEF ListInv, ListIsOfHost, FreshFrom
<1> QED BY <1>1, <1>2, FormStepHolds, PTL DEF FormSpec

-----------------------------------------------------------------------------
(***************************************************************************)
(* ForgeRows: the rows carry what the repository on the screen has.        *)
(***************************************************************************)
\* One more element, and the sequences that take one or none at every place.
OneMore(list, keep, s, i) == IF i \in keep THEN Append(s, list[i]) ELSE s

Folded(list, keep, n, f) ==
    f = [i \in 0..n |-> IF i = 0 THEN <<>> ELSE OneMore(list, keep, f[i - 1], i)]

\* What holds of every place before the first where it fails.
LEMMA NoneFails ==
    ASSUME NEW n \in Nat, NEW Bad, Bad \subseteq 0..n, 0 \notin Bad,
           \A i \in 1..n : i - 1 \notin Bad => i \notin Bad
    PROVE  Bad = {}
<1>1. ASSUME Bad # {} PROVE FALSE
  <2>1. PICK x \in Bad : \A y \in Bad : x <= y
    <3>1. Bad \subseteq Nat
      OBVIOUS
    <3> QED BY <1>1, <3>1, LeastNatural
  <2>2. x \in 1..n /\ x - 1 \notin Bad
    BY <2>1
  <2> QED BY <2>2
<1> QED BY <1>1

LEMMA TakenExists ==
    ASSUME NEW list, NEW keep, NEW n \in Nat
    PROVE  \E f : Folded(list, keep, n, f)
<1> DEFINE Bad == {i \in 0..n : ~ \E f : Folded(list, keep, i, f)}
<1>1. 0 \notin Bad
  <2>1. Folded(list, keep, 0, [i \in 0..0 |-> <<>>])
    BY DEF Folded
  <2> QED BY <2>1
<1>2. ASSUME NEW i \in 1..n, i - 1 \notin Bad PROVE i \notin Bad
  <2>1. PICK g : Folded(list, keep, i - 1, g)
    BY <1>2
  <2> HIDE DEF Bad
  <2> DEFINE h == [k \in 0..i |-> IF k < i THEN g[k] ELSE OneMore(list, keep, g[i - 1], i)]
  <2>2. ASSUME NEW k \in 0..i
        PROVE  h[k] = IF k = 0 THEN <<>> ELSE OneMore(list, keep, h[k - 1], k)
    <3>1. CASE k = i
      <4>1. h[k] = OneMore(list, keep, g[i - 1], i) /\ h[k - 1] = g[i - 1]
        BY <3>1
      <4> QED BY <3>1, <4>1
    <3>2. CASE k < i /\ k = 0
      <4>1. h[k] = g[k]
        BY <3>2
      <4>2. g[0] = <<>>
        <5> HIDE DEF h
        <5>1. 0 \in 0..(i - 1)
          OBVIOUS
        <5> QED BY <2>1, <5>1 DEF Folded
      <4> QED BY <3>2, <4>1, <4>2
    <3>3. CASE k < i /\ k # 0
      <4>1. h[k] = g[k] /\ h[k - 1] = g[k - 1]
        BY <3>3
      <4>2. g[k] = OneMore(list, keep, g[k - 1], k)
        <5> HIDE DEF h
        <5>1. k \in 0..(i - 1)
          BY <3>3
        <5> QED BY <2>1, <3>3, <5>1 DEF Folded
      <4> QED BY <3>3, <4>1, <4>2
    <3> HIDE DEF h
    <3> QED BY <3>1, <3>2, <3>3
  <2>3. h = [k \in 0..i |-> h[k]]
    OBVIOUS
  <2> HIDE DEF h
  <2>4. Folded(list, keep, i, h)
    BY <2>2, <2>3 DEF Folded
  <2> QED BY <2>4 DEF Bad
<1> HIDE DEF Bad
<1>3. Bad = {}
  <2>1. Bad \subseteq 0..n
    BY DEF Bad
  <2> QED BY <1>1, <1>2, <2>1, NoneFails
<1>4. n \in 0..n
  OBVIOUS
<1> QED BY <1>3, <1>4 DEF Bad

\* What the folds collect: what is at the places to keep, once each.
Collected(list, keep, n, s) ==
    /\ s \in Seq({list[j] : j \in keep})
    /\ \A a \in 1..Len(s) : \E j \in keep : j <= n /\ s[a] = list[j]
    /\ \A j \in keep : j <= n => \E a \in 1..Len(s) : s[a] = list[j]
    /\ \A a, b \in 1..Len(s) : a # b => s[a] # s[b]

LEMMA PlacesBefore ==
    ASSUME NEW i \in Nat, NEW j \in Nat
    PROVE  /\ j <= i - 1 => j <= i /\ j < i
           /\ j <= i /\ j # i => j <= i - 1
OBVIOUS

LEMMA CollectsOneMore ==
    ASSUME NEW list, NEW keep \in SUBSET Nat, NEW i \in Nat, i # 0, NEW s,
           \A j, k \in keep : j < k => list[j] # list[k],
           Collected(list, keep, i - 1, s)
    PROVE  Collected(list, keep, i, OneMore(list, keep, s, i))
<1> DEFINE T == {list[j] : j \in keep}
<1>0. \A j \in keep : j \in Nat
  OBVIOUS
<1>1. s \in Seq(T) /\ Len(s) \in Nat
  BY DEF Collected
<1>2. CASE i \notin keep
  <2>1. OneMore(list, keep, s, i) = s
    BY <1>2 DEF OneMore
  <2>2. \A j \in keep : j <= i - 1 <=> j <= i
    BY <1>0, <1>2, PlacesBefore
  <2> QED BY <2>1, <2>2 DEF Collected
<1>3. CASE i \in keep
  <2> DEFINE t == Append(s, list[i])
             m == Len(s) + 1
  <2>1. OneMore(list, keep, s, i) = t
    BY <1>3 DEF OneMore
  <2>2. list[i] \in T
    BY <1>3
  <2> HIDE DEF T
  <2>3. /\ t \in Seq(T) /\ Len(t) = m /\ t[m] = list[i]
        /\ \A a \in 1..Len(s) : t[a] = s[a]
    BY <1>1, <2>2
  <2> HIDE DEF t
  <2>4. m \in 1..m /\ \A a \in 1..m : a \in 1..Len(s) \/ a = m
    BY <1>1
  <2>a. \A a \in 1..Len(s) : a \in 1..m
    BY <1>1
  <2> HIDE DEF m
  <2>5. \A a \in 1..Len(t) : \E j \in keep : j <= i /\ t[a] = list[j]
    <3> SUFFICES ASSUME NEW a \in 1..m PROVE \E j \in keep : j <= i /\ t[a] = list[j]
      BY <2>3
    <3>1. CASE a = m
      <4>1. i <= i
        OBVIOUS
      <4> QED BY <1>3, <2>3, <3>1, <4>1
    <3>2. CASE a \in 1..Len(s)
      <4>1. PICK j \in keep : j <= i - 1 /\ s[a] = list[j]
        BY <3>2 DEF Collected
      <4>2. j <= i
        BY <1>0, <4>1, PlacesBefore
      <4> QED BY <2>3, <3>2, <4>1, <4>2
    <3> QED BY <2>4, <3>1, <3>2
  <2>6. \A j \in keep : j <= i => \E a \in 1..Len(t) : t[a] = list[j]
    <3> SUFFICES ASSUME NEW j \in keep, j <= i PROVE \E a \in 1..m : t[a] = list[j]
      BY <2>3
    <3>1. CASE j = i
      BY <2>3, <2>4, <3>1
    <3>2. CASE j # i
      <4>1. j <= i - 1
        BY <1>0, <3>2, PlacesBefore
      <4>2. PICK a \in 1..Len(s) : s[a] = list[j]
        BY <4>1 DEF Collected
      <4> QED BY <2>3, <2>a, <4>2
    <3> QED BY <3>1, <3>2
  <2>7. ASSUME NEW a \in 1..Len(s) PROVE s[a] # list[i]
    <3>1. PICK j \in keep : j <= i - 1 /\ s[a] = list[j]
      BY DEF Collected
    <3>2. j < i
      BY <1>0, <3>1, PlacesBefore
    <3> QED BY <1>3, <3>1, <3>2
  <2>8. \A a, b \in 1..Len(t) : a # b => t[a] # t[b]
    <3> SUFFICES ASSUME NEW a \in 1..m, NEW b \in 1..m, a # b PROVE t[a] # t[b]
      BY <2>3
    <3>1. CASE a \in 1..Len(s) /\ b \in 1..Len(s)
      BY <2>3, <3>1 DEF Collected
    <3>2. CASE a = m /\ b \in 1..Len(s)
      BY <2>3, <2>7, <3>2
    <3>3. CASE a \in 1..Len(s) /\ b = m
      BY <2>3, <2>7, <3>3
    <3> QED BY <2>4, <3>1, <3>2, <3>3
  <2> QED BY <2>1, <2>3, <2>5, <2>6, <2>8 DEF Collected, T
<1> QED BY <1>2, <1>3

\* The fold over a whole list.
LEMMA TakenIsCollected ==
    ASSUME NEW list, NEW n \in Nat, NEW keep \in SUBSET Nat, NEW f, Folded(list, keep, n, f),
           \A j, k \in keep : j < k => list[j] # list[k], 0 \notin keep
    PROVE  Collected(list, keep, n, f[n])
<1> DEFINE Bad == {i \in 0..n : ~ Collected(list, keep, i, f[i])}
<1>1. 0 \notin Bad
  <2>1. f[0] = <<>>
    BY DEF Folded
  <2>2. \A j \in keep : ~ j <= 0
    OBVIOUS
  <2>3. Collected(list, keep, 0, <<>>)
    BY <2>2 DEF Collected
  <2> QED BY <2>1, <2>3
<1>2. ASSUME NEW i \in 1..n, i - 1 \notin Bad PROVE i \notin Bad
  <2>1. Collected(list, keep, i - 1, f[i - 1]) /\ i \in Nat /\ i # 0
    BY <1>2
  <2>2. f[i] = OneMore(list, keep, f[i - 1], i)
    BY DEF Folded
  <2>3. Collected(list, keep, i, f[i])
    BY <2>1, <2>2, CollectsOneMore
  <2> QED BY <2>3
<1>3. Bad \subseteq 0..n
  OBVIOUS
<1> HIDE DEF Bad
<1>4. Bad = {}
  BY <1>1, <1>2, <1>3, NoneFails
<1> QED BY <1>4 DEF Bad

\* The first of every branch, from the places given.
LEMMA FirstsOfBranches ==
    ASSUME NEW list, Len(list) \in Nat, NEW places \in SUBSET (1..Len(list)),
           NEW s, s = FirstOfBranch(list, places)
    PROVE  /\ \A a \in DOMAIN s : \E j \in places : s[a] = list[j]
           /\ \A a, b \in DOMAIN s : a # b => s[a].ref # s[b].ref
<1> DEFINE keep == {i \in places : \A j \in places : j < i => list[j].ref # list[i].ref}
           n == Len(list)
           f == CHOOSE f : Folded(list, keep, n, f)
<1>1. s = f[n]
  BY DEF FirstOfBranch, Folded, OneMore
<1>2. Folded(list, keep, n, f)
  <2>1. \E g : Folded(list, keep, n, g)
    BY TakenExists
  <2> QED BY <2>1
<1>3. keep \in SUBSET Nat /\ keep \subseteq places
  <2>1. \A i \in keep : i \in places
    OBVIOUS
  <2> HIDE DEF keep
  <2>2. \A i \in places : i \in Nat
    OBVIOUS
  <2> QED BY <2>1, <2>2
<1>4. ASSUME NEW j \in keep, NEW k \in keep, j < k PROVE list[j].ref # list[k].ref
  <2>1. j \in places
    OBVIOUS
  <2>2. \A i \in places : i < k => list[i].ref # list[k].ref
    OBVIOUS
  <2> QED BY <1>4, <2>1, <2>2
<1>5. 0 \notin keep
  OBVIOUS
<1> HIDE DEF keep, f
<1>6. \A j, k \in keep : j < k => list[j] # list[k]
  BY <1>4
<1>7. Collected(list, keep, n, f[n])
  BY <1>2, <1>3, <1>5, <1>6, TakenIsCollected
<1>8. ASSUME NEW a \in 1..Len(s), NEW b \in 1..Len(s), a # b PROVE s[a].ref # s[b].ref
  <2>1. s[a] # s[b]
    BY <1>1, <1>7, <1>8 DEF Collected
  <2>2. PICK j \in keep : s[a] = list[j]
    BY <1>1, <1>7 DEF Collected
  <2>3. PICK k \in keep : s[b] = list[k]
    BY <1>1, <1>7 DEF Collected
  <2>4. j < k \/ k < j
    BY <1>3, <2>1, <2>2, <2>3
  <2> QED BY <1>4, <2>2, <2>3, <2>4
<1>9. DOMAIN s = 1..Len(s)
  BY <1>1, <1>7 DEF Collected
<1> QED BY <1>1, <1>3, <1>7, <1>8, <1>9 DEF Collected

\* A list of pull requests, and what a branch row may take from it.
List(l) == Len(l) \in Nat /\ DOMAIN l = 1..Len(l)
OnePerBranch(pulls, repo) ==
    \A i, j \in DOMAIN pulls :
        /\ pulls[i].owner \in {OwnerOf[repo], NoOwner}
        /\ i # j => pulls[i].ref # pulls[j].ref

LEMMA NoPulls == \A repo : OnePerBranch(<<>>, repo)
<1>1. <<>> \in Seq({}) /\ Len(<<>>) = 0
  OBVIOUS
<1>2. DOMAIN <<>> = 1..0
  BY <1>1
<1>3. DOMAIN <<>> = {}
  BY <1>2
<1> QED BY <1>3 DEF OnePerBranch

LEMMA PullsOfRepository ==
    ASSUME NEW list, List(list), NEW repo
    PROVE  OnePerBranch(PullsByBranch(list, OwnerOf[repo]), repo)
<1> DEFINE places == {i \in DOMAIN list : list[i].owner \in {OwnerOf[repo], NoOwner}}
           s == FirstOfBranch(list, places)
<1>1. PullsByBranch(list, OwnerOf[repo]) = s
  BY DEF PullsByBranch
<1>2. \A i \in places : i \in 1..Len(list) /\ list[i].owner \in {OwnerOf[repo], NoOwner}
  BY DEF List
<1>3. Len(list) \in Nat
  BY DEF List
<1> HIDE DEF places
<1>4. places \in SUBSET (1..Len(list))
  BY <1>2
<1>5. /\ \A a \in DOMAIN s : \E j \in places : s[a] = list[j]
      /\ \A a, b \in DOMAIN s : a # b => s[a].ref # s[b].ref
  BY <1>3, <1>4, FirstsOfBranches
<1> HIDE DEF s
<1> QED BY <1>1, <1>2, <1>5 DEF OnePerBranch

Lists == ServiceLists \cup {NoList}
Call(c) == c = [live |-> c.live, repo |-> c.repo, refresh |-> c.refresh,
                wanted |-> c.wanted, stage |-> c.stage, hit |-> c.hit]

\* A call somebody waits for is of the repository on the screen and of a source
\* that is switched on; the checks that are fetched are of the pull requests shown.
Waits(c) ==
    /\ Call(c) /\ c.repo \in Asked /\ c.hit \in Lists
    /\ c.stage = "pulls" \/ c.stage = "checks"
    /\ c.live => c.repo = rowScreen.repo /\ rowWants.pulls
    /\ c.live /\ c.stage = "checks" => rowPullsOf = rowScreen.repo /\ rowWants.checks

RowInv ==
    /\ served = [r \in Asked |-> served[r]] /\ listCache = [r \in Asked |-> listCache[r]]
    /\ \A r \in Asked : served[r] \in ServiceLists /\ listCache[r] \in Lists
    /\ rowScreen.repo # "" => rowScreen.repo \in Asked
    /\ \A c \in rowCalls : Waits(c)
    /\ rowPulls # <<>> => rowPullsOf = rowScreen.repo /\ rowWants.pulls
    /\ rowChecks # {} => rowPullsOf = rowScreen.repo /\ rowWants.checks
    /\ OnePerBranch(rowPulls, rowPullsOf)

LEMMA DroppedCall ==
    ASSUME NEW d, Waits(d), NEW c, c = [d EXCEPT !.live = FALSE]
    PROVE  /\ Call(c) /\ ~c.live /\ c.repo \in Asked /\ c.hit \in Lists
           /\ c.stage = "pulls" \/ c.stage = "checks"
BY DEF Waits, Call

LEMMA AskHolds ==
    ASSUME RowInv, NEW screen, screen.repo # "" => screen.repo \in Asked,
           NEW wants, NEW over \in BOOLEAN,
           Ask(screen, wants, over), rowScreen' = screen, rowWants' = wants,
           UNCHANGED <<served, listCache>>,
           ~ over => screen.repo = rowScreen.repo /\ wants = rowWants
    PROVE  RowInv'
<1> DEFINE asks == screen.repo # "" /\ wants.pulls
<1>1. PICK refresh :
        rowCalls' = CallsLeft(rowCalls) \cup
          (IF asks THEN {[live |-> TRUE, repo |-> screen.repo, refresh |-> refresh,
                          wanted |-> NotWanted, stage |-> "pulls",
                          hit |-> FromCache(screen.repo, refresh)]} ELSE {})
  BY DEF Ask
<1>2. ASSUME NEW c \in rowCalls' PROVE Waits(c)'
  <2>1. CASE c \in CallsLeft(rowCalls)
    <3>1. PICK d \in rowCalls : c = [d EXCEPT !.live = FALSE]
      BY <2>1 DEF CallsLeft, DroppedFromRows
    <3>2. Waits(d)
      BY DEF RowInv
    <3> QED BY <3>1, <3>2, DroppedCall DEF Waits
  <2>2. CASE /\ asks
             /\ c = [live |-> TRUE, repo |-> screen.repo, refresh |-> refresh,
                     wanted |-> NotWanted, stage |-> "pulls",
                     hit |-> FromCache(screen.repo, refresh)]
    <3>1. FromCache(screen.repo, refresh) \in Lists
      BY <2>2 DEF FromCache, RowInv, Lists
    <3>2. Call(c)
      BY <2>2 DEF Call
    <3>3. c.repo = screen.repo /\ c.hit \in Lists /\ c.stage = "pulls"
      BY <2>2, <3>1
    <3> QED BY <2>2, <3>2, <3>3 DEF Waits
  <2> QED BY <1>1, <2>1, <2>2
<1>3. /\ rowPulls' = IF over THEN <<>> ELSE rowPulls
      /\ rowPullsOf' = IF over THEN "" ELSE rowPullsOf
      /\ rowChecks' = IF over THEN {} ELSE rowChecks
  BY DEF Ask
<1>4. /\ rowPulls' # <<>> => rowPullsOf' = screen.repo /\ wants.pulls
      /\ rowChecks' # {} => rowPullsOf' = screen.repo /\ wants.checks
  BY <1>3 DEF RowInv
<1>5. OnePerBranch(rowPulls, rowPullsOf)'
  <2>1. CASE over
    <3>1. rowPulls' = <<>>
      BY <1>3, <2>1
    <3> QED BY <3>1, NoPulls
  <2>2. CASE ~over
    BY <1>3, <2>2 DEF RowInv
  <2> QED BY <2>1, <2>2
<1> QED BY <1>2, <1>4, <1>5 DEF RowInv

LEMMA PullsArriveHolds ==
    ASSUME RowInv, NEW c \in rowCalls,
           NEW list, list = IF c.hit = NoList THEN served[c.repo] ELSE c.hit,
           NEW wanted, c.stage = "pulls",
           listCache' = [listCache EXCEPT ![c.repo] = IF c.hit = NoList THEN list ELSE @],
           rowPulls' = IF c.live THEN PullsByBranch(list, OwnerOf[c.repo]) ELSE rowPulls,
           rowPullsOf' = IF c.live THEN c.repo ELSE rowPullsOf,
           rowCalls' = (rowCalls \ {c}) \cup
             (IF c.live /\ rowWants.checks
              THEN {[c EXCEPT !.stage = "checks", !.wanted = wanted]} ELSE {}),
           UNCHANGED <<rowScreen, rowWants, rowChecks, served>>
    PROVE  RowInv'
<1>1. Waits(c)
  BY DEF RowInv
<1>2. list \in ServiceLists
  BY <1>1 DEF Waits, RowInv, Lists
<1>3. List(list)
  BY <1>2, RowAssumption DEF List
<1>4. OnePerBranch(rowPulls, rowPullsOf)'
  <2>1. CASE c.live
    <3>1. OnePerBranch(PullsByBranch(list, OwnerOf[c.repo]), c.repo)
      BY <1>3, PullsOfRepository
    <3> QED BY <2>1, <3>1
  <2>2. CASE ~c.live
    BY <2>2 DEF RowInv
  <2> QED BY <2>1, <2>2
<1>5. c.live => c.repo = rowScreen.repo /\ rowWants.pulls
  BY <1>1 DEF Waits
<1>6. ASSUME NEW d \in rowCalls' PROVE Waits(d)'
  <2>1. CASE d \in rowCalls
    <3>1. Waits(d)
      BY <2>1 DEF RowInv
    <3> QED BY <1>5, <3>1 DEF Waits
  <2>2. CASE c.live /\ rowWants.checks /\ d = [c EXCEPT !.stage = "checks", !.wanted = wanted]
    <3>1. /\ Call(d) /\ d.repo = c.repo /\ d.hit = c.hit /\ d.stage = "checks"
      BY <1>1, <2>2 DEF Waits, Call
    <3> QED BY <1>1, <1>5, <2>2, <3>1 DEF Waits
  <2> QED BY <2>1, <2>2
<1>7. /\ rowPulls' # <<>> => rowPullsOf' = rowScreen.repo /\ rowWants.pulls
      /\ rowChecks # {} => rowPullsOf' = rowScreen.repo /\ rowWants.checks
  BY <1>5 DEF RowInv
<1>8. /\ listCache' = [r \in Asked |-> listCache'[r]]
      /\ \A r \in Asked : listCache'[r] \in Lists
  BY <1>2 DEF RowInv, Lists
<1> QED BY <1>4, <1>6, <1>7, <1>8 DEF RowInv

LEMMA RowStepHolds == ASSUME RowInv, [RowNext]_rowVars PROVE RowInv'
<1>1. CASE ShowSnapshot
  <2>1. PICK s \in RowScreens :
          /\ rowScreen' = s
          /\ Ask(s, rowWants, s.repo # rowScreen.repo)
          /\ UNCHANGED <<rowWants, served, listCache>>
    BY <1>1 DEF ShowSnapshot
  <2> DEFINE over == s.repo # rowScreen.repo
  <2>2. s.repo # "" => s.repo \in Asked
    BY DEF Asked
  <2>3. over \in BOOLEAN /\ (~over => s.repo = rowScreen.repo)
    OBVIOUS
  <2>4. Ask(s, rowWants, over)
    BY <2>1
  <2> HIDE DEF over
  <2> QED BY <2>1, <2>2, <2>3, <2>4, AskHolds
<1>2. CASE SetRowSources
  <2>1. PICK w \in [pulls : BOOLEAN, checks : BOOLEAN] :
          /\ rowWants' = w /\ Ask(rowScreen, w, TRUE)
          /\ UNCHANGED <<rowScreen, served, listCache>>
    BY <1>2 DEF SetRowSources
  <2>2. rowScreen.repo # "" => rowScreen.repo \in Asked
    BY DEF RowInv
  <2> QED BY <2>1, <2>2, AskHolds
<1>3. CASE ServiceChanges
  <2>1. PICK r \in Asked, l \in ServiceLists :
          /\ served' = [served EXCEPT ![r] = l]
          /\ UNCHANGED <<rowScreen, rowWants, rowPulls, rowPullsOf, rowChecks, rowCalls, listCache>>
    BY <1>3 DEF ServiceChanges
  <2>2. /\ served' = [k \in Asked |-> served'[k]]
        /\ \A k \in Asked : served'[k] \in ServiceLists
    BY <2>1 DEF RowInv
  <2> QED BY <2>1, <2>2 DEF RowInv, Waits
<1>4. CASE CacheExpires
  <2>1. PICK r \in Asked :
          /\ listCache' = [listCache EXCEPT ![r] = NoList]
          /\ UNCHANGED <<rowScreen, rowWants, rowPulls, rowPullsOf, rowChecks, rowCalls, served>>
    BY <1>4 DEF CacheExpires
  <2>2. /\ listCache' = [k \in Asked |-> listCache'[k]]
        /\ \A k \in Asked : listCache'[k] \in Lists
    BY <2>1 DEF RowInv, Lists
  <2> QED BY <2>1, <2>2 DEF RowInv, Waits
<1>5. CASE PullsArrive
  BY <1>5, PullsArriveHolds DEF PullsArrive
<1>6. CASE ChecksArrive
  <2>1. PICK c, checks :
          /\ c \in rowCalls /\ c.stage = "checks"
          /\ rowChecks' = IF c.live THEN checks ELSE rowChecks
          /\ rowCalls' = rowCalls \ {c}
          /\ UNCHANGED <<rowScreen, rowWants, rowPulls, rowPullsOf, served, listCache>>
    BY <1>6 DEF ChecksArrive
  <2>2. Waits(c)
    BY <2>1 DEF RowInv
  <2>3. rowChecks' # {} => rowPullsOf = rowScreen.repo /\ rowWants.checks
    BY <2>1, <2>2 DEF RowInv, Waits
  <2> QED BY <2>1, <2>3 DEF RowInv, Waits
<1>7. CASE LookupFails \/ UNCHANGED rowVars
  BY <1>7 DEF LookupFails, rowVars, RowInv, Waits
<1> QED BY <1>1, <1>2, <1>3, <1>4, <1>5, <1>6, <1>7 DEF RowNext

\* The rows of BranchStatus (useForgeStatus.ts) carry pull requests and checks of
\* the repository on the screen and of no fork of it, one per branch, whatever
\* the snapshots, the settings, the cache and the order of the answers.
THEOREM RowsFollowScreen == RowSpec => []RowsAreOfRepository
<1>1. RowInit => RowInv
  <2> SUFFICES ASSUME RowInit PROVE RowInv
    OBVIOUS
  <2>1. /\ served = [r \in Asked |-> served[r]] /\ \A r \in Asked : served[r] \in ServiceLists
    BY DEF RowInit
  <2>2. /\ listCache = [r \in Asked |-> listCache[r]] /\ \A r \in Asked : listCache[r] \in Lists
    BY DEF RowInit, Lists
  <2>3. rowScreen.repo = "" /\ rowPulls = <<>> /\ rowCalls = {} /\ rowChecks = {}
    BY DEF RowInit
  <2>4. OnePerBranch(rowPulls, rowPullsOf)
    BY <2>3, NoPulls
  <2> QED BY <2>1, <2>2, <2>3, <2>4 DEF RowInv
<1>2. RowInv => RowsAreOfRepository
  BY DEF RowInv, RowsAreOfRepository, OnePerBranch
<1> QED BY <1>1, <1>2, RowStepHolds, PTL DEF RowSpec

-----------------------------------------------------------------------------
(***************************************************************************)
(* DemoBackend: the head and the mark of its branch.                       *)
(***************************************************************************)
Branch(b) ==
    /\ b = [name |-> b.name, oid |-> b.oid, is_head |-> b.is_head, upstream |-> b.upstream]
    /\ b.is_head \in BOOLEAN

BranchList(list) ==
    /\ \E S : list \in Seq(S)
    /\ \A i \in DOMAIN list : Branch(list[i])
    /\ \A i, j \in DOMAIN list : list[i].name = list[j].name => i = j

\* The entry at place i is the only one marked.
MarkedAt(list, i) == i \in DOMAIN list /\ \A j \in DOMAIN list : list[j].is_head <=> j = i

HeadOf(list, head) ==
    /\ head = [kind |-> head.kind, name |-> head.name, oid |-> head.oid]
    /\ head.kind = "branch" =>
         \E i \in DOMAIN list :
            MarkedAt(list, i) /\ list[i].name = head.name /\ list[i].oid = head.oid
    /\ head.kind # "branch" => \A j \in DOMAIN list : ~ list[j].is_head

\* Two branches never have one name, so that the entry a call finds by name is the
\* one the head is on.
HeadInv == BranchList(branches) /\ HeadOf(branches, demoHead)

LEMMA BranchChanged ==
    ASSUME NEW b, Branch(b), NEW v, NEW q
    PROVE  /\ q = [b EXCEPT !.oid = v] =>
                Branch(q) /\ q.name = b.name /\ q.oid = v /\ q.is_head = b.is_head
           /\ q = [b EXCEPT !.name = v] =>
                Branch(q) /\ q.name = v /\ q.oid = b.oid /\ q.is_head = b.is_head
           /\ q = [b EXCEPT !.upstream = v] =>
                Branch(q) /\ q.name = b.name /\ q.oid = b.oid /\ q.is_head = b.is_head
           /\ v \in BOOLEAN /\ q = [b EXCEPT !.is_head = v] =>
                Branch(q) /\ q.name = b.name /\ q.oid = b.oid /\ q.is_head = v
BY DEF Branch

LEMMA ListOfBranches ==
    ASSUME NEW list, BranchList(list)
    PROVE  /\ Len(list) \in Nat /\ DOMAIN list = 1..Len(list)
           /\ list = [i \in DOMAIN list |-> list[i]]
<1>1. PICK S : list \in Seq(S)
  BY DEF BranchList
<1> QED BY <1>1

LEMMA ListFrom ==
    ASSUME NEW n \in Nat, NEW list, list = [i \in 1..n |-> list[i]]
    PROVE  \E S : list \in Seq(S)
<1> DEFINE S == {list[i] : i \in 1..n}
<1>1. list \in [1..n -> S]
  OBVIOUS
<1>2. list \in Seq(S)
  <2> HIDE DEF S
  <2> QED BY <1>1
<1> QED BY <1>2

\* A branch replaced by one with the same mark and no other's name.
LEMMA BranchReplaced ==
    ASSUME NEW list, BranchList(list), NEW k \in DOMAIN list, NEW q, Branch(q),
           \A j \in DOMAIN list : j # k => list[j].name # q.name,
           NEW after, after = [list EXCEPT ![k] = q]
    PROVE  /\ BranchList(after) /\ DOMAIN after = DOMAIN list /\ after[k] = q
           /\ \A j \in DOMAIN list : j # k => after[j] = list[j]
<1>1. /\ DOMAIN after = DOMAIN list /\ after[k] = q
      /\ \A j \in DOMAIN list : j # k => after[j] = list[j]
      /\ Len(list) \in Nat /\ DOMAIN list = 1..Len(list)
      /\ after = [i \in DOMAIN list |-> after[i]]
  <2>1. list = [i \in DOMAIN list |-> list[i]]
    BY ListOfBranches
  <2> QED BY <2>1, ListOfBranches
<1>2. \E S : after \in Seq(S)
  BY <1>1, ListFrom
<1>3. \A i \in DOMAIN after : Branch(after[i])
  BY <1>1 DEF BranchList
<1>4. \A i, j \in DOMAIN after : after[i].name = after[j].name => i = j
  BY <1>1 DEF BranchList
<1> QED BY <1>1, <1>2, <1>3, <1>4 DEF BranchList

\* Every entry is looked at once, and the one at k, if there is one, is marked.
LEMMA BranchesMarked ==
    ASSUME NEW list, BranchList(list), NEW k, NEW after, after = Marked(list, k)
    PROVE  /\ BranchList(after) /\ DOMAIN after = DOMAIN list
           /\ \A i \in DOMAIN list : after[i].name = list[i].name /\ after[i].oid = list[i].oid
           /\ \A i \in DOMAIN list : after[i].is_head <=> i = k
<1>1. /\ DOMAIN after = DOMAIN list /\ after = [i \in DOMAIN list |-> after[i]]
      /\ \A i \in DOMAIN list : after[i] = [list[i] EXCEPT !.is_head = (i = k)]
  BY DEF Marked
<1>2. ASSUME NEW i \in DOMAIN list
      PROVE  /\ Branch(after[i]) /\ after[i].name = list[i].name
             /\ after[i].oid = list[i].oid /\ (after[i].is_head <=> i = k)
  <2>1. Branch(list[i]) /\ TRUE \in BOOLEAN /\ FALSE \in BOOLEAN
    BY DEF BranchList
  <2>2. CASE i = k
    <3>1. after[i] = [list[i] EXCEPT !.is_head = TRUE]
      BY <1>1, <2>2
    <3>2. Branch(after[i]) /\ after[i].name = list[i].name
          /\ after[i].oid = list[i].oid /\ after[i].is_head = TRUE
      BY <2>1, <3>1 DEF Branch
    <3> QED BY <2>2, <3>2
  <2>3. CASE i # k
    <3>1. after[i] = [list[i] EXCEPT !.is_head = FALSE]
      BY <1>1, <2>3
    <3>2. Branch(after[i]) /\ after[i].name = list[i].name
          /\ after[i].oid = list[i].oid /\ after[i].is_head = FALSE
      BY <2>1, <3>1 DEF Branch
    <3> QED BY <2>3, <3>2
  <2> QED BY <2>2, <2>3
<1>3. \E S : after \in Seq(S)
  <2>1. Len(list) \in Nat /\ DOMAIN list = 1..Len(list)
    BY ListOfBranches
  <2> QED BY <1>1, <2>1, ListFrom
<1>4. \A i, j \in DOMAIN after : after[i].name = after[j].name => i = j
  BY <1>1, <1>2 DEF BranchList
<1> QED BY <1>1, <1>2, <1>3, <1>4 DEF BranchList

LEMMA BranchFound ==
    ASSUME HeadInv, NEW name
    PROVE  /\ BranchIndex(name) = 0 => \A i \in DOMAIN branches : branches[i].name # name
           /\ BranchIndex(name) # 0 =>
                BranchIndex(name) \in DOMAIN branches /\ branches[BranchIndex(name)].name = name
           /\ \A i \in DOMAIN branches : branches[i].name = name => BranchIndex(name) = i
<1> DEFINE at == {i \in 1..Len(branches) : branches[i].name = name}
<1>1. BranchIndex(name) = IF at # {} THEN Min(at) ELSE 0
  BY DEF BranchIndex, SelectInSeq
<1>2. Len(branches) \in Nat /\ DOMAIN branches = 1..Len(branches)
  BY ListOfBranches DEF HeadInv
<1>3. ASSUME NEW i \in DOMAIN branches, branches[i].name = name PROVE BranchIndex(name) = i
  <2>1. at = {i}
    BY <1>2, <1>3 DEF HeadInv, BranchList
  <2>2. i <= i
    BY <1>2
  <2> HIDE DEF at
  <2>3. Min(at) = i
    BY <2>1, <2>2 DEF Min
  <2> QED BY <1>1, <2>1, <2>3
<1>4. CASE at = {}
  BY <1>1, <1>2, <1>3, <1>4
<1>5. CASE at # {}
  <2>1. PICK i \in DOMAIN branches : branches[i].name = name
    BY <1>2, <1>5
  <2>2. BranchIndex(name) = i /\ i # 0
    BY <1>2, <1>3, <2>1
  <2> QED BY <1>3, <2>1, <2>2
<1> QED BY <1>4, <1>5

LEMMA HeadFound ==
    ASSUME HeadInv, NEW i, MarkedAt(branches, i)
    PROVE  HeadEntry = i /\ i > 0
<1> DEFINE at == {j \in 1..Len(branches) : branches[j].is_head}
<1>1. HeadEntry = IF at # {} THEN Min(at) ELSE 0
  BY DEF HeadEntry, SelectInSeq
<1>2. Len(branches) \in Nat /\ DOMAIN branches = 1..Len(branches)
  BY ListOfBranches DEF HeadInv
<1>3. at = {i} /\ i <= i /\ i > 0
  BY <1>2 DEF MarkedAt
<1> HIDE DEF at
<1>4. Min(at) = i
  BY <1>3 DEF Min
<1> QED BY <1>1, <1>3, <1>4
LEMMA HeadMoves ==
    ASSUME HeadInv, NEW oid, SetHeadOid(oid)
    PROVE  HeadInv'
<1>1. demoHead' = [kind |-> demoHead'.kind, name |-> demoHead'.name, oid |-> demoHead'.oid]
      /\ demoHead'.kind = demoHead.kind /\ demoHead'.name = demoHead.name /\ demoHead'.oid = oid
  BY DEF SetHeadOid, HeadInv, HeadOf
<1>2. CASE demoHead.kind # "branch"
  <2>1. branches' = branches
    BY <1>2 DEF SetHeadOid
  <2> QED BY <1>1, <1>2, <2>1 DEF HeadInv, HeadOf
<1>3. CASE demoHead.kind = "branch"
  <2>1. PICK i \in DOMAIN branches : MarkedAt(branches, i) /\ branches[i].name = demoHead.name
    BY <1>3 DEF HeadInv, HeadOf
  <2>2. PICK q : q = [branches[i] EXCEPT !.oid = oid]
    OBVIOUS
  <2>3. branches' = [branches EXCEPT ![i] = q]
    BY <1>3, <2>1, <2>2, HeadFound DEF SetHeadOid
  <2>4. Branch(branches[i])
    BY DEF HeadInv, BranchList
  <2>5. Branch(q) /\ q.name = branches[i].name /\ q.oid = oid /\ q.is_head = branches[i].is_head
    BY <2>2, <2>4, BranchChanged
  <2>6. \A j \in DOMAIN branches : j # i => branches[j].name # q.name
    BY <2>5 DEF HeadInv, BranchList
  <2>7. /\ BranchList(branches') /\ DOMAIN branches' = DOMAIN branches /\ branches'[i] = q
        /\ \A j \in DOMAIN branches : j # i => branches'[j] = branches[j]
    BY <2>3, <2>5, <2>6, BranchReplaced DEF HeadInv
  <2>8. MarkedAt(branches', i)
    BY <2>1, <2>5, <2>7 DEF MarkedAt
  <2> QED BY <1>1, <1>3, <2>1, <2>5, <2>7, <2>8 DEF HeadInv, HeadOf
<1> QED BY <1>2, <1>3

LEMMA HeadSwitches ==
    ASSUME NEW list, BranchList(list), NEW k \in DOMAIN list, CheckoutValue(list, k)
    PROVE  HeadInv'
<1>1. /\ BranchList(branches') /\ DOMAIN branches' = DOMAIN list
      /\ \A i \in DOMAIN list : branches'[i].name = list[i].name /\ branches'[i].oid = list[i].oid
      /\ \A i \in DOMAIN list : branches'[i].is_head <=> i = k
  BY BranchesMarked DEF CheckoutValue
<1>2. demoHead' = [kind |-> "branch", name |-> list[k].name, oid |-> list[k].oid]
  BY DEF CheckoutValue
<1>3. MarkedAt(branches', k)
  BY <1>1 DEF MarkedAt
<1> QED BY <1>1, <1>2, <1>3 DEF HeadInv, HeadOf

\* A branch is added behind the others, unmarked and under a name of its own.
LEMMA BranchAdded ==
    ASSUME HeadInv, NEW name, NEW oid, BranchIndex(name) = 0,
           NEW list, list = Append(branches, [name |-> name, oid |-> oid,
                                              is_head |-> FALSE, upstream |-> NoName])
    PROVE  /\ BranchList(list) /\ Len(list) \in DOMAIN list
           /\ HeadOf(list, demoHead)
<1>1. PICK S : branches \in Seq(S)
  BY DEF HeadInv, BranchList
<1> DEFINE b == [name |-> name, oid |-> oid, is_head |-> FALSE, upstream |-> NoName]
           n == Len(branches)
<1>2. Branch(b) /\ ~ b.is_head /\ b.name = name
  BY DEF Branch
<1>3. \A i \in DOMAIN branches : branches[i].name # name
  BY BranchFound
<1> HIDE DEF b
<1>4. list = Append(branches, b)
  BY DEF b
<1>5. branches \in Seq(S \cup {b}) /\ b \in S \cup {b}
  BY <1>1
<1>6. /\ list \in Seq(S \cup {b}) /\ n \in Nat /\ DOMAIN branches = 1..n
      /\ Len(list) = n + 1 /\ DOMAIN list = 1..(n + 1) /\ list[n + 1] = b
      /\ \A i \in 1..n : list[i] = branches[i]
  BY <1>4, <1>5
<1> HIDE DEF n
<1>7. \A i \in 1..(n + 1) : i \in 1..n \/ i = n + 1
  BY <1>6
<1>8. n + 1 \in 1..(n + 1) /\ \A i \in 1..n : i \in 1..(n + 1) /\ i # n + 1
  BY <1>6
<1>9. \A i \in DOMAIN list : Branch(list[i])
  BY <1>2, <1>6, <1>7 DEF HeadInv, BranchList
<1>10. ASSUME NEW i \in DOMAIN list, NEW j \in DOMAIN list, list[i].name = list[j].name
       PROVE  i = j
  <2>1. CASE i \in 1..n /\ j \in 1..n
    BY <1>6, <1>10, <2>1 DEF HeadInv, BranchList
  <2>2. CASE i = n + 1 /\ j = n + 1
    BY <2>2
  <2>3. CASE i \in 1..n /\ j = n + 1
    BY <1>2, <1>3, <1>6, <1>10, <2>3
  <2>4. CASE i = n + 1 /\ j \in 1..n
    BY <1>2, <1>3, <1>6, <1>10, <2>4
  <2> QED BY <1>6, <1>7, <2>1, <2>2, <2>3, <2>4
<1>11. BranchList(list)
  BY <1>6, <1>9, <1>10 DEF BranchList
<1>12. ASSUME NEW i, MarkedAt(branches, i)
       PROVE  MarkedAt(list, i) /\ list[i] = branches[i]
  <2>1. i \in 1..n /\ i # n + 1
    BY <1>6, <1>8, <1>12 DEF MarkedAt
  <2>2. \A j \in DOMAIN list : list[j].is_head <=> j = i
    BY <1>2, <1>6, <1>7, <1>12, <2>1 DEF MarkedAt
  <2> QED BY <1>6, <1>8, <2>1, <2>2 DEF MarkedAt
<1>13. HeadOf(list, demoHead)
  <2>1. CASE demoHead.kind = "branch"
    <3>1. PICK i \in DOMAIN branches : /\ MarkedAt(branches, i) /\ branches[i].name = demoHead.name
                                       /\ branches[i].oid = demoHead.oid
      BY <2>1 DEF HeadInv, HeadOf
    <3>2. MarkedAt(list, i) /\ list[i] = branches[i] /\ i \in DOMAIN list
      BY <3>1, <1>12 DEF MarkedAt
    <3> QED BY <2>1, <3>1, <3>2 DEF HeadInv, HeadOf
  <2>2. CASE demoHead.kind # "branch"
    <3>1. \A j \in DOMAIN list : ~ list[j].is_head
      BY <1>2, <1>6, <1>7, <2>2 DEF HeadInv, HeadOf
    <3> QED BY <2>2, <3>1 DEF HeadInv, HeadOf
  <2> QED BY <2>1, <2>2
<1> QED BY <1>6, <1>8, <1>11, <1>13

LEMMA BranchRenamed ==
    ASSUME HeadInv, NEW old, NEW new, BranchIndex(new) = 0,
           NEW k \in DOMAIN branches, branches[k].name = old,
           NEW q, q = [branches[k] EXCEPT !.name = new],
           branches' = [branches EXCEPT ![k] = q],
           demoHead' = RenameHead(old, new)
    PROVE  HeadInv'
<1>5. Branch(branches[k])
  BY DEF HeadInv, BranchList
<1>6. Branch(q) /\ q.name = new /\ q.oid = branches[k].oid /\ q.is_head = branches[k].is_head
  BY <1>5, BranchChanged
<1>7. \A j \in DOMAIN branches : branches[j].name # new
  BY BranchFound
<1>8. /\ BranchList(branches') /\ DOMAIN branches' = DOMAIN branches /\ branches'[k] = q
      /\ \A j \in DOMAIN branches : j # k => branches'[j] = branches[j]
  <2>1. \A j \in DOMAIN branches : j # k => branches[j].name # q.name
    BY <1>6, <1>7
  <2> QED BY <1>6, <2>1, BranchReplaced DEF HeadInv
<1>9. \A j \in DOMAIN branches : branches'[j].is_head = branches[j].is_head
                                  /\ branches'[j].oid = branches[j].oid
  BY <1>6, <1>8
<1>10. CASE demoHead.kind = "branch"
  <2>1. PICK i \in DOMAIN branches : /\ MarkedAt(branches, i) /\ branches[i].name = demoHead.name
                                     /\ branches[i].oid = demoHead.oid
    BY <1>10 DEF HeadInv, HeadOf
  <2>2. MarkedAt(branches', i) /\ i \in DOMAIN branches'
    BY <1>8, <1>9, <2>1 DEF MarkedAt
  <2>3. CASE i = k
    <3>1. demoHead.name = old
      BY <2>1, <2>3
    <3>2. demoHead' = [demoHead EXCEPT !.name = new]
      BY <1>10, <3>1 DEF RenameHead
    <3>3. demoHead = [kind |-> demoHead.kind, name |-> demoHead.name, oid |-> demoHead.oid]
      BY DEF HeadInv, HeadOf
    <3>4. demoHead' = [kind |-> demoHead.kind, name |-> new, oid |-> demoHead.oid]
      BY <3>2, <3>3
    <3>5. branches'[i].name = new /\ branches'[i].oid = demoHead.oid
      BY <1>6, <1>8, <2>1, <2>3
    <3>6. demoHead'.kind = "branch" /\ demoHead'.name = new /\ demoHead'.oid = demoHead.oid
      BY <1>10, <3>4
    <3>7. demoHead' = [kind |-> demoHead'.kind, name |-> demoHead'.name, oid |-> demoHead'.oid]
      BY <3>4
    <3> QED BY <1>8, <2>2, <3>5, <3>6, <3>7 DEF HeadInv, HeadOf
  <2>4. CASE i # k
    <3>1. demoHead.name # old
      BY <2>1, <2>4 DEF HeadInv, BranchList
    <3>2. demoHead' = demoHead
      BY <3>1 DEF RenameHead
    <3>3. branches'[i].name = demoHead.name /\ branches'[i].oid = demoHead.oid
      BY <1>8, <2>1, <2>4
    <3> QED BY <1>8, <1>10, <2>2, <3>2, <3>3 DEF HeadInv, HeadOf
  <2> QED BY <2>3, <2>4
<1>11. CASE demoHead.kind # "branch"
  <2>1. demoHead' = demoHead
    BY <1>11 DEF RenameHead
  <2>2. \A j \in DOMAIN branches' : ~ branches'[j].is_head
    BY <1>8, <1>9, <1>11 DEF HeadInv, HeadOf
  <2> QED BY <1>8, <1>11, <2>1, <2>2 DEF HeadInv, HeadOf
<1> QED BY <1>10, <1>11

\* The fold of OtherBranches leaves out the branches of that name and no other.
LEMMA OthersAreKept ==
    ASSUME HeadInv, NEW name, NEW s, s = OtherBranches(name)
    PROVE  /\ \E S : s \in Seq(S)
           /\ \A a \in DOMAIN s : \E j \in DOMAIN branches :
                 s[a] = branches[j] /\ branches[j].name # name
           /\ \A j \in DOMAIN branches : branches[j].name # name =>
                 \E a \in DOMAIN s : s[a] = branches[j]
           /\ \A a, b \in DOMAIN s : a # b => s[a] # s[b]
<1> DEFINE keep == {i \in DOMAIN branches : branches[i].name # name}
           n == Len(branches)
           f == CHOOSE f : Folded(branches, keep, n, f)
<1>1. s = f[n]
  BY DEF OtherBranches, Folded, OneMore
<1>2. Folded(branches, keep, n, f)
  <2>1. n \in Nat
    BY ListOfBranches DEF HeadInv
  <2>2. \E g : Folded(branches, keep, n, g)
    BY <2>1, TakenExists
  <2> QED BY <2>2
<1>3. n \in Nat /\ DOMAIN branches = 1..n
  BY ListOfBranches DEF HeadInv
<1>4. /\ \A j \in keep : j \in DOMAIN branches /\ branches[j].name # name
      /\ \A j \in DOMAIN branches : branches[j].name # name => j \in keep
  OBVIOUS
<1> HIDE DEF keep, f
<1>5. keep \in SUBSET Nat /\ 0 \notin keep /\ \A j \in keep : j <= n
  BY <1>3, <1>4
<1>6. \A j, k \in keep : j < k => branches[j] # branches[k]
  <2>1. ASSUME NEW j \in keep, NEW k \in keep, j < k PROVE branches[j] # branches[k]
    <3>1. j # k
      BY <1>5, <2>1
    <3> QED BY <1>4, <3>1 DEF HeadInv, BranchList
  <2> QED BY <2>1
<1> HIDE DEF n
<1>7. Collected(branches, keep, n, s)
  BY <1>1, <1>2, <1>3, <1>5, <1>6, TakenIsCollected
<1>8. (\E S : s \in Seq(S)) /\ DOMAIN s = 1..Len(s)
  BY <1>7 DEF Collected
<1>9. ASSUME NEW a \in DOMAIN s
      PROVE  \E j \in DOMAIN branches : s[a] = branches[j] /\ branches[j].name # name
  <2>1. PICK j \in keep : s[a] = branches[j]
    BY <1>7, <1>8 DEF Collected
  <2> QED BY <1>4, <2>1
<1>10. ASSUME NEW j \in DOMAIN branches, branches[j].name # name
       PROVE  \E a \in DOMAIN s : s[a] = branches[j]
  <2>1. j \in keep /\ j <= n
    BY <1>4, <1>5, <1>10
  <2> QED BY <1>7, <1>8, <2>1 DEF Collected
<1>11. \A a, b \in DOMAIN s : a # b => s[a] # s[b]
  BY <1>7, <1>8 DEF Collected
<1> QED BY <1>8, <1>9, <1>10, <1>11

LEMMA BranchDeleted ==
    ASSUME HeadInv, NEW name, CurrentBranchName # name, branches' = OtherBranches(name),
           UNCHANGED demoHead
    PROVE  HeadInv'
<1>1. /\ \E S : branches' \in Seq(S)
      /\ \A a \in DOMAIN branches' : \E j \in DOMAIN branches :
            branches'[a] = branches[j] /\ branches[j].name # name
      /\ \A j \in DOMAIN branches : branches[j].name # name =>
            \E a \in DOMAIN branches' : branches'[a] = branches[j]
      /\ \A a, b \in DOMAIN branches' : a # b => branches'[a] # branches'[b]
  BY OthersAreKept
<1>2. \A a \in DOMAIN branches' : Branch(branches'[a])
  BY <1>1 DEF HeadInv, BranchList
<1>3. ASSUME NEW a \in DOMAIN branches', NEW b \in DOMAIN branches',
             branches'[a].name = branches'[b].name
      PROVE  a = b
  <2>1. PICK j \in DOMAIN branches : branches'[a] = branches[j]
    BY <1>1
  <2>2. PICK k \in DOMAIN branches : branches'[b] = branches[k]
    BY <1>1
  <2>3. j = k
    BY <1>3, <2>1, <2>2 DEF HeadInv, BranchList
  <2> QED BY <1>1, <2>1, <2>2, <2>3
<1>4. BranchList(branches')
  BY <1>1, <1>2, <1>3 DEF BranchList
<1>5. CASE demoHead.kind = "branch"
  <2>1. PICK i \in DOMAIN branches : /\ MarkedAt(branches, i) /\ branches[i].name = demoHead.name
                                     /\ branches[i].oid = demoHead.oid
    BY <1>5 DEF HeadInv, HeadOf
  <2>2. branches[i].name # name
    BY <1>5, <2>1 DEF CurrentBranchName
  <2>3. PICK a \in DOMAIN branches' : branches'[a] = branches[i]
    BY <1>1, <2>2
  <2>4. ASSUME NEW b \in DOMAIN branches' PROVE branches'[b].is_head <=> b = a
    <3>1. PICK k \in DOMAIN branches : branches'[b] = branches[k]
      BY <1>1
    <3>2. branches[k].is_head <=> k = i
      BY <2>1 DEF MarkedAt
    <3>3. CASE k = i
      BY <1>1, <2>3, <3>1, <3>2, <3>3
    <3>4. CASE k # i
      <4>1. branches[k].name # branches[i].name
        BY <3>4 DEF HeadInv, BranchList
      <4> QED BY <2>3, <3>1, <3>2, <3>4, <4>1
    <3> QED BY <3>3, <3>4
  <2>5. MarkedAt(branches', a)
    BY <2>4 DEF MarkedAt
  <2> QED BY <1>4, <1>5, <2>1, <2>3, <2>5 DEF HeadInv, HeadOf
<1>6. CASE demoHead.kind # "branch"
  <2>1. \A j \in DOMAIN branches' : ~ branches'[j].is_head
    BY <1>1, <1>6 DEF HeadInv, HeadOf
  <2> QED BY <1>4, <1>6, <2>1 DEF HeadInv, HeadOf
<1> QED BY <1>5, <1>6

LEMMA UpstreamSet ==
    ASSUME HeadInv, NEW k \in DOMAIN branches, NEW name,
           NEW q, q = [branches[k] EXCEPT !.upstream = name],
           branches' = [branches EXCEPT ![k] = q], UNCHANGED demoHead
    PROVE  HeadInv'
<1>3. Branch(branches[k])
  BY DEF HeadInv, BranchList
<1>4. /\ Branch(q) /\ q.name = branches[k].name /\ q.oid = branches[k].oid
      /\ q.is_head = branches[k].is_head
  BY <1>3, BranchChanged
<1>5. \A j \in DOMAIN branches : j # k => branches[j].name # q.name
  BY <1>4 DEF HeadInv, BranchList
<1>6. /\ BranchList(branches') /\ DOMAIN branches' = DOMAIN branches /\ branches'[k] = q
      /\ \A j \in DOMAIN branches : j # k => branches'[j] = branches[j]
  BY <1>4, <1>5, BranchReplaced DEF HeadInv
<1>7. \A j \in DOMAIN branches :
        /\ branches'[j].is_head = branches[j].is_head
        /\ branches'[j].name = branches[j].name /\ branches'[j].oid = branches[j].oid
  BY <1>4, <1>6
<1>8. \A i : MarkedAt(branches, i) => MarkedAt(branches', i)
  BY <1>6, <1>7 DEF MarkedAt
<1>9. HeadOf(branches', demoHead)
  BY <1>6, <1>7, <1>8 DEF HeadInv, HeadOf
<1> QED BY <1>6, <1>9 DEF HeadInv

LEMMA HeadDetaches ==
    ASSUME HeadInv, NEW oid, demoHead' = [kind |-> "detached", name |-> NoName, oid |-> oid],
           branches' = Marked(branches, 0)
    PROVE  HeadInv'
<1>1. /\ BranchList(branches') /\ DOMAIN branches' = DOMAIN branches
      /\ \A i \in DOMAIN branches : branches'[i].is_head <=> i = 0
  BY BranchesMarked DEF HeadInv
<1>2. \A i \in DOMAIN branches : i # 0
  <2>1. DOMAIN branches = 1..Len(branches) /\ Len(branches) \in Nat
    BY ListOfBranches DEF HeadInv
  <2> QED BY <2>1
<1>3. \A i \in DOMAIN branches' : ~ branches'[i].is_head
  BY <1>1, <1>2
<1>4. demoHead'.kind # "branch"
      /\ demoHead' = [kind |-> demoHead'.kind, name |-> demoHead'.name, oid |-> demoHead'.oid]
  OBVIOUS
<1> QED BY <1>1, <1>3, <1>4 DEF HeadInv, HeadOf

LEMMA HeadStays == ASSUME HeadInv, UNCHANGED refVars PROVE HeadInv'
BY DEF HeadInv, refVars

LEMMA HeadInit == DemoInit => HeadInv
<1> SUFFICES ASSUME DemoInit PROVE HeadInv
  OBVIOUS
<1> DEFINE at == {i \in 1..Len(SeedBranches) : SeedBranches[i].is_head}
           R == [name : STRING, oid : Int, is_head : BOOLEAN, upstream : STRING]
<1>1. SeedBranches \in Seq(R) /\ branches = SeedBranches
  BY DemoAssumption DEF DemoInit
<1>2. \A r \in R : Branch(r)
  BY DEF Branch
<1>3. PICK i \in DOMAIN SeedBranches : \A j \in DOMAIN SeedBranches : SeedBranches[j].is_head <=> j = i
  BY DemoAssumption
<1> HIDE DEF R
<1>4. DOMAIN SeedBranches = 1..Len(SeedBranches) /\ i <= i
      /\ \A j \in DOMAIN SeedBranches : Branch(SeedBranches[j])
  BY <1>1, <1>2
<1>5. at = {i}
  BY <1>3, <1>4
<1>6. demoHead = [kind |-> "branch", name |-> SeedBranches[Min(at)].name,
                  oid |-> SeedBranches[Min(at)].oid]
  <2>1. SelectInSeq(SeedBranches, LAMBDA x : x.is_head) = IF at # {} THEN Min(at) ELSE 0
    BY DEF SelectInSeq
  <2>2. at # {}
    BY <1>5
  <2> HIDE DEF at
  <2> QED BY <2>1, <2>2 DEF DemoInit
<1> HIDE DEF at
<1>7. Min(at) = i
  BY <1>4, <1>5 DEF Min
<1>8. BranchList(branches)
  BY <1>1, <1>4, DemoAssumption DEF BranchList
<1>9. HeadOf(branches, demoHead)
  BY <1>1, <1>3, <1>6, <1>7 DEF HeadOf, MarkedAt
<1> QED BY <1>8, <1>9 DEF HeadInv

LEMMA HeadStepHolds ==
    ASSUME ~ RenameTaken, HeadInv, [DemoNext]_demoVars
    PROVE  HeadInv'
<1>1. CASE UNCHANGED demoVars
  BY <1>1, HeadStays DEF demoVars, repoVars
<1>2. CASE OpenDemo \/ CloseDemo \/ CallWhenClosed \/ OpenConfirmation \/ History \/ NextPage
  BY <1>2, HeadStays DEF OpenDemo, CloseDemo, CallWhenClosed, OpenConfirmation, History, NextPage,
                         LoadPage, Refuse, repoVars
<1>3. CASE StagePath \/ UnstagePath \/ DiscardPath \/ StashFile \/ StashPush \/ StashApply
  BY <1>3, HeadStays DEF StagePath, UnstagePath, DiscardPath, StashFile, StashPush, StashApply
<1>4. CASE CountOnly \/ ConflictCallRefused \/ RewordDemoCommit \/ CreateDemoTag \/ DropDemoStash
  BY <1>4, HeadStays DEF CountOnly, ConflictCallRefused, RewordDemoCommit, CreateDemoTag,
                         DropDemoStash, Refuse, repoVars
<1>5. CASE CreateDemoCommit
  <2>1. UNCHANGED refVars \/ \E oid : SetHeadOid(oid)
    BY <1>5 DEF CreateDemoCommit, Refuse, repoVars
  <2> QED BY <2>1, HeadStays, HeadMoves
<1>6. CASE ResetDemoCommit
  <2>1. UNCHANGED refVars \/ \E oid : SetHeadOid(oid)
    BY <1>6 DEF ResetDemoCommit, Refuse, repoVars
  <2> QED BY <2>1, HeadStays, HeadMoves
<1>7. CASE CreateDemoBranch
  <2>1. CASE UNCHANGED refVars
    BY <2>1, HeadStays
  <2>2. CASE ~ UNCHANGED refVars
    <3>1. PICK name \in FreshNames, oid \in KnownCommits, checkout \in BOOLEAN :
            /\ ~ BranchIndex(name) > 0
            /\ LET list == Append(branches, [name |-> name, oid |-> oid,
                                             is_head |-> FALSE, upstream |-> NoName])
               IN  IF checkout THEN CheckoutValue(list, Len(list))
                   ELSE branches' = list /\ UNCHANGED demoHead
      BY <1>7, <2>2 DEF CreateDemoBranch, Refuse, repoVars
    <3>a. BranchIndex(name) = 0
      <4>1. BranchIndex(name) # 0 => BranchIndex(name) \in DOMAIN branches
        BY BranchFound
      <4>2. DOMAIN branches = 1..Len(branches) /\ Len(branches) \in Nat
        BY ListOfBranches DEF HeadInv
      <4> QED BY <3>1, <4>1, <4>2
    <3>2. PICK list : list = Append(branches, [name |-> name, oid |-> oid,
                                               is_head |-> FALSE, upstream |-> NoName])
      OBVIOUS
    <3>3. BranchList(list) /\ Len(list) \in DOMAIN list /\ HeadOf(list, demoHead)
      BY <3>a, <3>2, BranchAdded
    <3>4. CASE checkout
      BY <3>1, <3>2, <3>3, <3>4, HeadSwitches
    <3>5. CASE ~ checkout
      BY <3>1, <3>2, <3>3, <3>5 DEF HeadInv
    <3> QED BY <3>4, <3>5
  <2> QED BY <2>1, <2>2
<1>8. CASE CheckoutDemoBranch
  <2>1. UNCHANGED refVars \/ \E name : BranchIndex(name) # 0 /\ CheckoutValue(branches, BranchIndex(name))
    BY <1>8 DEF CheckoutDemoBranch, Refuse, repoVars
  <2>2. ASSUME NEW name, BranchIndex(name) # 0, CheckoutValue(branches, BranchIndex(name))
        PROVE  HeadInv'
    <3>1. BranchIndex(name) \in DOMAIN branches
      BY <2>2, BranchFound
    <3> QED BY <2>2, <3>1, HeadSwitches DEF HeadInv
  <2> QED BY <2>1, <2>2, HeadStays
<1>9. CASE RenameDemoBranch
  <2>1. PICK old \in {b.name : b \in ToSet(branches)},
             new \in FreshNames \cup {b.name : b \in ToSet(branches)} :
               /\ BranchIndex(new) = 0
               /\ branches' = [branches EXCEPT ![BranchIndex(old)].name = new]
               /\ demoHead' = RenameHead(old, new)
    BY <1>9 DEF RenameDemoBranch
  <2>2. PICK k \in DOMAIN branches : branches[k].name = old
    BY DEF ToSet
  <2>3. BranchIndex(old) = k
    BY <2>2, BranchFound
  <2>4. PICK q : q = [branches[k] EXCEPT !.name = new]
    OBVIOUS
  <2>5. branches' = [branches EXCEPT ![k] = q]
    BY <2>1, <2>3, <2>4
  <2> QED BY <2>1, <2>2, <2>4, <2>5, BranchRenamed
<1>10. CASE DeleteDemoBranch
  <2>1. \/ UNCHANGED refVars
        \/ \E name : /\ CurrentBranchName # name /\ branches' = OtherBranches(name)
                     /\ UNCHANGED demoHead
    BY <1>10 DEF DeleteDemoBranch, Refuse, repoVars
  <2> QED BY <2>1, HeadStays, BranchDeleted
<1>11. CASE SetDemoUpstream
  <2>1. PICK i \in DOMAIN branches, remote \in ToSet(SeedRemotes) :
          branches' = [branches EXCEPT ![i].upstream = remote.name] /\ UNCHANGED demoHead
    BY <1>11 DEF SetDemoUpstream
  <2>2. PICK q : q = [branches[i] EXCEPT !.upstream = remote.name]
    OBVIOUS
  <2>3. branches' = [branches EXCEPT ![i] = q]
    BY <2>1, <2>2
  <2> QED BY <2>1, <2>2, <2>3, UpstreamSet
<1>12. CASE CheckoutDemoCommit
  <2>1. PICK oid \in KnownCommits : demoHead' = [kind |-> "detached", name |-> NoName, oid |-> oid]
    BY <1>12 DEF CheckoutDemoCommit
  <2>2. branches' = Marked(branches, 0)
    BY <1>12 DEF CheckoutDemoCommit
  <2> QED BY <2>1, <2>2, HeadDetaches
<1> QED
  BY <1>1, <1>2, <1>3, <1>4, <1>5, <1>6, <1>7, <1>8, <1>9, <1>10, <1>11, <1>12 DEF DemoNext

\* On a branch the demo (lib/demo.ts) marks exactly the entry of that branch, with
\* HEAD's commit, and off one it marks none, whatever branches are created, switched
\* to, moved and deleted, as long as none is renamed to the name of another.
THEOREM HeadStaysItsBranch == ~ RenameTaken => (DemoSpec => []HeadIsItsBranch)
<1> SUFFICES ASSUME ~ RenameTaken PROVE DemoSpec => []HeadIsItsBranch
  OBVIOUS
<1>1. HeadInv => HeadIsItsBranch
  <2> SUFFICES ASSUME HeadInv PROVE HeadIsItsBranch
    OBVIOUS
  <2> DEFINE marked == {i \in DOMAIN branches : branches[i].is_head}
  <2>1. CASE demoHead.kind = "branch"
    <3>1. PICK i \in DOMAIN branches : /\ MarkedAt(branches, i) /\ branches[i].name = demoHead.name
                                       /\ branches[i].oid = demoHead.oid
      BY <2>1 DEF HeadInv, HeadOf
    <3>2. marked = {i}
      BY <3>1 DEF MarkedAt
    <3> QED BY <2>1, <3>1, <3>2 DEF HeadIsItsBranch
  <2>2. CASE demoHead.kind # "branch"
    BY <2>2 DEF HeadInv, HeadOf, HeadIsItsBranch
  <2> QED BY <2>1, <2>2
<1>2. HeadInv /\ [DemoNext]_demoVars => HeadInv'
  BY HeadStepHolds
<1> QED BY <1>1, <1>2, HeadInit, PTL DEF DemoSpec

-----------------------------------------------------------------------------
(***************************************************************************)
(* SettingsDraft: the core accepts the settings in use.                    *)
(***************************************************************************)
\* Themes of which the first are the presets and no two have one id.
ThemesApart(themes) ==
    /\ ThemeList(themes)
    /\ \A i \in DOMAIN themes : themes[i].name \in 1..MaxName /\ themes[i].paints # Junk
    /\ \A i, j \in DOMAIN themes : themes[i].id = themes[j].id => i = j
    /\ Presets[1].id \in IdsOf(themes)

LEMMA ListOfThemes ==
    ASSUME NEW themes, ThemeList(themes)
    PROVE  /\ Len(themes) \in Nat /\ DOMAIN themes = 1..Len(themes)
           /\ \A i \in 1..Len(themes) : ThemeShape(themes[i])
           /\ themes = [i \in 1..Len(themes) |-> themes[i]]
<1>1. PICK S : themes \in Seq(S)
  BY DEF ThemeList
<1>2. Len(themes) \in Nat /\ DOMAIN themes = 1..Len(themes)
  BY <1>1
<1>3. themes = [i \in 1..Len(themes) |-> themes[i]]
  BY <1>1
<1> QED BY <1>2, <1>3 DEF ThemeList

LEMMA SequenceIsFunction ==
    ASSUME NEW S, NEW s \in Seq(S)
    PROVE  s = [i \in 1..Len(s) |-> s[i]]
OBVIOUS

LEMMA ListIsThemes ==
    ASSUME NEW n \in Nat, NEW themes, themes = [i \in 1..n |-> themes[i]],
           \A i \in 1..n : ThemeShape(themes[i])
    PROVE  ThemeList(themes) /\ Len(themes) = n /\ DOMAIN themes = 1..n
<1> DEFINE S == {themes[i] : i \in 1..n}
<1>1. DOMAIN themes = 1..n
  OBVIOUS
<1>2. themes \in [1..n -> S]
  OBVIOUS
<1>3. themes \in Seq(S) /\ Len(themes) = n
  <2> HIDE DEF S
  <2> QED BY <1>2
<1> QED BY <1>1, <1>3 DEF ThemeList

LEMMA ThemeAdded ==
    ASSUME NEW themes, ThemeList(themes), NEW theme, ThemeShape(theme),
           NEW after, after = Append(themes, theme)
    PROVE  /\ ThemeList(after) /\ DOMAIN after = 1..(Len(themes) + 1)
           /\ Len(after) = Len(themes) + 1
           /\ after[Len(themes) + 1] = theme
           /\ \A i \in 1..Len(themes) : after[i] = themes[i]
<1> DEFINE n == Len(themes)
<1>1. n \in Nat /\ \A i \in 1..n : ThemeShape(themes[i])
  BY ListOfThemes
<1>2. /\ after = [i \in 1..(n + 1) |-> after[i]]
      /\ after[n + 1] = theme /\ \A i \in 1..n : after[i] = themes[i]
  <2>1. PICK S : themes \in Seq(S)
    BY DEF ThemeList
  <2>2. themes \in Seq(S \cup {theme}) /\ theme \in S \cup {theme}
    BY <2>1
  <2>3. after \in Seq(S \cup {theme}) /\ Len(after) = n + 1
    BY <2>2
  <2>4. after = [i \in 1..(n + 1) |-> after[i]]
    <3>1. after = [i \in 1..Len(after) |-> after[i]]
      BY <2>3, SequenceIsFunction
    <3> QED BY <2>3, <3>1
  <2>5. after[n + 1] = theme /\ \A i \in 1..n : after[i] = themes[i]
    BY <1>1, <2>2
  <2> QED BY <2>4, <2>5
<1>3. \A i \in 1..(n + 1) : i \in 1..n \/ i = n + 1
  BY <1>1
<1>4. \A i \in 1..(n + 1) : ThemeShape(after[i])
  BY <1>1, <1>2, <1>3
<1>5. n + 1 \in Nat
  BY <1>1
<1> HIDE DEF n
<1>6. ThemeList(after) /\ Len(after) = n + 1 /\ DOMAIN after = 1..(n + 1)
  BY <1>2, <1>4, <1>5, ListIsThemes
<1> QED BY <1>2, <1>6 DEF n

\* There are no more ids than themes, and as many when they are apart.
LEMMA CountOfIds ==
    ASSUME NEW themes, ThemeList(themes)
    PROVE  /\ IsFiniteSet(IdsOf(themes)) /\ Cardinality(IdsOf(themes)) <= Len(themes)
           /\ (\A i, j \in DOMAIN themes : themes[i].id = themes[j].id => i = j) =>
                 Cardinality(IdsOf(themes)) = Len(themes)
<1> DEFINE n == Len(themes)
           f == [i \in 1..n |-> themes[i].id]
           T == IdsOf(themes)
<1>1. n \in Nat /\ DOMAIN themes = 1..n
  BY ListOfThemes
<1>2. T = {themes[i].id : i \in 1..n}
  BY <1>1 DEF IdsOf
<1>3. f \in Surjection(1..n, T)
  BY <1>2 DEF Surjection
<1>4. (\A i, j \in DOMAIN themes : themes[i].id = themes[j].id => i = j) => f \in Injection(1..n, T)
  <2>1. f \in [1..n -> T]
    BY <1>2
  <2>2. (\A i, j \in DOMAIN themes : themes[i].id = themes[j].id => i = j) =>
           \A i, j \in 1..n : f[i] = f[j] => i = j
    BY <1>1
  <2> HIDE DEF f, T
  <2> QED BY <2>1, <2>2 DEF Injection, IsInjective
<1>5. IsFiniteSet(1..n) /\ Cardinality(1..n) = n
  <2>1. 1 \in Int /\ n \in Int /\ ~ (1 > n /\ n # 0) /\ n - 1 + 1 = n
    BY <1>1
  <2>2. IsFiniteSet(1..n) /\ Cardinality(1..n) = IF 1 > n THEN 0 ELSE n - 1 + 1
    BY <2>1, FS_Interval
  <2> QED BY <2>1, <2>2
<1> HIDE DEF n, f, T
<1>6. /\ IsFiniteSet(T) /\ Cardinality(T) <= Cardinality(1..n)
      /\ Cardinality(T) = Cardinality(1..n) <=> f \in Injection(1..n, T)
  BY <1>3, <1>5, FS_Surjection
<1> QED BY <1>4, <1>5, <1>6 DEF n, T

\* One of the ids looked at is free, since there are more of them than themes.
LEMMA FreeIdIsFree ==
    ASSUME NEW themes, ThemeList(themes), NEW id, id[2] \in Nat
    PROVE  /\ \E n \in Nat : FreeId(id, themes) = <<id[1], n>>
           /\ FreeId(id, themes) \notin IdsOf(themes)
<1> DEFINE I == id[2] .. id[2] + Len(themes)
           T == IdsOf(themes)
           N == {n \in I : <<id[1], n>> \notin T}
           f == [n \in I |-> <<id[1], n>>]
<1>1. id[2] \in Nat /\ Len(themes) \in Nat
  BY ListOfThemes
<1>2. IsFiniteSet(I) /\ Cardinality(I) = Len(themes) + 1
  <2>1. PICK low, high \in Nat : /\ low = id[2] /\ high = id[2] + Len(themes)
                                 /\ low <= high /\ high - low + 1 = Len(themes) + 1
    BY <1>1
  <2>2. I = low..high
    BY <2>1
  <2> HIDE DEF I
  <2>3. IsFiniteSet(low..high) /\ Cardinality(low..high) = IF low > high THEN 0 ELSE high - low + 1
    BY FS_Interval
  <2> QED BY <2>1, <2>2, <2>3
<1>3. IsFiniteSet(T) /\ Cardinality(T) < Len(themes) + 1
  <2>1. IsFiniteSet(T) /\ Cardinality(T) <= Len(themes)
    BY CountOfIds
  <2>2. Cardinality(T) \in Nat
    BY <2>1, FS_CardinalityType
  <2> QED BY <1>1, <2>1, <2>2
<1>4. N # {}
  <2> SUFFICES ASSUME N = {} PROVE FALSE
    OBVIOUS
  <2>1. f \in [I -> T]
    OBVIOUS
  <2>2. \A x, y \in I : f[x] = f[y] => x = y
    OBVIOUS
  <2> HIDE DEF f, T, I, N
  <2>3. \E x, y \in I : x # y /\ f[x] = f[y]
    BY <1>2, <1>3, <2>1, FS_PigeonHole
  <2> QED BY <2>2, <2>3
<1>5. PICK m \in N : \A n \in N : m <= n
  <2>1. N \subseteq Nat
    BY <1>1
  <2> HIDE DEF N
  <2> QED BY <1>4, <2>1, LeastNatural
<1>6. m \in I /\ <<id[1], m>> \notin T /\ m \in Nat
  BY <1>1
<1>7. ASSUME NEW n \in id[2] .. m - 1 PROVE <<id[1], n>> \in T
  <2>1. n \in I /\ ~ (m <= n)
    BY <1>1, <1>6
  <2> QED BY <1>5, <2>1
<1> DEFINE Free(free) == /\ free \notin IdsOf(themes)
                         /\ \A n \in id[2] .. free[2] - 1 : <<id[1], n>> \in IdsOf(themes)
           C == {<<id[1], n>> : n \in id[2] .. id[2] + Len(themes)}
<1>8. <<id[1], m>> \in C /\ Free(<<id[1], m>>)
  BY <1>6, <1>7
<1>9. FreeId(id, themes) = CHOOSE free \in C : Free(free)
  BY DEF FreeId
<1>10. FreeId(id, themes) \in C /\ Free(FreeId(id, themes))
  <2> HIDE DEF Free, C
  <2> QED BY <1>8, <1>9
<1>11. \A c \in C : \E n \in Nat : c = <<id[1], n>>
  BY <1>1
<1> QED BY <1>10, <1>11

LEMMA OneMoreApart ==
    ASSUME NEW themes, ThemesApart(themes), NEW theme, ThemeShape(theme),
           theme.name \in 1..MaxName, theme.paints # Junk, theme.id \notin IdsOf(themes)
    PROVE  ThemesApart(Append(themes, theme))
<1> DEFINE n == Len(themes)
<1> SUFFICES ASSUME NEW after, after = Append(themes, theme) PROVE ThemesApart(after)
  OBVIOUS
<1>2. /\ ThemeList(after) /\ DOMAIN after = 1..(n + 1) /\ after[n + 1] = theme
      /\ \A i \in 1..n : after[i] = themes[i]
  <2>1. ThemeList(themes)
    BY DEF ThemesApart
  <2>2. ThemeList(after) /\ DOMAIN after = 1..(Len(themes) + 1)
    BY <2>1, ThemeAdded
  <2>3. after[Len(themes) + 1] = theme /\ \A i \in 1..Len(themes) : after[i] = themes[i]
    BY <2>1, ThemeAdded
  <2> QED BY <2>2, <2>3
<1>3. n \in Nat /\ DOMAIN themes = 1..n
  BY ListOfThemes DEF ThemesApart
<1> HIDE DEF n
<1>4. \A i \in 1..(n + 1) : i \in 1..n \/ i = n + 1
  BY <1>3
<1>5. \A i \in 1..n : themes[i].id # theme.id
  BY <1>3 DEF IdsOf
<1>6. \A i \in DOMAIN after : after[i].name \in 1..MaxName /\ after[i].paints # Junk
  BY <1>2, <1>3, <1>4 DEF ThemesApart
<1>7. \A i, j \in DOMAIN after : after[i].id = after[j].id => i = j
  BY <1>2, <1>3, <1>4, <1>5 DEF ThemesApart
<1>8. Presets[1].id \in IdsOf(after)
  <2>1. PICK i \in 1..n : themes[i].id = Presets[1].id
    BY <1>3 DEF ThemesApart, IdsOf
  <2>2. i \in 1..(n + 1)
    BY <1>3
  <2> QED BY <1>2, <2>1, <2>2 DEF IdsOf
<1> QED BY <1>2, <1>6, <1>7, <1>8 DEF ThemesApart

LEMMA ThemeKept ==
    ASSUME NEW kept, ThemesApart(kept), NEW theme, ThemeShape(theme)
    PROVE  ThemesApart(KeepTheme(kept, theme))
<1>1. CASE ~ Storable(theme)
  BY <1>1 DEF KeepTheme
<1>2. CASE Storable(theme)
  <2> DEFINE id == FreeId(theme.id, kept)
  <2>1. PICK t : t = [theme EXCEPT !.id = id, !.preset = FALSE]
    OBVIOUS
  <2>2. id = <<id[1], id[2]>> /\ id[2] \in Nat /\ id \notin IdsOf(kept)
    <3>1. (\E n \in Nat : id = <<theme.id[1], n>>) /\ id \notin IdsOf(kept)
      BY FreeIdIsFree DEF ThemesApart, ThemeShape
    <3> HIDE DEF id
    <3> QED BY <3>1
  <2>3. KeepTheme(kept, theme) = Append(kept, t)
    BY <1>2, <2>1 DEF KeepTheme
  <2> HIDE DEF id
  <2>4. ThemeShape(t) /\ t.id = id /\ t.name = theme.name /\ t.paints = theme.paints
    BY <2>1, <2>2 DEF ThemeShape
  <2>5. t.name \in 1..MaxName /\ t.paints # Junk /\ t.id \notin IdsOf(kept)
    BY <1>2, <2>2, <2>4 DEF Storable
  <2> QED BY <2>3, <2>4, <2>5, OneMoreApart
<1> QED BY <1>1, <1>2

\* The fold of the stored themes.
KeptAll(themes, n, f) ==
    f = [i \in 0..n |-> IF i = 0 THEN Presets ELSE KeepTheme(f[i - 1], themes[i])]

LEMMA KeptExists ==
    ASSUME NEW themes, NEW n \in Nat
    PROVE  \E f : KeptAll(themes, n, f)
<1> DEFINE Bad == {i \in 0..n : ~ \E f : KeptAll(themes, i, f)}
<1>1. 0 \notin Bad
  <2>1. KeptAll(themes, 0, [i \in 0..0 |-> Presets])
    BY DEF KeptAll
  <2> QED BY <2>1
<1>2. ASSUME NEW i \in 1..n, i - 1 \notin Bad PROVE i \notin Bad
  <2>1. PICK g : KeptAll(themes, i - 1, g)
    BY <1>2
  <2> HIDE DEF Bad
  <2> DEFINE h == [k \in 0..i |-> IF k < i THEN g[k] ELSE KeepTheme(g[i - 1], themes[i])]
  <2>2. ASSUME NEW k \in 0..i
        PROVE  h[k] = IF k = 0 THEN Presets ELSE KeepTheme(h[k - 1], themes[k])
    <3>1. CASE k = i
      <4>1. h[k] = KeepTheme(g[i - 1], themes[i]) /\ h[k - 1] = g[i - 1]
        BY <3>1
      <4> QED BY <3>1, <4>1
    <3>2. CASE k < i /\ k = 0
      <4>1. h[k] = g[k]
        BY <3>2
      <4>2. g[0] = Presets
        <5> HIDE DEF h
        <5>1. 0 \in 0..(i - 1)
          OBVIOUS
        <5> QED BY <2>1, <5>1 DEF KeptAll
      <4> QED BY <3>2, <4>1, <4>2
    <3>3. CASE k < i /\ k # 0
      <4>1. h[k] = g[k] /\ h[k - 1] = g[k - 1]
        BY <3>3
      <4>2. g[k] = KeepTheme(g[k - 1], themes[k])
        <5> HIDE DEF h
        <5>1. k \in 0..(i - 1)
          BY <3>3
        <5> QED BY <2>1, <3>3, <5>1 DEF KeptAll
      <4> QED BY <3>3, <4>1, <4>2
    <3> HIDE DEF h
    <3> QED BY <3>1, <3>2, <3>3
  <2>3. h = [k \in 0..i |-> h[k]]
    OBVIOUS
  <2> HIDE DEF h
  <2>4. KeptAll(themes, i, h)
    BY <2>2, <2>3 DEF KeptAll
  <2> QED BY <2>4 DEF Bad
<1> HIDE DEF Bad
<1>3. Bad = {}
  <2>1. Bad \subseteq 0..n
    BY DEF Bad
  <2> QED BY <1>1, <1>2, <2>1, NoneFails
<1>4. n \in 0..n
  OBVIOUS
<1> QED BY <1>3, <1>4 DEF Bad

LEMMA PresetsApart == ThemesApart(Presets)
<1>1. 1 \in DOMAIN Presets
  <2>1. PICK S : Presets \in Seq(S)
    BY PresetAssumption DEF ThemeList
  <2> QED BY <2>1, PresetAssumption
<1> QED BY <1>1, PresetAssumption DEF ThemesApart, IdsOf

\* Whatever themes a document holds, those that are kept are apart.
LEMMA StoredApart ==
    ASSUME NEW themes, ThemeList(themes)
    PROVE  ThemesApart(StoredThemes(themes))
<1> DEFINE n == Len(themes)
           f == CHOOSE f : KeptAll(themes, n, f)
           Bad == {i \in 0..n : ~ ThemesApart(f[i])}
<1>1. StoredThemes(themes) = f[n]
  BY DEF StoredThemes, KeptAll
<1>2. n \in Nat /\ \A i \in 1..n : ThemeShape(themes[i])
  BY ListOfThemes
<1>3. KeptAll(themes, n, f)
  <2>1. \E g : KeptAll(themes, n, g)
    BY <1>2, KeptExists
  <2> QED BY <2>1
<1> HIDE DEF f, n
<1>4. 0 \notin Bad
  <2>1. f[0] = Presets
    BY <1>2, <1>3 DEF KeptAll
  <2> QED BY <2>1, PresetsApart
<1>5. ASSUME NEW i \in 1..n, i - 1 \notin Bad PROVE i \notin Bad
  <2>1. ThemesApart(f[i - 1])
    BY <1>2, <1>5
  <2>2. f[i] = KeepTheme(f[i - 1], themes[i])
    BY <1>2, <1>3 DEF KeptAll
  <2>3. ThemesApart(f[i])
    BY <1>2, <2>1, <2>2, ThemeKept
  <2> QED BY <2>3
<1>6. Bad \subseteq 0..n
  OBVIOUS
<1>7. n \in 0..n
  BY <1>2
<1> HIDE DEF Bad
<1>8. Bad = {}
  BY <1>2, <1>4, <1>5, <1>6, NoneFails
<1> QED BY <1>1, <1>7, <1>8 DEF Bad

ValidKeys(keys) == \A a \in KeyActions : ~ Invalid(keys[a])
AtDefault(keys) == {a \in KeyActions : keys[a] = DefaultKeys[a]}

\* With every look that finds a clash one more action has its default back.
Settling(keys, looks) ==
    ValidKeys(keys) /\ (Clashes(keys) = {} \/ looks <= Cardinality(AtDefault(keys)))

\* No two actions clash over their defaults, so of those that clash one is moved.
LEMMA ResetGains ==
    ASSUME NEW keys, Clashes(keys) # {}, NEW after, after = Reset(keys, Clashes(keys))
    PROVE  \E a \in AtDefault(after) \ AtDefault(keys) : AtDefault(keys) \cup {a} \subseteq AtDefault(after)
<1>1. \A a \in KeyActions : after[a] = IF a \in Clashes(keys) THEN DefaultKeys[a] ELSE keys[a]
  BY DEF Reset
<1>2. \E a \in Clashes(keys) : a \notin AtDefault(keys)
  <2>1. PICK a \in Clashes(keys) : TRUE
    OBVIOUS
  <2>2. PICK b \in KeyActions \ {a} : keys[b] = keys[a]
    BY <2>1 DEF Clashes
  <2>3. a \in KeyActions /\ b \in Clashes(keys)
    BY <2>1, <2>2 DEF Clashes
  <2>4. ~ (keys[a] = DefaultKeys[a] /\ keys[b] = DefaultKeys[b])
    BY <2>2, <2>3, KeysAssumption
  <2> QED BY <2>1, <2>3, <2>4 DEF AtDefault
<1>3. PICK a \in Clashes(keys) : a \notin AtDefault(keys)
  BY <1>2
<1>4. a \in AtDefault(after)
  BY <1>1, <1>3 DEF AtDefault, Clashes
<1>5. AtDefault(keys) \subseteq AtDefault(after)
  BY <1>1 DEF AtDefault
<1> QED BY <1>3, <1>4, <1>5

LEMMA LookSettles ==
    ASSUME NEW keys, NEW i \in Nat, Settling(keys, i), NEW after, after = Reset(keys, Clashes(keys))
    PROVE  Settling(after, i + 1)
<1>1. \A a \in KeyActions : after[a] = IF a \in Clashes(keys) THEN DefaultKeys[a] ELSE keys[a]
  BY DEF Reset
<1>2. ValidKeys(after)
  BY <1>1, KeysAssumption DEF Settling, ValidKeys, Invalid
<1>3. CASE Clashes(keys) = {}
  <2>1. \A a \in KeyActions : after[a] = keys[a]
    BY <1>1, <1>3
  <2>2. Clashes(after) = {}
    BY <1>3, <2>1 DEF Clashes
  <2> QED BY <1>2, <2>2 DEF Settling
<1>4. CASE Clashes(keys) # {}
  <2>1. PICK a \in AtDefault(after) \ AtDefault(keys) :
           AtDefault(keys) \cup {a} \subseteq AtDefault(after)
    BY <1>4, ResetGains
  <2>2. \A k : IsFiniteSet(AtDefault(k))
    <3>1. \A k : AtDefault(k) \in SUBSET KeyActions
      BY DEF AtDefault
    <3> QED BY <3>1, KeysAssumption, FS_Subset
  <2>3. Cardinality(AtDefault(keys) \cup {a}) = Cardinality(AtDefault(keys)) + 1
    BY <2>1, <2>2, FS_AddElement
  <2>4. Cardinality(AtDefault(keys) \cup {a}) <= Cardinality(AtDefault(after))
    BY <2>1, <2>2, FS_Subset
  <2>5. Cardinality(AtDefault(keys)) \in Nat /\ Cardinality(AtDefault(after)) \in Nat
    BY <2>2, FS_CardinalityType
  <2>6. i <= Cardinality(AtDefault(keys))
    BY <1>4 DEF Settling
  <2>7. i + 1 <= Cardinality(AtDefault(after))
    BY <2>3, <2>4, <2>5, <2>6
  <2> QED BY <1>2, <2>7 DEF Settling
<1> QED BY <1>3, <1>4

\* As many looks as there are actions are enough.
LEMMA SettledAtLast ==
    ASSUME NEW keys, Settling(keys, Cardinality(KeyActions)) PROVE Clashes(keys) = {}
<1>1. CASE Cardinality(KeyActions) <= Cardinality(AtDefault(keys))
  <2>1. AtDefault(keys) \in SUBSET KeyActions
    BY DEF AtDefault
  <2>2. /\ IsFiniteSet(AtDefault(keys)) /\ Cardinality(AtDefault(keys)) <= Cardinality(KeyActions)
        /\ Cardinality(KeyActions) = Cardinality(AtDefault(keys)) => KeyActions = AtDefault(keys)
    BY <2>1, KeysAssumption, FS_Subset
  <2>3. Cardinality(AtDefault(keys)) \in Nat /\ Cardinality(KeyActions) \in Nat
    BY <2>2, KeysAssumption, FS_CardinalityType
  <2>4. KeyActions = AtDefault(keys)
    BY <1>1, <2>2, <2>3
  <2> QED BY <2>4, KeysAssumption DEF AtDefault, Clashes
<1> QED BY <1>1 DEF Settling

\* The looks at the clashes.
Looks(first, n, f) ==
    f = [i \in 0..n |-> IF i = 0 THEN first ELSE Reset(f[i - 1], Clashes(f[i - 1]))]

LEMMA LooksExist ==
    ASSUME NEW first, NEW n \in Nat
    PROVE  \E f : Looks(first, n, f)
<1> DEFINE Bad == {i \in 0..n : ~ \E f : Looks(first, i, f)}
<1>1. 0 \notin Bad
  <2>1. Looks(first, 0, [i \in 0..0 |-> first])
    BY DEF Looks
  <2> QED BY <2>1
<1>2. ASSUME NEW i \in 1..n, i - 1 \notin Bad PROVE i \notin Bad
  <2>1. PICK g : Looks(first, i - 1, g)
    BY <1>2
  <2> HIDE DEF Bad
  <2> DEFINE h == [k \in 0..i |-> IF k < i THEN g[k] ELSE Reset(g[i - 1], Clashes(g[i - 1]))]
  <2>2. ASSUME NEW k \in 0..i
        PROVE  h[k] = IF k = 0 THEN first ELSE Reset(h[k - 1], Clashes(h[k - 1]))
    <3>1. CASE k = i
      <4>1. h[k] = Reset(g[i - 1], Clashes(g[i - 1])) /\ h[k - 1] = g[i - 1]
        BY <3>1
      <4> QED BY <3>1, <4>1
    <3>2. CASE k < i /\ k = 0
      <4>1. h[k] = g[k]
        BY <3>2
      <4>2. g[0] = first
        <5> HIDE DEF h
        <5>1. 0 \in 0..(i - 1)
          OBVIOUS
        <5> QED BY <2>1, <5>1 DEF Looks
      <4> QED BY <3>2, <4>1, <4>2
    <3>3. CASE k < i /\ k # 0
      <4>1. h[k] = g[k] /\ h[k - 1] = g[k - 1]
        BY <3>3
      <4>2. g[k] = Reset(g[k - 1], Clashes(g[k - 1]))
        <5> HIDE DEF h
        <5>1. k \in 0..(i - 1)
          BY <3>3
        <5> QED BY <2>1, <3>3, <5>1 DEF Looks
      <4> QED BY <3>3, <4>1, <4>2
    <3> HIDE DEF h
    <3> QED BY <3>1, <3>2, <3>3
  <2>3. h = [k \in 0..i |-> h[k]]
    OBVIOUS
  <2> HIDE DEF h
  <2>4. Looks(first, i, h)
    BY <2>2, <2>3 DEF Looks
  <2> QED BY <2>4 DEF Bad
<1> HIDE DEF Bad
<1>3. Bad = {}
  <2>1. Bad \subseteq 0..n
    BY DEF Bad
  <2> QED BY <1>1, <1>2, <2>1, NoneFails
<1>4. n \in 0..n
  OBVIOUS
<1> QED BY <1>3, <1>4 DEF Bad

\* Whatever shortcuts a document holds, those in use can be pressed and no two
\* actions share one.
LEMMA KeysAreSettled ==
    ASSUME NEW read PROVE ValidKeys(NormalKeys(read)) /\ Clashes(NormalKeys(read)) = {}
<1> DEFINE first == Reset(read, {a \in KeyActions : Invalid(read[a])})
           n == Cardinality(KeyActions)
           f == CHOOSE f : Looks(first, n, f)
           Bad == {i \in 0..n : ~ Settling(f[i], i)}
<1>1. NormalKeys(read) = f[n]
  BY DEF NormalKeys, Looks
<1>2. n \in Nat
  BY KeysAssumption, FS_CardinalityType
<1>3. Settling(first, 0)
  <2>1. \A a \in KeyActions : first[a] = IF Invalid(read[a]) THEN DefaultKeys[a] ELSE read[a]
    BY DEF Reset
  <2>2. \A a \in KeyActions : ~ Invalid(DefaultKeys[a])
    BY KeysAssumption DEF Invalid
  <2> HIDE DEF first
  <2>3. ValidKeys(first)
    BY <2>1, <2>2 DEF ValidKeys
  <2>4. AtDefault(first) \in SUBSET KeyActions
    BY DEF AtDefault
  <2>5. IsFiniteSet(AtDefault(first))
    BY <2>4, KeysAssumption, FS_Subset
  <2>6. Cardinality(AtDefault(first)) \in Nat
    BY <2>5, FS_CardinalityType
  <2> QED BY <2>3, <2>6 DEF Settling
<1>4. Looks(first, n, f)
  <2> HIDE DEF first, n
  <2>1. \E g : Looks(first, n, g)
    BY <1>2, LooksExist
  <2> QED BY <2>1
<1> HIDE DEF f, n, first
<1>5. 0 \notin Bad
  <2>1. f[0] = first
    BY <1>2, <1>4 DEF Looks
  <2> QED BY <1>3, <2>1
<1>6. ASSUME NEW i \in 1..n, i - 1 \notin Bad PROVE i \notin Bad
  <2>1. Settling(f[i - 1], i - 1) /\ i - 1 \in Nat /\ i - 1 + 1 = i
    BY <1>2, <1>6
  <2>2. f[i] = Reset(f[i - 1], Clashes(f[i - 1]))
    BY <1>2, <1>4 DEF Looks
  <2>3. Settling(f[i], i - 1 + 1)
    BY <2>1, <2>2, LookSettles
  <2> QED BY <2>1, <2>3
<1>7. Bad \subseteq 0..n
  OBVIOUS
<1>8. n \in 0..n
  BY <1>2
<1> HIDE DEF Bad
<1>9. Bad = {}
  BY <1>2, <1>5, <1>6, <1>7, NoneFails
<1>10. Settling(f[n], n)
  BY <1>8, <1>9 DEF Bad
<1>11. Clashes(f[n]) = {}
  BY <1>10, SettledAtLast DEF n
<1> QED BY <1>1, <1>10, <1>11 DEF Settling

\* Hosts that can be typed or come with a document; nothing else becomes one.
Nameable == (TypedHosts \cup UNION {DOMAIN file.settings.hosts : file \in StateFiles}) \ {"junk"}
RoomForHosts == IsFiniteSet(Nameable) /\ Cardinality(Nameable) <= HostRoom

DraftShape(s) == SettingsShape(s) /\ DOMAIN s.hosts \subseteq Nameable \cup {"junk"}
Usable(s) == DraftShape(s) /\ Accepted(s) /\ Clashes(s.keys) = {}

SavesInv ==
    /\ DraftShape(disk.settings)
    /\ Usable(inUse)
    /\ draft # NoDraft => DraftShape(draft)

LEMMA NumbersInBounds ==
    ASSUME NEW f \in DOMAIN NumberRange, NEW n \in Int
    PROVE  Bounded(f, n) \in Int /\ Bounded(f, Bounded(f, n)) = Bounded(f, n)
<1>1. /\ DOMAIN NumberRange = {"auto_fetch_interval_minutes", "history_page_size",
                               "diff_context_lines"}
      /\ NumberRange["auto_fetch_interval_minutes"] = <<0, 60>>
      /\ NumberRange["history_page_size"] = <<1, 500>>
      /\ NumberRange["diff_context_lines"] = <<0, 100>>
  BY DEF NumberRange
<1>2. PICK least, most \in Int : NumberRange[f] = <<least, most>> /\ least <= most
  BY <1>1
<1>3. NumberRange[f][1] = least /\ NumberRange[f][2] = most
  BY <1>2
<1>4. \A m : Bounded(f, m) = IF m < least THEN least ELSE IF m > most THEN most ELSE m
  BY <1>3 DEF Bounded
<1> QED BY <1>2, <1>4

LEMMA FewHosts ==
    ASSUME RoomForHosts, NEW hosts, DOMAIN hosts \subseteq Nameable
    PROVE  Cardinality(DOMAIN hosts) <= HostRoom /\ "junk" \notin DOMAIN hosts
<1>1. IsFiniteSet(DOMAIN hosts) /\ Cardinality(DOMAIN hosts) <= Cardinality(Nameable)
  BY FS_Subset DEF RoomForHosts
<1>2. Cardinality(DOMAIN hosts) \in Nat /\ Cardinality(Nameable) \in Nat /\ HostRoom \in Nat
  BY <1>1, FS_CardinalityType, SettingsAssumption DEF RoomForHosts
<1> QED BY <1>1, <1>2 DEF RoomForHosts, Nameable

\* What the core accepts, part by part.
LEMMA PartsAreUsable ==
    ASSUME RoomForHosts, NEW s, SettingsShape(s), DOMAIN s.hosts \subseteq Nameable,
           ThemesApart(s.themes), s.active \in IdsOf(s.themes),
           ValidKeys(s.keys), Clashes(s.keys) = {},
           \A f \in DOMAIN NumberRange : s.numbers[f] = Bounded(f, s.numbers[f])
    PROVE  Usable(s)
<1>1. DraftShape(s)
  BY DEF DraftShape
<1>2. Cardinality(DOMAIN s.hosts) <= HostRoom /\ "junk" \notin DOMAIN s.hosts
  BY FewHosts
<1>3. \A a \in KeyActions : ~ Reserved(s.keys[a])
  BY DEF ValidKeys, Invalid
<1>4. \A a, b \in KeyActions : a # b /\ s.keys[a] # Unassigned => s.keys[a] # s.keys[b]
  BY DEF Clashes
<1>5. Cardinality(IdsOf(s.themes)) = Len(s.themes)
  BY CountOfIds DEF ThemesApart
<1>6. \A i \in DOMAIN s.themes : s.themes[i].name \in 1..MaxName /\ s.themes[i].paints # Junk
  BY DEF ThemesApart
<1> QED BY <1>1, <1>2, <1>3, <1>4, <1>5, <1>6 DEF Usable, Accepted

LEMMA FieldsReplaced ==
    ASSUME NEW d, SettingsShape(d), NEW legacy, NEW q, q = Normalized(d, legacy)
    PROVE  q = [keys |-> NormalKeys(d.keys), themes |-> q.themes, active |-> q.active,
                hosts |-> NormalHosts(d.hosts), mode |-> d.mode, flags |-> d.flags,
                numbers |-> [f \in DOMAIN NumberRange |-> Bounded(f, d.numbers[f])]]
BY DEF Normalized, SettingsShape

LEMMA DefaultsAreUsable == ASSUME RoomForHosts PROVE Usable(DefaultSettings)
<1> DEFINE s == DefaultSettings
<1>1. /\ s.keys = DefaultKeys /\ s.themes = Presets /\ s.active = Presets[1].id
      /\ s.hosts = <<>>
      /\ s.numbers = [auto_fetch_interval_minutes |-> 1, history_page_size |-> 200,
                      diff_context_lines |-> 3]
      /\ s = [keys |-> s.keys, themes |-> s.themes, active |-> s.active, hosts |-> s.hosts,
              mode |-> s.mode, flags |-> s.flags, numbers |-> s.numbers]
  BY DEF DefaultSettings
<1> HIDE DEF s
<1>2. /\ s.numbers \in [DOMAIN NumberRange -> Int]
      /\ \A f \in DOMAIN NumberRange : s.numbers[f] = Bounded(f, s.numbers[f])
  BY <1>1 DEF NumberRange, Bounded
<1>3. SettingsShape(s)
  BY <1>1, <1>2, PresetsApart DEF SettingsShape, ThemesApart
<1>4. DOMAIN s.hosts \subseteq Nameable
  BY <1>1
<1>5. ThemesApart(s.themes) /\ s.active \in IdsOf(s.themes)
  BY <1>1, PresetsApart DEF ThemesApart
<1>6. ValidKeys(s.keys) /\ Clashes(s.keys) = {}
  BY <1>1, KeysAssumption DEF ValidKeys, Invalid, Clashes
<1> QED BY <1>2, <1>3, <1>4, <1>5, <1>6, PartsAreUsable DEF s

LEMMA MigratedTheme ==
    ASSUME NEW legacy
    PROVE  /\ ThemeShape(Migrated(legacy))
           /\ legacy # Junk => ThemesApart(Append(Presets, Migrated(legacy)))
           /\ ThemeList(Append(Presets, Migrated(legacy)))
           /\ Migrated(legacy).id \in IdsOf(Append(Presets, Migrated(legacy)))
<1> DEFINE t == Migrated(legacy)
<1>1. /\ t = [id |-> t.id, name |-> t.name, preset |-> t.preset, paints |-> t.paints]
      /\ t.id = <<"migrated-theme", 1>> /\ t.name = 14 /\ t.paints = legacy
  BY DEF Migrated
<1> HIDE DEF t
<1>2. ThemeShape(t)
  <2>1. t.id = <<t.id[1], t.id[2]>> /\ t.id[2] \in Nat
    BY <1>1
  <2> QED BY <1>1, <2>1 DEF ThemeShape
<1>3. t.id \notin IdsOf(Presets)
  BY <1>1, PresetAssumption DEF IdsOf
<1>4. ThemeList(Presets)
  BY PresetAssumption
<1>5. legacy # Junk => ThemesApart(Append(Presets, t))
  BY <1>1, <1>2, <1>3, PresetsApart, OneMoreApart DEF MaxName
<1>6. ThemeList(Append(Presets, t))
  BY <1>2, <1>4, ThemeAdded
<1>7. t.id \in IdsOf(Append(Presets, t))
  <2> SUFFICES ASSUME NEW after, after = Append(Presets, t) PROVE t.id \in IdsOf(after)
    OBVIOUS
  <2>1. DOMAIN after = 1..(Len(Presets) + 1)
    BY <1>2, <1>4, ThemeAdded
  <2>2. after[Len(Presets) + 1] = t
    BY <1>2, <1>4, ThemeAdded
  <2>3. Len(Presets) + 1 \in DOMAIN after
    BY <1>4, <2>1, ListOfThemes
  <2> QED BY <2>2, <2>3 DEF IdsOf
<1> QED BY <1>2, <1>5, <1>6, <1>7 DEF t

\* What normalising makes of a document is usable.
LEMMA NormalizedIsUsable ==
    ASSUME RoomForHosts, NEW d, DraftShape(d), NEW legacy
    PROVE  Usable(Normalized(d, legacy))
<1> DEFINE kept == IF legacy # NoLegacy THEN Presets ELSE StoredThemes(d.themes)
           moved  == legacy \notin {NoLegacy, Junk, Presets[1].paints}
           themes == IF moved THEN Append(kept, Migrated(legacy)) ELSE kept
           active == IF moved THEN Migrated(legacy).id
                     ELSE IF d.active \in IdsOf(kept) THEN d.active ELSE Presets[1].id
           numbers == [f \in DOMAIN NumberRange |-> Bounded(f, d.numbers[f])]
<1>1. SettingsShape(d)
  BY DEF DraftShape
<1>2. PICK s : s = Normalized(d, legacy)
  OBVIOUS
<1>3. s = [keys |-> NormalKeys(d.keys), themes |-> s.themes, active |-> s.active,
           hosts |-> NormalHosts(d.hosts), mode |-> d.mode, flags |-> d.flags,
           numbers |-> numbers]
  BY <1>1, <1>2, FieldsReplaced
<1>0. s.themes = themes /\ s.active = active
  BY <1>1, <1>2 DEF Normalized, SettingsShape
<1>4. /\ s = [keys |-> s.keys, themes |-> s.themes, active |-> s.active, hosts |-> s.hosts,
              mode |-> s.mode, flags |-> s.flags, numbers |-> s.numbers]
      /\ s.keys = NormalKeys(d.keys) /\ s.themes = themes /\ s.active = active
      /\ s.hosts = NormalHosts(d.hosts) /\ s.numbers = numbers
  <2> HIDE DEF kept, moved, themes, active, numbers
  <2> QED BY <1>0, <1>3
<1>5. ThemesApart(kept)
  BY <1>1, StoredApart, PresetsApart DEF SettingsShape
<1>6. moved => kept = Presets /\ legacy # Junk
  OBVIOUS
<1> HIDE DEF kept, moved
<1>7. ThemesApart(themes)
  BY <1>5, <1>6, MigratedTheme
<1>8. active \in IdsOf(themes)
  BY <1>5, <1>6, MigratedTheme DEF ThemesApart
<1>9. /\ numbers \in [DOMAIN NumberRange -> Int]
      /\ \A f \in DOMAIN NumberRange : numbers[f] = Bounded(f, numbers[f])
  BY <1>1, NumbersInBounds DEF SettingsShape
<1>10. DOMAIN s.hosts \subseteq Nameable
  BY <1>4 DEF NormalHosts, DraftShape
<1> HIDE DEF themes, active, numbers
<1>11. SettingsShape(s)
  BY <1>4, <1>7, <1>9 DEF SettingsShape, ThemesApart
<1>12. ThemesApart(s.themes) /\ s.active \in IdsOf(s.themes)
  BY <1>4, <1>7, <1>8
<1>13. ValidKeys(s.keys) /\ Clashes(s.keys) = {}
  BY <1>4, KeysAreSettled
<1>14. \A f \in DOMAIN NumberRange : s.numbers[f] = Bounded(f, s.numbers[f])
  BY <1>4, <1>9
<1> QED BY <1>2, <1>10, <1>11, <1>12, <1>13, <1>14, PartsAreUsable

LEMMA FileIsDraft == ASSUME NEW file \in StateFiles PROVE DraftShape(file.settings)
BY FilesAssumption DEF DraftShape, Nameable

LEMMA FilledIsDraft ==
    ASSUME NEW file, DraftShape(file.settings) PROVE DraftShape(Filled(file))
<1> DEFINE d == file.settings
           keys == Reset(d.keys, {a \in KeyActions : d.keys[a] = Missing})
<1>1. PICK s : s = [d EXCEPT !.keys = keys]
  OBVIOUS
<1>2. Filled(file) = IF file.legacy = NoLegacy THEN s
                     ELSE [s EXCEPT !.themes = Append(Presets, Migrated(file.legacy)),
                                    !.active = Migrated(file.legacy).id]
  BY <1>1 DEF Filled
<1> HIDE DEF keys
<1>3. DraftShape(s)
  BY <1>1 DEF DraftShape, SettingsShape
<1>4. ASSUME NEW themes, ThemeList(themes), NEW active,
             NEW q, q = [s EXCEPT !.themes = themes, !.active = active]
      PROVE  DraftShape(q)
  BY <1>3, <1>4 DEF DraftShape, SettingsShape
<1>5. CASE file.legacy = NoLegacy
  BY <1>2, <1>3, <1>5
<1>6. CASE file.legacy # NoLegacy
  <2>1. ThemeList(Append(Presets, Migrated(file.legacy)))
    BY MigratedTheme
  <2>2. Filled(file) = [s EXCEPT !.themes = Append(Presets, Migrated(file.legacy)),
                                 !.active = Migrated(file.legacy).id]
    BY <1>2, <1>6
  <2> QED BY <1>4, <2>1, <2>2, Zenon
<1> QED BY <1>5, <1>6

LEMMA EditSaves ==
    ASSUME SavesInv, NEW s, DraftShape(s), EditDraft(s) PROVE SavesInv'
BY DEF SavesInv, EditDraft

\* One field of a document changed.
LEMMA FieldChanged ==
    ASSUME NEW d, DraftShape(d), NEW v, NEW q
    PROVE  /\ q = [d EXCEPT !.mode = v] => DraftShape(q)
           /\ q = [d EXCEPT !.flags = v] => DraftShape(q)
           /\ q = [d EXCEPT !.keys = v] => DraftShape(q)
           /\ q = [d EXCEPT !.active = v] => DraftShape(q)
           /\ q = [d EXCEPT !.themes = v] /\ ThemeList(v) => DraftShape(q)
           /\ q = [d EXCEPT !.hosts = v] /\ DOMAIN v \subseteq Nameable \cup {"junk"} => DraftShape(q)
           /\ q = [d EXCEPT !.numbers = v] /\ v \in [DOMAIN NumberRange -> Int] => DraftShape(q)
<1>1. q = [d EXCEPT !.mode = v] => DraftShape(q)
  BY DEF DraftShape, SettingsShape
<1>2. q = [d EXCEPT !.flags = v] => DraftShape(q)
  BY DEF DraftShape, SettingsShape
<1>3. q = [d EXCEPT !.keys = v] => DraftShape(q)
  BY DEF DraftShape, SettingsShape
<1>4. q = [d EXCEPT !.active = v] => DraftShape(q)
  BY DEF DraftShape, SettingsShape
<1>5. q = [d EXCEPT !.themes = v] /\ ThemeList(v) => DraftShape(q)
  BY DEF DraftShape, SettingsShape
<1>6. q = [d EXCEPT !.hosts = v] /\ DOMAIN v \subseteq Nameable \cup {"junk"} => DraftShape(q)
  BY DEF DraftShape, SettingsShape
<1>7. q = [d EXCEPT !.numbers = v] /\ v \in [DOMAIN NumberRange -> Int] => DraftShape(q)
  BY DEF DraftShape, SettingsShape
<1> QED BY <1>1, <1>2, <1>3, <1>4, <1>5, <1>6, <1>7

LEMMA ThemesChosen ==
    ASSUME NEW d, DraftShape(d), NEW active, NEW themes, ThemeList(themes),
           NEW q, q = [d EXCEPT !.active = active, !.themes = themes]
    PROVE  DraftShape(q)
BY DEF DraftShape, SettingsShape

\* Deleting keeps themes.
LEMMA ThemesLeft ==
    ASSUME NEW themes, ThemeList(themes), NEW id PROVE ThemeList(ThemesBut(themes, id))
<1> DEFINE n == Len(themes)
           keep == {i \in DOMAIN themes : themes[i].id # id \/ themes[i].preset}
           f == CHOOSE f : Folded(themes, keep, n, f)
           Bad == {i \in 0..n : ~ ThemeList(f[i])}
<1>1. ThemesBut(themes, id) = f[n]
  BY DEF ThemesBut, Folded, OneMore
<1>2. n \in Nat /\ DOMAIN themes = 1..n /\ \A i \in 1..n : ThemeShape(themes[i])
  BY ListOfThemes
<1> HIDE DEF keep, n
<1>3. Folded(themes, keep, n, f)
  <2>1. \E g : Folded(themes, keep, n, g)
    BY <1>2, TakenExists
  <2> QED BY <2>1
<1> HIDE DEF f
<1>4. 0 \notin Bad
  <2>1. f[0] = <<>>
    BY <1>2, <1>3 DEF Folded
  <2>2. ThemeList(<<>>)
    BY DEF ThemeList
  <2> QED BY <2>1, <2>2
<1>5. ASSUME NEW i \in 1..n, i - 1 \notin Bad PROVE i \notin Bad
  <2>1. ThemeList(f[i - 1])
    BY <1>2, <1>5
  <2>2. f[i] = OneMore(themes, keep, f[i - 1], i)
    BY <1>2, <1>3 DEF Folded
  <2>3. ThemeList(f[i])
    <3>1. CASE i \in keep
      <4>1. f[i] = Append(f[i - 1], themes[i])
        BY <2>2, <3>1 DEF OneMore
      <4>2. ThemeShape(themes[i])
        BY <1>2
      <4>3. ASSUME NEW before, ThemeList(before), NEW after, after = Append(before, themes[i])
            PROVE  ThemeList(after)
        BY <4>2, <4>3, ThemeAdded
      <4> QED BY <2>1, <4>1, <4>3, Zenon
    <3>2. CASE i \notin keep
      <4>1. f[i] = f[i - 1]
        BY <2>2, <3>2 DEF OneMore
      <4> QED BY <2>1, <4>1
    <3> QED BY <3>1, <3>2
  <2> QED BY <2>3
<1>6. Bad \subseteq 0..n
  OBVIOUS
<1>7. n \in 0..n
  BY <1>2
<1> HIDE DEF Bad
<1>8. Bad = {}
  BY <1>2, <1>4, <1>5, <1>6, NoneFails
<1> QED BY <1>1, <1>7, <1>8 DEF Bad

LEMMA ThemeChanged ==
    ASSUME NEW t, ThemeShape(t), NEW v, NEW q
    PROVE  /\ q = [t EXCEPT !.name = v] => ThemeShape(q)
           /\ q = [t EXCEPT !.paints = v] => ThemeShape(q)
BY DEF ThemeShape

LEMMA ThemesChanged ==
    ASSUME NEW themes, ThemeList(themes), NEW after,
           after = [i \in DOMAIN themes |-> after[i]], \A i \in DOMAIN themes : ThemeShape(after[i])
    PROVE  ThemeList(after)
<1>1. Len(themes) \in Nat /\ DOMAIN themes = 1..Len(themes)
  BY ListOfThemes
<1> QED BY <1>1, ListIsThemes

LEMMA CreatedTheme ==
    ASSUME NEW d, DraftShape(d), NEW name, NEW paints
    PROVE  LET id == FreeId(<<"theme", 1>>, d.themes)
           IN  ThemeList(Append(d.themes, [id |-> id, name |-> name, preset |-> FALSE,
                                           paints |-> paints]))
<1> DEFINE first == <<"theme", 1>>
           id == FreeId(first, d.themes)
<1>1. first[2] \in Nat
  OBVIOUS
<1> HIDE DEF first
<1>2. ThemeList(d.themes)
  BY DEF DraftShape, SettingsShape
<1>3. \E n \in Nat : id = <<first[1], n>>
  BY <1>1, <1>2, FreeIdIsFree
<1> HIDE DEF id
<1>4. PICK t : t = [id |-> id, name |-> name, preset |-> FALSE, paints |-> paints]
  OBVIOUS
<1>5. ThemeShape(t)
  BY <1>3, <1>4 DEF ThemeShape
<1>6. ThemeList(Append(d.themes, t))
  BY <1>2, <1>5, ThemeAdded
<1> QED BY <1>4, <1>6 DEF id, first

LEMMA SavesStepHolds ==
    ASSUME RoomForHosts, SavesInv, [SettingsNext]_settingsVars PROVE SavesInv'
<1>1. CASE LoadSettings
  <2>1. DraftShape(Filled(disk))
    BY FilledIsDraft DEF SavesInv
  <2>2. Usable(Normalized(Filled(disk), NoLegacy))
    BY <2>1, NormalizedIsUsable
  <2> QED BY <1>1, <2>2 DEF LoadSettings, SavesInv
<1>2. CASE SaveState
  <2>1. CASE UNCHANGED disk
    BY <1>2, <2>1 DEF SaveState, SavesInv
  <2>2. CASE disk' = [settings |-> inUse, legacy |-> NoLegacy, ours |-> TRUE]
    <3>1. disk'.settings = inUse
      BY <2>2
    <3> QED BY <1>2, <3>1 DEF SaveState, SavesInv, Usable
  <2> QED BY <1>2, <2>1, <2>2 DEF SaveState
<1>3. CASE WorkspaceMoves
  BY <1>3 DEF WorkspaceMoves, SavesInv
<1>4. CASE RestartSettings
  BY <1>4, DefaultsAreUsable DEF RestartSettings, SavesInv
<1>5. CASE OpenSettings
  BY <1>5 DEF OpenSettings, SavesInv, Usable
<1>6. CASE CancelSettings
  BY <1>6 DEF CancelSettings, CloseDialog, SavesInv
<1>7. CASE SaveSettings
  <2>1. Usable(Normalized(draft, NoLegacy))
    BY <1>7, NormalizedIsUsable DEF SaveSettings, SavesInv
  <2> QED BY <1>7, <2>1 DEF SaveSettings, CloseDialog, SavesInv
<1>8. CASE ResetDefaults
  BY <1>8, DefaultsAreUsable, EditSaves DEF ResetDefaults, Usable
<1>9. ASSUME NEW f \in DOMAIN NumberRange, NEW n \in TypedNumbers, TypeNumber(f, n) PROVE SavesInv'
  <2>1. DraftShape(draft)
    BY <1>9 DEF TypeNumber, Turned, SavesInv
  <2>2. PICK numbers : numbers = [draft.numbers EXCEPT ![f] = n]
    OBVIOUS
  <2>3. PICK q : q = [draft EXCEPT !.numbers = numbers]
    OBVIOUS
  <2>4. numbers \in [DOMAIN NumberRange -> Int]
    BY <2>1, <2>2, SettingsAssumption DEF DraftShape, SettingsShape
  <2>5. DraftShape(q)
    BY <2>1, <2>3, <2>4, FieldChanged
  <2>6. EditDraft(q)
    BY <1>9, <2>2, <2>3, Zenon DEF TypeNumber
  <2> QED BY <2>5, <2>6, EditSaves
<1>10. ASSUME NEW f, ToggleFlag(f) PROVE SavesInv'
  <2>1. PICK flags : EditDraft([draft EXCEPT !.flags = flags])
    BY <1>10, Zenon DEF ToggleFlag
  <2>2. DraftShape(draft)
    BY <1>10 DEF ToggleFlag, Turned, SavesInv
  <2>3. DraftShape([draft EXCEPT !.flags = flags])
    BY <2>2, FieldChanged
  <2> QED BY <2>1, <2>3, EditSaves
<1>11. ASSUME NEW m, ChoosePullMode(m) PROVE SavesInv'
  <2>1. DraftShape(draft)
    BY <1>11 DEF ChoosePullMode, Turned, SavesInv
  <2>2. DraftShape([draft EXCEPT !.mode = m])
    BY <2>1, FieldChanged
  <2> QED BY <1>11, <2>2, EditSaves DEF ChoosePullMode
<1>12. ASSUME NEW a, Record(a) PROVE SavesInv'
  BY <1>12 DEF Record, SavesInv
<1>13. ASSUME NEW a, ResetKey(a) PROVE SavesInv'
  <2>1. DraftShape(draft)
    BY <1>13 DEF ResetKey, SavesInv
  <2>2. PICK keys : keys = [draft.keys EXCEPT ![a] = DefaultKeys[a]]
    OBVIOUS
  <2>3. PICK q : q = [draft EXCEPT !.keys = keys]
    OBVIOUS
  <2>4. DraftShape(q)
    BY <2>1, <2>3, FieldChanged
  <2>5. EditDraft(q)
    BY <1>13, <2>2, <2>3, Zenon DEF ResetKey
  <2> QED BY <2>4, <2>5, EditSaves
<1>14. CASE StopRecording
  BY <1>14 DEF StopRecording, SavesInv
<1>15. ASSUME NEW e, Capture(e) PROVE SavesInv'
  <2>1. draft # NoDraft
    BY <1>15 DEF Capture
  <2>2. DraftShape(draft)
    BY <2>1 DEF SavesInv
  <2>3. \/ \E key : EditDraft([draft EXCEPT !.keys[recording] = key])
        \/ UNCHANGED <<disk, inUse, draft>>
    BY <1>15 DEF Capture
  <2>4. ASSUME NEW key, EditDraft([draft EXCEPT !.keys[recording] = key]) PROVE SavesInv'
    <3>1. PICK keys : keys = [draft.keys EXCEPT ![recording] = key]
      OBVIOUS
    <3>2. PICK q : q = [draft EXCEPT !.keys = keys]
      OBVIOUS
    <3>3. DraftShape(q)
      BY <2>2, <3>2, FieldChanged
    <3>4. EditDraft(q)
      BY <2>4, <3>1, <3>2, Zenon
    <3> QED BY <3>3, <3>4, EditSaves
  <2>5. CASE UNCHANGED <<disk, inUse, draft>>
    BY <2>5 DEF SavesInv
  <2> QED BY <2>3, <2>4, <2>5
<1>16. CASE CreateTheme \/ DuplicateTheme
  <2>1. draft # NoDraft
    BY <1>16 DEF CreateTheme, DuplicateTheme, Turned
  <2>2. DraftShape(draft)
    BY <2>1 DEF SavesInv
  <2>3. PICK model, length : AddTheme(model, length)
    BY <1>16 DEF CreateTheme, DuplicateTheme
  <2>4. PICK id, name, themes :
           /\ id = FreeId(<<"theme", 1>>, draft.themes)
           /\ themes = Append(draft.themes, [id |-> id, name |-> name, preset |-> FALSE,
                                             paints |-> model.paints])
           /\ EditDraft([draft EXCEPT !.active = id, !.themes = themes])
    BY <2>3, Zenon DEF AddTheme
  <2>5. ThemeList(themes)
    BY <2>2, <2>4, CreatedTheme, Zenon
  <2>6. DraftShape([draft EXCEPT !.active = id, !.themes = themes])
    BY <2>2, <2>5, ThemesChosen, Zenon
  <2> QED BY <2>4, <2>6, EditSaves, Zenon
<1>17. ASSUME NEW id, SelectTheme(id) PROVE SavesInv'
  <2>1. DraftShape(draft)
    BY <1>17 DEF SelectTheme, Turned, SavesInv
  <2>2. DraftShape([draft EXCEPT !.active = id])
    BY <2>1, FieldChanged
  <2> QED BY <1>17, <2>2, EditSaves DEF SelectTheme
<1>18. CASE DeleteTheme
  <2>1. draft # NoDraft
    BY <1>18 DEF DeleteTheme, OwnTheme, Turned
  <2>2. DraftShape(draft)
    BY <2>1 DEF SavesInv
  <2>3. PICK id, active : EditDraft([draft EXCEPT !.active = active, !.themes = ThemesBut(draft.themes, id)])
    BY <1>18, Zenon DEF DeleteTheme
  <2>4. ThemeList(ThemesBut(draft.themes, id))
    BY <2>2, ThemesLeft DEF DraftShape, SettingsShape
  <2>5. DraftShape([draft EXCEPT !.active = active, !.themes = ThemesBut(draft.themes, id)])
    BY <2>2, <2>4, ThemesChosen, Zenon
  <2> QED BY <2>3, <2>5, EditSaves, Zenon
<1>19. ASSUME NEW v, RenameTheme(v) \/ ChangeColour(v) \/ ChangeLanes(v) PROVE SavesInv'
  <2>1. draft # NoDraft
    BY <1>19 DEF RenameTheme, ChangeColour, ChangeLanes, ChangeTheme, OwnTheme, Turned
  <2>2. DraftShape(draft)
    BY <2>1 DEF SavesInv
  <2>3. PICK themes : /\ themes = [i \in DOMAIN draft.themes |-> themes[i]]
                      /\ \A i \in DOMAIN draft.themes :
                            \/ themes[i] = draft.themes[i]
                            \/ themes[i] = [draft.themes[i] EXCEPT !.name = v]
                            \/ \E paints : themes[i] = [draft.themes[i] EXCEPT !.paints = paints]
                      /\ EditDraft([draft EXCEPT !.themes = themes])
    <3>1. CASE RenameTheme(v)
      BY <3>1 DEF RenameTheme, ChangeTheme
    <3>2. CASE ChangeColour(v)
      BY <3>2 DEF ChangeColour, ChangeTheme
    <3>3. CASE ChangeLanes(v)
      BY <3>3 DEF ChangeLanes, ChangeTheme
    <3> QED BY <1>19, <3>1, <3>2, <3>3
  <2>4. \A i \in DOMAIN draft.themes : ThemeShape(draft.themes[i])
    BY <2>2 DEF DraftShape, SettingsShape, ThemeList
  <2>5. \A i \in DOMAIN draft.themes : ThemeShape(themes[i])
    BY <2>3, <2>4, ThemeChanged
  <2>6. ThemeList(themes)
    BY <2>2, <2>3, <2>5, ThemesChanged DEF DraftShape, SettingsShape
  <2>7. DraftShape([draft EXCEPT !.themes = themes])
    BY <2>2, <2>6, FieldChanged
  <2> QED BY <2>3, <2>7, EditSaves
<1>20. ASSUME NEW h \in TypedHosts, NEW service, AddHost(h, service) PROVE SavesInv'
  <2>1. draft # NoDraft
    BY <1>20 DEF AddHost, Turned
  <2>2. DraftShape(draft)
    BY <2>1 DEF SavesInv
  <2>3. PICK hosts : DOMAIN hosts = DOMAIN draft.hosts \cup {h} /\ EditDraft([draft EXCEPT !.hosts = hosts])
    BY <1>20 DEF AddHost
  <2>4. DOMAIN hosts \subseteq Nameable \cup {"junk"}
    BY <2>2, <2>3 DEF DraftShape, Nameable
  <2>5. DraftShape([draft EXCEPT !.hosts = hosts])
    BY <2>2, <2>4, FieldChanged
  <2> QED BY <2>3, <2>5, EditSaves
<1>21. ASSUME NEW h, RemoveHost(h) PROVE SavesInv'
  <2>1. draft # NoDraft
    BY <1>21 DEF RemoveHost, Turned
  <2>2. DraftShape(draft)
    BY <2>1 DEF SavesInv
  <2>3. PICK hosts : DOMAIN hosts = DOMAIN draft.hosts \ {h} /\ EditDraft([draft EXCEPT !.hosts = hosts])
    BY <1>21 DEF RemoveHost
  <2>4. DOMAIN hosts \subseteq Nameable \cup {"junk"}
    BY <2>2, <2>3 DEF DraftShape
  <2>5. DraftShape([draft EXCEPT !.hosts = hosts])
    BY <2>2, <2>4, FieldChanged
  <2> QED BY <2>3, <2>5, EditSaves
<1>22. ASSUME NEW kind, StartTransfer(kind) PROVE SavesInv'
  BY <1>22 DEF StartTransfer, SavesInv
<1>23. ASSUME NEW file \in StateFiles, NEW native, ImportAnswers(file, native) PROVE SavesInv'
  <2>1. DraftShape(file.settings)
    BY FileIsDraft
  <2>2. DraftShape(Filled(file))
    BY <2>1, FilledIsDraft
  <2>3. DraftShape(Imported(file, native))
    BY <2>1, <2>2, NormalizedIsUsable DEF Imported, Usable
  <2> QED BY <1>23, <2>3, EditSaves DEF ImportAnswers
<1>24. CASE ImportFails \/ ExportAnswers
  BY <1>24 DEF ImportFails, ExportAnswers, SavesInv
<1>25. CASE UNCHANGED settingsVars
  BY <1>25 DEF settingsVars, SavesInv
<1> QED BY <1>1, <1>2, <1>3, <1>4, <1>5, <1>6, <1>7, <1>8, <1>9, <1>10, <1>11, <1>12, <1>13,
          <1>14, <1>15, <1>16, <1>17, <1>18, <1>19, <1>20, <1>21, <1>22, <1>23, <1>24, <1>25
       DEF SettingsNext

\* Whatever is read, edited, imported and saved, the core accepts the settings in
\* use as long as there are no more hosts to type than it takes.
THEOREM SavesStayAccepted == RoomForHosts => (SettingsSpec => []SavesAreAccepted)
<1> SUFFICES ASSUME RoomForHosts PROVE SettingsSpec => []SavesAreAccepted
  OBVIOUS
<1>1. SettingsInit => SavesInv
  BY FileIsDraft, DefaultsAreUsable DEF SettingsInit, SavesInv
<1>2. SavesInv /\ [SettingsNext]_settingsVars => SavesInv'
  BY SavesStepHolds
<1>3. SavesInv => SavesAreAccepted
  BY DEF SavesInv, Usable, SavesAreAccepted
<1> QED BY <1>1, <1>2, <1>3, PTL DEF SettingsSpec

-----------------------------------------------------------------------------
(***************************************************************************)
(* The client: an answer that comes late is not shown.                     *)
(***************************************************************************)
PanesVars == <<focus, diffVars, panelVars, demoVars, rewordVars, paneVars, mergeVars, formVars,
               treeVars, graphVars, settingsVars, columnVars, rowVars, avatarVars, trialVars>>

\* Whichever component a behaviour runs, a list of repositories is of the host
\* target now, the branch rows are of the repository on the screen, and the
\* conflict indicator is of the target and the commits on the screen.
THEOREM LateAnswersAreLost == PanesSpec => []AnswersAreOfScreen
<1>1. PanesInit => FormInit /\ RowInit /\ TrialInit
  BY DEF PanesInit
<1>2. [PanesNext]_PanesVars =>
        [FormNext]_formVars /\ [RowNext]_rowVars /\ [TrialNext]_trialVars
  BY DEF PanesNext, PanesVars
<1>3. PanesSpec => FormSpec /\ RowSpec /\ TrialSpec
  BY <1>1, <1>2, PTL DEF PanesSpec, PanesVars, FormSpec, RowSpec, TrialSpec
<1>4. []ListIsOfHost /\ []RowsAreOfRepository /\ []IndicatorIsOfScreen => []AnswersAreOfScreen
  <2>1. ListIsOfHost /\ RowsAreOfRepository /\ IndicatorIsOfScreen => AnswersAreOfScreen
    BY DEF AnswersAreOfScreen
  <2> QED BY <2>1, PTL
<1> QED BY <1>3, <1>4, ListsAreOfTheirHost, RowsFollowScreen, IndicatorFollowsScreen, PTL
=============================================================================
