--------------------------- MODULE SelectionProofs ---------------------------
(***************************************************************************)
(* Proofs about what is selected, for any repositories, histories, files   *)
(* and bounds: the commit panel is of the selected commit, the diff is of  *)
(* the highlighted file, and a reworded commit is found again.  And about  *)
(* the graph the selection is made in, for every log and pages of any      *)
(* length: no commit lies on the line of another, and the lanes can be     *)
(* told apart by their colours and the band over the parked ones.  Last,   *)
(* the sides picked in the merge editor, for every file Git can leave.     *)
(***************************************************************************)
EXTENDS CommitPanel, DiffPane, RewordEditor, GraphPaint, MergeEditor,
        WellFoundedInduction, FiniteSetTheorems, SequenceTheorems, TLAPS

-----------------------------------------------------------------------------
(***************************************************************************)
(* The first and the last number of a set: what the CHOOSE of a follow-up  *)
(* and the Min of a search find.                                           *)
(***************************************************************************)
LEMMA LeastNatural ==
    ASSUME NEW T, T \subseteq Nat, T # {}
    PROVE  \E x \in T : \A y \in T : x <= y
<1> DEFINE R == OpToRel(<, Nat)
<1>1. IsWellFoundedOn(R, Nat)
  BY NatLessThanWellFounded
<1>2. \A x, y \in Nat : <<y, x>> \in R <=> y < x
  BY DEF OpToRel
<1> HIDE DEF R
<1>3. PICK x \in T : \A y \in T : ~ (<<y, x>> \in R)
  <2>1. \E x \in T : \A y \in T : ~ (<<y, x>> \in R)
    BY <1>1, WFMin
  <2> QED BY <2>1
<1>4. ASSUME NEW y \in T PROVE x <= y
  <2>1. x \in Nat /\ y \in Nat
    OBVIOUS
  <2>2. ~ (<<y, x>> \in R)
    BY <1>3
  <2>3. ~ (y < x)
    BY <1>2, <2>1, <2>2, Zenon
  <2> QED BY <2>1, <2>3
<1> QED BY <1>4

LEMMA GreatestNatural ==
    ASSUME NEW n \in Nat, NEW T, T \subseteq 0 .. n, T # {}
    PROVE  \E x \in T : \A y \in T : y <= x
<1> DEFINE S == {n - x : x \in T}
<1>1. S \subseteq Nat /\ S # {}
  <2>1. \A x \in T : n - x \in Nat
    OBVIOUS
  <2> QED BY <2>1
<1>2. PICK s \in S : \A r \in S : s <= r
  BY <1>1, LeastNatural
<1>3. PICK x \in T : s = n - x
  OBVIOUS
<1>4. ASSUME NEW y \in T PROVE y <= x
  <2>1. s <= n - y
    BY <1>2
  <2> QED BY <1>3, <2>1
<1> QED BY <1>4

-----------------------------------------------------------------------------
(***************************************************************************)
(* CommitPanel: a panel and a call for one are of the selected commit.     *)
(***************************************************************************)
\* A call with the current number is for the selected commit of the screen: it is the
\* only one that may fill the panel.
CallsOfSelection ==
    /\ panelSeq \in Nat /\ wip \in BOOLEAN
    /\ \A call \in panelCalls :
          /\ call.seq \in Nat /\ call.seq <= panelSeq
          /\ call.seq = panelSeq => call.oid = selected /\ ~ wip /\ OnScreen
PanelInv == PanelIsOfSelection /\ CallsOfSelection

\* The details effect, after any change of the selection or of the repository.
LEMMA EffectHolds ==
    ASSUME PanelInv, NEW oid, NEW onWip \in BOOLEAN, NEW loaded, NEW changed \in BOOLEAN, NEW shown,
           Effect(oid, onWip, loaded, changed, shown),
           loaded => loadedRepo' = shownRepo',
           ~ changed => /\ oid = selected /\ onWip = wip
                        /\ OnScreen => OnScreen'
                        /\ shown \in {details, NoPanelOid}
    PROVE  PanelInv'
<1>1. CASE changed
  <2> DEFINE new == [seq |-> panelSeq + 1, oid |-> oid]
  <2>1. /\ selected' = oid /\ wip' = onWip /\ details' = NoPanelOid /\ panelSeq' = panelSeq + 1
        /\ panelCalls' = IF loaded /\ oid # NoPanelOid /\ ~onWip THEN panelCalls \cup {new}
                         ELSE panelCalls
    BY <1>1 DEF Effect
  <2>2. ASSUME NEW call \in panelCalls'
        PROVE  /\ call.seq \in Nat /\ call.seq <= panelSeq'
               /\ call.seq = panelSeq' => call.oid = selected' /\ ~ wip' /\ OnScreen'
    <3>1. CASE call \in panelCalls
      BY <2>1, <3>1 DEF PanelInv, CallsOfSelection
    <3>2. CASE call = new /\ loaded /\ ~ onWip
      BY <2>1, <3>2 DEF PanelInv, CallsOfSelection, OnScreen
    <3> QED BY <2>1, <2>2, <3>1, <3>2
  <2> QED BY <2>1, <2>2 DEF PanelInv, PanelIsOfSelection, CallsOfSelection
<1>2. CASE ~ changed
  <2>1. /\ selected' = selected /\ wip' = wip /\ details' \in {details, NoPanelOid}
        /\ UNCHANGED <<panelSeq, panelCalls>>
    BY <1>2 DEF Effect
  <2> QED BY <1>2, <2>1 DEF PanelInv, PanelIsOfSelection, CallsOfSelection
<1> QED BY <1>1, <1>2

LEMMA SelectHolds ==
    ASSUME PanelInv, NEW oid, NEW onWip \in BOOLEAN, Select(oid, onWip), UNCHANGED <<shownRepo, loadedRepo>>
    PROVE  PanelInv'
<1>1. OnScreen' = OnScreen
  BY DEF OnScreen
<1> QED BY <1>1, EffectHolds DEF Select, OnScreen

\* Nothing of the selection changes, nor which repository is on the screen.
LEMMA SelectionStays ==
    ASSUME PanelInv, UNCHANGED <<shownRepo, loadedRepo, selectionVars>> PROVE PanelInv'
BY DEF PanelInv, PanelIsOfSelection, CallsOfSelection, OnScreen, selectionVars

LEMMA SelectCommitHolds ==
    ASSUME PanelInv, NEW oid, SelectCommitOid(oid), UNCHANGED <<shownRepo, loadedRepo>>
    PROVE  PanelInv'
BY SelectHolds, SelectionStays DEF SelectCommitOid

LEMMA PanelStepHolds == ASSUME PanelInv, [PanelNext]_panelVars PROVE PanelInv'
<1>1. CASE ClickCommit \/ JumpToCommit
  BY <1>1, SelectCommitHolds DEF ClickCommit, JumpToCommit
<1>2. CASE SelectWip
  BY <1>2, SelectHolds DEF SelectWip
<1>3. ASSUME NEW key, GraphKey(key) PROVE PanelInv'
  <2>1. /\ UNCHANGED <<shownRepo, loadedRepo>>
        /\ \/ SelectCommitOid(history[KeyTarget(key)])
           \/ Select(NoPanelOid, TRUE)
           \/ UNCHANGED selectionVars
    BY <1>3 DEF GraphKey
  <2> QED BY <2>1, SelectCommitHolds, SelectHolds, SelectionStays
<1>4. CASE TypeQuery \/ CloseSearch \/ SendSearch \/ SearchFails
  BY <1>4, SelectionStays DEF TypeQuery, CloseSearch, SendSearch, SearchFails
<1>5. CASE SearchArrives
  <2>1. UNCHANGED <<shownRepo, loadedRepo>>
    BY <1>5 DEF SearchArrives
  <2>2. \/ UNCHANGED selectionVars
        \/ \E found : Effect(found[1], FALSE, OnScreen, found[1] # selected \/ wip, details)
    BY <1>5 DEF SearchArrives
  <2>3. ASSUME NEW oid, Effect(oid, FALSE, OnScreen, oid # selected \/ wip, details)
        PROVE  PanelInv'
    <3>1. oid # selected \/ wip \/ (oid = selected /\ FALSE = wip)
      BY DEF PanelInv, CallsOfSelection
    <3> QED BY <2>1, <2>3, <3>1, EffectHolds DEF OnScreen
  <2> QED BY <2>1, <2>2, <2>3, SelectionStays
<1>6. CASE NavigateSearch
  BY <1>6, SelectHolds DEF NavigateSearch
<1>7. CASE ShowRepository
  <2>1. wip \in BOOLEAN /\ Effect(selected, wip, FALSE, TRUE, NoPanelOid)
    BY <1>7 DEF ShowRepository, PanelInv, CallsOfSelection
  <2> QED BY <2>1, EffectHolds
<1>8. CASE OverviewArrives
  <2>1. PICK rows \in PanelHistories[shownRepo], clean \in BOOLEAN :
          LET kept  == OnScreen /\ selected \in ToSet(rows)
              oid   == IF kept THEN selected
                       ELSE IF ~clean \/ rows = <<>> THEN NoPanelOid ELSE rows[1]
              onWip == ~kept /\ ~clean
          IN  /\ loadedRepo' = shownRepo /\ shownRepo' = shownRepo
              /\ Effect(oid, onWip, TRUE, ~OnScreen \/ oid # selected \/ onWip # wip, details)
    BY <1>8 DEF OverviewArrives
  <2> DEFINE kept  == OnScreen /\ selected \in ToSet(rows)
             oid   == IF kept THEN selected
                      ELSE IF ~clean \/ rows = <<>> THEN NoPanelOid ELSE rows[1]
             onWip == ~kept /\ ~clean
  <2>2. /\ loadedRepo' = shownRepo /\ shownRepo' = shownRepo
        /\ Effect(oid, onWip, TRUE, ~OnScreen \/ oid # selected \/ onWip # wip, details)
    BY <2>1
  <2>3. onWip \in BOOLEAN
    OBVIOUS
  <2> HIDE DEF kept, oid, onWip
  <2> QED BY <2>2, <2>3, EffectHolds DEF OnScreen
<1>9. ASSUME NEW call \in panelCalls, PanelArrives(call) PROVE PanelInv'
  BY <1>9 DEF PanelArrives, PanelInv, PanelIsOfSelection, CallsOfSelection, OnScreen
<1>10. ASSUME NEW call \in panelCalls, PanelFails(call) PROVE PanelInv'
  BY <1>10 DEF PanelFails, PanelInv, PanelIsOfSelection, CallsOfSelection, OnScreen
<1>11. CASE UNCHANGED panelVars
  BY <1>11, SelectionStays DEF panelVars
<1> QED BY <1>1, <1>2, <1>3, <1>4, <1>5, <1>6, <1>7, <1>8, <1>9, <1>10, <1>11 DEF PanelNext

\* Whatever loads, searches, refreshes and switches of repository are answered in
\* between, the panel that useRepositoryOverview.ts shows is of the selected commit
\* of the repository on the screen.
THEOREM PanelFollowsSelection == PanelSpec => []PanelIsOfSelection
<1>1. PanelInit => PanelInv
  <2> SUFFICES ASSUME PanelInit PROVE PanelInv
    OBVIOUS
  <2>1. wip \in BOOLEAN
    BY DEF PanelInit
  <2> QED BY <2>1 DEF PanelInit, PanelInv, PanelIsOfSelection, CallsOfSelection
<1>2. PanelInv => PanelIsOfSelection
  BY DEF PanelInv
<1> QED BY <1>1, <1>2, PanelStepHolds, PTL DEF PanelSpec

-----------------------------------------------------------------------------
(***************************************************************************)
(* DiffPane: what was asked for last is what is highlighted.               *)
(***************************************************************************)
Request(r) == r = [target |-> r.target, path |-> r.path, whole |-> r.whole]
Matches(sel, req) ==
    IF sel = NoFile THEN req.target = "commit" ELSE req.target = sel[2] /\ req.path = sel[1]

\* While a staged file's diff is to follow it across the sides, the highlight is
\* there already and the request is still the one of the side it left.
Crossing ==
    /\ staging # NoStaging /\ staging.crosses
    /\ selFile = <<staging.file, staging.to>>
    /\ openReq.req.path = staging.file /\ openReq.req.target = OtherSide[staging.to]

DiffTypes ==
    /\ diffSeq \in Nat /\ wholeFile \in BOOLEAN /\ openReq = [seq |-> openReq.seq, req |-> openReq.req]
    /\ openReq.seq \in 0 .. diffSeq /\ Request(openReq.req)
    /\ selFile \in {NoFile} \cup (FileSet \X DiffSides)
    /\ staging # NoStaging => staging.file \in FileSet /\ staging.to \in DiffSides
                              /\ staging.wasFile \in {NoFile} \cup (FileSet \X DiffSides)
    /\ \A call \in diffCalls : call.seq \in 0 .. diffSeq

\* A diff shown or on its way is of the request that is open; that request is in the
\* mode chosen; and unless something failed meanwhile it has been answered, or will
\* be, and is of the file highlighted.
DiffInv ==
    /\ DiffTypes
    /\ diff # NoRequest => OpenIsCurrent
    /\ \A call \in diffCalls : call.seq = diffSeq => OpenIsCurrent /\ call.req = openReq.req
    /\ OpenIsCurrent => openReq.req.target \in DiffSides \cup {"commit"}
                        /\ openReq.req.whole = wholeFile
    /\ OpenIsCurrent /\ ~disturbed =>
          /\ (\A call \in diffCalls : call.seq # diffSeq) => diff = openReq.req
          /\ Matches(selFile, openReq.req) \/ Crossing

Highlight == {NoFile} \cup (FileSet \X DiffSides)

LEMMA PairIsSome == \A p \in FileSet \X DiffSides : p # NoFile
BY DEF NoFile

\* A load is of the request that is open from then on, and on its way.
LEMMA DiffLoads ==
    ASSUME DiffInv, NEW req, NEW silent, Load(req, silent, diffSeq + 1), Request(req),
           req.target \in DiffSides \cup {"commit"}, req.whole = wholeFile', wholeFile' \in BOOLEAN,
           selFile' \in Highlight,
           staging' \in {staging, NoStaging} \/
               (staging'.file \in FileSet /\ staging'.to \in DiffSides /\ staging'.wasFile \in Highlight),
           disturbed' \/ Matches(selFile', req)
               \/ (staging' = staging /\ selFile' = selFile /\ Crossing
                   /\ req.target = openReq.req.target /\ req.path = openReq.req.path)
    PROVE  DiffInv'
<1>1. DiffTypes'
  BY DEF DiffInv, DiffTypes, Load, Highlight, Request
<1>2. /\ openReq' = [seq |-> diffSeq', req |-> req] /\ diffSeq' = diffSeq + 1
      /\ diffCalls' = diffCalls \cup {[seq |-> diffSeq', req |-> req, silent |-> silent]}
  BY DEF Load
<1>3. \A call \in diffCalls : call.seq # diffSeq'
  BY <1>2 DEF DiffInv, DiffTypes
<1>4. Matches(selFile', req) \/ Crossing' \/ disturbed'
  BY <1>2 DEF Crossing
<1>5. OpenIsCurrent' /\ openReq'.req = req
  BY <1>2 DEF OpenIsCurrent
<1>6. \E call \in diffCalls' : call.seq = diffSeq'
  <2> DEFINE asked == [seq |-> diffSeq', req |-> req, silent |-> silent]
  <2>1. asked \in diffCalls' /\ asked.seq = diffSeq'
    BY <1>2
  <2> QED BY <2>1
<1>7. \A call \in diffCalls' : call.seq = diffSeq' => call.req = req
  BY <1>2, <1>3
<1>8. Matches(selFile, openReq.req)' = Matches(selFile', req)
  BY <1>5 DEF Matches
<1> QED BY <1>1, <1>4, <1>5, <1>6, <1>7, <1>8 DEF DiffInv

LEMMA DiffCloses ==
    ASSUME DiffInv, Closed, UNCHANGED wholeFile, staging' \in {staging, NoStaging}
    PROVE  DiffInv'
<1>1. DiffTypes'
  BY DEF DiffInv, DiffTypes, Closed, Highlight
<1>2. openReq'.seq # diffSeq' /\ \A call \in diffCalls' : call.seq # diffSeq'
  BY DEF DiffInv, DiffTypes, Closed
<1> QED BY <1>1, <1>2 DEF DiffInv, OpenIsCurrent, Closed

LEMMA DiffRests ==
    ASSUME DiffInv, UNCHANGED <<diff, diffSeq, openReq, wholeFile, diffCalls>>,
           selFile' \in Highlight,
           staging' \in {staging, NoStaging} \/
               (staging'.file \in FileSet /\ staging'.to \in DiffSides /\ staging'.wasFile \in Highlight),
           disturbed' \/ (~ disturbed /\ (OpenIsCurrent => Matches(selFile', openReq.req) \/ Crossing'))
    PROVE  DiffInv'
<1>1. DiffTypes'
  BY DEF DiffInv, DiffTypes, Highlight
<1> QED BY <1>1 DEF DiffInv, OpenIsCurrent, Matches

LEMMA DiffSettles ==
    ASSUME DiffInv, NEW call \in diffCalls, DiffArrives(call) \/ DiffFails(call)
    PROVE  DiffInv'
<1>1. DiffTypes'
  BY DEF DiffInv, DiffTypes, DiffArrives, DiffFails
<1>2. CASE DiffArrives(call)
  <2>1. Crossing' = Crossing /\ OpenIsCurrent' = OpenIsCurrent
    BY <1>2 DEF DiffArrives, Crossing, OpenIsCurrent
  <2>2. CASE call.seq = diffSeq
    BY <1>1, <1>2, <2>1, <2>2 DEF DiffInv, DiffArrives, Live
  <2>3. CASE call.seq # diffSeq
    BY <1>1, <1>2, <2>1, <2>3 DEF DiffInv, DiffArrives, Live
  <2> QED BY <2>2, <2>3
<1>3. CASE DiffFails(call)
  BY <1>1, <1>3 DEF DiffInv, DiffFails, OpenIsCurrent
<1> QED BY <1>2, <1>3

LEMMA FollowUps ==
    ASSUME NEW file \in FileSet, NEW side \in DiffSides
    PROVE  /\ OtherSide[side] \in DiffSides /\ OtherSide[side] # side
           /\ OtherSide[OtherSide[side]] = side
BY DEF OtherSide, DiffSides

LEMMA DiffStageHolds ==
    ASSUME DiffInv, NEW file \in FileSet, NEW side \in DiffSides, NEW held \in BOOLEAN,
           Stage(file, side, held), FollowUp(file, side) \in FileSet \X DiffSides,
           FollowUp(file, side)[2] # side => FollowUp(file, side) = <<file, OtherSide[side]>>
    PROVE  DiffInv'
<1> DEFINE next == FollowUp(file, side)
           follows == HasFollowUp(file, side, held)
           crosses == follows /\ next[2] # side
<1>1. /\ staging = NoStaging
      /\ staging' = [to |-> OtherSide[side], file |-> file, crosses |-> crosses,
                     wasSides |-> sides, wasFile |-> selFile]
      /\ IF follows /\ ~ crosses THEN Load(DiffRequest(side, next[1]), FALSE, diffSeq + 1)
         ELSE UNCHANGED <<diffSeq, openReq, diffCalls, view, diff, diffLoading>>
      /\ selFile' = IF follows THEN next
                    ELSE IF selFile # NoFile /\ selFile[1] = file
                    THEN <<file, OtherSide[side]>> ELSE selFile
      /\ disturbed' = (disturbed \/ (~ follows /\ selFile' # selFile))
      /\ UNCHANGED wholeFile
  BY DEF Stage
<1>9. wholeFile' \in BOOLEAN
  BY <1>1 DEF DiffInv, DiffTypes
<1>2. next \in FileSet \X DiffSides /\ (next[2] # side => next = <<file, OtherSide[side]>>)
  OBVIOUS
<1> HIDE DEF next, follows
<1>3. selFile \in Highlight /\ selFile' \in Highlight
  BY <1>1, <1>2, FollowUps DEF DiffInv, DiffTypes, Highlight
<1>4. staging'.file \in FileSet /\ staging'.to \in DiffSides /\ staging'.wasFile \in Highlight
  BY <1>1, <1>3, FollowUps
<1>5. CASE follows /\ ~ crosses
  <2>1. DiffRequest(side, next[1]) = [target |-> side, path |-> next[1], whole |-> wholeFile]
    BY DEF DiffRequest
  <2>2. Matches(selFile', DiffRequest(side, next[1]))
    BY <1>1, <1>2, <1>5, <2>1, PairIsSome DEF Matches
  <2>3. Request(DiffRequest(side, next[1])) /\ DiffRequest(side, next[1]).target = side
        /\ DiffRequest(side, next[1]).whole = wholeFile'
    BY <1>1, <2>1 DEF Request
  <2> QED BY <1>9, <1>1, <1>3, <1>4, <1>5, <2>2, <2>3, DiffLoads
<1>6. CASE crosses
  <2>1. selFile = <<file, side>> /\ selFile' = <<file, OtherSide[side]>>
    BY <1>1, <1>2, <1>6 DEF HasFollowUp, follows
  <2>2. OpenIsCurrent /\ ~ disturbed => openReq.req.target = side /\ openReq.req.path = file
    BY <1>1, <2>1, PairIsSome DEF DiffInv, Matches, Crossing
  <2>3. OpenIsCurrent /\ ~ disturbed => Crossing'
    BY <1>1, <1>6, <2>1, <2>2, FollowUps DEF Crossing, NoStaging
  <2> QED BY <1>1, <1>3, <1>4, <1>6, <2>3, DiffRests
<1>7. CASE ~ follows
  <2>1. OpenIsCurrent /\ ~ disturbed => Matches(selFile, openReq.req)
    BY <1>1 DEF DiffInv, Crossing
  <2> QED BY <1>1, <1>3, <1>4, <1>7, <2>1, DiffRests
<1> QED BY <1>5, <1>6, <1>7

\* The follow-up of a staged file is a file of the same side, or the same file on the
\* other side.
LEMMA FollowUpIsFile ==
    ASSUME NEW file \in FileSet, NEW side \in DiffSides
    PROVE  /\ FollowUp(file, side) \in FileSet \X DiffSides
           /\ FollowUp(file, side)[2] # side => FollowUp(file, side) = <<file, OtherSide[side]>>
<1> DEFINE others == {f \in FileSet \ {file} : <<f, side>> \in sides}
           after == {f \in others : InTree(file, f)}
           first(set) == CHOOSE f \in set : \A g \in set : g = f \/ InTree(f, g)
           last(set) == CHOOSE f \in set : \A g \in set : g = f \/ InTree(g, f)
<1>1. ASSUME NEW set \in SUBSET FileSet, set # {} PROVE first(set) \in set /\ last(set) \in set
  <2> DEFINE at == {i \in DOMAIN Files : Files[i] \in set}
  <2>1. at \subseteq 1 .. Len(Files) /\ Len(Files) \in Nat /\ at # {} /\ DOMAIN Files = 1 .. Len(Files)
    BY <1>1, DiffAssumption DEF FileSet
  <2> HIDE DEF at
  <2>2. PICK i \in at : \A j \in at : i <= j
    <3>1. at \subseteq Nat
      BY <2>1
    <3> QED BY <2>1, <3>1, LeastNatural
  <2>3. PICK k \in at : \A j \in at : j <= k
    <3>1. at \subseteq 0 .. Len(Files)
      BY <2>1
    <3> QED BY <2>1, <3>1, GreatestNatural
  <2> USE DEF at
  <2>4. \A g \in set : \E j \in at : Files[j] = g
    BY DEF FileSet
  <2>5. \A j \in at : Files[j] \in set /\ j \in DOMAIN Files
    OBVIOUS
  <2>6. \A g \in set : g = Files[i] \/ InTree(Files[i], g)
    BY <2>1, <2>2, <2>4, <2>5 DEF InTree
  <2>7. \A g \in set : g = Files[k] \/ InTree(g, Files[k])
    BY <2>1, <2>3, <2>4, <2>5 DEF InTree
  <2> QED BY <2>2, <2>3, <2>5, <2>6, <2>7
<1>2. FollowUp(file, side) = IF after # {} THEN <<first(after), side>>
                             ELSE IF others # {} THEN <<last(others), side>>
                             ELSE <<file, OtherSide[side]>>
  BY DEF FollowUp
<1>3. (after # {} => first(after) \in FileSet) /\ (others # {} => last(others) \in FileSet)
  <2>1. after \in SUBSET FileSet /\ others \in SUBSET FileSet
    OBVIOUS
  <2> HIDE DEF after, others, first, last
  <2> QED BY <1>1, <2>1
<1> HIDE DEF others, after, first, last
<1> QED BY <1>2, <1>3, FollowUps

LEMMA DiffStepHolds == ASSUME DiffInv, [DiffNext]_diffVars PROVE DiffInv'
<1> USE DEF Highlight
<1>0. selFile \in Highlight /\ wholeFile \in BOOLEAN /\ (staging # NoStaging => staging.wasFile \in Highlight)
  BY DEF DiffInv, DiffTypes
<1>1. ASSUME NEW file \in FileSet, NEW side \in DiffSides, OpenWorktreeFileDiff(file, side) PROVE DiffInv'
  <2>1. DiffRequest(side, file) = [target |-> side, path |-> file, whole |-> wholeFile]
    BY DEF DiffRequest
  <2>2. selFile' = <<file, side>> /\ Load(DiffRequest(side, file), FALSE, diffSeq + 1)
        /\ UNCHANGED <<wholeFile, staging>>
    BY <1>1 DEF OpenWorktreeFileDiff
  <2>3. Matches(selFile', DiffRequest(side, file))
    BY <2>1, <2>2, PairIsSome DEF Matches
  <2>4. Request(DiffRequest(side, file)) /\ DiffRequest(side, file).target = side
        /\ DiffRequest(side, file).whole = wholeFile'
    BY <2>1, <2>2 DEF Request
  <2>5. selFile' \in Highlight
    BY <2>2
  <2> QED BY <1>0, <2>2, <2>3, <2>4, <2>5, DiffLoads
<1>2. ASSUME NEW file \in FileSet, OpenCommitFile(file) PROVE DiffInv'
  <2>1. DiffRequest("commit", file) = [target |-> "commit", path |-> file, whole |-> wholeFile]
    BY DEF DiffRequest
  <2>2. selFile' = NoFile /\ Load(DiffRequest("commit", file), FALSE, diffSeq + 1)
        /\ UNCHANGED <<wholeFile, staging>>
    BY <1>2 DEF OpenCommitFile
  <2>3. Matches(selFile', DiffRequest("commit", file))
    BY <2>1, <2>2 DEF Matches
  <2>4. Request(DiffRequest("commit", file)) /\ DiffRequest("commit", file).target = "commit"
        /\ DiffRequest("commit", file).whole = wholeFile'
    BY <2>1, <2>2 DEF Request
  <2>5. selFile' \in Highlight
    BY <2>2
  <2> QED BY <1>0, <2>2, <2>3, <2>4, <2>5, DiffLoads
<1>3. CASE ReloadOpenWorktreeDiff
  <2>1. /\ OpenIsCurrent /\ Load(openReq.req, TRUE, diffSeq + 1)
        /\ UNCHANGED <<selFile, wholeFile, staging, disturbed>>
    BY <1>3 DEF ReloadOpenWorktreeDiff
  <2>2. /\ openReq.req.target \in DiffSides \cup {"commit"} /\ openReq.req.whole = wholeFile
        /\ Request(openReq.req) /\ (disturbed \/ Matches(selFile, openReq.req) \/ Crossing)
    BY <2>1 DEF DiffInv, DiffTypes
  <2> QED BY <1>0, <2>1, <2>2, DiffLoads
<1>4. CASE ChangeMode
  <2>1. /\ diff # NoRequest /\ wholeFile' = ~ wholeFile /\ UNCHANGED <<selFile, staging, disturbed>>
        /\ IF openReq.req # NoRequest /\ OpenIsCurrent /\ openReq.req.whole # wholeFile'
           THEN Load([openReq.req EXCEPT !.whole = wholeFile'], TRUE, diffSeq + 1)
           ELSE UNCHANGED <<diffSeq, openReq, diffCalls, view, diff, diffLoading>>
    BY <1>4 DEF ChangeMode
  <2>2. /\ OpenIsCurrent /\ openReq.req.target \in DiffSides \cup {"commit"}
        /\ openReq.req.whole = wholeFile /\ Request(openReq.req)
        /\ (disturbed \/ Matches(selFile, openReq.req) \/ Crossing)
    BY <2>1 DEF DiffInv, DiffTypes
  <2>3. openReq.req # NoRequest /\ openReq.req.whole # wholeFile'
    <3>1. wholeFile # wholeFile'
      BY <2>1, Zenon DEF DiffInv, DiffTypes
    <3>2. NoRequest.target = "none" /\ openReq.req.target # "none"
      BY <2>2 DEF NoRequest, DiffSides
    <3>3. openReq.req # NoRequest
      BY <3>2
    <3>4. openReq.req.whole # wholeFile'
      BY <2>2, <3>1
    <3> QED BY <3>3, <3>4
  <2> DEFINE req == [openReq.req EXCEPT !.whole = wholeFile']
  <2>4. Request(req) /\ req.target = openReq.req.target /\ req.path = openReq.req.path /\ req.whole = wholeFile'
        /\ wholeFile' \in BOOLEAN
    BY <2>1, <2>2 DEF Request
  <2>5. Load(req, TRUE, diffSeq + 1)
    BY <2>1, <2>2, <2>3
  <2> HIDE DEF req
  <2>6. disturbed' \/ Matches(selFile', req) \/ Crossing
    BY <2>1, <2>2, <2>4 DEF Matches
  <2> QED BY <1>0, <2>1, <2>2, <2>4, <2>5, <2>6, DiffLoads
<1>5. CASE CloseDiff
  BY <1>5, DiffCloses DEF CloseDiff
<1>6. CASE ShowGraph
  BY <1>0, <1>6, DiffRests DEF ShowGraph, DiffInv, Crossing
<1>7. CASE DiffStatusArrives
  <2>1. CASE Closed
    BY <1>7, <2>1, DiffCloses DEF DiffStatusArrives
  <2>2. CASE UNCHANGED <<selFile, view, diff, diffLoading, diffSeq, openReq, diffCalls>>
    BY <1>0, <1>7, <2>2, DiffRests DEF DiffStatusArrives, DiffInv, Crossing
  <2> QED BY <1>7, <2>1, <2>2 DEF DiffStatusArrives
<1>8. ASSUME NEW file \in FileSet, NEW side \in DiffSides, NEW held \in BOOLEAN, Stage(file, side, held)
      PROVE  DiffInv'
  BY <1>8, DiffStageHolds, FollowUpIsFile
<1>9. CASE StageDone
  <2>1. staging # NoStaging /\ staging' = NoStaging /\ UNCHANGED <<wholeFile, disturbed>>
        /\ staging.file \in FileSet /\ staging.to \in DiffSides
    BY <1>9 DEF StageDone, DiffInv, DiffTypes
  <2> DEFINE swaps == staging.crosses /\ OpenIsCurrent /\ openReq.req.path = staging.file
                      /\ openReq.req.target \in DiffSides
             req == [openReq.req EXCEPT !.target = staging.to]
  <2>2. CASE swaps
    <3>1. selFile' = <<staging.file, staging.to>> /\ Load(req, TRUE, diffSeq + 1)
      BY <1>9, <2>2 DEF StageDone, SwapSide
    <3>2. Request(openReq.req) /\ openReq.req.whole = wholeFile
      BY <2>2 DEF DiffInv, DiffTypes
    <3>3. Request(req) /\ req.target = staging.to /\ req.path = staging.file /\ req.whole = wholeFile'
      BY <2>1, <2>2, <3>2 DEF Request
    <3> HIDE DEF req
    <3>4. Matches(selFile', req)
      BY <2>1, <3>1, <3>3, PairIsSome DEF Matches
    <3> QED BY <1>0, <2>1, <3>1, <3>3, <3>4, DiffLoads
  <2>3. CASE ~ swaps
    <3>1. UNCHANGED <<selFile, diffSeq, openReq, diffCalls, view, diff, diffLoading>>
      BY <1>9, <2>3 DEF StageDone, SwapSide
    <3>2. OpenIsCurrent => ~ Crossing
      BY <2>1, <2>3, FollowUps DEF Crossing
    <3> QED BY <1>0, <2>1, <3>1, <3>2, DiffRests DEF DiffInv
  <2> QED BY <2>2, <2>3
<1>10. CASE StageRefused
  <2>1. CASE Closed
    BY <1>10, <2>1, DiffCloses DEF StageRefused
  <2>2. CASE selFile' = staging.wasFile /\ UNCHANGED <<diffSeq, openReq, diffCalls, view, diff, diffLoading>>
    BY <1>0, <1>10, <2>2, DiffRests DEF StageRefused
  <2> QED BY <1>10, <2>1, <2>2 DEF StageRefused
<1>11. ASSUME NEW call \in diffCalls, DiffArrives(call) \/ DiffFails(call) PROVE DiffInv'
  BY <1>11, DiffSettles
<1>12. CASE UNCHANGED diffVars
  BY <1>0, <1>12, DiffRests DEF diffVars, DiffInv, Crossing
<1> QED BY <1>1, <1>2, <1>3, <1>4, <1>5, <1>6, <1>7, <1>8, <1>9, <1>10, <1>11, <1>12 DEF DiffNext

\* Whatever is opened, staged, refreshed or answered late, the diff on the screen of
\* useDiffPane.ts is in the end of the file and the side the list highlights.
THEOREM DiffsFollowTheSelection == DiffSpec => []DiffIsOfSelection
<1>1. ASSUME DiffInit PROVE DiffInv
  <2>1. openReq = [seq |-> 0, req |-> NoRequest] /\ diffSeq = 1
    BY <1>1 DEF DiffInit
  <2>2. Request(openReq.req) /\ openReq = [seq |-> openReq.seq, req |-> openReq.req]
    BY <2>1 DEF Request, NoRequest
  <2>3. wholeFile \in BOOLEAN
    BY <1>1 DEF DiffInit
  <2>4. DiffTypes
    BY <1>1, <2>1, <2>2, <2>3 DEF DiffInit, DiffTypes
  <2>5. ~ OpenIsCurrent /\ diff = NoRequest /\ diffCalls = {}
    BY <1>1, <2>1 DEF DiffInit, OpenIsCurrent
  <2> QED BY <2>4, <2>5 DEF DiffInv
<1>2. DiffInv => DiffIsOfSelection
  BY DEF DiffInv, DiffIsOfSelection, Matches, Crossing
<1> QED BY <1>1, <1>2, DiffStepHolds, PTL DEF DiffSpec

-----------------------------------------------------------------------------
(***************************************************************************)
(* RewordEditor: the load that ends a reword finds the commit again.       *)
(***************************************************************************)
Log(entries, next) ==
    /\ Len(entries) \in Nat /\ entries = [i \in 1 .. Len(entries) |-> entries[i]]
    /\ \A i \in 1 .. Len(entries) : /\ entries[i] = [oid |-> entries[i].oid, subject |-> entries[i].subject]
                                /\ entries[i].oid \in 1 .. (next - 1)
OneOf(entries) == {entries[i] : i \in 1 .. Len(entries)}
Outside(entries, known) == \E i \in DOMAIN entries : entries[i].subject = "outside" /\ entries[i].oid \notin known

RewordTypes ==
    /\ nextOid \in Nat \ {0} /\ repoOn \in DOMAIN logs
    /\ logs = [repo \in DOMAIN logs |-> logs[repo]]
    /\ \A repo \in DOMAIN logs : Log(logs[repo], nextOid)
    /\ Log(shownLog, nextOid)
    /\ Busy => /\ reword = [oid |-> reword.oid, text |-> reword.text, repo |-> reword.repo,
                            index |-> reword.index, by |-> reword.by, phase |-> reword.phase]
               /\ reword.phase \in {"running", "reloading", "answered"}
               /\ reword.repo \in DOMAIN logs /\ reword.index \in Nat

\* The history on screen is the repository's, unless somebody else committed since or a
\* reword has rewritten it and is about to load it.
ShownIsLog ==
    \/ shownLog = logs[repoOn]
    \/ Outside(logs[repoOn], OidsOf(shownLog))
    \/ Busy /\ reword.phase = "reloading" /\ reword.repo = repoOn

\* The place a reword remembers is that of its commit, before and after the rewrite,
\* unless somebody else committed since.
PlaceIsKept ==
    Busy /\ reword.index > 0 =>
        LET entries == logs[reword.repo] IN
        /\ reword.phase = "running" =>
              /\ reword.oid \in 1 .. (nextOid - 1)
              /\ reword.index = PlaceOf(entries, reword.oid) \/ Outside(entries, {reword.oid})
        /\ reword.phase = "reloading" =>
              \/ Outside(entries, {})
              \/ /\ pendingSelection = [index |-> reword.index, subject |-> reword.text]
                 /\ reword.index \in DOMAIN entries
                 /\ entries[reword.index] = [oid |-> reword.oid, subject |-> reword.text]

RewordInv == RewordTypes /\ ShownIsLog /\ PlaceIsKept

LEMMA PlaceIsOf ==
    ASSUME NEW entries, NEW next, Log(entries, next), NEW oid
    PROVE  /\ PlaceOf(entries, oid) \in 0 .. Len(entries)
           /\ PlaceOf(entries, oid) > 0 => entries[PlaceOf(entries, oid)].oid = oid
<1> DEFINE at == {i \in 1 .. Len(entries) : entries[i].oid = oid}
<1>1. PlaceOf(entries, oid) = IF at # {} THEN Min(at) ELSE 0
  BY DEF PlaceOf, SelectInSeq
<1>2. at \subseteq Nat /\ at \subseteq 1 .. Len(entries) /\ \A i \in at : entries[i].oid = oid
  BY DEF Log
<1> HIDE DEF at
<1>3. at # {} => Min(at) \in at
  BY <1>2, LeastNatural DEF Min
<1> QED BY <1>1, <1>2, <1>3 DEF Log

LEMMA LogGrows ==
    ASSUME NEW entries, NEW next \in Nat, NEW more \in Nat, next <= more, Log(entries, next)
    PROVE  Log(entries, more)
BY DEF Log

\* Somebody's commit is put before the others, under an oid nobody has.
LEMMA OutsideLog ==
    ASSUME NEW entries, NEW next \in Nat, next > 0, Log(entries, next), NEW known, next \notin known
    PROVE  /\ Log(<<[oid |-> next, subject |-> "outside"]>> \o entries, next + 1)
           /\ Outside(<<[oid |-> next, subject |-> "outside"]>> \o entries, known)
<1> DEFINE new == [oid |-> next, subject |-> "outside"]
           longer == <<new>> \o entries
<1>1. entries \in Seq(OneOf(entries)) /\ <<new>> \in Seq({new})
  BY DEF Log, OneOf
<1>2. /\ Len(longer) = Len(entries) + 1 /\ longer \in Seq(OneOf(entries) \cup {new})
      /\ longer[1] = new /\ \A i \in 2 .. Len(entries) + 1 : longer[i] = entries[i - 1]
  BY <1>1 DEF Log
<1>3. longer = [i \in 1 .. Len(longer) |-> longer[i]] /\ DOMAIN longer = 1 .. Len(longer)
  BY <1>2
<1> HIDE DEF longer
<1>4. ASSUME NEW i \in 1 .. Len(longer)
      PROVE  longer[i] = [oid |-> longer[i].oid, subject |-> longer[i].subject] /\ longer[i].oid \in 1 .. next
  <2>1. CASE i = 1
    BY <1>2, <2>1
  <2>2. CASE i # 1
    <3>1. Len(entries) \in Nat /\ i \in 2 .. Len(entries) + 1
      BY <1>2, <2>2 DEF Log
    <3>2. i - 1 \in 1 .. Len(entries) /\ longer[i] = entries[i - 1]
      BY <1>2, <3>1
    <3> QED BY <3>2 DEF Log
  <2> QED BY <2>1, <2>2
<1>5. Log(longer, next + 1)
  BY <1>2, <1>3, <1>4 DEF Log
<1>6. 1 \in DOMAIN longer /\ longer[1].subject = "outside" /\ longer[1].oid = next
  BY <1>2, <1>3 DEF Log
<1> QED BY <1>5, <1>6 DEF longer, Outside

\* A rewrite keeps the length and gives new oids to the commit and to those above it.
LEMMA RewrittenLog ==
    ASSUME NEW entries, NEW next \in Nat, next > 0, Log(entries, next), NEW at \in 1 .. Len(entries), NEW text
    PROVE  /\ Log(Rewrite(entries, at, text, next), next + at)
           /\ DOMAIN Rewrite(entries, at, text, next) = 1 .. Len(entries)
           /\ Rewrite(entries, at, text, next)[at] = [oid |-> next + at - 1, subject |-> text]
           /\ Outside(entries, {entries[at].oid}) => Outside(Rewrite(entries, at, text, next), {})
<1> DEFINE new == Rewrite(entries, at, text, next)
<1>1. /\ new = [i \in 1 .. Len(entries) |-> IF i > at THEN entries[i]
                 ELSE [oid |-> next + i - 1, subject |-> IF i = at THEN text ELSE entries[i].subject]]
      /\ Len(entries) \in Nat
  BY DEF Rewrite, Log
<1> HIDE DEF new
<1>2. Len(new) = Len(entries) /\ DOMAIN new = 1 .. Len(entries)
  BY <1>1
<1>3. ASSUME NEW i \in 1 .. Len(entries)
      PROVE  new[i] = [oid |-> new[i].oid, subject |-> new[i].subject] /\ new[i].oid \in 1 .. (next + at - 1)
  <2>1. CASE i > at
    BY <1>1, <2>1 DEF Log
  <2>2. CASE ~ (i > at)
    BY <1>1, <2>2
  <2> QED BY <2>1, <2>2
<1>4. new = [i \in 1 .. Len(new) |-> new[i]]
  BY <1>1, <1>2
<1>5. Log(new, next + at)
  BY <1>1, <1>2, <1>3, <1>4 DEF Log
<1>6. ASSUME NEW i \in DOMAIN entries, entries[i].subject = "outside", entries[i].oid # entries[at].oid
      PROVE  Outside(new, {})
  <2>1. i \in 1 .. Len(entries) /\ i # at
    BY <1>6 DEF Log
  <2>2. new[i].subject = "outside"
    BY <1>1, <1>6, <2>1
  <2> QED BY <1>2, <2>1, <2>2 DEF Outside
<1>7. new[at] = [oid |-> next + at - 1, subject |-> text]
  BY <1>1
<1> QED BY <1>2, <1>5, <1>6, <1>7 DEF new, Outside

LEMMA RewordRests ==
    ASSUME RewordInv, UNCHANGED <<repoOn, logs, shownLog, reword, pendingSelection, nextOid>>
    PROVE  RewordInv'
BY DEF RewordInv, RewordTypes, ShownIsLog, PlaceIsKept, Busy

\* A load without a reword under way, or one that ends it.
LEMMA RewordLoads ==
    ASSUME RewordInv, repoOn' \in DOMAIN logs, shownLog' = logs[repoOn'], UNCHANGED <<logs, nextOid>>,
           Busy' => \/ reword' = reword /\ reword.phase # "reloading"
                    \/ Busy /\ reword' = [reword EXCEPT !.phase = "answered"]
    PROVE  RewordInv'
<1>1. RewordTypes' /\ ShownIsLog'
  <2>1. CASE ~ Busy'
    BY <2>1 DEF RewordInv, RewordTypes, ShownIsLog
  <2>2. CASE Busy' /\ reword' = reword
    BY <2>2 DEF RewordInv, RewordTypes, ShownIsLog, Busy
  <2>3. CASE Busy /\ reword' = [reword EXCEPT !.phase = "answered"]
    BY <2>3 DEF RewordInv, RewordTypes, ShownIsLog
  <2> QED BY <2>1, <2>2, <2>3
<1>2. PlaceIsKept'
  <2>1. CASE Busy' /\ reword' = reword /\ reword.phase # "reloading"
    BY <2>1 DEF RewordInv, PlaceIsKept, Busy
  <2>2. CASE Busy /\ reword' = [reword EXCEPT !.phase = "answered"]
    <3>1. reword'.phase = "answered"
      BY <2>2 DEF RewordInv, RewordTypes
    <3> QED BY <3>1 DEF PlaceIsKept
  <2> QED BY <2>1, <2>2 DEF PlaceIsKept
<1> QED BY <1>1, <1>2 DEF RewordInv

LEMMA RewordStepHolds == ASSUME RewordInv, [RewordNext]_rewordVars PROVE RewordInv'
<1> USE DEF rewordPanelVars
<1>1. CASE PickCommit \/ PanelLoads \/ StartReword \/ ClickMessage \/ TypeWording \/ CancelReword
  BY <1>1, RewordRests DEF PickCommit, PanelLoads, StartReword, ClickMessage, TypeWording, CancelReword
<1>2. CASE SubmitReword
  <2>1. /\ ~ Busy /\ UNCHANGED <<repoOn, logs, shownLog, pendingSelection, nextOid>>
        /\ reword' = [oid |-> panel.oid, text |-> editor.text, repo |-> repoOn,
                      index |-> PlaceOf(shownLog, panel.oid), by |-> mount, phase |-> "running"]
    BY <1>2 DEF SubmitReword, CanSaveMessage
  <2>2. /\ PlaceOf(shownLog, panel.oid) \in Nat
        /\ PlaceOf(shownLog, panel.oid) > 0 =>
              panel.oid \in OidsOf(shownLog) /\ panel.oid \in 1 .. (nextOid - 1)
    <3>1. Len(shownLog) \in Nat /\ DOMAIN shownLog = 1 .. Len(shownLog)
      BY DEF RewordInv, RewordTypes, Log
    <3>2. Log(shownLog, nextOid)
      BY DEF RewordInv, RewordTypes
    <3>3. PlaceOf(shownLog, panel.oid) > 0 => panel.oid \in OidsOf(shownLog)
      BY <3>1, <3>2, PlaceIsOf DEF OidsOf
    <3> QED BY <3>1, <3>2, <3>3, PlaceIsOf DEF OidsOf, Log
  <2>3. RewordTypes'
    BY <2>1, <2>2 DEF RewordInv, RewordTypes
  <2>4. shownLog = logs[repoOn] \/ Outside(logs[repoOn], OidsOf(shownLog))
    BY <2>1 DEF RewordInv, ShownIsLog
  <2>5. PlaceIsKept'
    <3>1. CASE shownLog = logs[repoOn]
      BY <2>1, <2>2, <3>1 DEF PlaceIsKept
    <3>2. CASE Outside(logs[repoOn], OidsOf(shownLog))
      BY <2>1, <2>2, <3>2 DEF PlaceIsKept, Outside
    <3> QED BY <2>4, <3>1, <3>2
  <2> QED BY <2>1, <2>3, <2>4, <2>5 DEF RewordInv, ShownIsLog
<1>3. CASE RewordDone
  <2> DEFINE entries == logs[reword.repo]
             at == PlaceOf(entries, reword.oid)
             new == Rewrite(entries, at, reword.text, nextOid)
  <2>1. /\ Busy /\ reword.phase = "running" /\ at > 0
        /\ logs' = [logs EXCEPT ![reword.repo] = new] /\ nextOid' = nextOid + at
        /\ reword' = [reword EXCEPT !.phase = "reloading", !.oid = nextOid + at - 1]
        /\ pendingSelection' = PendingOf(reword) /\ UNCHANGED <<repoOn, shownLog>>
    BY <1>3 DEF RewordDone
  <2>2. /\ nextOid \in Nat /\ reword.repo \in DOMAIN logs /\ Log(entries, nextOid)
        /\ at \in 1 .. Len(entries) /\ entries[at].oid = reword.oid
    <3>1. nextOid \in Nat /\ reword.repo \in DOMAIN logs /\ Log(entries, nextOid)
      BY <2>1 DEF RewordInv, RewordTypes
    <3>2. Len(entries) \in Nat
      BY <3>1 DEF Log
    <3> HIDE DEF entries
    <3>3. at \in 0 .. Len(entries) /\ (at > 0 => entries[at].oid = reword.oid)
      BY <3>1, PlaceIsOf
    <3> QED BY <2>1, <3>1, <3>2, <3>3
  <2>3. nextOid > 0
    BY DEF RewordInv, RewordTypes
  <2>4. /\ Log(new, nextOid + at) /\ DOMAIN new = 1 .. Len(entries)
        /\ new[at] = [oid |-> nextOid + at - 1, subject |-> reword.text]
        /\ Outside(entries, {reword.oid}) => Outside(new, {})
    <3> DEFINE text == reword.text
    <3> HIDE DEF entries, at, text
    <3>1. /\ Log(Rewrite(entries, at, text, nextOid), nextOid + at)
          /\ DOMAIN Rewrite(entries, at, text, nextOid) = 1 .. Len(entries)
          /\ Rewrite(entries, at, text, nextOid)[at] = [oid |-> nextOid + at - 1, subject |-> text]
          /\ Outside(entries, {entries[at].oid}) => Outside(Rewrite(entries, at, text, nextOid), {})
      BY <2>2, <2>3, RewrittenLog
    <3> QED BY <2>2, <3>1 DEF text
  <2> HIDE DEF entries, at, new
  <2>5. /\ logs' = [repo \in DOMAIN logs |-> logs'[repo]] /\ DOMAIN logs' = DOMAIN logs
        /\ logs'[reword.repo] = new /\ \A repo \in DOMAIN logs \ {reword.repo} : logs'[repo] = logs[repo]
    BY <2>1, <2>2 DEF RewordInv, RewordTypes
  <2>6. /\ reword' = [oid |-> nextOid + at - 1, text |-> reword.text, repo |-> reword.repo,
                      index |-> reword.index, by |-> reword.by, phase |-> "reloading"]
        /\ reword.index \in Nat
    BY <2>1 DEF RewordInv, RewordTypes
  <2>7. RewordTypes'
    <3>1. \A repo \in DOMAIN logs' : Log(logs'[repo], nextOid')
      BY <2>1, <2>2, <2>4, <2>5, LogGrows DEF RewordInv, RewordTypes
    <3>2. Log(shownLog', nextOid')
      BY <2>1, <2>2, LogGrows, SMTT(30) DEF RewordInv, RewordTypes
    <3>3. nextOid' \in Nat \ {0} /\ repoOn' \in DOMAIN logs'
      BY <2>1, <2>2, <2>3, <2>5 DEF RewordInv, RewordTypes
    <3> QED BY <2>2, <2>5, <2>6, <3>1, <3>2, <3>3 DEF RewordTypes
  <2>8. ShownIsLog'
    <3>1. CASE reword.repo = repoOn
      BY <2>1, <2>6, <3>1 DEF ShownIsLog, Busy, NoReword
    <3>2. CASE reword.repo # repoOn
      BY <2>1, <2>5, <3>2 DEF RewordInv, RewordTypes, ShownIsLog
    <3> QED BY <3>1, <3>2
  <2>9. PlaceIsKept'
    <3>1. CASE Outside(entries, {reword.oid})
      BY <2>4, <2>5, <2>6, <3>1 DEF PlaceIsKept
    <3>2. CASE reword.index = at /\ at > 0
      <4>1. pendingSelection' = [index |-> reword.index, subject |-> reword.text]
        BY <2>1, <3>2 DEF PendingOf
      <4> QED BY <2>2, <2>4, <2>5, <2>6, <3>2, <4>1 DEF PlaceIsKept
    <3>3. CASE ~ (reword.index > 0)
      BY <2>6, <3>3 DEF PlaceIsKept
    <3> QED BY <2>1, <3>1, <3>2, <3>3 DEF RewordInv, PlaceIsKept, entries, at
  <2> QED BY <2>7, <2>8, <2>9 DEF RewordInv
<1>4. CASE RewordFails
  <2>1. Busy /\ reword.phase = "running" /\ ~ Busy' /\ UNCHANGED <<repoOn, logs, shownLog, nextOid>>
    BY <1>4 DEF RewordFails, Busy
  <2> QED BY <2>1 DEF RewordInv, RewordTypes, ShownIsLog, PlaceIsKept
<1>5. CASE RewordReloads
  BY <1>5, RewordLoads DEF RewordReloads, MessageShown, RewordInv, RewordTypes
<1>6. CASE RewordAnswers
  <2>1. /\ ~ Busy' /\ UNCHANGED <<repoOn, logs, shownLog, nextOid>>
        /\ ~ (reword.phase = "reloading" /\ reword.repo = repoOn)
    BY <1>6 DEF RewordAnswers, Busy
  <2> QED BY <2>1 DEF RewordInv, RewordTypes, ShownIsLog, PlaceIsKept
<1>7. CASE SilentLoad
  BY <1>7, RewordLoads DEF SilentLoad, MessageShown, RewordInv, RewordTypes, Busy
<1>8. CASE OutsideCommit
  <2>1. PICK repo \in DOMAIN logs :
          logs' = [logs EXCEPT ![repo] = <<[oid |-> nextOid, subject |-> "outside"]>> \o @]
    BY <1>8 DEF OutsideCommit
  <2> DEFINE new == <<[oid |-> nextOid, subject |-> "outside"]>> \o logs[repo]
  <2>2. nextOid' = nextOid + 1 /\ UNCHANGED <<repoOn, shownLog, reword, pendingSelection>>
    BY <1>8 DEF OutsideCommit
  <2>3. nextOid \in Nat /\ Log(logs[repo], nextOid)
    BY DEF RewordInv, RewordTypes
  <2>4. nextOid > 0
    BY DEF RewordInv, RewordTypes
  <2>5. Log(new, nextOid + 1) /\ \A known : nextOid \notin known => Outside(new, known)
    <3> DEFINE old == logs[repo]
    <3> HIDE DEF old
    <3>1. /\ Log(<<[oid |-> nextOid, subject |-> "outside"]>> \o old, nextOid + 1)
          /\ \A known : nextOid \notin known =>
                Outside(<<[oid |-> nextOid, subject |-> "outside"]>> \o old, known)
      <4>1. Log(old, nextOid)
        BY <2>3 DEF old
      <4>2. ASSUME NEW known, nextOid \notin known
            PROVE  /\ Log(<<[oid |-> nextOid, subject |-> "outside"]>> \o old, nextOid + 1)
                   /\ Outside(<<[oid |-> nextOid, subject |-> "outside"]>> \o old, known)
        BY <2>3, <2>4, <4>1, <4>2, OutsideLog
      <4>3. nextOid \notin {}
        OBVIOUS
      <4> QED BY <4>2, <4>3
    <3> QED BY <3>1 DEF old
  <2>6. /\ logs' = [r \in DOMAIN logs |-> logs'[r]] /\ DOMAIN logs' = DOMAIN logs
        /\ logs'[repo] = new /\ \A r \in DOMAIN logs \ {repo} : logs'[r] = logs[r]
    BY <2>1 DEF RewordInv, RewordTypes
  <2> HIDE DEF new
  <2>7. RewordTypes'
    <3>1. \A r \in DOMAIN logs' : Log(logs'[r], nextOid')
      BY <2>2, <2>3, <2>5, <2>6, LogGrows DEF RewordInv, RewordTypes
    <3>2. Log(shownLog', nextOid')
      BY <2>2, <2>3, LogGrows DEF RewordInv, RewordTypes
    <3> QED BY <2>2, <2>6, <2>3, <3>1, <3>2 DEF RewordInv, RewordTypes, Busy
  <2>8. ShownIsLog'
    <3>1. CASE repo = repoOn
      <4>1. nextOid \notin OidsOf(shownLog)
        BY <2>3 DEF RewordInv, RewordTypes, Log, OidsOf
      <4> QED BY <2>2, <2>5, <2>6, <3>1, <4>1 DEF ShownIsLog
    <3>2. CASE repo # repoOn
      BY <2>2, <2>6, <3>2 DEF RewordInv, RewordTypes, ShownIsLog, Busy
    <3> QED BY <3>1, <3>2
  <2>9. PlaceIsKept'
    <3>0. Busy /\ reword.index > 0 /\ reword.phase = "running" => reword.oid \in 1 .. (nextOid' - 1)
      BY <2>2, <2>3 DEF RewordInv, PlaceIsKept
    <3>1. CASE Busy /\ repo = reword.repo
      <4>1. Outside(new, {})
        BY <2>5
      <4>2. reword.oid # nextOid => Outside(new, {reword.oid})
        BY <2>5
      <4>3. reword.index > 0 /\ reword.phase = "running" => reword.oid # nextOid
        BY <2>3, <3>1 DEF RewordInv, PlaceIsKept
      <4> QED BY <2>2, <2>6, <3>0, <3>1, <4>1, <4>2, <4>3 DEF PlaceIsKept
    <3>2. CASE Busy /\ repo # reword.repo
      <4>1. logs'[reword.repo] = logs[reword.repo]
        BY <2>6, <3>2 DEF RewordInv, RewordTypes
      <4> QED BY <2>2, <3>0, <3>2, <4>1 DEF RewordInv, PlaceIsKept, Busy
    <3> QED BY <2>2, <3>1, <3>2 DEF PlaceIsKept, Busy
  <2> QED BY <2>7, <2>8, <2>9 DEF RewordInv
<1>9. CASE SwitchRepository
  <2>1. /\ repoOn' \in DOMAIN logs /\ shownLog' = logs[repoOn'] /\ UNCHANGED <<logs, nextOid>>
        /\ reword' = IF Busy /\ reword.phase = "reloading"
                     THEN [reword EXCEPT !.phase = "answered"] ELSE reword
    BY <1>9 DEF SwitchRepository
  <2> QED BY <2>1, RewordLoads DEF Busy
<1>10. CASE UNCHANGED rewordVars
  BY <1>10, RewordRests DEF rewordVars
<1> QED BY <1>1, <1>2, <1>3, <1>4, <1>5, <1>6, <1>7, <1>8, <1>9, <1>10 DEF RewordNext

LEMMA FirstLog ==
    ASSUME NEW subjects \in Seq(STRING), NEW before \in Nat, NEW next \in Nat, before + Len(subjects) < next
    PROVE  Log([i \in DOMAIN subjects |-> [oid |-> i + before, subject |-> subjects[i]]], next)
<1> DEFINE entries == [i \in 1 .. Len(subjects) |-> [oid |-> i + before, subject |-> subjects[i]]]
<1>1. /\ [i \in DOMAIN subjects |-> [oid |-> i + before, subject |-> subjects[i]]] = entries
      /\ Len(subjects) \in Nat /\ Len(entries) = Len(subjects)
  OBVIOUS
<1>2. \A i \in 1 .. Len(subjects) : entries[i] = [oid |-> i + before, subject |-> subjects[i]]
  OBVIOUS
<1>3. entries = [i \in 1 .. Len(entries) |-> entries[i]]
  BY <1>1
<1> HIDE DEF entries
<1> QED BY <1>1, <1>2, <1>3 DEF Log

LEMMA RewordStart == RewordInit => RewordInv
<1> SUFFICES ASSUME RewordInit PROVE RewordInv
  OBVIOUS
<1>1. /\ Logs[1] \in Seq(STRING) /\ Logs[2] \in Seq(STRING) /\ DOMAIN Logs = {1, 2}
      /\ Len(Logs[1]) \in Nat /\ Len(Logs[2]) \in Nat
  <2>1. DOMAIN Logs = 1 .. 2 /\ \A repo \in 1 .. 2 : Logs[repo] \in Seq(STRING)
    <3> DEFINE Subjects == Seq(STRING)
    <3>1. Logs \in Seq(Subjects) /\ Len(Logs) = 2
      BY RewordAssumption
    <3> HIDE DEF Subjects
    <3>2. DOMAIN Logs = 1 .. 2 /\ \A repo \in 1 .. 2 : Logs[repo] \in Subjects
      BY <3>1
    <3> QED BY <3>2 DEF Subjects
  <2>2. 1 .. 2 = {1, 2}
    OBVIOUS
  <2>3. Logs[1] \in Seq(STRING) /\ Logs[2] \in Seq(STRING)
    BY <2>1, <2>2
  <2> QED BY <2>1, <2>2, <2>3
<1>2. /\ nextOid = Len(Logs[1]) + Len(Logs[2]) + 1 /\ repoOn = 1 /\ logs = FirstLogs
      /\ shownLog = FirstLogs[1] /\ reword = NoReword
  BY DEF RewordInit
<1>3. /\ DOMAIN FirstLogs = {1, 2} /\ FirstLogs = [repo \in {1, 2} |-> FirstLogs[repo]]
      /\ FirstLogs[1] = [i \in DOMAIN Logs[1] |-> [oid |-> i + 0, subject |-> Logs[1][i]]]
      /\ FirstLogs[2] = [i \in DOMAIN Logs[2] |-> [oid |-> i + Len(Logs[1]), subject |-> Logs[2][i]]]
  BY <1>1 DEF FirstLogs
<1>4. nextOid \in Nat \ {0}
  BY <1>1, <1>2
<1>5. Log(FirstLogs[1], nextOid) /\ Log(FirstLogs[2], nextOid)
  <2>1. 0 + Len(Logs[1]) < nextOid /\ Len(Logs[1]) + Len(Logs[2]) < nextOid
    BY <1>1, <1>2
  <2>2. ASSUME NEW subjects \in Seq(STRING), NEW before \in Nat, before + Len(subjects) < nextOid
        PROVE  Log([i \in DOMAIN subjects |-> [oid |-> i + before, subject |-> subjects[i]]], nextOid)
    BY <1>4, <2>2, FirstLog
  <2>3. Log([i \in DOMAIN Logs[1] |-> [oid |-> i + 0, subject |-> Logs[1][i]]], nextOid)
    BY <1>1, <2>1, <2>2
  <2>4. Log([i \in DOMAIN Logs[2] |-> [oid |-> i + Len(Logs[1]), subject |-> Logs[2][i]]], nextOid)
    BY <1>1, <2>1, <2>2
  <2> QED BY <1>3, <2>3, <2>4
<1>6. ~ Busy
  BY <1>2 DEF Busy
<1>7. RewordTypes
  BY <1>2, <1>3, <1>4, <1>5, <1>6 DEF RewordTypes
<1> QED BY <1>2, <1>6, <1>7 DEF RewordInv, ShownIsLog, PlaceIsKept

\* Whatever is selected, typed, loaded or switched while the rewrite runs, the load
\* that ends it in useRepositoryOverview.ts selects the reworded commit under its new
\* oid, unless somebody else wrote to the repository or the commit was not listed.
THEOREM RewordIsFollowed == RewordSpec => SelectionFollowsReword
<1> DEFINE Follows ==
      Busy /\ reword' # NoReword /\ shownLog' # shownLog
          /\ reword.phase = "reloading" /\ reword'.phase = "answered" /\ repoOn' = repoOn
       => \/ chosen' = reword.oid \/ reword.index = 0
          \/ \E i \in DOMAIN shownLog' : shownLog'[i].subject = "outside"
<1>1. ASSUME RewordInv, RewordNext PROVE Follows
  <2>1. CASE RewordReloads
    <3> DEFINE entries == logs[repoOn]
    <3>1. /\ Busy /\ reword.phase = "reloading" /\ reword.repo = repoOn /\ shownLog' = entries
          /\ SelectLoaded(ChosenIn(entries, pendingSelection, TRUE))
      BY <2>1 DEF RewordReloads, MessageShown
    <3>2. CASE ~ (reword.index > 0)
      BY <1>1, <3>1, <3>2 DEF RewordInv, RewordTypes
    <3>3. CASE Outside(entries, {})
      BY <3>1, <3>3 DEF Outside
    <3>4. CASE /\ reword.index > 0 /\ reword.index \in DOMAIN entries
               /\ pendingSelection = [index |-> reword.index, subject |-> reword.text]
               /\ entries[reword.index] = [oid |-> reword.oid, subject |-> reword.text]
      <4>1. pendingSelection # NoSelection
        <5>1. reword.index \in Nat /\ pendingSelection.index = reword.index /\ NoSelection.index = 0
          BY <1>1, <3>1, <3>4 DEF RewordInv, RewordTypes, NoSelection
        <5> QED BY <3>4, <5>1
      <4>2. Rewritten0(entries, pendingSelection) = reword.index
        BY <3>4, <4>1 DEF Rewritten0
      <4>3. ChosenIn(entries, pendingSelection, TRUE) = reword.oid
        BY <3>4, <4>2 DEF ChosenIn
      <4> QED BY <3>1, <4>3 DEF SelectLoaded, SelectOid
    <3> QED BY <1>1, <3>1, <3>2, <3>3, <3>4 DEF RewordInv, PlaceIsKept
  <2>2. CASE ~ RewordReloads /\ shownLog' # shownLog /\ Busy
    <3>1. SwitchRepository
      BY <1>1, <2>2 DEF RewordNext, PickCommit, PanelLoads, StartReword, ClickMessage, TypeWording,
             CancelReword, SubmitReword, RewordDone, RewordFails, RewordAnswers, SilentLoad,
             OutsideCommit
    <3>2. repoOn' # repoOn
      BY <3>1 DEF SwitchRepository
    <3> QED BY <3>2
  <2> QED BY <2>1, <2>2
<1>2. RewordInv /\ [RewordNext]_rewordVars => [Follows]_rewordVars
  BY <1>1
<1>3. RewordInv /\ [RewordNext]_rewordVars => RewordInv'
  BY RewordStepHolds
<1> QED BY <1>2, <1>3, RewordStart, PTL DEF RewordSpec, SelectionFollowsReword
-----------------------------------------------------------------------------
(***************************************************************************)
(* The lanes of the graph.                                                 *)
(***************************************************************************)
\* The first of a set of lanes or rows, and the last of a set that has a bound.
LEMMA SmallestOf ==
    ASSUME NEW T, T \subseteq Nat, T # {}
    PROVE  Smallest(T) \in T /\ \A y \in T : Smallest(T) <= y
<1>1. \E x \in T : \A y \in T : x <= y
  BY LeastNatural
<1> QED BY <1>1 DEF Smallest

LEMMA LargestOf ==
    ASSUME NEW T, T \subseteq Nat, T # {}, NEW n \in Nat, \A y \in T : y <= n
    PROVE  Largest(T) \in T /\ \A y \in T : Largest(T) >= y
<1> DEFINE Gap == {n - y : y \in T}
<1>1. Gap \subseteq Nat /\ Gap # {}
  OBVIOUS
<1>2. PICK g \in Gap : \A h \in Gap : g <= h
  BY <1>1, LeastNatural
<1>3. PICK x \in T : g = n - x
  OBVIOUS
<1>4. \A y \in T : y <= x
  BY <1>2, <1>3
<1>5. \E z \in T : \A y \in T : z >= y
  <2>1. \A y \in T : x >= y
    BY <1>4
  <2> QED BY <2>1
<1> QED BY <1>5 DEF Largest

\* What holds of every number before the first where it fails.
LEMMA NoneFails ==
    ASSUME NEW n \in Nat, NEW Bad, Bad \subseteq 0..n, 0 \notin Bad,
           \A i \in 1..n : i - 1 \notin Bad => i \notin Bad
    PROVE  Bad = {}
<1>1. ASSUME Bad # {} PROVE FALSE
  <2>1. PICK x \in Bad : \A y \in Bad : x <= y
    <3>1. Bad \subseteq Nat
      OBVIOUS
    <3> QED BY <1>1, <3>1, LeastNatural
  <2>2. x \in 1..n /\ x - 1 \notin Bad
    BY <2>1
  <2> QED BY <2>2
<1> QED BY <1>1

\* The logs of one row more, and those of every number of rows up to n.
OneRowMore(stashes, before, row) ==
    {Append(rows, list) : rows \in before, list \in ParentLists(row, stashes)}

LogsOf(stashes, n, f) ==
    f = [row \in 0..n |-> IF row = 0 THEN {<<>>} ELSE OneRowMore(stashes, f[row - 1], row)]

LEMMA LogsExist ==
    ASSUME NEW stashes, NEW n \in Nat
    PROVE  \E f : LogsOf(stashes, n, f)
<1> DEFINE Bad == {i \in 0..n : ~ \E f : LogsOf(stashes, i, f)}
<1>1. 0 \notin Bad
  <2>1. LogsOf(stashes, 0, [row \in 0..0 |-> {<<>>}])
    BY DEF LogsOf
  <2> QED BY <2>1
<1>2. ASSUME NEW i \in 1..n, i - 1 \notin Bad PROVE i \notin Bad
  <2>1. PICK g : LogsOf(stashes, i - 1, g)
    BY <1>2
  <2> HIDE DEF Bad
  <2> DEFINE h == [k \in 0..i |-> IF k < i THEN g[k] ELSE OneRowMore(stashes, g[i - 1], i)]
  <2>2. ASSUME NEW k \in 0..i
        PROVE  h[k] = IF k = 0 THEN {<<>>} ELSE OneRowMore(stashes, h[k - 1], k)
    <3>1. CASE k = i
      <4>1. h[k] = OneRowMore(stashes, g[i - 1], i) /\ h[k - 1] = g[i - 1]
        BY <3>1
      <4> QED BY <3>1, <4>1
    <3>2. CASE k < i /\ k = 0
      <4>1. h[k] = g[k]
        BY <3>2
      <4>2. g[0] = {<<>>}
        <5> HIDE DEF h
        <5>1. 0 \in 0..(i - 1)
          OBVIOUS
        <5> QED BY <2>1, <5>1 DEF LogsOf
      <4> QED BY <3>2, <4>1, <4>2
    <3>3. CASE k < i /\ k # 0
      <4>1. h[k] = g[k] /\ h[k - 1] = g[k - 1]
        BY <3>3
      <4>2. g[k] = OneRowMore(stashes, g[k - 1], k)
        <5> HIDE DEF h
        <5>1. k \in 0..(i - 1)
          BY <3>3
        <5> QED BY <2>1, <3>3, <5>1 DEF LogsOf
      <4> QED BY <3>3, <4>1, <4>2
    <3> HIDE DEF h
    <3> QED BY <3>1, <3>2, <3>3
  <2>3. h = [k \in 0..i |-> h[k]]
    OBVIOUS
  <2> HIDE DEF h
  <2>4. LogsOf(stashes, i, h)
    BY <2>2, <2>3 DEF LogsOf
  <2> QED BY <2>4 DEF Bad
<1>3. Bad \subseteq 0..n /\ n \in 0..n
  OBVIOUS
<1> HIDE DEF Bad
<1>4. Bad = {}
  BY <1>1, <1>2, <1>3, NoneFails
<1> QED BY <1>3, <1>4 DEF Bad

\* What a row may list: at most two parents, both of them rows further down.
LEMMA ListFits ==
    ASSUME NEW stashes, NEW row, NEW list \in ParentLists(row, stashes)
    PROVE  /\ list \in Seq(Rows) /\ Len(list) \in 0..2
           /\ \A i \in 1..Len(list) : list[i] > row
           /\ Len(list) = 2 => list[1] # list[2]
           /\ row \in stashes => Len(list) = 1
           /\ \A i \in 1..Len(list) : list[i] \notin stashes
<1> DEFINE below == {p \in Rows : p > row} \ stashes
<1>1. \A p \in below : p \in Rows /\ p > row /\ p \notin stashes
  OBVIOUS
<1>2. CASE row \in stashes
  <2>1. PICK p \in below : list = <<p>>
    BY <1>2 DEF ParentLists
  <2> HIDE DEF below
  <2> QED BY <1>1, <2>1
<1>3. CASE row \notin stashes
  <2>1. \/ list = <<>>
        \/ \E p \in below : list = <<p>>
        \/ \E p, q \in below : list = <<p, q>> /\ list \notin {<<r, r>> : r \in below}
    BY <1>3 DEF ParentLists
  <2> HIDE DEF below
  <2>2. CASE list = <<>>
    BY <1>3, <2>2
  <2>3. CASE \E p \in below : list = <<p>>
    <3>1. PICK p \in below : list = <<p>>
      BY <2>3
    <3> QED BY <1>1, <1>3, <3>1
  <2>4. CASE \E p, q \in below : list = <<p, q>> /\ list \notin {<<r, r>> : r \in below}
    <3>1. PICK p \in below, q \in below :
            list = <<p, q>> /\ list \notin {<<r, r>> : r \in below}
      BY <2>4
    <3>2. p # q
      BY <3>1
    <3>3. p \in Rows /\ q \in Rows /\ p > row /\ q > row /\ p \notin stashes /\ q \notin stashes
      BY <1>1
    <3>4. list \in Seq(Rows) /\ Len(list) = 2 /\ list[1] = p /\ list[2] = q
      BY <3>1, <3>3
    <3> QED BY <1>3, <3>2, <3>3, <3>4
  <2> QED BY <2>1, <2>2, <2>3, <2>4
<1> QED BY <1>2, <1>3

\* Every row of a log lists parents it may list.
LEMMA RowsFit ==
    ASSUME NEW stashes, NEW rows \in ParentsOfRows(stashes)
    PROVE  \A row \in Rows : rows[row] \in ParentLists(row, stashes)
<1> DEFINE f == CHOOSE f : LogsOf(stashes, RowCount, f)
           Fits(i, s) == /\ s \in Seq(Seq(Rows)) /\ Len(s) = i
                         /\ \A j \in 1..i : s[j] \in ParentLists(j, stashes)
           Bad == {i \in 0..RowCount : ~ \A s \in f[i] : Fits(i, s)}
<1>1. RowCount \in Nat
  BY GraphAssumption
<1>2. LogsOf(stashes, RowCount, f)
  BY <1>1, LogsExist
<1>3. rows \in f[RowCount]
  BY DEF ParentsOfRows, LogsOf, OneRowMore
<1> HIDE DEF f
<1>4. 0 \notin Bad
  <2>1. f[0] = {<<>>}
    <3>1. 0 \in 0..RowCount
      BY <1>1
    <3> HIDE DEF Bad
    <3> QED BY <1>2, <3>1 DEF LogsOf
  <2>2. Fits(0, <<>>)
    OBVIOUS
  <2> QED BY <2>1, <2>2
<1>5. ASSUME NEW i \in 1..RowCount, i - 1 \notin Bad PROVE i \notin Bad
  <2>1. f[i] = OneRowMore(stashes, f[i - 1], i)
    <3>1. i \in 0..RowCount /\ i # 0
      BY <1>1
    <3> HIDE DEF Bad
    <3> QED BY <1>2, <3>1 DEF LogsOf
  <2>2. ASSUME NEW s \in f[i] PROVE Fits(i, s)
    <3>1. PICK before \in f[i - 1], list \in ParentLists(i, stashes) : s = Append(before, list)
      BY <2>1, <2>2 DEF OneRowMore
    <3>2. Fits(i - 1, before)
      <4>1. i - 1 \in 0..RowCount
        BY <1>1
      <4> HIDE DEF Fits
      <4> QED BY <1>5, <3>1, <4>1
    <3>3. list \in Seq(Rows)
      BY <3>1, ListFits
    <3>4. s \in Seq(Seq(Rows)) /\ Len(s) = i
      BY <3>1, <3>2, <3>3
    <3>5. ASSUME NEW j \in 1..i PROVE s[j] \in ParentLists(j, stashes)
      <4>1. CASE j = i
        <5>1. s[j] = list
          BY <3>1, <3>2, <3>3, <4>1
        <5> QED BY <3>1, <4>1, <5>1
      <4>2. CASE j < i
        <5>1. s[j] = before[j] /\ j \in 1..(i - 1)
          BY <3>1, <3>2, <3>3, <4>2
        <5> QED BY <3>2, <5>1
      <4> QED BY <4>1, <4>2
    <3> QED BY <3>4, <3>5
  <2> HIDE DEF Fits
  <2> QED BY <2>2
<1>6. Bad \subseteq 0..RowCount
  OBVIOUS
<1> HIDE DEF Bad
<1>7. Bad = {}
  BY <1>1, <1>4, <1>5, <1>6, NoneFails
<1>8. Fits(RowCount, rows)
  <2> HIDE DEF Fits
  <2> QED BY <1>1, <1>3, <1>7 DEF Bad
<1> QED BY <1>8 DEF Rows

LEMMA LogFits ==
    ASSUME log \in Histories
    PROVE  /\ log.stashes \subseteq StashRows /\ log.head \in Rows \ log.stashes
           /\ log.changes \in BOOLEAN
           /\ \A row \in Rows : log.parents[row] \in ParentLists(row, log.stashes)
<1>1. PICK stashes \in SUBSET StashRows :
        log \in [parents : ParentsOfRows(stashes), stashes : {stashes},
                 head : Rows \ stashes, changes : BOOLEAN]
  BY DEF Histories
<1>2. /\ log.parents \in ParentsOfRows(stashes) /\ log.stashes = stashes
      /\ log.head \in Rows \ stashes /\ log.changes \in BOOLEAN
  BY <1>1
<1>3. \A row \in Rows : log.parents[row] \in ParentLists(row, stashes)
  BY <1>2, RowsFit
<1> QED BY <1>2, <1>3

-----------------------------------------------------------------------------
\* A row whose line goes down to a first parent; a stash hangs off its base.
HasLine(row) == ~IsStash(row) /\ log.parents[row] # <<>>
FirstParent(row) == log.parents[row][1]

LEMMA ParentsFit ==
    ASSUME log \in Histories, NEW row \in Rows
    PROVE  /\ Len(log.parents[row]) \in 0..2
           /\ DOMAIN log.parents[row] = 1..Len(log.parents[row])
           /\ \A i \in 1..Len(log.parents[row]) :
                 /\ log.parents[row][i] \in Rows /\ log.parents[row][i] > row
                 /\ ~IsStash(log.parents[row][i])
           /\ Len(log.parents[row]) = 2 => log.parents[row][1] # log.parents[row][2]
           /\ IsStash(row) => Len(log.parents[row]) = 1
           /\ HasLine(row) => Len(log.parents[row]) \in 1..2
           /\ WipHead = row => ~IsStash(row)
           /\ WipHead \in 0..RowCount
<1>1. log.parents[row] \in ParentLists(row, log.stashes)
  BY LogFits
<1>2. /\ log.parents[row] \in Seq(Rows) /\ Len(log.parents[row]) \in 0..2
      /\ \A i \in 1..Len(log.parents[row]) : log.parents[row][i] > row
      /\ Len(log.parents[row]) = 2 => log.parents[row][1] # log.parents[row][2]
      /\ row \in log.stashes => Len(log.parents[row]) = 1
      /\ \A i \in 1..Len(log.parents[row]) : log.parents[row][i] \notin log.stashes
  BY <1>1, ListFits
<1>3. log.parents[row] # <<>> => Len(log.parents[row]) # 0
  BY <1>2
<1>4. WipHead \in 0..RowCount /\ (WipHead = row => ~IsStash(row))
  BY LogFits, GraphAssumption DEF WipHead, IsStash, NoCommit, Rows
<1> QED BY <1>2, <1>3, <1>4 DEF HasLine, IsStash

\* The lanes that wait for a commit all lie at or left of a bound.
LowBy(hs, bound) == \A l \in Lanes : hs[l] # NoCommit => l <= bound

LEMMA FirstOpenIs ==
    ASSUME NEW hs, NEW bound \in Nat, NEW floor \in Nat, LowBy(hs, bound),
           bound + 1 <= MaxLane, floor <= bound + 1
    PROVE  /\ FirstOpen(hs, floor) \in Lanes /\ FirstOpen(hs, floor) >= floor
           /\ FirstOpen(hs, floor) <= bound + 1 /\ hs[FirstOpen(hs, floor)] = NoCommit
<1> DEFINE open == {l \in Lanes : l >= floor /\ hs[l] = NoCommit}
<1>1. bound + 1 \in Lanes /\ open \subseteq Nat
  BY GraphAssumption DEF Lanes, MaxLane
<1>2. bound + 1 \in open
  BY <1>1 DEF LowBy
<1>3. Smallest(open) \in open /\ Smallest(open) <= bound + 1
  <2> HIDE DEF open
  <2> QED BY <1>1, <1>2, SmallestOf
<1> QED BY <1>3 DEF FirstOpen

LEMMA FirstClaimIs ==
    ASSUME NEW hs, NEW commit
    PROVE  /\ \/ FirstClaim(hs, commit) = NoLane
              \/ FirstClaim(hs, commit) \in Lanes /\ hs[FirstClaim(hs, commit)] = commit
           /\ FirstClaim(hs, commit) = NoLane => Claims(hs, commit) = {}
           /\ \A l \in Lanes : hs[l] = commit =>
                 FirstClaim(hs, commit) # NoLane /\ FirstClaim(hs, commit) <= l
<1>1. Claims(hs, commit) \subseteq Nat /\ NoLane \notin Nat
  BY DEF Claims, Lanes, NoLane
<1>2. CASE Claims(hs, commit) # {}
  <2>1. /\ Smallest(Claims(hs, commit)) \in Claims(hs, commit)
        /\ \A l \in Claims(hs, commit) : Smallest(Claims(hs, commit)) <= l
    BY <1>1, <1>2, SmallestOf
  <2>2. FirstClaim(hs, commit) = Smallest(Claims(hs, commit))
    BY <1>2 DEF FirstClaim
  <2>3. FirstClaim(hs, commit) # NoLane
    BY <1>1, <2>1, <2>2
  <2> QED BY <2>1, <2>2, <2>3 DEF Claims
<1>3. CASE Claims(hs, commit) = {}
  BY <1>3 DEF FirstClaim, Claims
<1> QED BY <1>2, <1>3

\* What the loop over the parents carries.
IsPlacing(s) ==
    /\ s.heads \in [Lanes -> 0 .. RowCount]
    /\ s.reserved \in [Rows -> {NoLane} \cup Lanes]
    /\ s.parentLane \in [Rows -> {NoLane} \cup Lanes]

\* One parent: no waiting lane loses its commit; the lane of the row waits for
\* its first parent, unless that is drawn further left; at most one lane opens.
LEMMA PlacesOne ==
    ASSUME log \in Histories, NEW row \in Rows, NEW at \in Lanes, NEW s, IsPlacing(s),
           NEW i \in 1 .. Len(log.parents[row]), NEW bound \in Nat,
           LowBy(s.heads, bound), bound + 1 <= MaxLane, at <= bound,
           WipHead = row /\ i = 1 => s.heads[at] = NoCommit,
           NEW q, q = PlaceParent(row, at, s, i)
    PROVE  /\ IsPlacing(q)
           /\ \A l \in Lanes : s.heads[l] # NoCommit => q.heads[l] = s.heads[l]
           /\ i > 1 => q.heads[at] = s.heads[at]
           /\ \A p \in Rows \ {log.parents[row][i]} : q.parentLane[p] = s.parentLane[p]
           /\ \A p \in Rows : (\E l \in Lanes : s.heads[l] = p) => q.reserved[p] = s.reserved[p]
           /\ LowBy(q.heads, bound + 1)
           /\ i = 1 /\ ~IsStash(row) /\ s.heads[at] = NoCommit =>
                 /\ LowBy(q.heads, bound)
                 /\ \/ q.heads[at] = log.parents[row][1]
                    \/ q.heads[at] = NoCommit /\ q.parentLane[log.parents[row][1]] < at
           /\ (WipHead = row /\ i = 1 => at = 0) =>
                 \A l \in Lanes : s.heads[l] = log.parents[row][i] =>
                     q.parentLane[log.parents[row][i]] <= l
           /\ \A p \in Rows : q.reserved[p] # s.reserved[p] =>
                 /\ i > 1 /\ p = log.parents[row][i]
                 /\ q.reserved[p] \in Lanes /\ q.heads[q.reserved[p]] = p
<1> DEFINE parent == log.parents[row][i]
           claimed == FirstClaim(s.heads, parent)
           mergeLane == s.reserved[parent]
           keeps == /\ i = 1
                    /\ \/ WipHead = row
                       \/ /\ ~IsStash(row)
                          /\ s.heads[at] = NoCommit
                          /\ mergeLane # claimed
                          /\ claimed # NoLane /\ at < claimed
           target == IF keeps THEN at
                     ELSE IF claimed # NoLane THEN claimed
                     ELSE IF i > 1 THEN FirstOpen(s.heads, at + 1)
                     ELSE IF ~IsStash(row) /\ s.heads[at] = NoCommit THEN at
                     ELSE FirstOpen(s.heads, 0)
           opens == keeps \/ claimed = NoLane
           placed == IF opens THEN [s.heads EXCEPT ![target] = parent] ELSE s.heads
           stepsOut == /\ i = 1 /\ ~IsStash(row)
                       /\ target > at /\ mergeLane = target
                       /\ placed[at] = NoCommit
           final == IF stepsOut THEN [placed EXCEPT ![at] = parent] ELSE placed
<1>1. parent \in Rows /\ parent \in 1..RowCount /\ parent # NoCommit /\ i \in 1..2
      /\ (i = 1 /\ WipHead = row => ~IsStash(row))
  <2>1. /\ Len(log.parents[row]) \in 0..2 /\ parent \in Rows
        /\ (WipHead = row => ~IsStash(row))
    BY ParentsFit
  <2>2. i \in 1..2
    BY <2>1
  <2> HIDE DEF parent
  <2> QED BY <2>1, <2>2, GraphAssumption DEF Rows, NoCommit
<1>2. claimed = NoLane \/ (claimed \in Lanes /\ s.heads[claimed] = parent)
  BY FirstClaimIs
<1>3. /\ FirstOpen(s.heads, 0) \in Lanes /\ FirstOpen(s.heads, 0) <= bound + 1
      /\ s.heads[FirstOpen(s.heads, 0)] = NoCommit
  BY FirstOpenIs
<1>4. /\ FirstOpen(s.heads, at + 1) \in Lanes /\ FirstOpen(s.heads, at + 1) > at
      /\ FirstOpen(s.heads, at + 1) <= bound + 1
      /\ s.heads[FirstOpen(s.heads, at + 1)] = NoCommit
  <2>1. at + 1 \in Nat /\ at + 1 <= bound + 1 /\ at \in Nat
    BY DEF Lanes
  <2>2. /\ FirstOpen(s.heads, at + 1) \in Lanes /\ FirstOpen(s.heads, at + 1) >= at + 1
        /\ FirstOpen(s.heads, at + 1) <= bound + 1
        /\ s.heads[FirstOpen(s.heads, at + 1)] = NoCommit
    BY <2>1, FirstOpenIs
  <2> QED BY <2>1, <2>2 DEF Lanes
<1>5. /\ q.heads = final /\ q.parentLane = [s.parentLane EXCEPT ![parent] = target]
      /\ q.reserved = IF ~keeps /\ claimed = NoLane /\ i > 1
                      THEN [s.reserved EXCEPT ![parent] = target] ELSE s.reserved
  BY DEF PlaceParent
<1> HIDE DEF parent, claimed, mergeLane
<1>6. target \in Lanes /\ target \in Nat /\ at \in Nat
  BY <1>2, <1>3, <1>4 DEF Lanes
<1>7. keeps => i = 1 /\ s.heads[at] = NoCommit /\ ~IsStash(row)
  BY <1>1
<1>8. opens => s.heads[target] = NoCommit /\ target <= bound + 1
  BY <1>3, <1>4, <1>6, <1>7
<1>9. i > 1 => (target # at \/ ~opens)
  BY <1>4, <1>7, <1>6
<1>10. /\ placed \in [Lanes -> 0 .. RowCount]
       /\ \A l \in Lanes : placed[l] = IF opens /\ l = target THEN parent ELSE s.heads[l]
  <2> HIDE DEF keeps, target, opens
  <2> QED BY <1>1, <1>6 DEF IsPlacing
<1>11. /\ final \in [Lanes -> 0 .. RowCount]
       /\ \A l \in Lanes : final[l] = IF stepsOut /\ l = at THEN parent ELSE placed[l]
  <2> HIDE DEF keeps, target, opens, placed, stepsOut
  <2> QED BY <1>1, <1>10
<1>12. stepsOut => i = 1 /\ ~IsStash(row) /\ target > at /\ placed[at] = NoCommit
  OBVIOUS
<1> HIDE DEF placed, stepsOut, final
<1>19. /\ q.heads[at] = IF stepsOut THEN parent ELSE placed[at]
       /\ placed[at] = IF opens /\ at = target THEN parent ELSE s.heads[at]
  <2> HIDE DEF keeps, target, opens
  <2> QED BY <1>5, <1>10, <1>11
<1>13. IsPlacing(q)
  <2> HIDE DEF keeps, target, opens
  <2> QED BY <1>1, <1>5, <1>6, <1>11 DEF IsPlacing
<1>14. \A l \in Lanes : s.heads[l] # NoCommit => q.heads[l] = s.heads[l]
  <2> HIDE DEF keeps, target, opens
  <2> QED BY <1>5, <1>8, <1>10, <1>11, <1>12
<1>15. i > 1 => q.heads[at] = s.heads[at]
  <2> HIDE DEF keeps, target, opens
  <2> QED BY <1>1, <1>5, <1>9, <1>10, <1>11, <1>12
<1>16. \A p \in Rows \ {parent} : q.parentLane[p] = s.parentLane[p]
  <2> HIDE DEF keeps, target, opens
  <2> QED BY <1>5 DEF IsPlacing
<1>17. LowBy(q.heads, bound + 1)
  <2>1. ASSUME NEW l \in Lanes, q.heads[l] # NoCommit PROVE l <= bound + 1
    <3>1. s.heads[l] # NoCommit => l <= bound
      BY DEF LowBy
    <3>2. l \in Nat
      BY DEF Lanes
    <3> HIDE DEF keeps, target, opens
    <3> QED BY <1>5, <1>6, <1>8, <1>10, <1>11, <2>1, <3>1, <3>2
  <2> QED BY <2>1 DEF LowBy
<1>18. ASSUME i = 1, ~IsStash(row), s.heads[at] = NoCommit
       PROVE  /\ LowBy(q.heads, bound)
              /\ \/ q.heads[at] = parent
                 \/ q.heads[at] = NoCommit /\ q.parentLane[parent] < at
  <2>1. opens => target = at
    BY <1>18
  <2>2. ASSUME NEW l \in Lanes, q.heads[l] # NoCommit PROVE l <= bound
    <3>1. s.heads[l] # NoCommit => l <= bound
      BY DEF LowBy
    <3> HIDE DEF keeps, target, opens
    <3> QED BY <1>5, <1>10, <1>11, <2>1, <2>2, <3>1
  <2>3. q.parentLane[parent] = target
    <3> HIDE DEF keeps, target, opens
    <3> QED BY <1>1, <1>5 DEF IsPlacing
  <2>6. LowBy(q.heads, bound)
    BY <2>2 DEF LowBy
  <2>4. CASE opens
    <3> HIDE DEF keeps, target, opens
    <3> QED BY <1>19, <2>1, <2>4, <2>6
  <2>5. CASE ~opens
    <3>1. claimed # NoLane /\ ~keeps /\ target = claimed
      BY <2>5
    <3>2. claimed \in Lanes /\ s.heads[claimed] = parent /\ claimed \in Nat /\ claimed # at
      BY <1>1, <1>2, <1>18, <3>1 DEF Lanes
    <3>3. placed[at] = NoCommit
      <4> HIDE DEF keeps, target, opens
      <4> QED BY <1>10, <1>18, <2>5
    <3>4. CASE claimed < at
      <4>1. ~stepsOut
        BY <1>6, <1>12, <3>1, <3>2, <3>4
      <4> HIDE DEF keeps, target, opens
      <4> QED BY <1>19, <2>3, <2>6, <3>1, <3>3, <3>4, <4>1
    <3>5. CASE at < claimed
      <4>1. mergeLane = claimed
        BY <1>18, <3>1, <3>5
      <4>2. stepsOut
        BY <1>18, <3>1, <3>2, <3>3, <3>5, <4>1 DEF stepsOut
      <4> QED BY <1>19, <2>6, <4>2
    <3> QED BY <1>6, <3>2, <3>4, <3>5
  <2> QED BY <2>4, <2>5
<1>20. \A p \in Rows : (\E l \in Lanes : s.heads[l] = p) => q.reserved[p] = s.reserved[p]
  <2>1. claimed = NoLane => \A l \in Lanes : s.heads[l] # parent
    <3>1. claimed = NoLane => Claims(s.heads, parent) = {}
      BY FirstClaimIs DEF claimed
    <3> QED BY <3>1 DEF Claims
  <2> HIDE DEF keeps, target, opens
  <2> QED BY <1>5, <2>1 DEF IsPlacing
<1>21. ASSUME WipHead = row /\ i = 1 => at = 0, NEW l \in Lanes, s.heads[l] = parent
       PROVE  q.parentLane[parent] <= l
  <2>1. claimed # NoLane /\ claimed <= l /\ l \in Nat
    BY <1>21, FirstClaimIs DEF claimed, Lanes
  <2>2. claimed \in Nat
    BY <1>2, <2>1 DEF Lanes
  <2>3. target <= l
    <3>1. CASE keeps /\ WipHead = row
      BY <1>21, <2>1, <3>1
    <3>2. CASE keeps /\ WipHead # row
      <4>1. at < claimed /\ target = at
        BY <3>2
      <4> QED BY <1>6, <2>1, <2>2, <4>1
    <3>3. CASE ~keeps
      <4>1. target = claimed
        BY <2>1, <3>3
      <4> QED BY <2>1, <4>1
    <3> QED BY <3>1, <3>2, <3>3
  <2>4. q.parentLane[parent] = target
    <3> HIDE DEF keeps, target, opens
    <3> QED BY <1>1, <1>5 DEF IsPlacing
  <2> QED BY <2>3, <2>4
<1>22. ASSUME NEW p \in Rows, q.reserved[p] # s.reserved[p]
       PROVE  /\ i > 1 /\ p = parent
              /\ q.reserved[p] \in Lanes /\ q.heads[q.reserved[p]] = p
  <2>1. i > 1 /\ p = parent /\ ~keeps /\ claimed = NoLane /\ q.reserved[p] = target
    <3> HIDE DEF keeps, target, opens
    <3> QED BY <1>5, <1>22 DEF IsPlacing
  <2>2. opens
    BY <2>1
  <2>3. q.heads[target] = parent
    <3>1. ~stepsOut
      BY <1>1, <1>12, <2>1
    <3> HIDE DEF keeps, target, opens
    <3> QED BY <1>5, <1>6, <1>10, <1>11, <2>2, <3>1
  <2> QED BY <1>6, <2>1, <2>3
<1> HIDE DEF keeps, target, opens
<1>23. \A l \in Lanes : (WipHead = row /\ i = 1 => at = 0) /\ s.heads[l] = parent =>
          q.parentLane[parent] <= l
  BY <1>21
<1> QED BY <1>13, <1>14, <1>15, <1>16, <1>17, <1>18, <1>20, <1>22, <1>23 DEF parent

LEMMA UpToTwo ==
    ASSUME NEW n \in 0..2, NEW i \in 0..n
    PROVE  i = 0 \/ i = 1 \/ i = 2
OBVIOUS

\* The loop over at most two parents.
LEMMA LoopOverParents ==
    ASSUME NEW row, NEW at, NEW start, Len(log.parents[row]) \in 0..2
    PROVE  PlaceParents(row, at, start) =
               IF Len(log.parents[row]) = 0 THEN start
               ELSE IF Len(log.parents[row]) = 1 THEN PlaceParent(row, at, start, 1)
               ELSE PlaceParent(row, at, PlaceParent(row, at, start, 1), 2)
<1>0. PICK n, one, two : /\ n = Len(log.parents[row])
                         /\ one = PlaceParent(row, at, start, 1)
                         /\ two = PlaceParent(row, at, one, 2)
  OBVIOUS
<1> n \in 0..2
  BY <1>0
<1> DEFINE Places(f) == f = [i \in 0..n |-> IF i = 0 THEN start
                                            ELSE PlaceParent(row, at, f[i - 1], i)]
           g == [i \in 0..n |-> IF i = 0 THEN start ELSE IF i = 1 THEN one ELSE two]
           f == CHOOSE f : Places(f)
<1>1. PlaceParents(row, at, start) = f[n]
  BY <1>0 DEF PlaceParents
<1>2. Places(g)
  <2>1. ASSUME NEW i \in 0..n
        PROVE  g[i] = IF i = 0 THEN start ELSE PlaceParent(row, at, g[i - 1], i)
    <3>1. i = 0 \/ i = 1 \/ i = 2
      BY UpToTwo
    <3>2. CASE i = 0
      BY <3>2
    <3>3. CASE i = 1
      <4>1. g[1] = one /\ g[0] = start
        BY <3>3
      <4> QED BY <1>0, <3>3, <4>1
    <3>4. CASE i = 2
      <4>1. g[2] = two /\ g[1] = one
        BY <3>4
      <4> QED BY <1>0, <3>4, <4>1
    <3> QED BY <3>1, <3>2, <3>3, <3>4
  <2>2. g = [i \in 0..n |-> g[i]]
    OBVIOUS
  <2> HIDE DEF g
  <2> QED BY <2>1, <2>2
<1>3. Places(f)
  <2> HIDE DEF g, Places
  <2> QED BY <1>2
<1>4. /\ f[0] = start
      /\ 1 \in 0..n => f[1] = PlaceParent(row, at, f[0], 1)
      /\ 2 \in 0..n => f[2] = PlaceParent(row, at, f[1], 2)
  <2>1. \A i \in 0..n : f[i] = IF i = 0 THEN start ELSE PlaceParent(row, at, f[i - 1], i)
    <3> HIDE DEF f
    <3> QED BY <1>3
  <2>2. 0 \in 0..n
    OBVIOUS
  <2> HIDE DEF f
  <2>3. 1 \in 0..n => f[1] = PlaceParent(row, at, f[1 - 1], 1)
    BY <2>1
  <2>4. 2 \in 0..n => f[2] = PlaceParent(row, at, f[2 - 1], 2)
    BY <2>1
  <2> QED BY <2>1, <2>2, <2>3, <2>4
<1>5. n = 0 \/ n = 1 \/ n = 2
  BY UpToTwo
<1> HIDE DEF f
<1>6. CASE n = 0
  BY <1>0, <1>1, <1>4, <1>6
<1>7. CASE n = 1
  BY <1>0, <1>1, <1>4, <1>7
<1>8. CASE n = 2
  BY <1>0, <1>1, <1>4, <1>8
<1> QED BY <1>5, <1>6, <1>7, <1>8

LEMMA PlacesAll ==
    ASSUME log \in Histories, NEW row \in Rows, NEW at \in Lanes, NEW s, IsPlacing(s),
           NEW bound \in Nat, LowBy(s.heads, bound), bound + 1 <= MaxLane, at <= bound,
           ~IsStash(row) => s.heads[at] = NoCommit,
           NEW q, q = PlaceParents(row, at, s)
    PROVE  /\ IsPlacing(q) /\ LowBy(q.heads, bound + 1)
           /\ \A l \in Lanes : s.heads[l] # NoCommit => q.heads[l] = s.heads[l]
           /\ HasLine(row) =>
                 \/ q.heads[at] = FirstParent(row)
                 \/ q.heads[at] = NoCommit /\ q.parentLane[FirstParent(row)] < at
           /\ \A p \in Rows : (\E l \in Lanes : s.heads[l] = p) => q.reserved[p] = s.reserved[p]
           /\ (WipHead = row => at = 0) =>
                 \A i \in 1 .. Len(log.parents[row]), l \in Lanes :
                     s.heads[l] = log.parents[row][i] => q.parentLane[log.parents[row][i]] <= l
           /\ \A p \in Rows : (\A i \in 1 .. Len(log.parents[row]) : log.parents[row][i] # p) =>
                 q.parentLane[p] = s.parentLane[p]
           /\ \A p \in Rows : q.reserved[p] # s.reserved[p] =>
                 /\ Len(log.parents[row]) = 2 /\ p = log.parents[row][2]
                 /\ q.reserved[p] \in Lanes /\ q.heads[q.reserved[p]] = p
<1>0. PICK n : n = Len(log.parents[row])
  OBVIOUS
<1>1. /\ n \in 0..2 /\ (n = 2 => log.parents[row][1] # log.parents[row][2])
      /\ (IsStash(row) => n = 1) /\ (HasLine(row) => n \in 1..2 /\ ~IsStash(row))
      /\ (WipHead = row => ~IsStash(row))
      /\ \A i \in 1..n : log.parents[row][i] \in Rows
  BY <1>0, ParentsFit DEF HasLine
<1>2. PICK one : one = PlaceParent(row, at, s, 1)
  OBVIOUS
<1>3. PICK two : two = PlaceParent(row, at, one, 2)
  OBVIOUS
<1>4. q = IF n = 0 THEN s ELSE IF n = 1 THEN one ELSE two
  BY <1>0, <1>1, <1>2, <1>3, LoopOverParents
<1>5. LowBy(s.heads, bound + 1)
  <2>1. \A l \in Lanes : l <= bound => l <= bound + 1
    BY DEF Lanes
  <2> QED BY <2>1 DEF LowBy
<1>6. CASE n = 0
  BY <1>0, <1>1, <1>4, <1>5, <1>6
<1>7. ASSUME n # 0
      PROVE  /\ IsPlacing(one)
             /\ \A l \in Lanes : s.heads[l] # NoCommit => one.heads[l] = s.heads[l]
             /\ \A p \in Rows : (\E l \in Lanes : s.heads[l] = p) =>
                   one.reserved[p] = s.reserved[p]
             /\ LowBy(one.heads, bound + 1)
             /\ ~IsStash(row) =>
                 /\ LowBy(one.heads, bound)
                 /\ \/ one.heads[at] = log.parents[row][1]
                    \/ one.heads[at] = NoCommit /\ one.parentLane[log.parents[row][1]] < at
             /\ (WipHead = row => at = 0) =>
                   \A l \in Lanes : s.heads[l] = log.parents[row][1] =>
                       one.parentLane[log.parents[row][1]] <= l
             /\ \A p \in Rows \ {log.parents[row][1]} : one.parentLane[p] = s.parentLane[p]
             /\ one.reserved = s.reserved
  <2>1. 1 \in 1..Len(log.parents[row])
    BY <1>0, <1>1, <1>7
  <2>2. WipHead = row /\ 1 = 1 => s.heads[at] = NoCommit
    BY <1>1
  <2>3. /\ IsPlacing(one)
        /\ \A l \in Lanes : s.heads[l] # NoCommit => one.heads[l] = s.heads[l]
        /\ \A p \in Rows : (\E l \in Lanes : s.heads[l] = p) => one.reserved[p] = s.reserved[p]
        /\ LowBy(one.heads, bound + 1)
        /\ 1 = 1 /\ ~IsStash(row) /\ s.heads[at] = NoCommit =>
                 /\ LowBy(one.heads, bound)
                 /\ \/ one.heads[at] = log.parents[row][1]
                    \/ one.heads[at] = NoCommit /\ one.parentLane[log.parents[row][1]] < at
        /\ (WipHead = row /\ 1 = 1 => at = 0) =>
                 \A l \in Lanes : s.heads[l] = log.parents[row][1] =>
                     one.parentLane[log.parents[row][1]] <= l
        /\ \A p \in Rows \ {log.parents[row][1]} : one.parentLane[p] = s.parentLane[p]
        /\ \A p \in Rows : one.reserved[p] # s.reserved[p] => 1 > 1
    BY <1>2, <2>1, <2>2, PlacesOne
  <2>4. one.reserved = s.reserved
    <3>1. \A p \in Rows : one.reserved[p] = s.reserved[p]
      BY <2>3
    <3> QED BY <2>3, <3>1 DEF IsPlacing
  <2> QED BY <2>3, <2>4
<1>8. CASE n = 1
  <2>1. q = one /\ \A i \in 1..n : i = 1
    BY <1>4, <1>8
  <2>2. \A p \in Rows : q.reserved[p] = s.reserved[p]
    BY <1>7, <1>8, <2>1
  <2>3. (WipHead = row => at = 0) =>
            \A i \in 1..n, l \in Lanes :
               s.heads[l] = log.parents[row][i] => q.parentLane[log.parents[row][i]] <= l
    BY <1>7, <1>8, <2>1
  <2>4. \A p \in Rows : (\A i \in 1..n : log.parents[row][i] # p) =>
            q.parentLane[p] = s.parentLane[p]
    <3>1. 1 \in 1..n
      BY <1>8
    <3> QED BY <1>7, <1>8, <2>1, <3>1
  <2> QED BY <1>0, <1>1, <1>7, <1>8, <2>1, <2>2, <2>3, <2>4 DEF HasLine, FirstParent
<1>9. CASE n = 2
  <2>1. ~IsStash(row) /\ 2 \in 1..Len(log.parents[row])
    BY <1>0, <1>1, <1>9
  <2>2. IsPlacing(one) /\ LowBy(one.heads, bound)
    BY <1>7, <1>9, <2>1
  <2>3. /\ IsPlacing(two)
        /\ \A l \in Lanes : one.heads[l] # NoCommit => two.heads[l] = one.heads[l]
        /\ 2 > 1 => two.heads[at] = one.heads[at]
        /\ \A p \in Rows \ {log.parents[row][2]} : two.parentLane[p] = one.parentLane[p]
        /\ \A p \in Rows : (\E l \in Lanes : one.heads[l] = p) => two.reserved[p] = one.reserved[p]
        /\ LowBy(two.heads, bound + 1)
        /\ (WipHead = row /\ 2 = 1 => at = 0) =>
              \A l \in Lanes : one.heads[l] = log.parents[row][2] =>
                  two.parentLane[log.parents[row][2]] <= l
        /\ \A p \in Rows : two.reserved[p] # one.reserved[p] =>
              /\ 2 > 1 /\ p = log.parents[row][2]
              /\ two.reserved[p] \in Lanes /\ two.heads[two.reserved[p]] = p
    <3>1. WipHead = row /\ 2 = 1 => one.heads[at] = NoCommit
      OBVIOUS
    <3> QED BY <1>3, <2>1, <2>2, <3>1, PlacesOne, SMTT(30)
  <2>4. two.parentLane[log.parents[row][1]] = one.parentLane[log.parents[row][1]]
    BY <1>1, <1>9, <2>3
  <2>5. \/ two.heads[at] = log.parents[row][1]
        \/ two.heads[at] = NoCommit /\ two.parentLane[log.parents[row][1]] < at
    BY <1>7, <1>9, <2>1, <2>3, <2>4
  <2>6. \A l \in Lanes : s.heads[l] # NoCommit => two.heads[l] = s.heads[l]
    BY <1>7, <1>9, <2>3
  <2>7. \A p \in Rows : (\E l \in Lanes : s.heads[l] = p) => two.reserved[p] = s.reserved[p]
    <3>1. \A p \in Rows : p # NoCommit
      BY DEF Rows, NoCommit
    <3> QED BY <1>7, <1>9, <2>3, <3>1
  <2>8. q = two /\ (\A i \in 1..n : i = 1 \/ i = 2) /\ 1 \in 1..n /\ 2 \in 1..n
    BY <1>4, <1>9
  <2>9. ASSUME WipHead = row => at = 0, NEW i \in 1..n, NEW l \in Lanes,
               s.heads[l] = log.parents[row][i]
        PROVE  q.parentLane[log.parents[row][i]] <= l
    <3>1. CASE i = 1
      BY <1>7, <1>9, <2>4, <2>8, <2>9, <3>1
    <3>2. CASE i = 2
      <4>1. one.heads[l] = log.parents[row][2]
        <5>1. log.parents[row][2] \in Rows
          BY <1>1, <2>8
        <5>2. s.heads[l] # NoCommit
          BY <2>9, <3>2, <5>1 DEF Rows, NoCommit
        <5> QED BY <1>7, <1>9, <2>9, <3>2, <5>2
      <4> QED BY <2>3, <2>8, <3>2, <4>1
    <3> QED BY <2>8, <3>1, <3>2
  <2>10. \A p \in Rows : (\A i \in 1..n : log.parents[row][i] # p) =>
            q.parentLane[p] = s.parentLane[p]
    BY <1>7, <1>9, <2>3, <2>8
  <2>11. \A p \in Rows : q.reserved[p] # s.reserved[p] =>
            /\ p = log.parents[row][2]
            /\ q.reserved[p] \in Lanes /\ q.heads[q.reserved[p]] = p
    BY <1>7, <1>9, <2>3, <2>8
  <2>12. (WipHead = row => at = 0) =>
            \A i \in 1..n, l \in Lanes :
               s.heads[l] = log.parents[row][i] => q.parentLane[log.parents[row][i]] <= l
    BY <2>9
  <2> QED BY <1>0, <1>4, <1>9, <2>3, <2>5, <2>6, <2>7, <2>10, <2>11, <2>12, SMTT(60) DEF FirstParent
<1> QED BY <1>1, <1>6, <1>8, <1>9

\* The lane of a row: its own, or one on which no visible line runs.
LEMMA LaneIsChosen ==
    ASSUME heads \in [Lanes -> 0 .. RowCount], reserved \in [Rows -> {NoLane} \cup Lanes],
           materialized \subseteq Lanes, NEW row \in Rows, NEW bound \in Nat,
           LowBy(heads, bound), bound + 1 <= MaxLane, NEW at, at = LaneForCommit(row)
    PROVE  /\ at \in Lanes /\ at <= bound + 1
           /\ ~IsStash(row) => heads[at] = NoCommit \/ heads[at] = row
           /\ \A l \in materialized : heads[l] # NoCommit /\ heads[l] # row => l # at
           /\ reserved[row] = NoLane /\ heads[0] = row => at = 0
<1>1. row # NoCommit /\ bound + 1 \in Lanes /\ \A l \in Lanes : l \in Nat
  BY GraphAssumption DEF Rows, NoCommit, Lanes, MaxLane
<1>2. ASSUME reserved[row] = NoLane, heads[0] = row PROVE at = 0
  <2>1. 0 \in Claims(heads, row) /\ Claims(heads, row) \subseteq Nat
    BY <1>1, <1>2, GraphAssumption DEF Claims, Lanes, MaxLane
  <2>2. at = Smallest(Claims(heads, row))
    BY <1>2, <2>1 DEF LaneForCommit, FirstClaim
  <2>3. at \in Nat /\ at <= 0
    <3>1. at \in Claims(heads, row) /\ \A y \in Claims(heads, row) : at <= y
      BY <2>1, <2>2, SmallestOf
    <3> QED BY <2>1, <3>1
  <2> QED BY <2>3
<1>3. CASE at \in Lanes /\ heads[at] = row
  BY <1>1, <1>2, <1>3 DEF LowBy, Lanes
<1>4. CASE at = LaneOfStash /\ IsStash(row)
  <2> DEFINE open == {l \in Lanes : ~(l \in materialized /\ heads[l] # NoCommit)}
  <2>1. bound + 1 \in open /\ open \subseteq Nat
    BY <1>1 DEF LowBy, Lanes
  <2>2. at \in open /\ at <= bound + 1
    <3>1. at = Smallest(open)
      BY <1>4 DEF LaneOfStash
    <3> HIDE DEF open
    <3>2. Smallest(open) \in open /\ \A y \in open : Smallest(open) <= y
      BY <2>1, SmallestOf
    <3> QED BY <2>1, <3>1, <3>2
  <2> QED BY <1>2, <1>4, <2>2
<1>5. CASE at = LaneOfNewTip
  <2> DEFINE taken == Taken(heads)
             holes == {l \in Lanes \ terminated :
                          /\ heads[l] = NoCommit
                          /\ \E left, right \in taken : left < l /\ l < right}
  <2>1. /\ taken \subseteq Nat /\ \A l \in taken : l <= bound /\ l \in Lanes
        /\ \A l \in Lanes \ taken : heads[l] = NoCommit
    BY <1>1 DEF Taken, LowBy
  <2>2. at = IF holes # {} THEN Smallest(holes)
             ELSE IF taken = {} THEN 0 ELSE Largest(taken) + 1
    BY <1>5 DEF LaneOfNewTip
  <2>3. at \in Lanes /\ heads[at] = NoCommit /\ at <= bound + 1
    <3>1. CASE holes # {}
      <4>1. holes \subseteq Nat
        BY <1>1
      <4>2. Smallest(holes) \in holes
        <5> HIDE DEF holes
        <5> QED BY <3>1, <4>1, SmallestOf
      <4>3. PICK right \in taken : at < right
        BY <2>2, <3>1, <4>2
      <4> HIDE DEF taken
      <4>4. at \in Lanes /\ heads[at] = NoCommit
        BY <2>2, <3>1, <4>2
      <4> HIDE DEF holes
      <4> QED BY <1>1, <2>1, <4>3, <4>4
    <3>2. CASE holes = {} /\ taken = {}
      <4>1. at = 0 /\ 0 \in Lanes
        BY <2>2, <3>2, GraphAssumption DEF Lanes, MaxLane
      <4> HIDE DEF taken, holes
      <4> QED BY <2>1, <3>2, <4>1
    <3>3. CASE holes = {} /\ taken # {}
      <4> HIDE DEF taken, holes
      <4>1. Largest(taken) \in taken /\ \A y \in taken : Largest(taken) >= y
        BY <2>1, <3>3, LargestOf
      <4>2. at = Largest(taken) + 1
        BY <2>2, <3>3
      <4>3. at \notin taken /\ at \in Nat /\ at <= bound + 1
        <5>1. PICK k \in Nat : k = Largest(taken)
          BY <2>1, <4>1
        <5>2. k \in taken /\ k <= bound /\ at = k + 1 /\ \A y \in taken : k >= y
          BY <2>1, <4>1, <4>2, <5>1
        <5>3. at \notin taken
          <6>1. ~ (k >= k + 1)
            OBVIOUS
          <6> QED BY <5>2, <6>1
        <5> QED BY <5>2, <5>3
      <4>4. at \in Lanes
        BY <4>3, GraphAssumption DEF Lanes, MaxLane
      <4> QED BY <2>1, <4>3, <4>4
    <3> QED BY <3>1, <3>2, <3>3
  <2> HIDE DEF holes, taken
  <2> QED BY <1>2, <2>3
<1>6. \/ at \in Lanes /\ heads[at] = row
      \/ at = LaneOfStash /\ IsStash(row)
      \/ at = LaneOfNewTip
  <2>1. CASE reserved[row] # NoLane /\ heads[reserved[row]] = row
    BY <2>1 DEF LaneForCommit
  <2>2. CASE ~(reserved[row] # NoLane /\ heads[reserved[row]] = row) /\ Claims(heads, row) # {}
    <3>1. at = FirstClaim(heads, row)
      BY <2>2 DEF LaneForCommit
    <3>2. Smallest(Claims(heads, row)) \in Claims(heads, row)
      <4>1. Claims(heads, row) \subseteq Nat
        BY <1>1 DEF Claims
      <4> QED BY <2>2, <4>1, SmallestOf
    <3> QED BY <2>2, <3>1, <3>2 DEF FirstClaim, Claims
  <2>3. CASE ~(reserved[row] # NoLane /\ heads[reserved[row]] = row) /\ Claims(heads, row) = {}
    BY <2>3 DEF LaneForCommit
  <2> QED BY <2>1, <2>2, <2>3
<1> QED BY <1>3, <1>4, <1>5, <1>6

\* What a row does to the lanes: no waiting lane loses its commit.
Keeps(hs, final) ==
    /\ final \in [Lanes -> 0 .. RowCount]
    /\ \A l \in Lanes : hs[l] # NoCommit => final[l] = hs[l]

LEMMA ConvergenceHolds ==
    ASSUME log \in Histories, NEW row \in Rows, NEW at \in Lanes,
           NEW hs \in [Lanes -> 0 .. RowCount], NEW bound \in Nat,
           LowBy(hs, bound), at <= bound,
           Len(log.parents[row]) = 2 => bound + 1 <= MaxLane,
           NEW held, held = HoldConvergence(row, at, hs)
    PROVE  Keeps(hs, held) /\ LowBy(held, bound) /\ held[at] = hs[at]
<1> DEFINE meeting == Convergence(row)
           open == FirstOpen(hs, 0)
<1>1. meeting \in 0..RowCount
  <2> DEFINE common == {c \in Page : /\ c > row
                                     /\ \A i \in DOMAIN log.parents[row] :
                                           c \in Reachable[log.parents[row][i]]}
  <2>1. common \subseteq Rows /\ common \subseteq Nat
    BY GraphAssumption DEF Page, Rows
  <2>2. meeting = IF Len(log.parents[row]) < 2 \/ common = {} THEN NoCommit
                  ELSE Smallest(common)
    BY DEF Convergence
  <2> HIDE DEF common
  <2>3. common # {} => Smallest(common) \in common
    BY <2>1, SmallestOf
  <2> HIDE DEF meeting
  <2> QED BY <2>1, <2>2, <2>3, GraphAssumption DEF Rows, NoCommit
<1>2. meeting # NoCommit => open \in Lanes /\ hs[open] = NoCommit
  <2>1. ASSUME meeting # NoCommit PROVE open \in Lanes /\ hs[open] = NoCommit
    <3>1. ~ Len(log.parents[row]) < 2
      BY <2>1 DEF Convergence
    <3>2. bound + 1 <= MaxLane
      <4>1. Len(log.parents[row]) \in 0..2
        BY ParentsFit
      <4> QED BY <3>1, <4>1, SMTT(30)
    <3> QED BY <3>2, FirstOpenIs
  <2> QED BY <2>1
<1>3. \A l \in Lanes : l \in Nat
  BY DEF Lanes
<1>4. held = IF meeting # NoCommit /\ Claims(hs, meeting) = {} /\ open < at
             THEN [hs EXCEPT ![open] = meeting] ELSE hs
  BY DEF HoldConvergence
<1> HIDE DEF meeting, open
<1> QED BY <1>1, <1>2, <1>3, <1>4 DEF Keeps, LowBy

LEMMA BendHolds ==
    ASSUME log \in Histories, NEW row \in Rows, NEW at \in Lanes,
           NEW hs \in [Lanes -> 0 .. RowCount], NEW lanesOf, NEW bound \in Nat,
           LowBy(hs, bound), at <= bound,
           HasLine(row) => \/ hs[at] = FirstParent(row)
                           \/ hs[at] = NoCommit /\ lanesOf[FirstParent(row)] < at,
           NEW final, final = HoldBend(row, at, lanesOf, hs)
    PROVE  /\ Keeps(hs, final) /\ LowBy(final, bound)
           /\ HasLine(row) => final[at] = FirstParent(row)
<1> DEFINE bending == {i \in DOMAIN log.parents[row] : lanesOf[log.parents[row][i]] < at}
<1>1. /\ DOMAIN log.parents[row] = 1..Len(log.parents[row])
      /\ \A i \in 1..Len(log.parents[row]) : log.parents[row][i] \in 0..RowCount
      /\ HasLine(row) => 1 \in 1..Len(log.parents[row])
  <2>1. /\ Len(log.parents[row]) \in 0..2
        /\ DOMAIN log.parents[row] = 1..Len(log.parents[row])
        /\ HasLine(row) => Len(log.parents[row]) \in 1..2
        /\ \A i \in 1..Len(log.parents[row]) : log.parents[row][i] \in Rows
    BY ParentsFit
  <2>2. \A p \in Rows : p \in 0..RowCount
    BY GraphAssumption DEF Rows
  <2>3. HasLine(row) => 1 \in 1..Len(log.parents[row])
    <3>1. \A n \in 1..2 : 1 \in 1..n
      OBVIOUS
    <3> QED BY <2>1, <3>1
  <2> HIDE DEF bending
  <2> QED BY <2>1, <2>2, <2>3
<1>2. /\ bending \subseteq Nat
      /\ bending \subseteq 1..Len(log.parents[row])
      /\ \A i \in bending : i >= 1
  BY <1>1
<1>3. bending # {} => /\ Smallest(bending) \in bending
                      /\ \A i \in bending : Smallest(bending) <= i
  <2> HIDE DEF bending
  <2> QED BY <1>2, SmallestOf
<1>4. final = IF hs[at] = NoCommit /\ bending # {}
              THEN [hs EXCEPT ![at] = log.parents[row][Smallest(bending)]] ELSE hs
  BY DEF HoldBend
<1>5. Keeps(hs, final) /\ LowBy(final, bound)
  <2>1. bending # {} => log.parents[row][Smallest(bending)] \in 0..RowCount
    BY <1>1, <1>2, <1>3
  <2> HIDE DEF bending
  <2> QED BY <1>4, <2>1 DEF Keeps, LowBy
<1>6. ASSUME HasLine(row) PROVE final[at] = FirstParent(row)
  <2>1. CASE hs[at] = NoCommit
    <3>1. 1 \in bending
      BY <1>1, <1>6, <2>1, ParentsFit, GraphAssumption DEF FirstParent, NoCommit, Rows
    <3>2. Smallest(bending) = 1
      <4> HIDE DEF bending
      <4>1. PICK k \in Nat : k = Smallest(bending)
        BY <1>2, <1>3, <3>1
      <4>2. k <= 1 /\ k >= 1
        BY <1>2, <1>3, <3>1, <4>1
      <4> QED BY <4>1, <4>2
    <3> HIDE DEF bending
    <3> QED BY <1>4, <2>1, <3>1, <3>2 DEF FirstParent
  <2>2. CASE hs[at] # NoCommit
    BY <1>4, <1>6, <2>2
  <2> QED BY <2>1, <2>2
<1> QED BY <1>5, <1>6

-----------------------------------------------------------------------------
\* The lanes that wait lie low enough that a row finds one open.
LowLanes == LowBy(heads, 2 * laid)
LaidRows == \A row \in 1 .. laid : lane[row] \in Lanes

\* A line that has not come to its first parent waits for it in its own lane,
\* and that lane is known to be visible while a page is laid out.
LinesWait ==
    \A row \in 1 .. laid :
        HasLine(row) /\ FirstParent(row) > laid =>
            /\ heads[lane[row]] = FirstParent(row)
            /\ laying => lane[row] \in materialized

\* No row between a commit and its first parent is in the lane of the commit.
LinesAreClear ==
    \A row, other \in 1 .. laid :
        HasLine(row) /\ row < other /\ other < FirstParent(row) => lane[other] # lane[row]

LanesInv == GraphTypeOK /\ LowLanes /\ LaidRows /\ LinesWait /\ LinesAreClear

LEMMA GraphStarts == GraphInit => LanesInv
<1> SUFFICES ASSUME GraphInit PROVE LanesInv
  OBVIOUS
<1>1. RowCount \in Nat /\ 1..0 = {}
  BY GraphAssumption
<1>2. GraphTypeOK
  <2>1. 0 \in 0..RowCount
    BY <1>1
  <2>2. heads \in [Lanes -> 0..RowCount]
    BY <2>1 DEF GraphInit, NoCommit
  <2> QED BY <2>1, <2>2 DEF GraphInit, GraphTypeOK
<1>3. LowLanes
  BY DEF GraphInit, LowLanes, LowBy
<1> QED BY <1>1, <1>2, <1>3 DEF GraphInit, LanesInv, LaidRows, LinesWait, LinesAreClear

LEMMA PageStarts == ASSUME LanesInv, StartPage PROVE LanesInv'
<1>1. laid \in Nat /\ RowCount \in Nat /\ log \in Histories
  BY GraphAssumption DEF LanesInv, GraphTypeOK
<1>2. heads' \in [Lanes -> 0..RowCount]
  <2>1. log.changes => WipHead \in Rows /\ \A row \in Rows : row \in 0..RowCount
    BY <1>1, LogFits DEF WipHead, Rows
  <2> QED BY <2>1 DEF StartPage, LanesInv, GraphTypeOK
<1>3. GraphTypeOK'
  <2>1. materialized' \subseteq Lanes
    BY DEF StartPage, Taken
  <2> QED BY <1>2, <2>1 DEF StartPage, LanesInv, GraphTypeOK
<1>4. LowLanes'
  <2>1. \A l \in Lanes : heads'[l] # NoCommit => heads[l] # NoCommit \/ l = 0
    BY DEF StartPage, LanesInv, GraphTypeOK
  <2> QED BY <1>1, <2>1 DEF StartPage, LanesInv, LowLanes, LowBy
<1>5. LaidRows'
  BY DEF StartPage, LanesInv, LaidRows
<1>6. LinesWait'
  <2>1. ASSUME NEW row \in 1..laid, HasLine(row), FirstParent(row) > laid
        PROVE  heads'[lane[row]] = FirstParent(row) /\ lane[row] \in materialized'
    <3>1. heads[lane[row]] = FirstParent(row) /\ lane[row] \in Lanes
      BY <2>1 DEF LanesInv, LinesWait, LaidRows
    <3>2. FirstParent(row) # NoCommit
      <4>1. row \in Rows
        BY <1>1 DEF LanesInv, GraphTypeOK, Rows
      <4>2. Len(log.parents[row]) \in 1..2
        BY <1>1, <2>1, <4>1, ParentsFit
      <4>3. FirstParent(row) \in Rows
        BY <1>1, <4>1, <4>2, ParentsFit DEF FirstParent
      <4> QED BY <1>1, <4>3 DEF Rows, NoCommit
    <3>3. heads' = heads
      BY <3>1, <3>2 DEF Taken, StartPage
    <3> QED BY <3>1, <3>2, <3>3 DEF Taken, StartPage
  <2> QED BY <2>1 DEF StartPage, LinesWait, HasLine, IsStash, FirstParent
<1>7. LinesAreClear'
  BY DEF StartPage, LanesInv, LinesAreClear, HasLine, IsStash, FirstParent
<1> QED BY <1>3, <1>4, <1>5, <1>6, <1>7 DEF LanesInv

LEMMA PageEnds == ASSUME LanesInv, EndPage PROVE LanesInv'
<1>1. GraphTypeOK'
  <2>1. /\ laid \in 0..RowCount /\ laid \in laid..RowCount
        /\ laying' = FALSE /\ delivered' = laid /\ laid' = laid
    BY GraphAssumption DEF EndPage, LanesInv, GraphTypeOK
  <2> QED BY <2>1 DEF EndPage, LanesInv, GraphTypeOK
<1>2. LowLanes' /\ LaidRows'
  BY DEF EndPage, LanesInv, LowLanes, LowBy, LaidRows
<1>3. LinesWait' /\ LinesAreClear'
  BY DEF EndPage, LanesInv, LinesWait, LinesAreClear, HasLine, IsStash, FirstParent
<1> QED BY <1>1, <1>2, <1>3 DEF LanesInv

\* What one row does to the lanes.
LEMMA RowIsLaid ==
    ASSUME LanesInv, LayRow
    PROVE  LET row == laid + 1 IN
           /\ row \in Rows /\ laid' = row /\ laying
           /\ lane' = [lane EXCEPT ![row] = LaneForCommit(row)]
           /\ materialized' = materialized \cup {LaneForCommit(row)}
           /\ LaneForCommit(row) \in Lanes
           /\ \A l \in materialized :
                 heads[l] # NoCommit /\ heads[l] # row => l # LaneForCommit(row)
           /\ HasLine(row) => heads[LaneForCommit(row)] \in {NoCommit, row}
           /\ heads' \in [Lanes -> 0..RowCount] /\ LowBy(heads', 2 * row)
           /\ \A l \in Lanes : heads[l] # NoCommit /\ heads[l] # row => heads'[l] = heads[l]
           /\ HasLine(row) => heads'[LaneForCommit(row)] = FirstParent(row)
           /\ reserved[row] = NoLane /\ heads[0] = row => LaneForCommit(row) = 0
           /\ \A p \in Rows : p # row /\ (\E l \in Lanes : heads[l] = p) =>
                 reserved'[p] = reserved[p]
           /\ reserved' \in [Rows -> {NoLane} \cup Lanes]
           /\ parentLane' \in [Rows -> {NoLane} \cup Lanes]
           /\ (WipHead = row => LaneForCommit(row) = 0) =>
                 \A i \in 1 .. Len(log.parents[row]), l \in Lanes :
                     heads[l] = log.parents[row][i] => parentLane'[log.parents[row][i]] <= l
           /\ \A p \in Rows : (\A i \in 1 .. Len(log.parents[row]) : log.parents[row][i] # p) =>
                 parentLane'[p] = parentLane[p]
           /\ \A p \in Rows : reserved'[p] # reserved[p] =>
                 /\ Len(log.parents[row]) = 2 /\ p = log.parents[row][2]
                 /\ reserved'[p] \in Lanes /\ heads'[reserved'[p]] = p
<1>1. PICK row : row = laid + 1
  OBVIOUS
<1>2. PICK at : at = LaneForCommit(row)
  OBVIOUS
<1>3. PICK consumed : consumed = [l \in Lanes |-> IF heads[l] = row THEN NoCommit ELSE heads[l]]
  OBVIOUS
<1>4. PICK start : start = [heads |-> consumed, reserved |-> reserved, parentLane |-> parentLane]
  OBVIOUS
<1>5. PICK placed : placed = PlaceParents(row, at, start)
  OBVIOUS
<1>6. PICK held : held = HoldConvergence(row, at, placed.heads)
  OBVIOUS
<1>7. PICK final : final = HoldBend(row, at, placed.parentLane, held)
  OBVIOUS
<1>8. /\ laying /\ row \in Page /\ laid' = row /\ lane' = [lane EXCEPT ![row] = at]
      /\ heads' = final /\ reserved' = placed.reserved /\ parentLane' = placed.parentLane
      /\ materialized' = materialized \cup {at}
  BY <1>1, <1>2, <1>3, <1>4, <1>5, <1>6, <1>7 DEF LayRow
<1>9. /\ log \in Histories /\ heads \in [Lanes -> 0..RowCount] /\ materialized \subseteq Lanes
      /\ reserved \in [Rows -> {NoLane} \cup Lanes]
      /\ parentLane \in [Rows -> {NoLane} \cup Lanes]
      /\ laid \in Nat /\ LowBy(heads, 2 * laid) /\ RowCount \in Nat
  BY GraphAssumption DEF LanesInv, GraphTypeOK, LowLanes
<1>10. row \in Rows /\ row \in Nat /\ row <= RowCount
  BY <1>8, <1>9 DEF Page, Rows
<1>11. PICK low \in Nat, bound \in Nat : low = 2 * laid /\ bound = low + 1
  BY <1>9
<1>12. bound + 1 = 2 * row /\ bound + 1 <= MaxLane /\ low + 1 <= MaxLane /\ bound + 1 \in Nat
  BY <1>1, <1>9, <1>10, <1>11 DEF MaxLane
<1>13. /\ at \in Lanes /\ at <= bound
       /\ ~IsStash(row) => heads[at] = NoCommit \/ heads[at] = row
       /\ \A l \in materialized : heads[l] # NoCommit /\ heads[l] # row => l # at
       /\ reserved[row] = NoLane /\ heads[0] = row => at = 0
  BY <1>2, <1>9, <1>10, <1>11, <1>12, LaneIsChosen
<1>14. /\ IsPlacing(start) /\ LowBy(start.heads, bound)
       /\ ~IsStash(row) => start.heads[at] = NoCommit
       /\ \A l \in Lanes : heads[l] # NoCommit /\ heads[l] # row =>
              start.heads[l] = heads[l] /\ start.heads[l] # NoCommit
       /\ start.reserved = reserved /\ start.parentLane = parentLane
  <2>1. start.heads = consumed /\ start.reserved = reserved /\ start.parentLane = parentLane
    BY <1>4
  <2>2. /\ consumed \in [Lanes -> 0..RowCount]
        /\ \A l \in Lanes : consumed[l] = IF heads[l] = row THEN NoCommit ELSE heads[l]
    BY <1>3, <1>9 DEF NoCommit
  <2>3. LowBy(consumed, bound)
    <3>1. \A l \in Lanes : l \in Nat
      BY DEF Lanes
    <3>2. \A l \in Lanes : consumed[l] # NoCommit => heads[l] # NoCommit
      BY <2>2
    <3> QED BY <1>9, <1>11, <3>1, <3>2 DEF LowBy
  <2> QED BY <1>9, <1>13, <2>1, <2>2, <2>3 DEF IsPlacing
<1>29. /\ log \in Histories /\ row \in Rows /\ at \in Lanes /\ IsPlacing(start)
       /\ bound \in Nat /\ LowBy(start.heads, bound) /\ bound + 1 <= MaxLane /\ at <= bound
       /\ ~IsStash(row) => start.heads[at] = NoCommit
  BY <1>9, <1>10, <1>12, <1>13, <1>14
<1>15. /\ IsPlacing(placed) /\ LowBy(placed.heads, bound + 1)
       /\ \A l \in Lanes : start.heads[l] # NoCommit => placed.heads[l] = start.heads[l]
       /\ HasLine(row) => \/ placed.heads[at] = FirstParent(row)
                          \/ /\ placed.heads[at] = NoCommit
                             /\ placed.parentLane[FirstParent(row)] < at
       /\ \A p \in Rows : (\E l \in Lanes : start.heads[l] = p) =>
              placed.reserved[p] = start.reserved[p]
  BY <1>5, <1>29, PlacesAll
<1>28. /\ (WipHead = row => at = 0) =>
             \A i \in 1 .. Len(log.parents[row]), l \in Lanes :
                 start.heads[l] = log.parents[row][i] =>
                     placed.parentLane[log.parents[row][i]] <= l
       /\ \A p \in Rows : (\A i \in 1 .. Len(log.parents[row]) : log.parents[row][i] # p) =>
             placed.parentLane[p] = start.parentLane[p]
       /\ \A p \in Rows : placed.reserved[p] # start.reserved[p] =>
             /\ Len(log.parents[row]) = 2 /\ p = log.parents[row][2]
             /\ placed.reserved[p] \in Lanes /\ placed.heads[placed.reserved[p]] = p
  BY <1>5, <1>29, PlacesAll
<1>16. at <= bound + 1 /\ placed.heads \in [Lanes -> 0..RowCount]
  BY <1>13, <1>15 DEF Lanes, IsPlacing
<1>17. Len(log.parents[row]) = 2 => bound + 1 + 1 <= MaxLane
  <2>1. ASSUME Len(log.parents[row]) = 2 PROVE row + 1 <= RowCount
    <3>1. log.parents[row][1] \in Rows /\ log.parents[row][1] > row
      BY <1>9, <1>10, <2>1, ParentsFit
    <3> QED BY <1>9, <1>10, <3>1 DEF Rows
  <2> QED BY <1>9, <1>10, <1>12, <2>1 DEF MaxLane
<1>18. Keeps(placed.heads, held) /\ LowBy(held, bound + 1) /\ held[at] = placed.heads[at]
  BY <1>6, <1>9, <1>10, <1>12, <1>13, <1>15, <1>16, <1>17, ConvergenceHolds
<1>19. /\ Keeps(held, final) /\ LowBy(final, bound + 1)
       /\ HasLine(row) => final[at] = FirstParent(row)
  <2>1. held \in [Lanes -> 0..RowCount]
    BY <1>18 DEF Keeps
  <2> QED BY <1>7, <1>9, <1>10, <1>12, <1>13, <1>15, <1>16, <1>18, <2>1, BendHolds
<1>20. \A l \in Lanes : heads[l] # NoCommit /\ heads[l] # row => final[l] = heads[l]
  BY <1>14, <1>15, <1>18, <1>19 DEF Keeps
<1>21. final \in [Lanes -> 0..RowCount] /\ LowBy(final, 2 * row)
  BY <1>12, <1>19 DEF Keeps
<1>22. reserved' \in [Rows -> {NoLane} \cup Lanes] /\ parentLane' \in [Rows -> {NoLane} \cup Lanes]
  BY <1>8, <1>15 DEF IsPlacing
<1>23. \A p \in Rows : p # row /\ (\E l \in Lanes : heads[l] = p) => reserved'[p] = reserved[p]
  <2>1. \A p \in Rows : p # NoCommit
    BY DEF Rows, NoCommit
  <2> QED BY <1>8, <1>14, <1>15, <2>1
<1>24. ASSUME NEW p \in Rows, reserved'[p] # reserved[p]
       PROVE  /\ Len(log.parents[row]) = 2 /\ p = log.parents[row][2]
              /\ reserved'[p] \in Lanes /\ heads'[reserved'[p]] = p
  <2>1. /\ Len(log.parents[row]) = 2 /\ p = log.parents[row][2]
        /\ placed.reserved[p] \in Lanes /\ placed.heads[placed.reserved[p]] = p
    BY <1>8, <1>14, <1>28, <1>24
  <2>2. p # NoCommit
    BY DEF Rows, NoCommit
  <2>3. final[placed.reserved[p]] = p
    BY <1>18, <1>19, <2>1, <2>2 DEF Keeps
  <2> QED BY <1>8, <2>1, <2>3
<1>25. ASSUME WipHead = row => at = 0, NEW i \in 1 .. Len(log.parents[row]), NEW l \in Lanes,
              heads[l] = log.parents[row][i]
       PROVE  parentLane'[log.parents[row][i]] <= l
  <2>1. log.parents[row][i] \in Rows /\ log.parents[row][i] > row
    BY <1>9, <1>10, ParentsFit
  <2>2. heads[l] # NoCommit /\ heads[l] # row
    BY <1>10, <1>25, <2>1 DEF Rows, NoCommit
  <2> QED BY <1>8, <1>14, <1>28, <1>25, <2>2
<1>26. \A p \in Rows : (\A i \in 1 .. Len(log.parents[row]) : log.parents[row][i] # p) =>
          parentLane'[p] = parentLane[p]
  BY <1>8, <1>14, <1>28
<1>27. (WipHead = row => at = 0) =>
          \A i \in 1 .. Len(log.parents[row]), l \in Lanes :
              heads[l] = log.parents[row][i] => parentLane'[log.parents[row][i]] <= l
  BY <1>25
<1>30. HasLine(row) => heads[at] \in {NoCommit, row}
  BY <1>13 DEF HasLine
<1> QED BY <1>1, <1>2, <1>8, <1>10, <1>13, <1>30, <1>19, <1>20, <1>21, <1>22, <1>23, <1>24, <1>26, <1>27

LEMMA RowKeepsLanes == ASSUME LanesInv, LayRow PROVE LanesInv'
<1>1. PICK row, at : row = laid + 1 /\ at = LaneForCommit(row)
  OBVIOUS
<1>2. /\ row \in Rows /\ laid' = row /\ laying
      /\ lane' = [lane EXCEPT ![row] = at] /\ materialized' = materialized \cup {at}
      /\ at \in Lanes
      /\ \A l \in materialized : heads[l] # NoCommit /\ heads[l] # row => l # at
      /\ heads' \in [Lanes -> 0..RowCount] /\ LowBy(heads', 2 * row)
      /\ \A l \in Lanes : heads[l] # NoCommit /\ heads[l] # row => heads'[l] = heads[l]
      /\ HasLine(row) => heads'[at] = FirstParent(row)
      /\ reserved' \in [Rows -> {NoLane} \cup Lanes]
      /\ parentLane' \in [Rows -> {NoLane} \cup Lanes]
  BY <1>1, RowIsLaid
<1>3. /\ UNCHANGED <<log, laying, delivered, toLane>>
      /\ terminated' \subseteq Lanes
  <2>1. terminated \subseteq Lanes
    BY DEF LanesInv, GraphTypeOK
  <2>2. UNCHANGED <<log, laying, delivered, toLane>>
    BY DEF LayRow
  <2>3. \E final : terminated' = (terminated \ Taken(final))
                                 \cup (IF final[at] = NoCommit THEN {at} ELSE {})
    BY <1>1, Zenon DEF LayRow
  <2> QED BY <1>2, <2>1, <2>2, <2>3
<1>4. /\ log \in Histories /\ laid \in Nat /\ RowCount \in Nat /\ delivered \in 0..RowCount
      /\ delivered <= laid /\ lane \in [Rows -> {NoLane} \cup Lanes]
      /\ row \in Nat /\ row <= RowCount
      /\ \A r \in 1..laid : r \in Rows /\ r # row /\ r < row /\ lane[r] \in Lanes
  <2>1. /\ log \in Histories /\ laid \in Nat /\ RowCount \in Nat /\ delivered \in 0..RowCount
        /\ delivered <= laid /\ laid <= RowCount /\ lane \in [Rows -> {NoLane} \cup Lanes]
    BY GraphAssumption DEF LanesInv, GraphTypeOK
  <2>2. row \in Nat /\ row <= RowCount
    BY <1>2, <2>1 DEF Rows
  <2>3. \A r \in 1..laid : lane[r] \in Lanes
    BY DEF LanesInv, LaidRows
  <2>4. \A r \in 1..laid : r \in Rows /\ r # row /\ r < row
    BY <1>1, <2>1 DEF Rows
  <2> QED BY <2>1, <2>2, <2>3, <2>4
<1>5. GraphTypeOK'
  <2>1. lane' \in [Rows -> {NoLane} \cup Lanes] /\ materialized' \subseteq Lanes
    BY <1>2, <1>4 DEF LanesInv, GraphTypeOK
  <2>2. laid' \in delivered..RowCount
    BY <1>1, <1>2, <1>4
  <2> QED BY <1>2, <1>3, <2>1, <2>2 DEF LanesInv, GraphTypeOK
<1>6. LowLanes'
  BY <1>2 DEF LowLanes, LowBy
<1>7. /\ lane'[row] = at /\ \A r \in 1..laid : lane'[r] = lane[r]
      /\ \A r \in 1..row : r = row \/ r \in 1..laid
  BY <1>1, <1>2, <1>4
<1>8. LaidRows'
  BY <1>2, <1>4, <1>7 DEF LaidRows
<1>9. ASSUME NEW r \in 1..laid, HasLine(r) PROVE FirstParent(r) \in Rows /\ FirstParent(r) \in Nat
  <2>1. Len(log.parents[r]) \in 1..2
    BY <1>4, <1>9, ParentsFit
  <2>2. FirstParent(r) \in Rows
    BY <1>4, <2>1, ParentsFit DEF FirstParent
  <2> QED BY <2>2 DEF Rows
<1>10. ASSUME NEW r \in 1..laid, HasLine(r), FirstParent(r) > laid
      PROVE  /\ heads[lane[r]] = FirstParent(r) /\ lane[r] \in materialized
             /\ FirstParent(r) # NoCommit /\ FirstParent(r) \in Nat
  <2>1. heads[lane[r]] = FirstParent(r) /\ lane[r] \in materialized
    BY <1>2, <1>10 DEF LanesInv, LinesWait
  <2>2. FirstParent(r) \in Rows /\ FirstParent(r) \in Nat
    BY <1>10, <1>9
  <2> QED BY <1>4, <2>1, <2>2 DEF Rows, NoCommit
<1>11. LinesWait'
  <2>1. ASSUME NEW r \in 1..row, HasLine(r), FirstParent(r) > row
        PROVE  heads'[lane'[r]] = FirstParent(r) /\ lane'[r] \in materialized'
    <3>1. CASE r = row
      BY <1>2, <1>7, <2>1, <3>1
    <3>2. CASE r \in 1..laid
      <4>1. FirstParent(r) > laid /\ FirstParent(r) # row
        <5>1. FirstParent(r) \in Nat
          BY <1>9, <2>1, <3>2
        <5> QED BY <1>1, <1>4, <2>1, <5>1
      <4>2. heads[lane[r]] = FirstParent(r) /\ lane[r] \in materialized /\ FirstParent(r) # NoCommit
        BY <1>10, <2>1, <3>2, <4>1
      <4> QED BY <1>2, <1>4, <1>7, <3>2, <4>1, <4>2
    <3> QED BY <1>7, <3>1, <3>2
  <2> QED BY <1>2, <1>3, <2>1 DEF LinesWait, HasLine, IsStash, FirstParent
<1>12. LinesAreClear'
  <2>1. ASSUME NEW r \in 1..row, NEW other \in 1..row, HasLine(r), r < other,
               other < FirstParent(r)
        PROVE  lane'[other] # lane'[r]
    <3>1. r \in 1..laid
      BY <1>1, <1>4, <2>1
    <3>2. CASE other \in 1..laid
      BY <1>7, <2>1, <3>1, <3>2 DEF LanesInv, LinesAreClear
    <3>3. CASE other = row
      <4>1. FirstParent(r) > laid /\ FirstParent(r) # row
        <5>1. FirstParent(r) \in Nat
          BY <1>9, <2>1, <3>1
        <5> QED BY <1>1, <1>4, <2>1, <3>3, <5>1
      <4>2. heads[lane[r]] = FirstParent(r) /\ lane[r] \in materialized /\ FirstParent(r) # NoCommit
        BY <1>10, <2>1, <3>1, <4>1
      <4> QED BY <1>2, <1>7, <3>1, <3>3, <4>1, <4>2
    <3> QED BY <1>7, <3>2, <3>3
  <2> QED BY <1>2, <1>3, <2>1 DEF LinesAreClear, HasLine, IsStash, FirstParent
<1> QED BY <1>5, <1>6, <1>8, <1>11, <1>12 DEF LanesInv

\* At any time the lanes of what is laid out are those of an undisturbed graph.
LEMMA LanesHold == GraphSpec => []LanesInv
<1>1. GraphInit => LanesInv
  BY GraphStarts
<1>2. LanesInv /\ [GraphNext]_graphVars => LanesInv'
  <2> SUFFICES ASSUME LanesInv, [GraphNext]_graphVars PROVE LanesInv'
    OBVIOUS
  <2>1. CASE StartPage
    BY <2>1, PageStarts
  <2>2. CASE LayRow
    BY <2>2, RowKeepsLanes
  <2>3. CASE EndPage
    BY <2>3, PageEnds
  <2>4. CASE UNCHANGED graphVars
    <3>1. GraphTypeOK' /\ LowLanes' /\ LaidRows'
      BY <2>4 DEF graphVars, LanesInv, GraphTypeOK, LowLanes, LowBy, LaidRows
    <3>2. LinesWait' /\ LinesAreClear'
      BY <2>4 DEF graphVars, LanesInv, LinesWait, LinesAreClear, HasLine, IsStash, FirstParent
    <3> QED BY <3>1, <3>2 DEF LanesInv
  <2> QED BY <2>1, <2>2, <2>3, <2>4 DEF GraphNext
<1> QED BY <1>1, <1>2, PTL DEF GraphSpec

\* Lanes, rows and pages have their types; in particular no lane lies further
\* right than the layout of the log can need (MaxLane).
THEOREM GraphTyping == GraphSpec => []GraphTypeOK
<1>1. LanesInv => GraphTypeOK
  BY DEF LanesInv
<1> QED BY <1>1, LanesHold, PTL

\* In every history, with pages of any length, the line of a commit to its
\* first parent has no other commit on it (lane_for_commit, the loop over the
\* parents and the lanes held for routes that bend).
THEOREM BranchLinesAreClear == GraphSpec => []BranchLineIsClear
<1>1. LanesInv => BranchLineIsClear
  <2> SUFFICES ASSUME LanesInv, Drawn, NEW e \in Edges, e[2] = 1, ~IsStash(e[1]),
                      ParentVisible(e), NEW row \in e[1] + 1 .. EndRow(e) - 1
               PROVE  lane[row] # DropLane(e)
    BY DEF BranchLineIsClear
  <2>1. /\ e[1] \in 1..delivered /\ 1 \in DOMAIN log.parents[e[1]]
        /\ ParentOf(e) = FirstParent(e[1]) /\ ParentOf(e) \in 1..delivered
    BY DEF Edges, Shown, ParentOf, FirstParent, ParentVisible
  <2>2. delivered \in Nat /\ laid \in Nat /\ delivered <= laid
    BY GraphAssumption DEF LanesInv, GraphTypeOK
  <2>3. EndRow(e) = FirstParent(e[1]) /\ DropLane(e) = lane[e[1]]
    BY <2>1 DEF EndRow, DropLane
  <2>4. HasLine(e[1])
    BY <2>1 DEF HasLine
  <2>5. PICK r, p \in Nat : r = e[1] /\ p = FirstParent(e[1])
    BY <2>1, <2>2
  <2>6. row \in Nat /\ r < row /\ row < p /\ r \in 1..laid /\ row \in 1..laid
    BY <2>1, <2>2, <2>3, <2>5
  <2> QED BY <2>3, <2>4, <2>5, <2>6 DEF LanesInv, LinesAreClear
<1> QED BY <1>1, LanesHold, PTL

-----------------------------------------------------------------------------
\* With changes in the worktree lane 0 waits for HEAD from the first row on,
\* and no merge has reserved another lane for it.
WipWaits ==
    log.changes =>
        /\ laid = 0 /\ ~laying => Taken(heads) = {} /\ reserved[log.head] = NoLane
        /\ (laying \/ laid > 0) /\ laid < log.head =>
               /\ heads[0] = log.head /\ reserved[log.head] = NoLane
               /\ laying => 0 \in materialized
        /\ log.head <= laid => lane[log.head] = 0
        /\ \A row \in 1 .. laid : row < log.head => lane[row] # 0

LEMMA WipFacts ==
    ASSUME LanesInv
    PROVE  /\ log.head \in Rows /\ log.head \in Nat /\ log.head >= 1 /\ log.head # NoCommit
           /\ laid \in Nat /\ 0 \in Lanes /\ log.changes \in BOOLEAN
           /\ log.changes => WipHead = log.head
<1>1. log.head \in Rows /\ log.changes \in BOOLEAN
  BY LogFits DEF LanesInv, GraphTypeOK
<1>2. laid \in Nat /\ 0 \in Lanes
  BY GraphAssumption DEF LanesInv, GraphTypeOK, Lanes, MaxLane
<1> QED BY <1>1, <1>2, GraphAssumption DEF Rows, NoCommit, WipHead

LEMMA WipStarts == ASSUME GraphInit, LanesInv PROVE WipWaits
<1>1. /\ log.head \in Rows /\ log.head \in Nat /\ log.head >= 1
  BY WipFacts
<1>2. laid = 0 /\ laying = FALSE /\ Taken(heads) = {} /\ reserved[log.head] = NoLane
  BY <1>1 DEF GraphInit, Taken
<1> QED BY <1>1, <1>2 DEF WipWaits

LEMMA WipPageStarts == ASSUME LanesInv, WipWaits, StartPage PROVE WipWaits'
<1> SUFFICES ASSUME log.changes PROVE WipWaits'
  BY DEF WipWaits, StartPage
<1>1. /\ log.head \in Rows /\ log.head \in Nat /\ log.head >= 1 /\ log.head # NoCommit
      /\ laid \in Nat /\ 0 \in Lanes /\ WipHead = log.head
  BY WipFacts
<1>2. /\ ~laying /\ laying' = TRUE /\ materialized' = Taken(heads')
      /\ UNCHANGED <<log, laid, reserved, lane>>
      /\ heads' = IF Taken(heads) = {} THEN [heads EXCEPT ![0] = WipHead] ELSE heads
  BY DEF StartPage
<1>3. laid < log.head => heads'[0] = log.head /\ reserved[log.head] = NoLane
  <2>1. CASE laid = 0
    <3>1. Taken(heads) = {} /\ reserved[log.head] = NoLane
      BY <1>2, <2>1 DEF WipWaits
    <3> QED BY <1>1, <1>2, <3>1 DEF LanesInv, GraphTypeOK
  <2>2. CASE laid # 0 /\ laid < log.head
    <3>1. heads[0] = log.head /\ reserved[log.head] = NoLane
      BY <1>1, <2>2 DEF WipWaits
    <3>2. Taken(heads) # {}
      BY <1>1, <3>1 DEF Taken
    <3> QED BY <1>2, <3>1, <3>2
  <2> QED BY <1>1, <2>1, <2>2
<1>4. laid < log.head => 0 \in materialized'
  BY <1>1, <1>2, <1>3 DEF Taken
<1>5. log.head <= laid => lane[log.head] = 0
  BY DEF WipWaits
<1>6. \A row \in 1..laid : row < log.head => lane[row] # 0
  BY DEF WipWaits
<1> QED BY <1>2, <1>3, <1>4, <1>5, <1>6 DEF WipWaits

LEMMA WipRowIsLaid == ASSUME LanesInv, WipWaits, LayRow PROVE WipWaits'
<1> SUFFICES ASSUME log.changes PROVE WipWaits'
  BY DEF WipWaits, LayRow
<1>1. /\ log.head \in Rows /\ log.head \in Nat /\ log.head >= 1 /\ log.head # NoCommit
      /\ laid \in Nat /\ 0 \in Lanes
  BY WipFacts
<1>2. PICK row, at : row = laid + 1 /\ at = LaneForCommit(row)
  OBVIOUS
<1>3. /\ row \in Rows /\ laid' = row /\ laying
      /\ lane' = [lane EXCEPT ![row] = at] /\ materialized' = materialized \cup {at}
      /\ \A l \in materialized : heads[l] # NoCommit /\ heads[l] # row => l # at
      /\ \A l \in Lanes : heads[l] # NoCommit /\ heads[l] # row => heads'[l] = heads[l]
      /\ reserved[row] = NoLane /\ heads[0] = row => at = 0
      /\ \A p \in Rows : p # row /\ (\E l \in Lanes : heads[l] = p) =>
              reserved'[p] = reserved[p]
  BY <1>2, RowIsLaid
<1>4. log' = log /\ laying' = laying /\ row \in Nat /\ row > 0
  BY <1>1, <1>2 DEF LayRow
<1>5. laid < log.head => /\ heads[0] = log.head /\ reserved[log.head] = NoLane
                         /\ 0 \in materialized
  BY <1>3 DEF WipWaits
<1>6. /\ lane'[row] = at /\ \A r \in Rows : r # row => lane'[r] = lane[r]
      /\ \A r \in 1..row : r = row \/ r \in 1..laid
      /\ \A r \in 1..laid : r \in Rows /\ r # row
  <2>1. /\ \A r \in 1..row : r = row \/ r \in 1..laid
        /\ \A r \in 1..laid : r # row
    BY <1>1, <1>2
  <2>2. \A r \in 1..laid : r \in Rows
    BY <1>1, GraphAssumption DEF LanesInv, GraphTypeOK, Rows
  <2>3. lane'[row] = at /\ \A r \in Rows : r # row => lane'[r] = lane[r]
    BY <1>3 DEF LanesInv, GraphTypeOK
  <2> QED BY <2>1, <2>2, <2>3
<1>7. row < log.head => /\ heads'[0] = log.head /\ reserved'[log.head] = NoLane
                        /\ 0 \in materialized' /\ at # 0
  <2>1. ASSUME row < log.head PROVE laid < log.head /\ log.head # row
    BY <1>1, <1>2, <1>4, <2>1
  <2> QED BY <1>1, <1>3, <1>5, <2>1
<1>8. log.head <= row => lane'[log.head] = 0
  <2>1. CASE log.head = row
    <3>1. laid < log.head
      BY <1>1, <1>2, <2>1
    <3>2. at = 0
      BY <1>3, <1>5, <2>1, <3>1
    <3> QED BY <1>6, <2>1, <3>2
  <2>2. CASE log.head < row
    <3>1. log.head <= laid /\ log.head # row
      BY <1>1, <1>2, <2>2
    <3>2. lane[log.head] = 0
      BY <3>1 DEF WipWaits
    <3> QED BY <1>1, <1>6, <3>1, <3>2
  <2> QED BY <1>1, <1>4, <2>1, <2>2
<1>9. ASSUME NEW r \in 1..row, r < log.head PROVE lane'[r] # 0
  <2>1. CASE r = row
    BY <1>6, <1>7, <1>9, <2>1
  <2>2. CASE r \in 1..laid
    <3>1. lane[r] # 0
      BY <1>9, <2>2 DEF WipWaits
    <3> QED BY <1>6, <2>2, <3>1
  <2> QED BY <1>6, <2>1, <2>2
<1>10. laid' # 0
  BY <1>3, <1>4
<1> QED BY <1>3, <1>4, <1>7, <1>8, <1>9, <1>10 DEF WipWaits

LEMMA WipLaneWaits == GraphSpec => []WipWaits
<1>1. GraphInit /\ LanesInv => WipWaits
  BY WipStarts
<1>2. WipWaits /\ LanesInv /\ [GraphNext]_graphVars => WipWaits'
  <2> SUFFICES ASSUME WipWaits, LanesInv, [GraphNext]_graphVars PROVE WipWaits'
    OBVIOUS
  <2>1. CASE StartPage
    BY <2>1, WipPageStarts
  <2>2. CASE LayRow
    BY <2>2, WipRowIsLaid
  <2>3. CASE EndPage
    <3>1. /\ laying /\ laying' = FALSE /\ UNCHANGED <<log, laid, heads, reserved, lane>>
          /\ laid + 1 \notin Page
      BY <2>3 DEF EndPage
    <3>2. laid # 0
      <4>1. delivered \in Nat /\ laid \in Nat /\ delivered <= laid
        BY GraphAssumption DEF LanesInv, GraphTypeOK
      <4>2. delivered = 0 => 1 \in Page
        BY GraphAssumption DEF Page, Rows
      <4> QED BY <3>1, <4>1, <4>2
    <3> QED BY <3>1, <3>2 DEF WipWaits, Taken
  <2>4. CASE UNCHANGED graphVars
    BY <2>4 DEF graphVars, WipWaits, Taken
  <2> QED BY <2>1, <2>2, <2>3, <2>4 DEF GraphNext
<1> QED BY <1>1, <1>2, LanesHold, PTL DEF GraphSpec

\* The line from the working copy down to HEAD is lane 0 and has no commit on
\* it, whatever branches, merges and stashes lie above HEAD and wherever a page
\* ends (seed_wip_lane).
THEOREM WipLineStaysClear == GraphSpec => []WipLineIsClear
<1>1. LanesInv /\ WipWaits => WipLineIsClear
  <2> SUFFICES ASSUME LanesInv, WipWaits, Drawn, WipHead \in Shown PROVE
                 WipLane = 0 /\ \A row \in 1 .. log.head - 1 : lane[row] # 0
    BY DEF WipLineIsClear
  <2>1. /\ log.head \in Nat /\ laid \in Nat /\ log.changes \in BOOLEAN
        /\ delivered \in Nat /\ delivered <= laid
    BY WipFacts, GraphAssumption DEF LanesInv, GraphTypeOK
  <2>2. log.changes /\ WipHead = log.head
    BY <2>1, GraphAssumption DEF WipHead, Shown, NoCommit
  <2>3. log.head \in Shown /\ log.head <= laid
    BY <2>1, <2>2 DEF Shown
  <2>4. lane[log.head] = 0
    BY <2>2, <2>3 DEF WipWaits
  <2>5. ASSUME NEW row \in 1 .. log.head - 1 PROVE lane[row] # 0
    <3>1. row \in 1..laid /\ row < log.head
      BY <2>1, <2>3
    <3> QED BY <2>2, <3>1 DEF WipWaits
  <2> QED BY <2>3, <2>4, <2>5 DEF WipLane
<1> QED BY <1>1, LanesHold, WipLaneWaits, PTL
-----------------------------------------------------------------------------
(***************************************************************************)
(* The edges of the graph: where the lines to one commit end, on which     *)
(* lane the commit is then laid out, and so which of its children come     *)
(* straight down to it.                                                    *)
(***************************************************************************)
\* Where the edge of a row to its parent of place i ends: on the lane the page
\* being laid out gives the parent, or the one the page was answered with.
EndsOn(row, i) ==
    IF row <= delivered THEN toLane[row][i] ELSE parentLane[log.parents[row][i]]

\* The rows laid out and not delivered are those of the page, and the answered
\* rows have an end for every edge.
PagesFit ==
    /\ ~laying => laid = delivered
    /\ \A row \in 1 .. laid : row > delivered => row \in Page
    /\ \A row \in 1 .. delivered :
          /\ DOMAIN toLane[row] = DOMAIN log.parents[row]
          /\ \A i \in DOMAIN toLane[row] : toLane[row][i] \in {NoLane} \cup Lanes
    /\ toLane = [row \in Rows |-> toLane[row]]

\* The lane a merge reserved for a commit waits for it, and no line to that
\* commit runs in it.
ReservedWaits ==
    \A p \in Rows :
        p > laid /\ reserved[p] # NoLane =>
            /\ heads[reserved[p]] = p
            /\ \A r \in 1 .. laid : HasLine(r) /\ FirstParent(r) = p => lane[r] # reserved[p]

\* An edge to a commit some line above already runs to ends at or left of it.
EdgesJoinLeft ==
    \A r, s \in 1 .. laid :
        HasLine(r) /\ r < s =>
            \A i \in DOMAIN log.parents[s] :
                log.parents[s][i] = FirstParent(r) => EndsOn(s, i) <= lane[r]

\* A commit is laid out in the lane a merge reserved for it, in which no line
\* comes down, or else at or left of every line that comes down to it.
LinesSettle ==
    \A r \in 1 .. laid :
        HasLine(r) /\ FirstParent(r) <= laid =>
            /\ reserved[FirstParent(r)] = NoLane => lane[FirstParent(r)] <= lane[r]
            /\ reserved[FirstParent(r)] # NoLane => lane[FirstParent(r)] # lane[r]

EdgesInv == PagesFit /\ ReservedWaits /\ EdgesJoinLeft /\ LinesSettle

LEMMA EdgesStart == ASSUME GraphInit PROVE EdgesInv
<1>1. 1..0 = {} /\ laid = 0 /\ delivered = 0 /\ reserved = [row \in Rows |-> NoLane]
      /\ laying = FALSE /\ toLane = [row \in Rows |-> <<>>]
  BY DEF GraphInit
<1>2. PagesFit
  BY <1>1 DEF PagesFit
<1> QED BY <1>1, <1>2 DEF EdgesInv, ReservedWaits, EdgesJoinLeft, LinesSettle

LEMMA EdgesPageStarts == ASSUME LanesInv, EdgesInv, StartPage PROVE EdgesInv'
<1>1. /\ ~laying /\ laying' = TRUE /\ UNCHANGED <<log, laid, delivered, reserved, lane, toLane>>
      /\ \A l \in Lanes : heads[l] # NoCommit => heads'[l] = heads[l]
  <2>1. /\ ~laying /\ laying' = TRUE /\ UNCHANGED <<log, laid, delivered, reserved, lane, toLane>>
        /\ heads' = IF Taken(heads) = {} /\ log.changes
                    THEN [heads EXCEPT ![0] = WipHead] ELSE heads
    BY DEF StartPage
  <2> QED BY <2>1 DEF Taken
<1>2. laid = delivered /\ delivered \in Nat
  BY <1>1, GraphAssumption DEF EdgesInv, PagesFit, LanesInv, GraphTypeOK
<1>3. \A row \in 1..laid : row <= delivered /\ ~(row > delivered)
  BY <1>2
<1>4. PagesFit'
  BY <1>1, <1>3 DEF EdgesInv, PagesFit, Page
<1>5. ReservedWaits'
  <2>1. ASSUME NEW p \in Rows, p > laid, reserved[p] # NoLane
        PROVE  heads'[reserved[p]] = p
    <3>1. heads[reserved[p]] = p /\ reserved[p] \in Lanes /\ p # NoCommit
      BY <2>1 DEF EdgesInv, ReservedWaits, LanesInv, GraphTypeOK, Rows, NoCommit
    <3> QED BY <1>1, <3>1
  <2> QED BY <1>1, <2>1 DEF EdgesInv, ReservedWaits, HasLine, IsStash, FirstParent
<1>6. EdgesJoinLeft'
  BY <1>1, <1>3 DEF EdgesInv, EdgesJoinLeft, EndsOn, HasLine, IsStash, FirstParent
<1>7. LinesSettle'
  BY <1>1 DEF EdgesInv, LinesSettle, HasLine, IsStash, FirstParent
<1> QED BY <1>4, <1>5, <1>6, <1>7 DEF EdgesInv

LEMMA EdgesPageEnds == ASSUME LanesInv, EdgesInv, EndPage PROVE EdgesInv'
<1>1. /\ laying' = FALSE /\ delivered' = laid
      /\ UNCHANGED <<log, laid, heads, reserved, parentLane, lane>>
      /\ toLane' = [row \in Rows |->
                       IF row \in Page
                       THEN [i \in DOMAIN log.parents[row] |-> parentLane[log.parents[row][i]]]
                       ELSE toLane[row]]
  BY DEF EndPage
<1>2. /\ laid \in Nat /\ delivered \in Nat /\ log \in Histories
      /\ parentLane \in [Rows -> {NoLane} \cup Lanes]
      /\ \A row \in 1..laid : row \in Rows /\ row <= laid /\ ~(row > laid)
  BY GraphAssumption DEF LanesInv, GraphTypeOK, Rows
<1>3. ASSUME NEW row \in 1..laid, NEW i \in DOMAIN log.parents[row]
      PROVE  toLane'[row][i] = EndsOn(row, i)
  <2>1. CASE row <= delivered
    <3>1. row \notin Page
      BY <1>2, <2>1 DEF Page
    <3> QED BY <1>1, <1>2, <2>1, <3>1 DEF EndsOn
  <2>2. CASE ~(row <= delivered)
    <3>1. row > delivered
      BY <1>2, <2>2
    <3>2. row \in Page
      BY <3>1 DEF EdgesInv, PagesFit
    <3> QED BY <1>1, <1>2, <2>2, <3>2 DEF EndsOn
  <2> QED BY <2>1, <2>2
<1>4. ASSUME NEW row \in 1..laid
      PROVE  /\ DOMAIN toLane'[row] = DOMAIN log.parents[row]
             /\ \A i \in DOMAIN log.parents[row] : toLane'[row][i] \in {NoLane} \cup Lanes
  <2>1. CASE row <= delivered
    <3>1. row \notin Page /\ row \in 1..delivered
      BY <1>2, <2>1 DEF Page
    <3> QED BY <1>1, <1>2, <3>1 DEF EdgesInv, PagesFit
  <2>2. CASE ~(row <= delivered)
    <3>1. row > delivered
      BY <1>2, <2>2
    <3>2. row \in Page
      BY <3>1 DEF EdgesInv, PagesFit
    <3>3. toLane'[row] = [i \in DOMAIN log.parents[row] |-> parentLane[log.parents[row][i]]]
      BY <1>1, <1>2, <3>2
    <3>4. \A i \in DOMAIN log.parents[row] : log.parents[row][i] \in Rows
      BY <1>2, ParentsFit
    <3> QED BY <1>2, <3>3, <3>4
  <2> QED BY <2>1, <2>2
<1>5. PagesFit'
  <2>1. toLane' = [row \in Rows |-> toLane'[row]]
    BY <1>1
  <2> QED BY <1>1, <1>2, <1>4, <2>1 DEF PagesFit
<1>6. EdgesJoinLeft'
  <2>1. ASSUME NEW r \in 1..laid, NEW s \in 1..laid, HasLine(r), r < s,
               NEW i \in DOMAIN log.parents[s], log.parents[s][i] = FirstParent(r)
        PROVE  EndsOn(s, i)' <= lane[r]
    <3>1. EndsOn(s, i)' = toLane'[s][i]
      BY <1>1, <1>2 DEF EndsOn
    <3> QED BY <1>3, <2>1, <3>1 DEF EdgesInv, EdgesJoinLeft
  <2> QED BY <1>1, <2>1 DEF EdgesJoinLeft, HasLine, IsStash, FirstParent
<1>7. ReservedWaits' /\ LinesSettle'
  BY <1>1 DEF EdgesInv, ReservedWaits, LinesSettle, HasLine, IsStash, FirstParent
<1> QED BY <1>5, <1>6, <1>7 DEF EdgesInv

\* A waited-for commit goes to the lane reserved for it, or the first that waits.
LEMMA OwnLane ==
    ASSUME NEW row, NEW l \in Lanes, heads[l] = row
    PROVE  /\ reserved[row] = NoLane => LaneForCommit(row) <= l
           /\ reserved[row] # NoLane /\ heads[reserved[row]] = row =>
                 LaneForCommit(row) = reserved[row]
<1>1. Claims(heads, row) # {}
  BY DEF Claims
<1>2. FirstClaim(heads, row) <= l
  BY FirstClaimIs
<1> QED BY <1>1, <1>2 DEF LaneForCommit

LEMMA EdgesOfRow == ASSUME LanesInv, WipWaits, EdgesInv, LayRow PROVE EdgesInv'
<1>1. PICK row, at : row = laid + 1 /\ at = LaneForCommit(row)
  OBVIOUS
<1>2. /\ row \in Rows /\ laid' = row /\ laying
      /\ lane' = [lane EXCEPT ![row] = at] /\ at \in Lanes
      /\ HasLine(row) => heads[at] \in {NoCommit, row}
      /\ \A l \in Lanes : heads[l] # NoCommit /\ heads[l] # row => heads'[l] = heads[l]
      /\ reserved[row] = NoLane /\ heads[0] = row => at = 0
      /\ \A p \in Rows : p # row /\ (\E l \in Lanes : heads[l] = p) => reserved'[p] = reserved[p]
  BY <1>1, RowIsLaid
<1>3. /\ (WipHead = row => at = 0) =>
            \A i \in 1 .. Len(log.parents[row]), l \in Lanes :
                heads[l] = log.parents[row][i] => parentLane'[log.parents[row][i]] <= l
      /\ \A p \in Rows : (\A i \in 1 .. Len(log.parents[row]) : log.parents[row][i] # p) =>
            parentLane'[p] = parentLane[p]
      /\ \A p \in Rows : reserved'[p] # reserved[p] =>
            /\ Len(log.parents[row]) = 2 /\ p = log.parents[row][2]
            /\ reserved'[p] \in Lanes /\ heads'[reserved'[p]] = p
  BY <1>1, RowIsLaid
<1>4. UNCHANGED <<log, laying, delivered, toLane>> /\ row \in Page
  BY <1>1 DEF LayRow
<1>5. /\ log \in Histories /\ laid \in Nat /\ delivered \in Nat /\ delivered <= laid
      /\ RowCount \in Nat /\ row \in Nat /\ row > laid
      /\ lane \in [Rows -> {NoLane} \cup Lanes]
      /\ reserved \in [Rows -> {NoLane} \cup Lanes]
      /\ \A r \in 1..laid : r \in Rows /\ r # row /\ r < row /\ lane[r] \in Lanes
  <2>1. /\ log \in Histories /\ laid \in Nat /\ RowCount \in Nat /\ delivered \in Nat
        /\ delivered <= laid /\ laid <= RowCount /\ lane \in [Rows -> {NoLane} \cup Lanes]
        /\ reserved \in [Rows -> {NoLane} \cup Lanes]
    BY GraphAssumption DEF LanesInv, GraphTypeOK
  <2>2. row \in Nat /\ row > laid
    BY <1>1, <2>1
  <2>3. \A r \in 1..laid : lane[r] \in Lanes
    BY DEF LanesInv, LaidRows
  <2>4. \A r \in 1..laid : r \in Rows /\ r # row /\ r < row
    BY <1>1, <2>1 DEF Rows
  <2> QED BY <2>1, <2>2, <2>3, <2>4
<1>6. /\ lane'[row] = at /\ \A r \in 1..laid : lane'[r] = lane[r]
      /\ \A r \in 1..row : r = row \/ r \in 1..laid
  BY <1>1, <1>2, <1>5
<1>7. WipHead = row => at = 0
  <2>1. ASSUME WipHead = row PROVE at = 0
    <3>1. log.changes /\ log.head = row
      <4>1. row # NoCommit /\ log.changes \in BOOLEAN
        BY <1>2, WipFacts DEF Rows, NoCommit
      <4> QED BY <2>1, <4>1 DEF WipHead
    <3>2. heads[0] = row /\ reserved[row] = NoLane
      BY <1>2, <1>5, <3>1 DEF WipWaits
    <3> QED BY <1>2, <3>2
  <2> QED BY <2>1
<1>8. \A r \in Rows : /\ DOMAIN log.parents[r] = 1..Len(log.parents[r])
                      /\ \A i \in 1..Len(log.parents[r]) :
                            log.parents[r][i] \in Rows /\ log.parents[r][i] > r
                      /\ HasLine(r) => FirstParent(r) \in Rows /\ FirstParent(r) > r
                      /\ Len(log.parents[r]) = 2 => FirstParent(r) # log.parents[r][2]
  <2>1. ASSUME NEW r \in Rows, HasLine(r) PROVE FirstParent(r) \in Rows /\ FirstParent(r) > r
    <3>1. Len(log.parents[r]) \in 1..2
      BY <1>5, <2>1, ParentsFit
    <3>2. 1 \in 1..Len(log.parents[r])
      <4>1. \A n \in 1..2 : 1 \in 1..n
        OBVIOUS
      <4> QED BY <3>1, <4>1
    <3> QED BY <1>5, <3>2, ParentsFit DEF FirstParent
  <2> QED BY <1>5, <2>1, ParentsFit DEF FirstParent
<1>9. \A p \in Rows : p \in Nat /\ p # NoCommit
  BY DEF Rows, NoCommit
<1>10. ASSUME NEW r \in 1..laid, HasLine(r), FirstParent(r) > laid
       PROVE  heads[lane[r]] = FirstParent(r)
  BY <1>10 DEF LanesInv, LinesWait
<1>11. \A p \in Rows : p <= row => reserved'[p] = reserved[p]
  <2>1. ASSUME NEW p \in Rows, p <= row, reserved'[p] # reserved[p] PROVE FALSE
    <3>1. Len(log.parents[row]) = 2 /\ p = log.parents[row][2]
      BY <1>3, <2>1
    <3>2. p > row
      BY <1>2, <1>8, <3>1
    <3> QED BY <1>5, <1>9, <2>1, <3>2
  <2> QED BY <2>1
<1>12. PagesFit'
  BY <1>1, <1>2, <1>4, <1>5, <1>6 DEF EdgesInv, PagesFit, Page
<1>13. ReservedWaits'
  <2>1. ASSUME NEW p \in Rows, p > row, reserved'[p] # NoLane
        PROVE  /\ heads'[reserved'[p]] = p
               /\ \A r \in 1..row : HasLine(r) /\ FirstParent(r) = p => lane'[r] # reserved'[p]
    <3>1. p > laid /\ p # row /\ p # NoCommit
      BY <1>5, <1>9, <2>1
    <3>2. CASE reserved'[p] = reserved[p]
      <4>1. /\ heads[reserved[p]] = p /\ reserved[p] \in Lanes
            /\ \A r \in 1..laid : HasLine(r) /\ FirstParent(r) = p => lane[r] # reserved[p]
        BY <1>5, <2>1, <3>1, <3>2 DEF EdgesInv, ReservedWaits
      <4>2. heads'[reserved[p]] = p
        BY <1>2, <3>1, <4>1
      <4>3. HasLine(row) => at # reserved[p]
        BY <1>2, <3>1, <4>1
      <4> QED BY <1>6, <3>2, <4>1, <4>2, <4>3
    <3>3. CASE reserved'[p] # reserved[p]
      <4>1. Len(log.parents[row]) = 2 /\ p = log.parents[row][2] /\ heads'[reserved'[p]] = p
        BY <1>3, <3>3
      <4>2. \A l \in Lanes : heads[l] # p
        BY <1>2, <3>1, <3>3
      <4>3. ASSUME NEW r \in 1..row, HasLine(r), FirstParent(r) = p PROVE FALSE
        <5>1. CASE r = row
          BY <1>2, <1>8, <4>1, <4>3, <5>1
        <5>2. CASE r \in 1..laid
          BY <1>5, <1>10, <3>1, <4>2, <4>3, <5>2
        <5> QED BY <1>6, <5>1, <5>2
      <4> QED BY <4>1, <4>3
    <3> QED BY <3>2, <3>3
  <2> QED BY <1>2, <1>4, <2>1 DEF ReservedWaits, HasLine, IsStash, FirstParent
<1>14. EdgesJoinLeft'
  <2>1. ASSUME NEW r \in 1..row, NEW s \in 1..row, HasLine(r), r < s,
               NEW i \in DOMAIN log.parents[s], log.parents[s][i] = FirstParent(r)
        PROVE  EndsOn(s, i)' <= lane'[r]
    <3>1. r \in 1..laid
      BY <1>1, <1>5, <2>1
    <3>2. PICK p \in Rows : p = FirstParent(r)
      BY <1>5, <1>8, <2>1, <3>1
    <3>3. ASSUME NEW k \in 1..Len(log.parents[row]), log.parents[row][k] = p
          PROVE  parentLane'[p] <= lane[r]
      <4>1. p > laid
        BY <1>2, <1>5, <1>8, <1>9, <3>3
      <4>2. heads[lane[r]] = p /\ lane[r] \in Lanes
        BY <1>5, <1>10, <2>1, <3>1, <3>2, <4>1
      <4> QED BY <1>3, <1>7, <3>3, <4>2
    <3>4. CASE s = row
      <4>1. ~(s <= delivered)
        BY <1>5, <3>4
      <4>2. EndsOn(s, i)' = parentLane'[p]
        BY <1>4, <2>1, <3>2, <4>1 DEF EndsOn
      <4>3. i \in 1..Len(log.parents[row])
        BY <1>2, <1>8, <2>1, <3>4
      <4> QED BY <1>6, <2>1, <3>1, <3>2, <3>3, <3>4, <4>2, <4>3
    <3>5. CASE s \in 1..laid
      <4>1. EndsOn(s, i) <= lane[r]
        BY <2>1, <3>1, <3>5 DEF EdgesInv, EdgesJoinLeft
      <4>2. CASE s <= delivered
        <5>1. EndsOn(s, i)' = EndsOn(s, i)
          BY <1>4, <4>2 DEF EndsOn
        <5> QED BY <1>6, <3>1, <4>1, <5>1
      <4>3. CASE ~(s <= delivered)
        <5>1. EndsOn(s, i)' = parentLane'[p] /\ EndsOn(s, i) = parentLane[p]
          BY <1>4, <2>1, <3>2, <4>3 DEF EndsOn
        <5>2. CASE \E k \in 1..Len(log.parents[row]) : log.parents[row][k] = p
          BY <1>6, <3>1, <3>3, <5>1, <5>2
        <5>3. CASE \A k \in 1..Len(log.parents[row]) : log.parents[row][k] # p
          BY <1>3, <1>6, <3>1, <4>1, <5>1, <5>3
        <5> QED BY <5>2, <5>3
      <4> QED BY <4>2, <4>3
    <3> QED BY <1>6, <3>4, <3>5
  <2> QED BY <1>2, <1>4, <2>1 DEF EdgesJoinLeft, HasLine, IsStash, FirstParent
<1>15. LinesSettle'
  <2>1. ASSUME NEW r \in 1..row, HasLine(r), FirstParent(r) <= row
        PROVE  /\ reserved'[FirstParent(r)] = NoLane => lane'[FirstParent(r)] <= lane'[r]
               /\ reserved'[FirstParent(r)] # NoLane => lane'[FirstParent(r)] # lane'[r]
    <3>1. PICK p \in Rows : p = FirstParent(r) /\ p > r /\ p <= row
      <4>1. r \in Rows
        BY <1>2, <1>5, <1>6
      <4> QED BY <1>8, <2>1, <4>1
    <3>2. r \in 1..laid /\ reserved'[p] = reserved[p] /\ p \in Nat
      <4>1. r # row
        BY <1>5, <1>9, <3>1
      <4> QED BY <1>6, <1>9, <1>11, <3>1, <4>1
    <3>3. CASE p = row
      <4>1. heads[lane[r]] = row /\ lane[r] \in Lanes
        BY <1>5, <1>10, <2>1, <3>1, <3>2, <3>3
      <4>2. reserved[row] = NoLane => at <= lane[r]
        BY <1>1, <4>1, OwnLane
      <4>3. reserved[row] # NoLane => at = reserved[row] /\ lane[r] # reserved[row]
        <5>1. row > laid /\ row \in Rows /\ FirstParent(r) = row /\ r \in 1..laid
          BY <1>2, <1>5, <3>1, <3>2, <3>3
        <5>3. ReservedWaits
          BY DEF EdgesInv
        <5>2. reserved[row] # NoLane => /\ heads[reserved[row]] = row
                                        /\ lane[r] # reserved[row]
          BY <2>1, <5>1, <5>3 DEF ReservedWaits
        <5> QED BY <1>1, <4>1, <5>2, OwnLane
      <4> QED BY <1>6, <3>1, <3>2, <3>3, <4>2, <4>3
    <3>4. CASE p \in 1..laid
      <4>1. p <= laid
        BY <3>4
      <4>2. /\ reserved[p] = NoLane => lane[p] <= lane[r]
            /\ reserved[p] # NoLane => lane[p] # lane[r]
        BY <2>1, <3>1, <3>2, <4>1 DEF EdgesInv, LinesSettle
      <4> QED BY <1>6, <3>1, <3>2, <3>4, <4>2
    <3>5. p \in 1..row
      BY <1>5, <3>1, <3>2 DEF Rows
    <3> QED BY <1>6, <3>3, <3>4, <3>5
  <2> QED BY <1>2, <1>4, <2>1 DEF LinesSettle, HasLine, IsStash, FirstParent
<1> QED BY <1>12, <1>13, <1>14, <1>15 DEF EdgesInv

LEMMA EdgesHold == GraphSpec => []EdgesInv
<1>1. GraphInit => EdgesInv
  BY EdgesStart
<1>2. EdgesInv /\ LanesInv /\ WipWaits /\ [GraphNext]_graphVars => EdgesInv'
  <2> SUFFICES ASSUME EdgesInv, LanesInv, WipWaits, [GraphNext]_graphVars PROVE EdgesInv'
    OBVIOUS
  <2>1. CASE StartPage
    BY <2>1, EdgesPageStarts
  <2>2. CASE LayRow
    BY <2>2, EdgesOfRow
  <2>3. CASE EndPage
    BY <2>3, EdgesPageEnds
  <2>4. CASE UNCHANGED graphVars
    BY <2>4, ZenonT(60) DEF graphVars, EdgesInv, PagesFit, ReservedWaits, EdgesJoinLeft, LinesSettle,
             EndsOn, HasLine, IsStash, FirstParent, Page
  <2> QED BY <2>1, <2>2, <2>3, <2>4 DEF GraphNext
<1> QED BY <1>1, <1>2, LanesHold, WipLaneWaits, PTL DEF GraphSpec

\* Of the lines that come down to one commit in its own lane, those below the
\* first bend on their way.
LEMMA StraightOnce ==
    ASSUME LanesInv, EdgesInv, Drawn, NEW r \in 1..delivered, NEW s \in 1..delivered,
           HasLine(r), HasLine(s), r < s, FirstParent(s) = FirstParent(r),
           FirstParent(r) \in 1..delivered, lane[r] = lane[FirstParent(r)]
    PROVE  lane[s] # toLane[s][1]
<1>1. /\ delivered \in Nat /\ laid = delivered /\ log \in Histories
      /\ r \in Rows /\ s \in Rows /\ lane[r] \in Lanes /\ lane[s] \in Lanes
  BY GraphAssumption DEF LanesInv, GraphTypeOK, EdgesInv, PagesFit, Drawn, LaidRows, Rows
<1>2. PICK p \in Nat : p = FirstParent(r) /\ p = FirstParent(s) /\ p <= delivered /\ p > s
  <2>1. Len(log.parents[s]) \in 1..2
    BY <1>1, ParentsFit
  <2>2. 1 \in 1..Len(log.parents[s])
    <3>1. \A n \in 1..2 : 1 \in 1..n
      OBVIOUS
    <3> QED BY <2>1, <3>1
  <2>3. FirstParent(s) > s
    BY <1>1, <2>2, ParentsFit DEF FirstParent
  <2> QED BY <1>1, <2>3
<1>3. 1 \in DOMAIN log.parents[s] /\ log.parents[s][1] = FirstParent(r)
  <2>1. Len(log.parents[s]) \in 1..2
    BY <1>1, ParentsFit
  <2> QED BY <1>1, <2>1, ParentsFit DEF FirstParent
<1>4. EndsOn(s, 1) <= lane[r]
  BY <1>1, <1>3 DEF EdgesInv, EdgesJoinLeft
<1>5. EndsOn(s, 1) = toLane[s][1]
  BY DEF EndsOn
<1>6. lane[s] # lane[r]
  BY <1>1, <1>2 DEF LanesInv, LinesAreClear
<1>7. /\ reserved[p] = NoLane => lane[p] <= lane[s]
      /\ reserved[p] # NoLane => lane[p] # lane[r]
  BY <1>1, <1>2 DEF EdgesInv, LinesSettle
<1>8. lane[p] <= lane[s]
  BY <1>2, <1>7
<1> QED BY <1>1, <1>2, <1>4, <1>5, <1>6, <1>8 DEF Lanes

-----------------------------------------------------------------------------
(***************************************************************************)
(* The width of the graph, and its colours.                                *)
(***************************************************************************)
LEMMA LastLaneIs ==
    ASSUME LanesInv, EdgesInv, Drawn
    PROVE  /\ LanesInUse \subseteq Int /\ LastLane \in LanesInUse /\ LastLane \in Nat
           /\ \A l \in LanesInUse : l <= LastLane
<1>1. /\ delivered \in Nat /\ laid = delivered /\ 1 \in Shown /\ RowCount \in Nat
      /\ \A row \in Shown : row \in 1..laid
  BY GraphAssumption DEF LanesInv, GraphTypeOK, EdgesInv, PagesFit, Drawn, Shown
<1>2. \A row \in Shown : /\ lane[row] \in Lanes
                         /\ \A i \in DOMAIN toLane[row] : toLane[row][i] \in {NoLane} \cup Lanes
  BY <1>1 DEF LanesInv, LaidRows, EdgesInv, PagesFit, Shown
<1>3. LanesInUse \subseteq {NoLane} \cup Lanes /\ lane[1] \in LanesInUse /\ lane[1] \in Lanes
  BY <1>1, <1>2 DEF LanesInUse
<1>4. NoLane = 0 - 1 /\ Lanes \subseteq Nat /\ MaxLane \in Nat /\ \A l \in Lanes : l <= MaxLane
  BY <1>1 DEF NoLane, Lanes, MaxLane
<1> DEFINE T == LanesInUse \cap Lanes
<1>5. PICK m \in T : \A y \in T : m >= y
  <2>1. T \subseteq Nat /\ T # {} /\ \A y \in T : y <= MaxLane
    BY <1>3, <1>4
  <2> HIDE DEF T
  <2>2. Largest(T) \in T /\ \A y \in T : Largest(T) >= y
    BY <1>4, <2>1, LargestOf
  <2> QED BY <2>2
<1>6. m \in LanesInUse /\ m \in Nat /\ \A y \in LanesInUse : m >= y
  <2>1. m \in Nat /\ m >= 0 - 1
    <3>1. m \in Lanes
      BY <1>5
    <3>2. m \in Nat
      BY <1>4, <3>1
    <3> QED BY <3>2
  <2>2. \A y \in LanesInUse : y \in T \/ y = 0 - 1
    BY <1>3, <1>4
  <2> HIDE DEF T
  <2>3. m \in LanesInUse
    BY <1>5 DEF T
  <2> QED BY <1>5, <2>1, <2>2, <2>3
<1> HIDE DEF T
<1>7. LanesInUse # {} /\ \E x \in LanesInUse : \A y \in LanesInUse : x >= y
  BY <1>6
<1>8. LastLane = CHOOSE x \in LanesInUse : \A y \in LanesInUse : x >= y
  BY <1>7 DEF LastLane, Largest
<1>9. LastLane \in LanesInUse /\ \A y \in LanesInUse : LastLane >= y
  BY <1>7, <1>8
<1>10. LanesInUse \subseteq Int
  BY <1>3, <1>4
<1>11. LastLane \in Int /\ LastLane >= m
  BY <1>6, <1>9, <1>10
<1> QED BY <1>6, <1>9, <1>10, <1>11

LEMMA BandFits ==
    ASSUME LanesInv, EdgesInv, Drawn, NEW dragged \in Nat
    PROVE  LET width == GraphWidth(dragged)
               band  == OverflowEdge(width)
               parked == {l \in LanesInUse : Padding + l * LaneWidth > MaxX(width)}
           IN  /\ \A l \in LanesInUse : LaneX(l, MaxX(width)) + Radius <= width
               /\ band # <<>> <=> parked # {} /\ ~Collapsed(width)
               /\ band # <<>> => band[1] >= 0 /\ band[1] + band[2] + Radius <= width
<1>1. /\ LanesInUse \subseteq Int /\ LastLane \in LanesInUse /\ LastLane \in Nat
      /\ \A l \in LanesInUse : l <= LastLane
  BY LastLaneIs
<1>2. PICK last \in Nat : last = LastLane
  BY <1>1
<1>3. PICK width : width = GraphWidth(dragged)
  OBVIOUS
<1>4. width \in Nat /\ width >= 41
  <2>1. LaneExtent \in Nat
    BY <1>2 DEF LaneExtent, AtLeast, MinExtent, Padding, LaneWidth
  <2>2. AtMost(dragged, LaneExtent) \in Nat
    BY <2>1 DEF AtMost
  <2> QED BY <1>3, <2>2 DEF GraphWidth, AtLeast, MinColumn
<1>5. PICK x \in Nat : x = MaxX(width) /\ x + 17 = width /\ x >= 24
  <2>1. width - 11 - 6 \in Nat /\ width - 11 - 6 + 17 = width /\ width - 11 - 6 >= 24
    BY <1>4
  <2>2. MaxX(width) = width - 11 - 6
    BY <2>1 DEF MaxX, AtLeast, Padding, Radius, NodeGap
  <2> QED BY <2>1, <2>2
<1>6. ASSUME NEW l \in LanesInUse PROVE LaneX(l, x) + Radius <= width
  <2>1. l \in Int
    BY <1>1
  <2>2. LaneX(l, x) \in Int /\ LaneX(l, x) <= x
    BY <1>5, <2>1 DEF LaneX, AtMost, Padding, LaneWidth
  <2> QED BY <1>4, <1>5, <2>2 DEF Radius
<1>7. (\E l \in LanesInUse : Padding + l * LaneWidth > x) <=> 24 + last * 18 > x
  <2>1. ASSUME NEW l \in LanesInUse, 24 + l * 18 > x PROVE 24 + last * 18 > x
    <3>1. l \in Int /\ l <= last
      BY <1>1, <1>2
    <3> QED BY <1>5, <2>1, <3>1
  <2> QED BY <1>1, <1>2, <2>1 DEF Padding, LaneWidth
<1>8. Collapsed(width) <=> x <= 24
  BY <1>5 DEF Collapsed, Padding
<1>9. PICK hidden, right \in Int : hidden = 24 + last * 18 - x /\ right = x - 11
  BY <1>2, <1>5
<1>10. PICK b \in Int : b = AtMost(22, AtMost(hidden, right)) /\ b <= right
  <2>1. /\ AtMost(hidden, right) \in Int /\ AtMost(hidden, right) <= right
    BY <1>9 DEF AtMost
  <2>2. /\ AtMost(22, AtMost(hidden, right)) \in Int
        /\ AtMost(22, AtMost(hidden, right)) <= right
    BY <1>9, <2>1 DEF AtMost
  <2> QED BY <2>2
<1>11. /\ (hidden <= 0 \/ x - 24 <= 0) => OverflowEdge(width) = <<>>
       /\ ~(hidden <= 0 \/ x - 24 <= 0) => OverflowEdge(width) = <<right - b, b>>
  <2>1. LastLaneX - MaxX(width) = hidden
    BY <1>2, <1>5, <1>9 DEF LastLaneX, Padding, LaneWidth
  <2>2. /\ MaxX(width) - Padding = x - 24 /\ MaxX(width) - Radius = right
        /\ 2 * Radius = 22
    BY <1>5, <1>9 DEF Padding, Radius
  <2>3. AtMost(2 * Radius, AtMost(LastLaneX - MaxX(width), MaxX(width) - Radius)) = b
    BY <1>10, <2>1, <2>2
  <2> QED BY <2>1, <2>2, <2>3 DEF OverflowEdge
<1>12. OverflowEdge(width) # <<>> <=> hidden > 0 /\ x > 24
  <2>1. <<right - b, b>> # <<>>
    OBVIOUS
  <2>2. hidden > 0 /\ x > 24 <=> ~(hidden <= 0 \/ x - 24 <= 0)
    BY <1>5, <1>9
  <2> QED BY <1>11, <2>1, <2>2
<1>13. OverflowEdge(width) # <<>> =>
          /\ OverflowEdge(width)[1] >= 0
          /\ OverflowEdge(width)[1] + OverflowEdge(width)[2] + Radius <= width
  <2>1. ASSUME OverflowEdge(width) # <<>>
        PROVE  OverflowEdge(width)[1] = right - b /\ OverflowEdge(width)[2] = b
    <3>1. OverflowEdge(width) = <<right - b, b>>
      BY <1>11, <2>1
    <3> QED BY <3>1
  <2>2. right - b >= 0 /\ right - b + b + 11 <= width
    BY <1>4, <1>5, <1>9, <1>10
  <2> QED BY <2>1, <2>2 DEF Radius
<1>14. hidden > 0 <=> 24 + last * 18 > x
  BY <1>2, <1>5, <1>9
<1>15. {l \in LanesInUse : Padding + l * LaneWidth > x} # {} <=> 24 + last * 18 > x
  BY <1>7
<1>16. ~Collapsed(width) <=> x > 24
  BY <1>5, <1>8
<1> QED BY <1>3, <1>5, <1>6, <1>12, <1>13, <1>14, <1>15, <1>16

LEMMA ParkedLanesHold == ASSUME LanesInv, EdgesInv PROVE ParkedLanesAreMarked
<1>1. \A dragged \in ColumnWidths : dragged \in Nat
  BY PaintAssumption
<1> QED BY <1>1, BandFits DEF ParkedLanesAreMarked

\* A process of n stages: whatever the stages are, it exists, and what every
\* stage passes on holds after all of them.
Stages(f, start, n, Step) ==
    f = [i \in 0..n |-> IF i = 0 THEN start ELSE Step[i][f[i - 1]]]

LEMMA StagesExist ==
    ASSUME NEW n \in Nat, NEW start, NEW Step
    PROVE  \E f : Stages(f, start, n, Step)
<1> DEFINE Bad == {i \in 0..n : ~ \E f : Stages(f, start, i, Step)}
<1>1. 0 \notin Bad
  <2>1. Stages([i \in 0..0 |-> start], start, 0, Step)
    BY DEF Stages
  <2> QED BY <2>1
<1>2. ASSUME NEW i \in 1..n, i - 1 \notin Bad PROVE i \notin Bad
  <2>1. PICK g : Stages(g, start, i - 1, Step)
    BY <1>2
  <2> HIDE DEF Bad
  <2> DEFINE h == [k \in 0..i |-> IF k < i THEN g[k] ELSE Step[i][g[i - 1]]]
  <2>2. ASSUME NEW k \in 0..i
        PROVE  h[k] = IF k = 0 THEN start ELSE Step[k][h[k - 1]]
    <3>1. CASE k = i
      <4>1. h[k] = Step[i][g[i - 1]] /\ h[k - 1] = g[i - 1]
        BY <3>1
      <4> QED BY <3>1, <4>1
    <3>2. CASE k < i
      <4>1. h[k] = g[k] /\ (k # 0 => h[k - 1] = g[k - 1])
        BY <3>2
      <4>2. g[k] = IF k = 0 THEN start ELSE Step[k][g[k - 1]]
        <5> HIDE DEF h
        <5>1. k \in 0..(i - 1)
          BY <3>2
        <5> QED BY <2>1, <5>1 DEF Stages
      <4> QED BY <4>1, <4>2
    <3> HIDE DEF h
    <3> QED BY <3>1, <3>2
  <2>3. h = [k \in 0..i |-> h[k]]
    OBVIOUS
  <2> HIDE DEF h
  <2>4. Stages(h, start, i, Step)
    BY <2>2, <2>3 DEF Stages
  <2> QED BY <2>4 DEF Bad
<1>3. Bad \subseteq 0..n /\ n \in 0..n
  OBVIOUS
<1> HIDE DEF Bad
<1>4. Bad = {}
  BY <1>1, <1>2, <1>3, NoneFails
<1> QED BY <1>3, <1>4 DEF Bad

LEMMA Throughout ==
    ASSUME NEW n \in Nat, NEW f, NEW D, f[0] \in D[0],
           \A i \in 1..n : f[i - 1] \in D[i - 1] => f[i] \in D[i]
    PROVE  \A i \in 0..n : f[i] \in D[i]
<1> DEFINE Bad == {i \in 0..n : f[i] \notin D[i]}
<1>1. Bad \subseteq 0..n /\ 0 \notin Bad /\ \A i \in 1..n : i - 1 \notin Bad => i \notin Bad
  OBVIOUS
<1> HIDE DEF Bad
<1>2. Bad = {}
  BY <1>1, NoneFails
<1> QED BY <1>2 DEF Bad

-----------------------------------------------------------------------------
(***************************************************************************)
(* The colours: every process over the rows or the groups goes through its *)
(* stages one by one, and what each stage passes on holds at the end. The  *)
(* groups of the commits first.                                            *)
(***************************************************************************)
AnyLane == {NoLane} \cup Lanes
Spans == [first : Nat, last : Nat, lane : AnyLane, anchor : Rows, stash : BOOLEAN]

\* The groups while they are built: every commit is in none of them or in one.
Groupings ==
    {g \in [of : [Rows -> Nat], spans : Seq(Spans)] :
        \A row \in Rows : g.of[row] <= Len(g.spans)}

\* Groups that were open stay where they are, in their lanes, and those that
\* are opened are not stashes.
Grows(g, q) ==
    /\ q \in Groupings /\ Len(g.spans) <= Len(q.spans)
    /\ \A k \in 1..Len(g.spans) : /\ q.spans[k].lane = g.spans[k].lane
                                  /\ q.spans[k].stash = g.spans[k].stash
    /\ \A k \in 1..Len(q.spans) : k > Len(g.spans) => q.spans[k].stash = FALSE

LEMMA GrowsOn ==
    ASSUME NEW g, NEW q, NEW r, g \in Groupings, Grows(g, q), Grows(q, r)
    PROVE  Grows(g, r)
<1>1. /\ Len(g.spans) \in Nat /\ Len(q.spans) \in Nat /\ Len(r.spans) \in Nat
  BY DEF Groupings, Grows
<1>2. Len(g.spans) <= Len(r.spans)
  BY <1>1 DEF Grows
<1>3. ASSUME NEW k \in 1..Len(g.spans)
      PROVE  r.spans[k].lane = g.spans[k].lane /\ r.spans[k].stash = g.spans[k].stash
  <2>1. k \in 1..Len(q.spans)
    BY <1>1 DEF Grows
  <2> QED BY <2>1 DEF Grows
<1>4. ASSUME NEW k \in 1..Len(r.spans), k > Len(g.spans)
      PROVE  r.spans[k].stash = FALSE
  <2>1. CASE k > Len(q.spans)
    BY <2>1 DEF Grows
  <2>2. CASE ~(k > Len(q.spans))
    <3>1. k \in 1..Len(q.spans)
      BY <1>1, <2>2
    <3> QED BY <1>4, <3>1 DEF Grows
  <2> QED BY <2>1, <2>2
<1>5. r \in Groupings
  BY DEF Grows
<1> QED BY <1>2, <1>3, <1>4, <1>5 DEF Grows

LEMMA OpenIs ==
    ASSUME NEW g \in Groupings, NEW row \in Nat, NEW l \in AnyLane, NEW anchor \in Rows
    PROVE  /\ Grows(g, Open(g, row, l, anchor)) /\ Open(g, row, l, anchor).of = g.of
           /\ Len(Open(g, row, l, anchor).spans) = Len(g.spans) + 1
           /\ Open(g, row, l, anchor).spans[Len(g.spans) + 1].lane = l
<1>0. PICK o : o = Open(g, row, l, anchor)
  OBVIOUS
<1>1. PICK span : span = [first |-> row, last |-> row, lane |-> l, anchor |-> anchor,
                          stash |-> FALSE]
  OBVIOUS
<1>2. span \in Spans /\ span.lane = l /\ span.stash = FALSE
  BY <1>1 DEF Spans
<1>3. o = [g EXCEPT !.spans = Append(@, span)]
  BY <1>0, <1>1 DEF Open
<1>4. /\ g.of \in [Rows -> Nat] /\ g.spans \in Seq(Spans) /\ g = [of |-> g.of, spans |-> g.spans]
      /\ \A x \in Rows : g.of[x] <= Len(g.spans)
  BY DEF Groupings
<1>5. o = [of |-> g.of, spans |-> Append(g.spans, span)]
  BY <1>3, <1>4
<1>6. PICK m, n \in Nat : m = Len(g.spans) /\ n = m + 1 /\ n = Len(g.spans) + 1
  BY <1>4
<1>7. /\ Append(g.spans, span) \in Seq(Spans) /\ Len(Append(g.spans, span)) = n
      /\ Append(g.spans, span)[n] = span
      /\ \A k \in 1..m : Append(g.spans, span)[k] = g.spans[k]
  BY <1>2, <1>4, <1>6
<1>8. o.of = g.of /\ o.spans = Append(g.spans, span)
  BY <1>5
<1>9. o \in Groupings
  <2>1. \A x \in Rows : g.of[x] <= n
    BY <1>4, <1>6
  <2> QED BY <1>4, <1>5, <1>7, <2>1 DEF Groupings
<1>10. Grows(g, o)
  BY <1>2, <1>6, <1>7, <1>8, <1>9 DEF Grows
<1> QED BY <1>0, <1>2, <1>6, <1>7, <1>8, <1>10

LEMMA ExtendIs ==
    ASSUME NEW g \in Groupings, NEW group \in 1..Len(g.spans), NEW row \in Nat,
           NEW q, q = Extend(g, group, row)
    PROVE  Grows(g, q) /\ q.of = g.of /\ Len(q.spans) = Len(g.spans)
<1>4. /\ g.of \in [Rows -> Nat] /\ g.spans \in Seq(Spans) /\ g = [of |-> g.of, spans |-> g.spans]
      /\ \A x \in Rows : g.of[x] <= Len(g.spans)
  BY DEF Groupings
<1>1. PICK s : s = g.spans
  OBVIOUS
<1>2. PICK a, b : a = AtMost(s[group].first, row) /\ b = AtLeast(s[group].last, row)
  OBVIOUS
<1>3. s \in Seq(Spans) /\ s[group] \in Spans /\ group \in 1..Len(s) /\ DOMAIN s = 1..Len(s)
  BY <1>1, <1>4
<1>5. PICK one : one = [s EXCEPT ![group].first = a]
  OBVIOUS
<1>6. PICK t : t = [one EXCEPT ![group].last = b]
  OBVIOUS
<1>7. a \in Nat /\ b \in Nat
  BY <1>2, <1>3 DEF AtMost, AtLeast, Spans
<1>8. /\ one \in Seq(Spans) /\ Len(one) = Len(s)
      /\ \A k \in 1..Len(s) : one[k].lane = s[k].lane /\ one[k].stash = s[k].stash
      /\ one[group].last = s[group].last
  <2>1. PICK u : u = [s[group] EXCEPT !.first = a]
    OBVIOUS
  <2>2. u \in Spans /\ u.lane = s[group].lane /\ u.stash = s[group].stash /\ u.last = s[group].last
    BY <1>3, <1>7, <2>1 DEF Spans
  <2>3. one = [s EXCEPT ![group] = u]
    BY <1>5, <2>1
  <2> QED BY <1>3, <2>2, <2>3
<1>9. /\ t \in Seq(Spans) /\ Len(t) = Len(s)
      /\ \A k \in 1..Len(s) : t[k].lane = s[k].lane /\ t[k].stash = s[k].stash
  <2>1. PICK u : u = [one[group] EXCEPT !.last = b]
    OBVIOUS
  <2>4. one[group] \in Spans
    BY <1>3, <1>8
  <2>2. u \in Spans /\ u.lane = one[group].lane /\ u.stash = one[group].stash
    BY <1>7, <2>1, <2>4 DEF Spans
  <2>3. t = [one EXCEPT ![group] = u]
    BY <1>6, <2>1
  <2> QED BY <1>3, <1>8, <2>2, <2>3
<1>10. q = [of |-> g.of, spans |-> t]
  <2>1. q = [[g EXCEPT !.spans[group].first = a] EXCEPT !.spans[group].last = b]
    BY <1>1, <1>2, <1>4, Zenon DEF Extend
  <2>2. [g EXCEPT !.spans[group].first = a] = [of |-> g.of, spans |-> one]
    <3>1. [g EXCEPT !.spans[group].first = a] = [g EXCEPT !.spans = one]
      BY <1>1, <1>5, Zenon
    <3>2. [g EXCEPT !.spans = one] = [of |-> g.of, spans |-> one]
      BY <1>4
    <3> QED BY <3>1, <3>2
  <2> QED BY <1>6, <2>1, <2>2
<1>11. q.of = g.of /\ q.spans = t
  BY <1>10
<1>12. q \in Groupings
  BY <1>1, <1>4, <1>9, <1>10 DEF Groupings
<1> QED BY <1>1, <1>9, <1>11, <1>12, <1>4 DEF Grows

LEMMA ClaimIs ==
    ASSUME NEW g \in Groupings, NEW x \in Rows, NEW group \in 0..Len(g.spans),
           NEW q, q = [g EXCEPT !.of[x] = group]
    PROVE  /\ Grows(g, q) /\ q.spans = g.spans
           /\ \A y \in Rows : q.of[y] = IF y = x THEN group ELSE g.of[y]
<1>1. /\ g.of \in [Rows -> Nat] /\ g.spans \in Seq(Spans) /\ g = [of |-> g.of, spans |-> g.spans]
      /\ \A y \in Rows : g.of[y] <= Len(g.spans)
  BY DEF Groupings
<1>2. q = [of |-> [g.of EXCEPT ![x] = group], spans |-> g.spans]
  BY <1>1
<1>3. /\ q.spans = g.spans /\ q.of \in [Rows -> Nat]
      /\ \A y \in Rows : q.of[y] = IF y = x THEN group ELSE g.of[y]
  BY <1>1, <1>2
<1>4. q \in Groupings
  <2>1. \A y \in Rows : q.of[y] <= Len(q.spans)
    BY <1>1, <1>3
  <2> QED BY <1>1, <1>2, <1>3, <2>1 DEF Groupings
<1> QED BY <1>1, <1>3, <1>4 DEF Grows

\* The row of a group runs straight into its first parent.
Straight(row) == lane[row] = toLane[row][1]

LEMMA FirstIsClaimed ==
    ASSUME NEW g \in Groupings, NEW row, log.parents[row][1] \in Rows, delivered \in Nat,
           NEW group \in 1..Len(g.spans), NEW q, q = ClaimFirst(g, row, group)
    PROVE  /\ Grows(g, q)
           /\ \A y \in Rows : y # FirstParent(row) => q.of[y] = g.of[y]
           /\ Straight(row) => q.of[FirstParent(row)] = group
           /\ ~Straight(row) /\ g.of[FirstParent(row)] # NoGroup =>
                 q.of[FirstParent(row)] = g.of[FirstParent(row)]
<1>1. PICK p \in Rows : p = log.parents[row][1] /\ p = FirstParent(row)
  BY DEF FirstParent
<1>2. PICK claimed : claimed = IF g.of[p] = NoGroup \/ Straight(row)
                               THEN [g EXCEPT !.of[p] = group] ELSE g
  OBVIOUS
<1>3. q = IF Straight(row) THEN Extend(claimed, group, ParentRow(p)) ELSE claimed
  BY <1>1, <1>2 DEF ClaimFirst, Straight
<1>4. group \in 0..Len(g.spans)
  BY DEF Groupings
<1>5. Grows(g, g)
  BY DEF Grows, Groupings
<1>6. /\ Grows(g, claimed) /\ claimed.spans = g.spans
      /\ \A y \in Rows : y # p => claimed.of[y] = g.of[y]
      /\ Straight(row) => claimed.of[p] = group
      /\ ~Straight(row) /\ g.of[p] # NoGroup => claimed.of[p] = g.of[p]
  <2>1. CASE g.of[p] = NoGroup \/ Straight(row)
    BY <1>2, <1>4, <2>1, ClaimIs
  <2>2. CASE ~(g.of[p] = NoGroup \/ Straight(row))
    BY <1>2, <1>5, <2>2
  <2> QED BY <2>1, <2>2
<1>7. ParentRow(p) \in Nat
  BY DEF ParentRow, Rows
<1>8. claimed \in Groupings /\ group \in 1..Len(claimed.spans)
  BY <1>6 DEF Grows
<1>9. CASE Straight(row)
  <2>1. Grows(claimed, q) /\ q.of = claimed.of
    BY <1>3, <1>7, <1>8, <1>9, ExtendIs
  <2>2. Grows(g, q)
    BY <1>6, <2>1, GrowsOn
  <2> QED BY <1>1, <1>6, <1>9, <2>1, <2>2
<1>10. CASE ~Straight(row)
  BY <1>1, <1>3, <1>6, <1>10
<1> QED BY <1>9, <1>10

LEMMA MergedIsClaimed ==
    ASSUME NEW g \in Groupings, NEW row \in Nat, NEW i, log.parents[row][i] \in Rows,
           toLane[row][i] \in AnyLane, delivered \in Nat, NEW q, q = ClaimMerged(g, row, i)
    PROVE  /\ Grows(g, q)
           /\ \A y \in Rows : y # log.parents[row][i] \/ g.of[y] # NoGroup => q.of[y] = g.of[y]
<1>1. PICK p \in Rows : p = log.parents[row][i]
  OBVIOUS
<1>2. PICK o : o = Open(g, row, toLane[row][i], p)
  OBVIOUS
<1>3. PICK opened : opened = IF g.of[p] # NoGroup THEN g
                             ELSE [o EXCEPT !.of[p] = Len(o.spans)]
  OBVIOUS
<1>4. PICK one : one = Extend(opened, opened.of[p], row)
  OBVIOUS
<1>5. q = Extend(one, opened.of[p], ParentRow(p))
  BY <1>1, <1>2, <1>3, <1>4 DEF ClaimMerged
<1>6. /\ Grows(g, opened) /\ opened.of[p] \in 1..Len(opened.spans)
      /\ \A y \in Rows : y # p \/ g.of[y] # NoGroup => opened.of[y] = g.of[y]
  <2>1. CASE g.of[p] # NoGroup
    <3>1. g.of[p] \in Nat /\ g.of[p] <= Len(g.spans) /\ Len(g.spans) \in Nat
      BY DEF Groupings
    <3> QED BY <1>3, <2>1, <3>1 DEF Grows, Groupings, NoGroup
  <2>2. CASE g.of[p] = NoGroup
    <3>1. Grows(g, o) /\ o.of = g.of /\ Len(o.spans) = Len(g.spans) + 1 /\ o \in Groupings
      <4>1. Grows(g, o) /\ o.of = g.of /\ Len(o.spans) = Len(g.spans) + 1
        BY <1>2, OpenIs
      <4> QED BY <4>1 DEF Grows
    <3>2. Len(g.spans) \in Nat /\ Len(o.spans) \in 0..Len(o.spans) /\ Len(o.spans) \in 1..Len(o.spans)
      BY <3>1 DEF Groupings
    <3>3. opened = [o EXCEPT !.of[p] = Len(o.spans)]
      BY <1>3, <2>2
    <3>4. /\ Grows(o, opened) /\ opened.spans = o.spans
          /\ \A y \in Rows : opened.of[y] = IF y = p THEN Len(o.spans) ELSE o.of[y]
      BY <3>1, <3>2, <3>3, ClaimIs
    <3>5. Grows(g, opened)
      BY <3>1, <3>4, GrowsOn
    <3> QED BY <2>2, <3>1, <3>2, <3>4, <3>5
  <2> QED BY <2>1, <2>2
<1>7. Grows(opened, one) /\ one.of = opened.of /\ Len(one.spans) = Len(opened.spans)
  <2>1. opened \in Groupings
    BY <1>6 DEF Grows
  <2> QED BY <1>4, <1>6, <2>1, ExtendIs
<1>8. Grows(one, q) /\ q.of = one.of
  <2>1. one \in Groupings /\ ParentRow(p) \in Nat
    BY <1>7 DEF Grows, ParentRow, Rows
  <2> QED BY <1>5, <1>6, <1>7, <2>1, ExtendIs
<1>9. Grows(g, q)
  <2>1. opened \in Groupings
    BY <1>6 DEF Grows
  <2>2. Grows(g, one)
    BY <1>6, <1>7, GrowsOn
  <2> QED BY <1>8, <2>2, GrowsOn
<1> QED BY <1>1, <1>6, <1>7, <1>8, <1>9

LEMMA RowIsGrouped ==
    ASSUME log \in Histories, delivered \in Nat, NEW g \in Groupings, NEW row \in Rows,
           ~IsStash(row), lane[row] \in AnyLane,
           \A i \in DOMAIN log.parents[row] : toLane[row][i] \in AnyLane,
           NEW q, q = GroupRow(g, row)
    PROVE  /\ Grows(g, q)
           /\ q.of[row] # NoGroup /\ q.spans[q.of[row]].lane = lane[row]
           /\ g.of[row] # NoGroup /\ g.spans[g.of[row]].lane = lane[row] =>
                 q.of[row] = g.of[row]
           /\ \A y \in Rows : y # row /\ (\A i \in DOMAIN log.parents[row] : log.parents[row][i] # y)
                 => q.of[y] = g.of[y]
           /\ \A y \in Rows : /\ y # row /\ g.of[y] # NoGroup
                              /\ ~(HasLine(row) /\ y = FirstParent(row) /\ Straight(row))
                 => q.of[y] = g.of[y]
           /\ HasLine(row) /\ Straight(row) => q.of[FirstParent(row)] = q.of[row]
<1>1. PICK o : o = Open(g, row, lane[row], row)
  OBVIOUS
<1>2. PICK opened : opened = IF g.of[row] # NoGroup /\ g.spans[g.of[row]].lane = lane[row]
                             THEN g ELSE [o EXCEPT !.of[row] = Len(o.spans)]
  OBVIOUS
<1>3. PICK group : group = opened.of[row]
  OBVIOUS
<1>4. PICK own : own = Extend(opened, group, row)
  OBVIOUS
<1>5. PICK first : first = IF log.parents[row] = <<>> THEN own ELSE ClaimFirst(own, row, group)
  OBVIOUS
<1>6. q = IF Len(log.parents[row]) < 2 THEN first ELSE ClaimMerged(first, row, 2)
  BY <1>1, <1>2, <1>3, <1>4, <1>5, SMTT(60) DEF GroupRow
<1>7. /\ Grows(g, opened) /\ opened.of[row] \in 1..Len(opened.spans)
      /\ opened.spans[opened.of[row]].lane = lane[row]
      /\ \A y \in Rows : y # row => opened.of[y] = g.of[y]
      /\ g.of[row] # NoGroup /\ g.spans[g.of[row]].lane = lane[row] => opened.of[row] = g.of[row]
  <2>1. CASE g.of[row] # NoGroup /\ g.spans[g.of[row]].lane = lane[row]
    <3>1. g.of[row] \in Nat /\ g.of[row] <= Len(g.spans) /\ Len(g.spans) \in Nat
      BY DEF Groupings
    <3> QED BY <1>2, <2>1, <3>1 DEF Grows, Groupings, NoGroup
  <2>2. CASE ~(g.of[row] # NoGroup /\ g.spans[g.of[row]].lane = lane[row])
    <3>1. /\ Grows(g, o) /\ o.of = g.of /\ Len(o.spans) = Len(g.spans) + 1 /\ o \in Groupings
          /\ o.spans[Len(o.spans)].lane = lane[row]
      <4>1. row \in Nat
        BY DEF Rows
      <4>2. /\ Grows(g, o) /\ o.of = g.of /\ Len(o.spans) = Len(g.spans) + 1
            /\ o.spans[Len(o.spans)].lane = lane[row]
        BY <1>1, <4>1, OpenIs
      <4> QED BY <4>2 DEF Grows
    <3>2. Len(g.spans) \in Nat /\ Len(o.spans) \in 0..Len(o.spans) /\ Len(o.spans) \in 1..Len(o.spans)
      BY <3>1 DEF Groupings
    <3>3. opened = [o EXCEPT !.of[row] = Len(o.spans)]
      BY <1>2, <2>2
    <3>4. /\ Grows(o, opened) /\ opened.spans = o.spans
          /\ \A y \in Rows : opened.of[y] = IF y = row THEN Len(o.spans) ELSE o.of[y]
      BY <3>1, <3>2, <3>3, ClaimIs
    <3>5. Grows(g, opened)
      BY <3>1, <3>4, GrowsOn
    <3> QED BY <2>2, <3>1, <3>2, <3>4, <3>5
  <2> QED BY <2>1, <2>2
<1>8. /\ Grows(opened, own) /\ own.of = opened.of /\ Len(own.spans) = Len(opened.spans)
      /\ group \in 1..Len(opened.spans)
  <2>1. opened \in Groupings /\ row \in Nat
    BY <1>7 DEF Grows, Rows
  <2> QED BY <1>3, <1>4, <1>7, <2>1, ExtendIs
<1>9. /\ DOMAIN log.parents[row] = 1..Len(log.parents[row]) /\ Len(log.parents[row]) \in 0..2
      /\ \A i \in 1..Len(log.parents[row]) : log.parents[row][i] \in Rows /\ log.parents[row][i] > row
      /\ Len(log.parents[row]) = 2 => log.parents[row][1] # log.parents[row][2]
      /\ HasLine(row) <=> Len(log.parents[row]) \in 1..2
      /\ HasLine(row) <=> log.parents[row] # <<>>
  <2>1. log.parents[row] = <<>> => Len(log.parents[row]) = 0
    OBVIOUS
  <2>2. HasLine(row) <=> log.parents[row] # <<>>
    BY DEF HasLine
  <2>3. /\ DOMAIN log.parents[row] = 1..Len(log.parents[row]) /\ Len(log.parents[row]) \in 0..2
        /\ \A i \in 1..Len(log.parents[row]) : log.parents[row][i] \in Rows /\ log.parents[row][i] > row
        /\ Len(log.parents[row]) = 2 => log.parents[row][1] # log.parents[row][2]
        /\ HasLine(row) => Len(log.parents[row]) \in 1..2
    BY ParentsFit
  <2>4. Len(log.parents[row]) \in 1..2 => HasLine(row)
    <3>1. 0 \notin 1..2
      OBVIOUS
    <3> QED BY <2>1, <2>2, <3>1
  <2> QED BY <2>2, <2>3, <2>4
<1>10. HasLine(row) => /\ FirstParent(row) \in Rows /\ FirstParent(row) # row
                       /\ 1 \in DOMAIN log.parents[row] /\ FirstParent(row) = log.parents[row][1]
  <2>1. \A n \in 1..2 : 1 \in 1..n
    OBVIOUS
  <2>2. \A x \in Rows : ~(x > x)
    BY DEF Rows
  <2> QED BY <1>9, <2>1, <2>2 DEF FirstParent
<1>11. /\ Grows(own, first) /\ group \in Nat
       /\ \A y \in Rows : (HasLine(row) => y # FirstParent(row)) => first.of[y] = own.of[y]
       /\ HasLine(row) /\ Straight(row) => first.of[FirstParent(row)] = group
       /\ \A y \in Rows : own.of[y] # NoGroup /\ ~(HasLine(row) /\ y = FirstParent(row) /\ Straight(row))
              => first.of[y] = own.of[y]
  <2>1. own \in Groupings /\ group \in 1..Len(own.spans) /\ Len(own.spans) \in Nat
    BY <1>8 DEF Grows, Groupings
  <2>2. CASE ~HasLine(row)
    <3>1. first = own
      BY <1>5, <1>9, <2>2
    <3> QED BY <2>1, <2>2, <3>1 DEF Grows, Groupings
  <2>3. CASE HasLine(row)
    <3>1. first = ClaimFirst(own, row, group) /\ log.parents[row][1] \in Rows
      BY <1>5, <1>9, <1>10, <2>3
    <3>2. /\ Grows(own, first)
          /\ \A y \in Rows : y # FirstParent(row) => first.of[y] = own.of[y]
          /\ Straight(row) => first.of[FirstParent(row)] = group
          /\ ~Straight(row) /\ own.of[FirstParent(row)] # NoGroup =>
                first.of[FirstParent(row)] = own.of[FirstParent(row)]
      BY <2>1, <3>1, FirstIsClaimed
    <3> QED BY <2>1, <2>3, <3>2
  <2> QED BY <2>2, <2>3
<1>12. /\ Grows(first, q)
       /\ \A y \in Rows : (\A i \in DOMAIN log.parents[row] : log.parents[row][i] # y) \/ first.of[y] # NoGroup
              => q.of[y] = first.of[y]
  <2>1. first \in Groupings /\ row \in Nat
    BY <1>11 DEF Grows, Rows
  <2>2. CASE Len(log.parents[row]) < 2
    <3>1. q = first
      BY <1>6, <2>2
    <3> QED BY <2>1, <3>1 DEF Grows, Groupings
  <2>3. CASE ~(Len(log.parents[row]) < 2)
    <3>1. 2 \in DOMAIN log.parents[row] /\ log.parents[row][2] \in Rows
      BY <1>9, <2>3
    <3>2. q = ClaimMerged(first, row, 2) /\ toLane[row][2] \in AnyLane
      BY <1>6, <2>3, <3>1
    <3>3. /\ Grows(first, q)
          /\ \A y \in Rows : y # log.parents[row][2] \/ first.of[y] # NoGroup => q.of[y] = first.of[y]
      BY <2>1, <3>1, <3>2, MergedIsClaimed
    <3> QED BY <3>1, <3>3
  <2> QED BY <2>2, <2>3
<1>13. Grows(g, q) /\ Grows(opened, q)
  <2>1. g \in Groupings /\ opened \in Groupings
    BY <1>7 DEF Grows
  <2>2. Grows(opened, first)
    BY <1>8, <1>11, <2>1, GrowsOn
  <2>3. Grows(opened, q)
    BY <1>12, <2>1, <2>2, GrowsOn
  <2> QED BY <1>7, <2>1, <2>3, GrowsOn
<1>14. q.of[row] = group /\ group # NoGroup
  <2>1. group # NoGroup
    BY <1>8 DEF NoGroup
  <2>2. own.of[row] = group
    BY <1>3, <1>8
  <2>3. first.of[row] = group
    BY <1>10, <1>11, <2>2
  <2> QED BY <1>12, <2>1, <2>3
<1>15. q.spans[q.of[row]].lane = lane[row]
  BY <1>3, <1>7, <1>8, <1>13, <1>14 DEF Grows
<1>16. ASSUME NEW y \in Rows, y # row, \A i \in DOMAIN log.parents[row] : log.parents[row][i] # y
       PROVE  q.of[y] = g.of[y]
  <2>1. HasLine(row) => y # FirstParent(row)
    BY <1>10, <1>16
  <2> QED BY <1>7, <1>8, <1>11, <1>12, <1>16, <2>1
<1>17. ASSUME NEW y \in Rows, y # row, g.of[y] # NoGroup,
              ~(HasLine(row) /\ y = FirstParent(row) /\ Straight(row))
       PROVE  q.of[y] = g.of[y]
  <2>1. own.of[y] = g.of[y]
    BY <1>7, <1>8, <1>17
  <2>2. first.of[y] = g.of[y]
    BY <1>11, <1>17, <2>1
  <2> QED BY <1>12, <1>17, <2>2
<1>18. HasLine(row) /\ Straight(row) => q.of[FirstParent(row)] = q.of[row]
  BY <1>10, <1>11, <1>12, <1>14
<1>19. g.of[row] # NoGroup /\ g.spans[g.of[row]].lane = lane[row] => q.of[row] = g.of[row]
  BY <1>3, <1>7, <1>14
<1> QED BY <1>13, <1>14, <1>15, <1>16, <1>17, <1>18, <1>19

\* A group is marked as that of a stash.
Marked(g, group) == [g EXCEPT !.spans[group].stash = TRUE]

LEMMA MarkIs ==
    ASSUME NEW g \in Groupings, NEW group \in 1..Len(g.spans),
           NEW q, q = Marked(g, group)
    PROVE  /\ q \in Groupings /\ q.of = g.of /\ Len(q.spans) = Len(g.spans)
           /\ \A k \in 1..Len(g.spans) : q.spans[k].lane = g.spans[k].lane
           /\ \A k \in 1..Len(g.spans) : k # group => q.spans[k] = g.spans[k]
<1>1. /\ g.of \in [Rows -> Nat] /\ g.spans \in Seq(Spans) /\ g = [of |-> g.of, spans |-> g.spans]
      /\ \A x \in Rows : g.of[x] <= Len(g.spans)
  BY DEF Groupings
<1>2. PICK s : s = g.spans
  OBVIOUS
<1>3. PICK t : t = [s EXCEPT ![group].stash = TRUE]
  OBVIOUS
<1>4. /\ t \in Seq(Spans) /\ Len(t) = Len(s)
      /\ \A k \in 1..Len(s) : t[k].lane = s[k].lane
      /\ \A k \in 1..Len(s) : k # group => t[k] = s[k]
  <2>1. PICK u : u = [s[group] EXCEPT !.stash = TRUE]
    OBVIOUS
  <2>2. s[group] \in Spans /\ group \in 1..Len(s) /\ s \in Seq(Spans)
    BY <1>1, <1>2
  <2>3. u \in Spans /\ u.lane = s[group].lane
    BY <2>1, <2>2 DEF Spans
  <2>4. t = [s EXCEPT ![group] = u]
    BY <1>3, <2>1
  <2> QED BY <2>2, <2>3, <2>4
<1>5. q = [of |-> g.of, spans |-> t]
  <2>1. q = [g EXCEPT !.spans = t]
    BY <1>2, <1>3, Zenon DEF Marked
  <2> QED BY <1>1, <2>1
<1>6. q.of = g.of /\ q.spans = t
  BY <1>5
<1>7. q \in Groupings
  <2>1. \A x \in Rows : q.of[x] <= Len(q.spans)
    BY <1>1, <1>2, <1>4, <1>6
  <2> QED BY <1>1, <1>4, <1>5, <2>1 DEF Groupings
<1> QED BY <1>2, <1>4, <1>6, <1>7

\* A row joins the groups with one of its own.
Joins(g, row, q) ==
    /\ q \in Groupings /\ Len(g.spans) <= Len(q.spans)
    /\ \A k \in 1..Len(g.spans) : /\ q.spans[k].lane = g.spans[k].lane
                                  /\ q.spans[k].stash = g.spans[k].stash
    /\ q.of[row] # NoGroup /\ q.spans[q.of[row]].lane = lane[row]
    /\ \A y \in Rows : y # row => q.of[y] = g.of[y]

LEMMA StashIsGrouped ==
    ASSUME NEW g \in Groupings, NEW row \in Rows, IsStash(row), g.of[row] = NoGroup,
           lane[row] \in AnyLane, log.parents[row][1] \in Rows, delivered \in Nat,
           NEW q, q = GroupStash(g, row)
    PROVE  Joins(g, row, q)
<1>1. PICK o : o = Open(g, row, lane[row], row)
  OBVIOUS
<1>2. PICK group : group = Len(o.spans)
  OBVIOUS
<1>3. PICK claimed : claimed = [o EXCEPT !.of[row] = group]
  OBVIOUS
<1>4. PICK mine : mine = Marked(claimed, group)
  OBVIOUS
<1>5. q = Extend(mine, group, ParentRow(log.parents[row][1]))
  <2>1. mine = [o EXCEPT !.of[row] = group, !.spans[group].stash = TRUE]
    BY <1>3, <1>4, Zenon DEF Marked
  <2> QED BY <1>1, <1>2, <2>1 DEF GroupStash
<1>6. /\ Grows(g, o) /\ o.of = g.of /\ group = Len(g.spans) + 1 /\ o.spans[group].lane = lane[row]
  <2>1. row \in Nat
    BY DEF Rows
  <2>2. PICK l \in AnyLane : l = lane[row]
    OBVIOUS
  <2>3. o = Open(g, row, l, row)
    BY <1>1, <2>2
  <2> QED BY <1>2, <2>1, <2>2, <2>3, OpenIs
<1>7. /\ o \in Groupings /\ Len(g.spans) \in Nat /\ group \in Nat
      /\ group \in 1..Len(o.spans) /\ group \in 0..Len(o.spans)
  BY <1>2, <1>6 DEF Grows, Groupings
<1>8. /\ claimed \in Groupings /\ claimed.spans = o.spans
      /\ \A y \in Rows : claimed.of[y] = IF y = row THEN group ELSE o.of[y]
  <2>1. /\ Grows(o, claimed) /\ claimed.spans = o.spans
        /\ \A y \in Rows : claimed.of[y] = IF y = row THEN group ELSE o.of[y]
    BY <1>3, <1>7, ClaimIs
  <2> QED BY <2>1 DEF Grows
<1>9. /\ mine \in Groupings /\ mine.of = claimed.of /\ Len(mine.spans) = Len(o.spans)
      /\ \A k \in 1..Len(o.spans) : mine.spans[k].lane = o.spans[k].lane
      /\ \A k \in 1..Len(o.spans) : k # group => mine.spans[k] = o.spans[k]
  <2>1. group \in 1..Len(claimed.spans)
    BY <1>7, <1>8
  <2>2. /\ mine \in Groupings /\ mine.of = claimed.of /\ Len(mine.spans) = Len(claimed.spans)
        /\ \A k \in 1..Len(claimed.spans) : mine.spans[k].lane = claimed.spans[k].lane
        /\ \A k \in 1..Len(claimed.spans) : k # group => mine.spans[k] = claimed.spans[k]
    BY <1>4, <1>8, <2>1, MarkIs
  <2> QED BY <1>8, <2>2
<1>10. Grows(mine, q) /\ q.of = mine.of /\ Len(q.spans) = Len(mine.spans)
  <2>1. ParentRow(log.parents[row][1]) \in Nat /\ group \in 1..Len(mine.spans)
    BY <1>7, <1>9 DEF ParentRow, Rows
  <2> QED BY <1>5, <1>9, <2>1, ExtendIs
<1>11. q \in Groupings /\ Len(g.spans) <= Len(q.spans)
  BY <1>2, <1>6, <1>7, <1>9, <1>10 DEF Grows
<1>12. ASSUME NEW k \in 1..Len(g.spans)
       PROVE  q.spans[k].lane = g.spans[k].lane /\ q.spans[k].stash = g.spans[k].stash
  <2>0. PICK m \in Nat : /\ m = Len(g.spans) /\ group = m + 1 /\ Len(o.spans) = m + 1
                         /\ Len(mine.spans) = m + 1
    BY <1>2, <1>6, <1>7, <1>9
  <2>1. k \in 1..Len(o.spans) /\ k # group /\ k \in 1..Len(mine.spans)
    BY <2>0
  <2>2. q.spans[k].lane = mine.spans[k].lane /\ q.spans[k].stash = mine.spans[k].stash
    BY <1>10, <2>1 DEF Grows
  <2>3. o.spans[k].lane = g.spans[k].lane /\ o.spans[k].stash = g.spans[k].stash
    BY <1>6 DEF Grows
  <2> QED BY <1>9, <2>1, <2>2, <2>3
<1>13. q.of[row] = group /\ group # NoGroup
  BY <1>6, <1>7, <1>8, <1>9, <1>10 DEF NoGroup
<1>14. q.spans[group].lane = lane[row]
  <2>1. group \in 1..Len(mine.spans)
    BY <1>7, <1>9
  <2>2. q.spans[group].lane = mine.spans[group].lane
    BY <1>10, <2>1 DEF Grows
  <2> QED BY <1>6, <1>7, <1>9, <2>2
<1>15. \A y \in Rows : y # row => q.of[y] = g.of[y]
  BY <1>6, <1>8, <1>9, <1>10
<1> QED BY <1>11, <1>12, <1>13, <1>14, <1>15 DEF Joins

-----------------------------------------------------------------------------
(***************************************************************************)
(* What the groups are after each row, and after the stashes.              *)
(***************************************************************************)
\* A line that comes straight down to its first parent.
StraightDown(r) ==
    /\ HasLine(r) /\ FirstParent(r) \in 1..delivered
    /\ lane[r] = lane[FirstParent(r)] /\ Straight(r)

\* The groups after the first n rows.
GroupsFit(g, n) ==
    /\ \A k \in 1..Len(g.spans) : g.spans[k].stash = FALSE
    /\ \A y \in Rows : IsStash(y) => g.of[y] = NoGroup
    /\ \A y \in 1..n : ~IsStash(y) => g.of[y] # NoGroup /\ g.spans[g.of[y]].lane = lane[y]
    /\ \A r \in 1..n : StraightDown(r) => g.of[FirstParent(r)] = g.of[r]

LEMMA ShownFits ==
    ASSUME LanesInv, EdgesInv, Drawn
    PROVE  /\ delivered \in Nat /\ laid = delivered /\ log \in Histories
           /\ \A row \in 1..delivered :
                 /\ row \in Rows /\ lane[row] \in AnyLane /\ lane[row] \in Nat
                 /\ \A i \in DOMAIN log.parents[row] : toLane[row][i] \in AnyLane
<1>1. delivered \in Nat /\ laid = delivered /\ log \in Histories /\ delivered <= RowCount
  BY GraphAssumption DEF LanesInv, GraphTypeOK, EdgesInv, PagesFit, Drawn
<1>2. \A row \in 1..delivered : row \in Rows /\ lane[row] \in Lanes
  BY <1>1, GraphAssumption DEF LanesInv, LaidRows, Rows
<1>3. \A x \in Lanes : x \in Nat /\ x \in AnyLane
  BY DEF Lanes, AnyLane
<1>4. \A row \in 1..delivered :
         \A i \in DOMAIN log.parents[row] : toLane[row][i] \in {NoLane} \cup Lanes
  BY DEF EdgesInv, PagesFit
<1> QED BY <1>1, <1>2, <1>3, <1>4 DEF AnyLane

LEMMA RowKeepsGroups ==
    ASSUME LanesInv, EdgesInv, Drawn, NEW n \in 1..delivered,
           NEW g \in Groupings, GroupsFit(g, n - 1), NEW q, q = GroupRow(g, n)
    PROVE  q \in Groupings /\ GroupsFit(q, n)
<1>1. /\ delivered \in Nat /\ laid = delivered /\ log \in Histories
      /\ \A row \in 1..delivered :
            /\ row \in Rows /\ lane[row] \in AnyLane
            /\ \A i \in DOMAIN log.parents[row] : toLane[row][i] \in AnyLane
  BY ShownFits
<1>2. \A y \in 1..n : y = n \/ y \in 1..(n - 1)
  OBVIOUS
<1>3. CASE IsStash(n)
  <2>1. q = g
    BY <1>3 DEF GroupRow
  <2>2. ~HasLine(n)
    BY <1>3 DEF HasLine
  <2> QED BY <1>2, <1>3, <2>1, <2>2 DEF GroupsFit, StraightDown
<1>4. CASE ~IsStash(n)
  <2>1. /\ Grows(g, q)
        /\ q.of[n] # NoGroup /\ q.spans[q.of[n]].lane = lane[n]
        /\ g.of[n] # NoGroup /\ g.spans[g.of[n]].lane = lane[n] => q.of[n] = g.of[n]
        /\ \A y \in Rows : y # n /\ (\A i \in DOMAIN log.parents[n] : log.parents[n][i] # y)
              => q.of[y] = g.of[y]
        /\ \A y \in Rows : /\ y # n /\ g.of[y] # NoGroup
                           /\ ~(HasLine(n) /\ y = FirstParent(n) /\ Straight(n))
              => q.of[y] = g.of[y]
        /\ HasLine(n) /\ Straight(n) => q.of[FirstParent(n)] = q.of[n]
    BY <1>1, <1>4, RowIsGrouped
  <2>2. q \in Groupings /\ Len(g.spans) \in Nat /\ Len(q.spans) \in Nat
    BY <2>1 DEF Grows, Groupings
  <2>3. \A i \in DOMAIN log.parents[n] : /\ log.parents[n][i] \in Rows /\ log.parents[n][i] > n
                                         /\ ~IsStash(log.parents[n][i])
    BY <1>1, ParentsFit
  <2>4. ASSUME NEW k \in 1..Len(q.spans) PROVE q.spans[k].stash = FALSE
    <3>1. CASE k > Len(g.spans)
      BY <2>1, <3>1 DEF Grows
    <3>2. CASE ~(k > Len(g.spans))
      <4>1. k \in 1..Len(g.spans)
        BY <2>2, <3>2
      <4> QED BY <2>1, <4>1 DEF Grows, GroupsFit
    <3> QED BY <3>1, <3>2
  <2>5. \A y \in Rows : IsStash(y) => q.of[y] = NoGroup
    BY <1>4, <2>1, <2>3 DEF GroupsFit
  <2>6. ASSUME NEW y \in 1..(n - 1), ~IsStash(y)
        PROVE  /\ q.of[y] = g.of[y] /\ g.of[y] # NoGroup /\ y \in Rows /\ y < n
               /\ g.spans[g.of[y]].lane = lane[y] /\ q.spans[q.of[y]].lane = lane[y]
    <3>1. y \in Rows /\ y < n /\ y # n
      BY <1>1
    <3>2. \A i \in DOMAIN log.parents[n] : log.parents[n][i] # y
      BY <2>3, <3>1 DEF Rows
    <3>3. q.of[y] = g.of[y] /\ g.of[y] # NoGroup /\ g.spans[g.of[y]].lane = lane[y]
      BY <2>1, <2>6, <3>1, <3>2 DEF GroupsFit
    <3>4. g.of[y] \in 1..Len(g.spans)
      BY <3>1, <3>3 DEF Groupings, NoGroup
    <3> QED BY <2>1, <3>1, <3>3, <3>4 DEF Grows
  <2>7. ASSUME NEW r \in 1..n, StraightDown(r) PROVE q.of[FirstParent(r)] = q.of[r]
    <3>1. CASE r = n
      BY <2>1, <2>7, <3>1 DEF StraightDown
    <3>2. CASE r \in 1..(n - 1)
      <4>1. /\ HasLine(r) /\ ~IsStash(r) /\ FirstParent(r) \in 1..delivered
            /\ lane[r] = lane[FirstParent(r)]
        BY <2>7 DEF StraightDown, HasLine
      <4>2. q.of[r] = g.of[r] /\ g.of[r] # NoGroup /\ g.spans[g.of[r]].lane = lane[r] /\ r < n
        BY <2>6, <3>2, <4>1
      <4>3. g.of[FirstParent(r)] = g.of[r]
        BY <2>7, <3>2 DEF GroupsFit
      <4>4. CASE FirstParent(r) = n
        BY <2>1, <4>1, <4>2, <4>3, <4>4
      <4>5. CASE FirstParent(r) # n
        <5>1. ASSUME HasLine(n), FirstParent(r) = FirstParent(n), Straight(n) PROVE FALSE
          <6>1. r \in 1..delivered
            BY <1>1, <3>2
          <6> QED BY <4>1, <4>2, <5>1, <6>1, StraightOnce DEF Straight
        <5>2. FirstParent(r) \in Rows
          BY <1>1, <4>1
        <5> QED BY <2>1, <4>2, <4>3, <4>5, <5>1, <5>2
      <4> QED BY <4>4, <4>5
    <3> QED BY <1>2, <3>1, <3>2
  <2>8. \A y \in 1..n : ~IsStash(y) => q.of[y] # NoGroup /\ q.spans[q.of[y]].lane = lane[y]
    BY <1>2, <2>1, <2>6
  <2> QED BY <2>2, <2>4, <2>5, <2>7, <2>8 DEF GroupsFit
<1> QED BY <1>3, <1>4

CommitStages(f) ==
    f = [n \in 0..delivered |->
            IF n = 0 THEN [of |-> [row \in Rows |-> NoGroup], spans |-> <<>>]
            ELSE GroupRow(f[n - 1], n)]

LEMMA CommitsAreGrouped ==
    ASSUME LanesInv, EdgesInv, Drawn
    PROVE  CommitGroups \in Groupings /\ GroupsFit(CommitGroups, delivered)
<1>1. PICK empty : empty = [of |-> [row \in Rows |-> NoGroup], spans |-> <<>>]
  OBVIOUS
<1> DEFINE D == [n \in 0..delivered |-> {g \in Groupings : GroupsFit(g, n)}]
           Step == [n \in 1..delivered |-> [g \in Groupings |-> GroupRow(g, n)]]
           c == CHOOSE f : CommitStages(f)
<1>2. delivered \in Nat
  BY ShownFits
<1>3. empty \in D[0]
  <2>1. empty.of = [row \in Rows |-> NoGroup] /\ empty.spans = <<>>
    BY <1>1
  <2>2. empty \in Groupings
    BY <1>1, <2>1 DEF Groupings, NoGroup
  <2>3. GroupsFit(empty, 0)
    BY <2>1 DEF GroupsFit
  <2>4. 0 \in 0..delivered
    BY <1>2
  <2> QED BY <2>2, <2>3, <2>4
<1>4. ASSUME NEW n \in 1..delivered, NEW g \in D[n - 1]
      PROVE  GroupRow(g, n) \in D[n] /\ g \in Groupings
  <2>1. g \in Groupings /\ GroupsFit(g, n - 1)
    BY <1>2, <1>4
  <2>2. GroupRow(g, n) \in Groupings /\ GroupsFit(GroupRow(g, n), n)
    BY <2>1, RowKeepsGroups
  <2> QED BY <1>2, <2>1, <2>2
<1> HIDE DEF D
<1>5. PICK f : Stages(f, empty, delivered, Step)
  BY <1>2, StagesExist
<1>6. /\ f[0] = empty /\ \A n \in 1..delivered : f[n] = Step[n][f[n - 1]]
  <2> HIDE DEF Step
  <2> QED BY <1>2, <1>5 DEF Stages
<1>7. \A n \in 0..delivered : f[n] \in D[n]
  <2>1. ASSUME NEW n \in 1..delivered, f[n - 1] \in D[n - 1] PROVE f[n] \in D[n]
    <3>1. f[n] = GroupRow(f[n - 1], n)
      BY <1>4, <1>6, <2>1
    <3> QED BY <1>4, <2>1, <3>1
  <2> QED BY <1>2, <1>3, <1>6, <2>1, Throughout
<1>8. CommitStages(f)
  <2>1. ASSUME NEW n \in 0..delivered
        PROVE  f[n] = IF n = 0 THEN empty ELSE GroupRow(f[n - 1], n)
    <3>1. CASE n = 0
      BY <1>6, <3>1
    <3>2. CASE n # 0
      <4>1. n \in 1..delivered /\ n - 1 \in 0..delivered
        BY <1>2, <3>2
      <4> QED BY <1>4, <1>6, <1>7, <3>2, <4>1
    <3> QED BY <3>1, <3>2
  <2>2. f = [n \in 0..delivered |-> f[n]]
    <3> HIDE DEF Step
    <3> QED BY <1>5 DEF Stages
  <2> HIDE DEF Step
  <2> QED BY <1>1, <2>1, <2>2 DEF CommitStages
<1>9. CommitStages(c)
  <2> HIDE DEF Step
  <2> QED BY <1>8
<1>10. CommitGroups = c[delivered]
  BY DEF CommitGroups, CommitStages
<1> HIDE DEF c, Step
<1>11. \A n \in 0..delivered : c[n] \in D[n]
  <2>1. c[0] = empty /\ \A n \in 1..delivered : c[n] = GroupRow(c[n - 1], n)
    BY <1>1, <1>2, <1>9 DEF CommitStages
  <2>2. ASSUME NEW n \in 1..delivered, c[n - 1] \in D[n - 1] PROVE c[n] \in D[n]
    BY <1>4, <2>1, <2>2
  <2> QED BY <1>2, <1>3, <2>1, <2>2, Throughout
<1>12. c[delivered] \in D[delivered] /\ delivered \in 0..delivered
  BY <1>2, <1>11
<1> QED BY <1>10, <1>12 DEF D

\* The groups after the stashes of the first n rows, of the groups base.
StashesFit(g, n, base) ==
    /\ Len(base.spans) <= Len(g.spans)
    /\ \A k \in 1..Len(base.spans) : /\ g.spans[k].lane = base.spans[k].lane
                                     /\ g.spans[k].stash = base.spans[k].stash
    /\ \A y \in Rows : ~IsStash(y) => g.of[y] = base.of[y]
    /\ \A y \in Rows : IsStash(y) /\ y > n => g.of[y] = NoGroup
    /\ \A y \in 1..n : IsStash(y) => g.of[y] # NoGroup /\ g.spans[g.of[y]].lane = lane[y]

LEMMA StashKeepsGroups ==
    ASSUME LanesInv, EdgesInv, Drawn, NEW n \in 1..delivered, NEW base \in Groupings,
           NEW g \in Groupings, StashesFit(g, n - 1, base), NEW q, q = GroupStash(g, n)
    PROVE  q \in Groupings /\ StashesFit(q, n, base)
<1>1. /\ delivered \in Nat /\ log \in Histories
      /\ \A row \in 1..delivered : row \in Rows /\ lane[row] \in AnyLane
  BY ShownFits
<1>2. \A y \in 1..n : y = n \/ y \in 1..(n - 1)
  OBVIOUS
<1>3. n \in Rows /\ n \in Nat /\ lane[n] \in AnyLane
  BY <1>1
<1>4. CASE ~IsStash(n)
  <2>1. q = g
    BY <1>4 DEF GroupStash
  <2>2. \A y \in Rows : IsStash(y) /\ y > n => y > n - 1
    BY <1>3 DEF Rows
  <2> QED BY <1>2, <1>4, <2>1, <2>2 DEF StashesFit
<1>5. CASE IsStash(n)
  <2>1. g.of[n] = NoGroup
    BY <1>3, <1>5 DEF StashesFit
  <2>2. log.parents[n][1] \in Rows
    <3>1. Len(log.parents[n]) = 1 /\ \A i \in 1..Len(log.parents[n]) : log.parents[n][i] \in Rows
      BY <1>1, <1>3, <1>5, ParentsFit
    <3> QED BY <3>1
  <2>3. /\ q \in Groupings /\ Len(g.spans) <= Len(q.spans)
        /\ \A k \in 1..Len(g.spans) : /\ q.spans[k].lane = g.spans[k].lane
                                      /\ q.spans[k].stash = g.spans[k].stash
        /\ q.of[n] # NoGroup /\ q.spans[q.of[n]].lane = lane[n]
        /\ \A y \in Rows : y # n => q.of[y] = g.of[y]
    <3>1. /\ n \in Rows /\ lane[n] \in AnyLane /\ delivered \in Nat
          /\ IsStash(n) /\ g.of[n] = NoGroup /\ log.parents[n][1] \in Rows
          /\ q = GroupStash(g, n)
      BY <1>1, <1>3, <1>5, <2>1, <2>2
    <3>2. Joins(g, n, q)
      BY <3>1, StashIsGrouped
    <3> QED BY <3>2 DEF Joins
  <2>4. Len(base.spans) \in Nat /\ Len(g.spans) \in Nat /\ Len(q.spans) \in Nat
    BY <2>3 DEF Groupings
  <2>5. Len(base.spans) <= Len(q.spans)
    BY <2>3, <2>4 DEF StashesFit
  <2>6. ASSUME NEW k \in 1..Len(base.spans)
        PROVE  q.spans[k].lane = base.spans[k].lane /\ q.spans[k].stash = base.spans[k].stash
    <3>1. k \in 1..Len(g.spans)
      BY <2>4 DEF StashesFit
    <3>2. q.spans[k].lane = g.spans[k].lane /\ q.spans[k].stash = g.spans[k].stash
      BY <2>3, <3>1
    <3>3. g.spans[k].lane = base.spans[k].lane /\ g.spans[k].stash = base.spans[k].stash
      BY DEF StashesFit
    <3> QED BY <3>2, <3>3
  <2>7. \A y \in Rows : ~IsStash(y) => q.of[y] = base.of[y]
    BY <1>5, <2>3 DEF StashesFit
  <2>8. \A y \in Rows : IsStash(y) /\ y > n => q.of[y] = NoGroup
    <3>1. \A y \in Rows : y > n => y # n /\ y > n - 1
      BY <1>3 DEF Rows
    <3> QED BY <2>3, <3>1 DEF StashesFit
  <2>9. ASSUME NEW y \in 1..n, IsStash(y)
        PROVE  q.of[y] # NoGroup /\ q.spans[q.of[y]].lane = lane[y]
    <3>1. CASE y = n
      BY <2>3, <3>1
    <3>2. CASE y \in 1..(n - 1)
      <4>1. y \in Rows /\ y # n
        BY <1>1, <3>2
      <4>2. q.of[y] = g.of[y] /\ g.of[y] # NoGroup /\ g.spans[g.of[y]].lane = lane[y]
        BY <2>3, <2>9, <3>2, <4>1 DEF StashesFit
      <4>3. g.of[y] \in 1..Len(g.spans)
        BY <4>1, <4>2 DEF Groupings, NoGroup
      <4> QED BY <2>3, <4>2, <4>3
    <3> QED BY <1>2, <3>1, <3>2
  <2> QED BY <2>3, <2>5, <2>6, <2>7, <2>8, <2>9 DEF StashesFit
<1> QED BY <1>4, <1>5

StashStages(f) ==
    f = [n \in 0..delivered |-> IF n = 0 THEN CommitGroups ELSE GroupStash(f[n - 1], n)]

LEMMA StashesAreGrouped ==
    ASSUME LanesInv, EdgesInv, Drawn
    PROVE  Groups \in Groupings /\ StashesFit(Groups, delivered, CommitGroups)
<1>1. PICK base : base = CommitGroups
  OBVIOUS
<1> DEFINE D == [n \in 0..delivered |-> {g \in Groupings : StashesFit(g, n, base)}]
           Step == [n \in 1..delivered |-> [g \in Groupings |-> GroupStash(g, n)]]
           c == CHOOSE f : StashStages(f)
<1>2. delivered \in Nat
  BY ShownFits
<1>0. base \in Groupings /\ GroupsFit(base, delivered)
  BY <1>1, CommitsAreGrouped
<1>3. base \in D[0]
  <2>1. StashesFit(base, 0, base)
    <3>1. Len(base.spans) \in Nat
      BY <1>0 DEF Groupings
    <3> QED BY <1>0, <3>1 DEF StashesFit, GroupsFit
  <2>2. 0 \in 0..delivered
    BY <1>2
  <2> QED BY <1>0, <2>1, <2>2
<1>4. ASSUME NEW n \in 1..delivered, NEW g \in D[n - 1]
      PROVE  GroupStash(g, n) \in D[n] /\ g \in Groupings
  <2>1. g \in Groupings /\ StashesFit(g, n - 1, base)
    BY <1>2, <1>4
  <2>2. GroupStash(g, n) \in Groupings /\ StashesFit(GroupStash(g, n), n, base)
    BY <1>0, <2>1, StashKeepsGroups
  <2> QED BY <1>2, <2>1, <2>2
<1> HIDE DEF D
<1>5. PICK f : Stages(f, base, delivered, Step)
  BY <1>2, StagesExist
<1>6. /\ f[0] = base /\ \A n \in 1..delivered : f[n] = Step[n][f[n - 1]]
  <2> HIDE DEF Step
  <2> QED BY <1>2, <1>5 DEF Stages
<1>7. \A n \in 0..delivered : f[n] \in D[n]
  <2>1. ASSUME NEW n \in 1..delivered, f[n - 1] \in D[n - 1] PROVE f[n] \in D[n]
    <3>1. f[n] = GroupStash(f[n - 1], n)
      BY <1>4, <1>6, <2>1
    <3> QED BY <1>4, <2>1, <3>1
  <2> QED BY <1>2, <1>3, <1>6, <2>1, Throughout
<1>8. StashStages(f)
  <2>1. ASSUME NEW n \in 0..delivered
        PROVE  f[n] = IF n = 0 THEN base ELSE GroupStash(f[n - 1], n)
    <3>1. CASE n = 0
      BY <1>6, <3>1
    <3>2. CASE n # 0
      <4>1. n \in 1..delivered /\ n - 1 \in 0..delivered
        BY <1>2, <3>2
      <4> QED BY <1>4, <1>6, <1>7, <3>2, <4>1
    <3> QED BY <3>1, <3>2
  <2>2. f = [n \in 0..delivered |-> f[n]]
    <3> HIDE DEF Step
    <3> QED BY <1>5 DEF Stages
  <2> HIDE DEF Step
  <2> QED BY <1>1, <2>1, <2>2 DEF StashStages
<1>9. StashStages(c)
  <2> HIDE DEF Step
  <2> QED BY <1>8
<1>10. Groups = c[delivered]
  BY DEF Groups, StashStages
<1> HIDE DEF c, Step
<1>11. \A n \in 0..delivered : c[n] \in D[n]
  <2>1. c[0] = base /\ \A n \in 1..delivered : c[n] = GroupStash(c[n - 1], n)
    BY <1>1, <1>2, <1>9 DEF StashStages
  <2>2. ASSUME NEW n \in 1..delivered, c[n - 1] \in D[n - 1] PROVE c[n] \in D[n]
    BY <1>4, <2>1, <2>2
  <2> QED BY <1>2, <1>3, <2>1, <2>2, Throughout
<1>12. c[delivered] \in D[delivered] /\ delivered \in 0..delivered
  BY <1>2, <1>11
<1> QED BY <1>1, <1>10, <1>12 DEF D

\* Every row shown is in a group of its own lane, a commit in one that is no
\* stash's, and a line straight down keeps its group.
LEMMA GroupsAre ==
    ASSUME LanesInv, EdgesInv, Drawn
    PROVE  /\ Groups \in Groupings
           /\ \A row \in 1..delivered : /\ Groups.of[row] \in 1..Len(Groups.spans)
                                        /\ Groups.spans[Groups.of[row]].lane = lane[row]
           /\ \A row \in 1..delivered :
                 ~IsStash(row) => ~(Groups.spans[Groups.of[row]].stash = TRUE)
           /\ \A r \in 1..delivered :
                 StraightDown(r) => Groups.of[FirstParent(r)] = Groups.of[r]
<1>1. PICK base, g : base = CommitGroups /\ g = Groups
  OBVIOUS
<1>2. base \in Groupings /\ GroupsFit(base, delivered)
  BY <1>1, CommitsAreGrouped
<1>3. g \in Groupings /\ StashesFit(g, delivered, base)
  BY <1>1, StashesAreGrouped
<1>4. /\ delivered \in Nat /\ log \in Histories /\ \A row \in 1..delivered : row \in Rows
  BY ShownFits
<1>5. ASSUME NEW row \in 1..delivered, ~IsStash(row)
      PROVE  /\ g.of[row] = base.of[row] /\ base.of[row] \in 1..Len(base.spans)
             /\ g.of[row] \in 1..Len(g.spans)
             /\ g.spans[g.of[row]].lane = lane[row]
             /\ ~(g.spans[g.of[row]].stash = TRUE)
  <2>1. /\ row \in Rows /\ g.of[row] = base.of[row] /\ base.of[row] # NoGroup
        /\ base.spans[base.of[row]].lane = lane[row]
    BY <1>2, <1>3, <1>4, <1>5 DEF StashesFit, GroupsFit
  <2>2. base.of[row] \in 1..Len(base.spans) /\ g.of[row] \in 1..Len(g.spans)
    BY <1>2, <1>3, <2>1 DEF Groupings, NoGroup
  <2>3. /\ g.spans[base.of[row]].lane = base.spans[base.of[row]].lane
        /\ g.spans[base.of[row]].stash = base.spans[base.of[row]].stash
    BY <1>3, <2>2 DEF StashesFit
  <2>4. base.spans[base.of[row]].stash = FALSE
    BY <1>2, <2>2 DEF GroupsFit
  <2> QED BY <2>1, <2>2, <2>3, <2>4
<1>6. ASSUME NEW row \in 1..delivered, IsStash(row)
      PROVE  g.of[row] \in 1..Len(g.spans) /\ g.spans[g.of[row]].lane = lane[row]
  <2>1. row \in Rows /\ g.of[row] # NoGroup /\ g.spans[g.of[row]].lane = lane[row]
    BY <1>3, <1>4, <1>6 DEF StashesFit
  <2> QED BY <1>3, <2>1 DEF Groupings, NoGroup
<1>7. ASSUME NEW r \in 1..delivered, StraightDown(r) PROVE g.of[FirstParent(r)] = g.of[r]
  <2>1. ~IsStash(r) /\ FirstParent(r) \in 1..delivered /\ ~IsStash(FirstParent(r))
    <3>1. HasLine(r) /\ FirstParent(r) \in 1..delivered
      BY <1>7 DEF StraightDown
    <3>2. /\ Len(log.parents[r]) \in 1..2
          /\ \A i \in 1..Len(log.parents[r]) : ~IsStash(log.parents[r][i])
      BY <1>4, <3>1, ParentsFit
    <3> QED BY <3>1, <3>2 DEF HasLine, FirstParent
  <2>2. base.of[FirstParent(r)] = base.of[r]
    BY <1>2, <1>7 DEF GroupsFit
  <2> QED BY <1>5, <2>1, <2>2
<1> QED BY <1>1, <1>3, <1>5, <1>6, <1>7

-----------------------------------------------------------------------------
(***************************************************************************)
(* The slots, given group by group.                                        *)
(***************************************************************************)
LEMMA FirstLeftIs ==
    ASSUME NEW spans \in Seq(Spans), NEW left, left \subseteq 1..Len(spans), left # {}
    PROVE  FirstLeft(spans, left) \in left
<1>1. \A k \in left : /\ k \in Nat /\ spans[k].first \in Nat /\ spans[k].lane \in AnyLane
                      /\ spans[k].lane \in Int /\ spans[k].lane + 1 \in Nat
  <2>1. \A k \in left : k \in Nat /\ spans[k] \in Spans
    OBVIOUS
  <2>2. \A l \in AnyLane : l \in Int /\ l + 1 \in Nat
    BY DEF AnyLane, NoLane, Lanes
  <2> QED BY <2>1, <2>2 DEF Spans
<1>2. PICK first \in Nat : /\ \E k \in left : spans[k].first = first
                           /\ \A k \in left : first <= spans[k].first
  <2> DEFINE T == {spans[k].first : k \in left}
  <2>1. T \subseteq Nat /\ T # {}
    BY <1>1
  <2>2. PICK x \in T : \A y \in T : x <= y
    <3> HIDE DEF T
    <3> QED BY <2>1, LeastNatural
  <2> QED BY <2>1, <2>2
<1>3. PICK low \in Int : /\ \E k \in left : spans[k].first = first /\ spans[k].lane = low
                         /\ \A k \in left : spans[k].first = first => low <= spans[k].lane
  <2>0. PICK A : A = {m \in left : spans[m].first = first}
    OBVIOUS
  <2> DEFINE T == {spans[k].lane + 1 : k \in A}
  <2>1. T \subseteq Nat /\ T # {}
    BY <1>1, <1>2, <2>0
  <2>2. PICK x \in T : \A y \in T : x <= y
    <3> HIDE DEF T
    <3> QED BY <2>1, LeastNatural
  <2>3. PICK k \in left : spans[k].first = first /\ x = spans[k].lane + 1
    <3>1. PICK k \in A : x = spans[k].lane + 1
      OBVIOUS
    <3> QED BY <2>0, <3>1
  <2>4. ASSUME NEW m \in left, spans[m].first = first PROVE spans[k].lane <= spans[m].lane
    <3>1. spans[m].lane + 1 \in T
      BY <2>0, <2>4
    <3>2. x <= spans[m].lane + 1
      BY <2>2, <3>1
    <3> QED BY <1>1, <2>3, <3>2
  <2> QED BY <1>1, <2>3, <2>4
<1>4. PICK a \in left : /\ spans[a].first = first /\ spans[a].lane = low
                        /\ \A k \in left : spans[k].first = first /\ spans[k].lane = low => a <= k
  <2> DEFINE T == {k \in left : spans[k].first = first /\ spans[k].lane = low}
  <2>1. T \subseteq Nat /\ T # {}
    BY <1>1, <1>3
  <2>2. PICK x \in T : \A y \in T : x <= y
    <3> HIDE DEF T
    <3> QED BY <2>1, LeastNatural
  <2> QED BY <2>2
<1>5. ASSUME NEW b \in left \ {a} PROVE Before(spans, a, b)
  <2>1. PICK fb \in Nat, lb \in Int : fb = spans[b].first /\ lb = spans[b].lane
    BY <1>1
  <2>2. /\ first <= fb /\ (fb = first => low <= lb)
        /\ (fb = first /\ lb = low => a <= b)
        /\ a \in Nat /\ b \in Nat /\ a # b
    BY <1>1, <1>2, <1>3, <1>4, <2>1
  <2>3. \/ first < fb
        \/ first = fb /\ low < lb
        \/ first = fb /\ low = lb /\ a < b
    BY <2>2
  <2> QED BY <1>4, <2>1, <2>3 DEF Before
<1> QED BY <1>5 DEF FirstLeft

\* The slots while they are given.
SlotStates(spans) ==
    [slots : [1..Len(spans) -> Int], restart : Nat, left : SUBSET (1..Len(spans))]

\* A group in one of the first lanes, and no stash that must leave the first
\* slot to the line of the working copy.
Kept(span) == span.lane \in 0..(Slots - 1) /\ ~(span.stash /\ log.changes)

LEMMA SlotIsGiven ==
    ASSUME NEW spans \in Seq(Spans), NEW primary, NEW s \in SlotStates(spans), s.left # {},
           NEW q, q = GiveSlot(spans, primary, s),
           NEW group, group = FirstLeft(spans, s.left)
    PROVE  /\ q \in SlotStates(spans) /\ q.left = s.left \ {group} /\ group \in s.left
           /\ Kept(spans[group]) => q.slots[group] = spans[group].lane
           /\ \A k \in 1..Len(spans) : k # group => q.slots[k] = s.slots[k]
<1>1. /\ s.slots \in [1..Len(spans) -> Int] /\ s.restart \in Nat
      /\ s.left \subseteq 1..Len(spans)
  BY DEF SlotStates
<1>2. group \in s.left /\ group \in 1..Len(spans)
  BY <1>1, FirstLeftIs
<1>3. PICK span : span = spans[group]
  OBVIOUS
<1>4. span \in Spans /\ span.lane \in Int
  <2>1. span \in Spans
    BY <1>2, <1>3
  <2>2. \A l \in AnyLane : l \in Int
    BY DEF AnyLane, NoLane, Lanes
  <2> QED BY <2>1, <2>2 DEF Spans
<1>5. Slots \in Nat /\ Slots > 0
  BY PaintAssumption
<1>6. PICK floor : floor = IF span.stash /\ log.changes THEN 1 ELSE 0
  OBVIOUS
<1>7. floor \in 0..1 /\ (~(span.stash /\ log.changes) => floor = 0)
  BY <1>6
<1>8. PICK preferred : preferred = AtLeast(floor, span.lane % Slots)
  OBVIOUS
<1>9. preferred \in Nat
  BY <1>4, <1>5, <1>7, <1>8 DEF AtLeast
<1>10. PICK free : /\ free \subseteq 0..(Slots - 1)
                   /\ q = [slots |-> [s.slots EXCEPT ![group] =
                                        IF span.lane < Slots /\ span.lane >= floor THEN span.lane
                                        ELSE IF free # {} THEN (preferred + Smallest(free)) % Slots
                                        ELSE AtLeast(floor, s.restart % Slots)],
                           restart |-> IF ~(span.lane < Slots /\ span.lane >= floor) /\ free = {}
                                       THEN s.restart + 1 ELSE s.restart,
                           left |-> s.left \ {group}]
  <2> DEFINE block(g) == spans[g].lane \div Slots
             taken == {s.slots[g] : g \in
                          {h \in DOMAIN spans :
                              /\ s.slots[h] # NoSlot
                              /\ span.anchor \notin primary \/ block(h) = block(group)
                              /\ Overlap(spans[h], span)}}
             free == {k \in 0 .. Slots - 1 :
                         LET c == (preferred + k) % Slots IN c >= floor /\ c \notin taken}
  <2> WITNESS free
  <2> QED BY <1>3, <1>6, <1>8, Zenon DEF GiveSlot
<1>11. PICK slot : slot = IF span.lane < Slots /\ span.lane >= floor THEN span.lane
                          ELSE IF free # {} THEN (preferred + Smallest(free)) % Slots
                          ELSE AtLeast(floor, s.restart % Slots)
  OBVIOUS
<1>12. slot \in Int
  <2>1. free # {} => Smallest(free) \in Nat
    <3>1. free \subseteq Nat
      BY <1>5, <1>10
    <3> QED BY <3>1, SmallestOf
  <2>2. s.restart % Slots \in Nat
    BY <1>1, <1>5
  <2>3. free # {} => (preferred + Smallest(free)) % Slots \in Nat
    BY <1>5, <1>9, <2>1
  <2>4. AtLeast(floor, s.restart % Slots) \in Int
    BY <1>7, <2>2 DEF AtLeast
  <2> QED BY <1>4, <1>11, <2>3, <2>4
<1>13. PICK restart \in Nat : q = [slots |-> [s.slots EXCEPT ![group] = slot],
                                   restart |-> restart, left |-> s.left \ {group}]
  <2>1. (IF ~(span.lane < Slots /\ span.lane >= floor) /\ free = {}
         THEN s.restart + 1 ELSE s.restart) \in Nat
    BY <1>1
  <2> QED BY <1>10, <1>11, <2>1
<1>14. /\ [s.slots EXCEPT ![group] = slot] \in [1..Len(spans) -> Int]
       /\ [s.slots EXCEPT ![group] = slot][group] = slot
       /\ \A k \in 1..Len(spans) : k # group => [s.slots EXCEPT ![group] = slot][k] = s.slots[k]
  BY <1>1, <1>2, <1>12
<1>15. q.slots = [s.slots EXCEPT ![group] = slot] /\ q.left = s.left \ {group}
  BY <1>13
<1>16. q \in SlotStates(spans)
  BY <1>1, <1>13, <1>14 DEF SlotStates
<1>17. ASSUME Kept(span) PROVE slot = span.lane
  <2>1. span.lane \in 0..(Slots - 1) /\ floor = 0
    BY <1>7, <1>17 DEF Kept
  <2>2. span.lane < Slots /\ span.lane >= floor
    BY <1>5, <2>1
  <2> QED BY <1>11, <2>2
<1> QED BY <1>2, <1>3, <1>14, <1>15, <1>16, <1>17

\* The slots after n groups.
SlotsFit(spans, s, n) ==
    /\ Cardinality(s.left) = Len(spans) - n
    /\ \A k \in 1..Len(spans) : k \notin s.left /\ Kept(spans[k]) => s.slots[k] = spans[k].lane

LEMMA NextSlotFits ==
    ASSUME NEW spans \in Seq(Spans), NEW primary, NEW n \in 1..Len(spans),
           NEW s \in SlotStates(spans), SlotsFit(spans, s, n - 1),
           NEW q, q = GiveSlot(spans, primary, s)
    PROVE  q \in SlotStates(spans) /\ SlotsFit(spans, q, n)
<1>1. PICK group : group = FirstLeft(spans, s.left)
  OBVIOUS
<1>2. PICK size \in Nat : size = Len(spans) /\ n \in 1..size
  OBVIOUS
<1>3. IsFiniteSet(s.left)
  <2>1. IsFiniteSet(1..Len(spans)) /\ s.left \in SUBSET (1..Len(spans))
    BY <1>2, FS_Interval DEF SlotStates
  <2> QED BY <2>1, FS_Subset
<1>4. Cardinality(s.left) = size - (n - 1)
  BY <1>2 DEF SlotsFit
<1>5. s.left # {}
  <2>1. Cardinality({}) = 0
    BY FS_EmptySet
  <2>2. size - (n - 1) # 0
    BY <1>2
  <2> QED BY <1>4, <2>1, <2>2, Zenon
<1>6. /\ q \in SlotStates(spans) /\ q.left = s.left \ {group} /\ group \in s.left
      /\ Kept(spans[group]) => q.slots[group] = spans[group].lane
      /\ \A k \in 1..Len(spans) : k # group => q.slots[k] = s.slots[k]
  BY <1>1, <1>5, SlotIsGiven
<1>7. Cardinality(q.left) = Cardinality(s.left) - 1
  BY <1>3, <1>6, FS_RemoveElement
<1>8. Cardinality(q.left) = Len(spans) - n
  BY <1>2, <1>4, <1>7
<1>9. ASSUME NEW k \in 1..Len(spans), k \notin q.left, Kept(spans[k])
      PROVE  q.slots[k] = spans[k].lane
  <2>1. CASE k = group
    BY <1>6, <1>9, <2>1
  <2>2. CASE k # group
    BY <1>6, <1>9, <2>2 DEF SlotsFit
  <2> QED BY <2>1, <2>2
<1> QED BY <1>6, <1>8, <1>9 DEF SlotsFit

SlotStages(f, spans, primary) ==
    f = [n \in 0..Len(spans) |->
            IF n = 0 THEN [slots |-> [a \in DOMAIN spans |-> NoSlot],
                           restart |-> 0, left |-> DOMAIN spans]
            ELSE GiveSlot(spans, primary, f[n - 1])]

\* A group in one of the first lanes keeps the slot of its lane.
LEMMA SlotsAreKept ==
    ASSUME NEW spans \in Seq(Spans), NEW primary, NEW k \in 1..Len(spans), Kept(spans[k])
    PROVE  SlotsOf(spans, primary)[k] = spans[k].lane
<1>1. PICK start : start = [slots |-> [a \in DOMAIN spans |-> NoSlot],
                            restart |-> 0, left |-> DOMAIN spans]
  OBVIOUS
<1>2. PICK size \in Nat : size = Len(spans) /\ DOMAIN spans = 1..size
  OBVIOUS
<1> DEFINE D == [n \in 0..size |-> {s \in SlotStates(spans) : SlotsFit(spans, s, n)}]
           Step == [n \in 1..size |-> [s \in SlotStates(spans) |-> GiveSlot(spans, primary, s)]]
           c == CHOOSE f : SlotStages(f, spans, primary)
<1>3. start \in D[0]
  <2>1. start.left = 1..size /\ start.slots = [a \in 1..size |-> NoSlot] /\ start.restart = 0
    BY <1>1, <1>2
  <2>2. start \in SlotStates(spans)
    BY <1>1, <1>2, <2>1 DEF SlotStates, NoSlot
  <2>3. Cardinality(1..size) = size
    <3>1. Cardinality(1..size) = IF 1 > size THEN 0 ELSE size - 1 + 1
      BY FS_Interval
    <3> QED BY <3>1
  <2>4. SlotsFit(spans, start, 0)
    BY <1>2, <2>1, <2>3 DEF SlotsFit
  <2> QED BY <2>2, <2>4
<1>4. ASSUME NEW n \in 1..size, NEW s \in D[n - 1]
      PROVE  GiveSlot(spans, primary, s) \in D[n] /\ s \in SlotStates(spans)
  <2>1. s \in SlotStates(spans) /\ SlotsFit(spans, s, n - 1) /\ n \in 1..Len(spans)
    BY <1>2, <1>4
  <2>2. PICK q : q = GiveSlot(spans, primary, s)
    OBVIOUS
  <2>3. q \in SlotStates(spans) /\ SlotsFit(spans, q, n)
    BY <2>1, <2>2, NextSlotFits
  <2> QED BY <2>1, <2>2, <2>3
<1> HIDE DEF D
<1>5. PICK f : Stages(f, start, size, Step)
  BY StagesExist
<1>6. /\ f[0] = start /\ \A n \in 1..size : f[n] = Step[n][f[n - 1]]
  <2> HIDE DEF Step
  <2>1. f = [n \in 0..size |-> IF n = 0 THEN start ELSE Step[n][f[n - 1]]]
    BY <1>5 DEF Stages
  <2>2. f[0] = start
    BY <2>1
  <2>3. ASSUME NEW n \in 1..size PROVE f[n] = Step[n][f[n - 1]]
    BY <2>1
  <2> QED BY <2>2, <2>3
<1>7. \A n \in 0..size : f[n] \in D[n]
  <2>1. ASSUME NEW n \in 1..size, f[n - 1] \in D[n - 1] PROVE f[n] \in D[n]
    <3>1. f[n] = GiveSlot(spans, primary, f[n - 1])
      BY <1>4, <1>6, <2>1
    <3> QED BY <1>4, <2>1, <3>1
  <2> QED BY <1>3, <1>6, <2>1, Throughout
<1>8. SlotStages(f, spans, primary)
  <2>1. ASSUME NEW n \in 0..size
        PROVE  f[n] = IF n = 0 THEN start ELSE GiveSlot(spans, primary, f[n - 1])
    <3>1. CASE n = 0
      BY <1>6, <3>1
    <3>2. CASE n # 0
      <4>1. n \in 1..size /\ n - 1 \in 0..size
        BY <3>2
      <4> QED BY <1>4, <1>6, <1>7, <3>2, <4>1
    <3> QED BY <3>1, <3>2
  <2>2. f = [n \in 0..size |-> f[n]]
    <3> HIDE DEF Step
    <3> QED BY <1>5 DEF Stages
  <2> HIDE DEF Step
  <2> QED BY <1>1, <1>2, <2>1, <2>2 DEF SlotStages
<1>9. SlotStages(c, spans, primary)
  <2> HIDE DEF Step
  <2> QED BY <1>8
<1>10. SlotsOf(spans, primary) = c[size].slots
  BY <1>2 DEF SlotsOf, SlotStages
<1> HIDE DEF c, Step
<1>11. \A n \in 0..size : c[n] \in D[n]
  <2>1. c[0] = start /\ \A n \in 1..size : c[n] = GiveSlot(spans, primary, c[n - 1])
    <3>1. c = [n \in 0..size |-> IF n = 0 THEN start ELSE GiveSlot(spans, primary, c[n - 1])]
      BY <1>1, <1>2, <1>9, Zenon DEF SlotStages
    <3>2. 0 \in 0..size /\ \A n \in 1..size : n \in 0..size /\ n # 0
      OBVIOUS
    <3> QED BY <3>1, <3>2
  <2>2. ASSUME NEW n \in 1..size, c[n - 1] \in D[n - 1] PROVE c[n] \in D[n]
    BY <1>4, <2>1, <2>2
  <2> QED BY <1>3, <2>1, <2>2, Throughout
<1>12. c[size] \in SlotStates(spans) /\ SlotsFit(spans, c[size], size)
  <2>1. c[size] \in D[size] /\ size \in 0..size
    BY <1>11
  <2> QED BY <2>1 DEF D
<1>13. c[size].left = {}
  <2>1. IsFiniteSet(c[size].left)
    <3>1. c[size].left \in SUBSET (1..size)
      BY <1>2, <1>12 DEF SlotStates
    <3>2. IsFiniteSet(1..size)
      BY FS_Interval
    <3> QED BY <3>1, <3>2, FS_Subset
  <2>2. Cardinality(c[size].left) = 0
    BY <1>2, <1>12 DEF SlotsFit
  <2> QED BY <2>1, <2>2, FS_EmptySet
<1> QED BY <1>10, <1>12, <1>13 DEF SlotsFit

-----------------------------------------------------------------------------
(***************************************************************************)
(* The colours, and the theorem.                                           *)
(***************************************************************************)
LEMMA ColoursHold ==
    ASSUME LanesInv, WipWaits, EdgesInv
    PROVE  ColourIsStable
<1> SUFFICES ASSUME Drawn PROVE ColourIsStable
  BY DEF ColourIsStable
<1>1. PICK g, colours : g = Groups /\ colours = Colours
  OBVIOUS
<1>2. /\ g \in Groupings
      /\ \A row \in 1..delivered : /\ g.of[row] \in 1..Len(g.spans)
                                   /\ g.spans[g.of[row]].lane = lane[row]
      /\ \A row \in 1..delivered :
            ~IsStash(row) => ~(g.spans[g.of[row]].stash = TRUE)
      /\ \A r \in 1..delivered : StraightDown(r) => g.of[FirstParent(r)] = g.of[r]
  BY <1>1, GroupsAre
<1>3. /\ delivered \in Nat /\ laid = delivered /\ log \in Histories
      /\ \A row \in 1..delivered : row \in Rows /\ lane[row] \in Nat
  BY ShownFits
<1>4. g.spans \in Seq(Spans)
  BY <1>2 DEF Groupings
<1>5. PICK slots : slots = SlotsOf(g.spans, PrimaryComponent(HeadRow))
  OBVIOUS
<1>6. ASSUME NEW row \in 1..delivered PROVE colours[row] = slots[g.of[row]]
  <2>1. colours = [x \in Rows |-> IF g.of[x] = NoGroup THEN 0 ELSE slots[g.of[x]]]
    BY <1>1, <1>5 DEF Colours
  <2>2. row \in Rows /\ g.of[row] # NoGroup
    BY <1>2, <1>3 DEF NoGroup
  <2> QED BY <2>1, <2>2
<1>7. Slots \in Nat /\ Slots > 0
  BY PaintAssumption
<1>8. ASSUME NEW row \in 1..delivered, lane[row] < Slots, ~(IsStash(row) /\ log.changes)
      PROVE  colours[row] = lane[row]
  <2>1. PICK k \in 1..Len(g.spans) : k = g.of[row] /\ g.spans[k].lane = lane[row]
    BY <1>2
  <2>2. g.spans[k].stash \in BOOLEAN
    <3>1. g.spans[k] \in Spans
      BY <1>4
    <3> QED BY <3>1 DEF Spans
  <2>3. ~(g.spans[k].stash /\ log.changes)
    <3>1. CASE IsStash(row)
      BY <1>8, <3>1
    <3>2. CASE ~IsStash(row)
      <4>1. ~(g.spans[k].stash = TRUE)
        BY <1>2, <2>1, <3>2
      <4> QED BY <2>2, <4>1, Zenon
    <3> QED BY <3>1, <3>2
  <2>4. g.spans[k].lane \in 0..(Slots - 1)
    BY <1>3, <1>7, <1>8, <2>1
  <2>5. Kept(g.spans[k])
    BY <2>3, <2>4 DEF Kept
  <2>6. slots[k] = g.spans[k].lane
    BY <1>4, <1>5, <2>5, SlotsAreKept
  <2> QED BY <1>6, <2>1, <2>6
<1>9. ASSUME WipHead \in 1..delivered PROVE colours[log.head] = 0
  <2>1. log.changes /\ log.head \in 1..delivered /\ ~IsStash(log.head)
    <3>1. log.changes
      BY <1>9 DEF WipHead, NoCommit
    <3>2. WipHead = log.head
      BY <3>1 DEF WipHead
    <3> QED BY <1>3, <1>9, <3>1, <3>2, ParentsFit
  <2>2. lane[log.head] = 0
    BY <1>3, <2>1 DEF WipWaits
  <2> QED BY <1>7, <1>8, <2>1, <2>2
<1>10. ASSUME NEW e \in Edges, e[2] = 1, ParentVisible(e), ~IsStash(e[1]),
              lane[e[1]] = EndLane(e), EndLane(e) = toLane[e[1]][1]
       PROVE  EdgeColour(colours, e) = colours[ParentOf(e)]
  <2>1. PICK r \in 1..delivered : r = e[1] /\ 1 \in DOMAIN log.parents[r]
    BY <1>10 DEF Edges, Shown
  <2>2. HasLine(r) /\ ParentOf(e) = FirstParent(r) /\ FirstParent(r) \in 1..delivered
    BY <1>10, <2>1 DEF HasLine, ParentOf, FirstParent, ParentVisible, Shown
  <2>3. lane[r] = lane[FirstParent(r)] /\ Straight(r)
    BY <1>10, <2>1, <2>2 DEF EndLane, Straight
  <2>4. g.of[FirstParent(r)] = g.of[r]
    BY <1>2, <2>2, <2>3 DEF StraightDown
  <2> QED BY <1>6, <1>10, <2>1, <2>2, <2>4 DEF EdgeColour
<1> QED BY <1>1, <1>8, <1>9, <1>10 DEF ColourIsStable, Shown

\* The lanes of the commit graph can be told apart at every width: a commit in
\* one of the first lanes has the colour of its lane, HEAD that of the WIP
\* line, a straight line one colour from end to end, and the band marks the
\* lanes that are parked on one another (CommitGraph.tsx and
\* graphPresentation.ts).
THEOREM LanesStayApart == GraphSpec => []LanesAreToldApart
<1>1. LanesInv /\ WipWaits /\ EdgesInv => LanesAreToldApart
  BY ColoursHold, ParkedLanesHold DEF LanesAreToldApart
<1> QED BY <1>1, LanesHold, WipLaneWaits, EdgesHold, PTL

-----------------------------------------------------------------------------
(***************************************************************************)
(* The merge editor.  A document is read line by line; what is read of the *)
(* first n regions, and the text composed of it, is known for every n.     *)
(***************************************************************************)

(* Sequences put together one after the other. *)

JoinedSoFar(h, seqs) ==
    h[0] = <<>> /\ \A i \in 1..Len(seqs) : h[i] = h[i - 1] \o seqs[i]

LEMMA PrefixesAre ==
    ASSUME NEW T, NEW seqs \in Seq(Seq(T)), NEW h, JoinedSoFar(h, seqs)
    PROVE  \A i \in 0..Len(seqs) : h[i] \in Seq(T)
<1>1. PICK n \in Nat : n = Len(seqs)
  OBVIOUS
<1> DEFINE D == [i \in 0..n |-> Seq(T)]
<1>2. h[0] \in D[0]
  BY DEF JoinedSoFar
<1>3. ASSUME NEW i \in 1..n, h[i - 1] \in D[i - 1] PROVE h[i] \in D[i]
  <2>1. seqs[i] \in Seq(T) /\ h[i - 1] \in Seq(T)
    BY <1>1, <1>3
  <2>2. h[i] = h[i - 1] \o seqs[i]
    BY <1>1 DEF JoinedSoFar
  <2>3. h[i] \in Seq(T)
    BY <2>1, <2>2, ConcatProperties
  <2> QED BY <2>3
<1> HIDE DEF D
<1>4. \A i \in 0..n : h[i] \in D[i]
  BY <1>2, <1>3, Throughout
<1> QED BY <1>1, <1>4 DEF D

LEMMA PrefixesAgree ==
    ASSUME NEW seqs, NEW others, NEW h, NEW g, JoinedSoFar(h, seqs), JoinedSoFar(g, others),
           NEW n \in Nat, n <= Len(seqs), n <= Len(others), Len(seqs) \in Nat, Len(others) \in Nat,
           \A i \in 1..n : seqs[i] = others[i]
    PROVE  \A i \in 0..n : h[i] = g[i]
<1> DEFINE D == [i \in 0..n |-> {g[i]}]
<1>1. h[0] \in D[0]
  BY DEF JoinedSoFar
<1>2. ASSUME NEW i \in 1..n, h[i - 1] \in D[i - 1] PROVE h[i] \in D[i]
  <2>1. h[i - 1] = g[i - 1]
    BY <1>2
  <2>2. i \in 1..Len(seqs) /\ i \in 1..Len(others) /\ seqs[i] = others[i]
    OBVIOUS
  <2>3. h[i] = h[i - 1] \o seqs[i] /\ g[i] = g[i - 1] \o others[i]
    BY <2>2 DEF JoinedSoFar
  <2>4. h[i] = g[i]
    BY <2>1, <2>2, <2>3
  <2> QED BY <2>4
<1> HIDE DEF D
<1>3. \A i \in 0..n : h[i] \in D[i]
  BY <1>1, <1>2, Throughout
<1> QED BY <1>3 DEF D

FlatStages(f, seqs) ==
    f = [i \in 1..Len(seqs) |-> IF i = 1 THEN seqs[i] ELSE f[i - 1] \o seqs[i]]

LEMMA FlattenIs ==
    ASSUME NEW T, NEW seqs \in Seq(Seq(T))
    PROVE  \E h : JoinedSoFar(h, seqs) /\ FlattenSeq(seqs) = h[Len(seqs)]
<1>1. PICK n \in Nat : n = Len(seqs)
  OBVIOUS
<1>2. CASE n = 0
  <2>1. seqs = <<>> /\ FlattenSeq(seqs) = seqs
    <3>1. seqs = <<>>
      BY <1>1, <1>2, EmptySeq
    <3>2. Len(seqs) = 0
      BY <1>1, <1>2
    <3> QED BY <3>1, <3>2 DEF FlattenSeq
  <2>2. PICK h : h = [i \in 0..0 |-> <<>>]
    OBVIOUS
  <2>3. h[0] = <<>>
    BY <2>2
  <2>4. JoinedSoFar(h, seqs)
    BY <1>1, <1>2, <2>3 DEF JoinedSoFar
  <2> QED BY <1>1, <1>2, <2>1, <2>3, <2>4
<1>3. CASE n # 0
  <2> DEFINE Step == [i \in 1..n |-> [x \in Seq(T) |-> x \o seqs[i]]]
             D == [i \in 0..n |-> Seq(T)]
             c == CHOOSE f : FlatStages(f, seqs)
  <2>1. PICK f : Stages(f, <<>>, n, Step)
    <3> HIDE DEF Step
    <3> QED BY StagesExist
  <2>2. /\ f[0] = <<>> /\ \A i \in 1..n : f[i] = Step[i][f[i - 1]]
    <3> HIDE DEF Step
    <3> QED BY <2>1 DEF Stages
  <2>3. \A i \in 0..n : f[i] \in Seq(T)
    <3>1. f[0] \in D[0]
      BY <2>2
    <3>2. ASSUME NEW i \in 1..n, f[i - 1] \in D[i - 1] PROVE f[i] \in D[i]
      <4>1. f[i - 1] \in Seq(T) /\ seqs[i] \in Seq(T)
        BY <1>1, <3>2
      <4>2. f[i] = f[i - 1] \o seqs[i]
        BY <2>2, <4>1
      <4>3. f[i] \in Seq(T)
        BY <4>1, <4>2, ConcatProperties
      <4> QED BY <4>3
    <3> HIDE DEF D, Step
    <3>3. \A i \in 0..n : f[i] \in D[i]
      BY <3>1, <3>2, Throughout
    <3> QED BY <3>3 DEF D
  <2>4. ASSUME NEW i \in 1..n PROVE f[i] = f[i - 1] \o seqs[i]
    <3>1. f[i - 1] \in Seq(T)
      BY <2>3
    <3> QED BY <2>2, <3>1
  <2> HIDE DEF Step, D
  <2>5. PICK g : g = [i \in 1..n |-> f[i]]
    OBVIOUS
  <2>6. ASSUME NEW i \in 1..n PROVE g[i] = IF i = 1 THEN seqs[i] ELSE g[i - 1] \o seqs[i]
    <3>1. CASE i = 1
      <4>1. f[1] = <<>> \o seqs[1] /\ seqs[1] \in Seq(T)
        <5>1. 1 \in 1..n /\ 1 - 1 = 0
          BY <1>3
        <5>2. seqs[1] \in Seq(T)
          BY <1>1, <5>1
        <5>3. PICK one \in 1..n : one = 1 /\ one - 1 = 0
          BY <5>1
        <5>4. f[one] = f[one - 1] \o seqs[one]
          BY <2>4
        <5> QED BY <2>2, <5>2, <5>3, <5>4
      <4>2. <<>> \o seqs[1] = seqs[1]
        BY <4>1, ConcatEmptySeq
      <4> QED BY <2>5, <3>1, <4>1, <4>2
    <3>2. CASE i # 1
      <4>1. i - 1 \in 1..n
        BY <3>2
      <4> QED BY <2>4, <2>5, <3>2, <4>1
    <3> QED BY <3>1, <3>2
  <2>7. FlatStages(g, seqs)
    <3>1. g = [i \in 1..n |-> g[i]]
      BY <2>5
    <3> QED BY <1>1, <2>6, <3>1 DEF FlatStages
  <2>8. FlatStages(c, seqs)
    BY <2>7
  <2>9. FlattenSeq(seqs) = c[n]
    BY <1>1, <1>3 DEF FlattenSeq, FlatStages
  <2> HIDE DEF c
  <2>10. \A i \in 1..n : c[i] = IF i = 1 THEN seqs[i] ELSE c[i - 1] \o seqs[i]
    BY <1>1, <2>8 DEF FlatStages
  <2>11. PICK h : h = [i \in 0..n |-> IF i = 0 THEN <<>> ELSE c[i]]
    OBVIOUS
  <2>12. h[0] = <<>> /\ \A i \in 1..n : h[i] = c[i]
    BY <2>11
  <2>13. ASSUME NEW i \in 1..n PROVE h[i] = h[i - 1] \o seqs[i]
    <3>1. CASE i = 1
      <4>1. seqs[1] \in Seq(T) /\ c[1] = seqs[1]
        BY <1>1, <1>3, <2>10
      <4>2. <<>> \o seqs[1] = seqs[1]
        BY <4>1, ConcatEmptySeq
      <4>3. h[1] = c[1] /\ h[1 - 1] = <<>>
        BY <1>3, <2>12
      <4> QED BY <3>1, <4>1, <4>2, <4>3
    <3>2. CASE i # 1
      <4>1. i - 1 \in 1..n
        BY <3>2
      <4> QED BY <2>10, <2>12, <3>2, <4>1
    <3> QED BY <3>1, <3>2
  <2>14. JoinedSoFar(h, seqs)
    BY <1>1, <2>12, <2>13 DEF JoinedSoFar
  <2> QED BY <1>1, <1>3, <2>9, <2>12, <2>14
<1> QED BY <1>2, <1>3

LEMMA FlattenAppends ==
    ASSUME NEW T, NEW seqs \in Seq(Seq(T)), NEW one \in Seq(T)
    PROVE  /\ FlattenSeq(Append(seqs, one)) = FlattenSeq(seqs) \o one
           /\ FlattenSeq(seqs) \in Seq(T)
<1>1. PICK n \in Nat : n = Len(seqs)
  OBVIOUS
<1>2. PICK more : more = Append(seqs, one)
  OBVIOUS
<1>3. /\ more \in Seq(Seq(T)) /\ Len(more) = n + 1 /\ more[n + 1] = one
      /\ \A i \in 1..n : more[i] = seqs[i]
  BY <1>1, <1>2
<1>4. PICK h : JoinedSoFar(h, seqs) /\ FlattenSeq(seqs) = h[n]
  BY <1>1, FlattenIs
<1>5. PICK g : JoinedSoFar(g, more) /\ FlattenSeq(more) = g[n + 1]
  BY <1>3, FlattenIs
<1>6. h[n] = g[n]
  <2>1. \A i \in 1..n : seqs[i] = more[i]
    BY <1>3
  <2>2. n <= Len(seqs) /\ n <= Len(more) /\ Len(seqs) \in Nat /\ Len(more) \in Nat
    BY <1>1, <1>3
  <2>3. \A i \in 0..n : h[i] = g[i]
    BY <1>4, <1>5, <2>1, <2>2, PrefixesAgree
  <2> QED BY <2>3
<1>7. g[n + 1] = g[n] \o one
  <2>1. \A i \in 1..Len(more) : g[i] = g[i - 1] \o more[i]
    BY <1>5 DEF JoinedSoFar
  <2>2. PICK k \in 1..Len(more) : k = n + 1 /\ k - 1 = n
    BY <1>3
  <2>3. g[k] = g[k - 1] \o more[k]
    BY <2>1
  <2>4. g[k] = g[n] \o one
    BY <1>3, <2>2, <2>3
  <2> QED BY <2>2, <2>4
<1>8. h[n] \in Seq(T)
  BY <1>1, <1>4, PrefixesAre
<1> QED BY <1>2, <1>4, <1>5, <1>6, <1>7, <1>8

TextsOf(s) == [j \in DOMAIN s |-> s[j].text]

LEMMA TextsJoin ==
    ASSUME NEW R, NEW a \in Seq(R), NEW b \in Seq(R)
    PROVE  TextsOf(a \o b) = TextsOf(a) \o TextsOf(b)
<1>0. PICK T : T = {r.text : r \in R}
  OBVIOUS
<1>1. PICK m \in Nat, n \in Nat : m = Len(a) /\ n = Len(b)
  OBVIOUS
<1>2. PICK ab : ab = a \o b
  OBVIOUS
<1>3. /\ ab \in Seq(R) /\ Len(ab) = m + n /\ DOMAIN ab = 1..(m + n)
      /\ \A j \in 1..m : ab[j] = a[j] /\ a[j] \in R
      /\ \A j \in (m + 1)..(m + n) : ab[j] = b[j - m] /\ b[j - m] \in R
      /\ DOMAIN a = 1..m /\ DOMAIN b = 1..n /\ \A j \in 1..n : b[j] \in R
  BY <1>1, <1>2
<1>4. PICK ta, tb, tab : ta = TextsOf(a) /\ tb = TextsOf(b) /\ tab = TextsOf(ab)
  OBVIOUS
<1>5. /\ ta = [j \in 1..m |-> a[j].text] /\ tb = [j \in 1..n |-> b[j].text]
      /\ tab = [j \in 1..(m + n) |-> ab[j].text]
  BY <1>3, <1>4 DEF TextsOf
<1>6. ta \in Seq(T) /\ Len(ta) = m /\ \A j \in 1..m : ta[j] = a[j].text
  <2>1. \A j \in 1..m : a[j].text \in T
    BY <1>0, <1>3
  <2> QED BY <1>5, <2>1
<1>7. tb \in Seq(T) /\ Len(tb) = n /\ \A j \in 1..n : tb[j] = b[j].text
  <2>1. \A j \in 1..n : b[j].text \in T
    BY <1>0, <1>3
  <2> QED BY <1>5, <2>1
<1>8. tab \in Seq(T) /\ Len(tab) = m + n
  <2>1. PICK p \in Nat : p = m + n
    OBVIOUS
  <2>2. \A j \in 1..p : ab[j] \in R
    BY <1>3, <2>1
  <2>3. \A j \in 1..p : ab[j].text \in T
    BY <1>0, <2>2
  <2>4. tab = [j \in 1..p |-> ab[j].text]
    BY <1>5, <2>1
  <2> QED BY <2>1, <2>3, <2>4
<1>9. PICK s : s = ta \o tb
  OBVIOUS
<1>10. /\ s \in Seq(T) /\ Len(s) = m + n
       /\ \A j \in 1..m : s[j] = ta[j]
       /\ \A j \in (m + 1)..(m + n) : s[j] = tb[j - m]
  <2>1. /\ s \in Seq(T) /\ Len(s) = Len(ta) + Len(tb)
        /\ \A j \in 1 .. Len(ta) + Len(tb) : s[j] = IF j <= Len(ta) THEN ta[j] ELSE tb[j - Len(ta)]
    BY <1>6, <1>7, <1>9, ConcatProperties
  <2> QED BY <1>6, <1>7, <2>1
<1>11. ASSUME NEW j \in 1..(m + n) PROVE tab[j] = s[j]
  <2>0. tab[j] = ab[j].text
    BY <1>5
  <2>1. CASE j \in 1..m
    BY <1>3, <1>6, <1>10, <2>0, <2>1
  <2>2. CASE j \in (m + 1)..(m + n)
    <3>1. j - m \in 1..n
      BY <2>2
    <3> QED BY <1>3, <1>7, <1>10, <2>0, <2>2, <3>1
  <2> QED BY <2>1, <2>2
<1>12. tab = s
  <2>1. PICK p \in Nat : p = m + n
    OBVIOUS
  <2>2. /\ tab = [j \in 1..p |-> tab[j]] /\ s = [j \in 1..p |-> s[j]]
        /\ \A j \in 1..p : tab[j] = s[j]
    BY <1>8, <1>10, <1>11, <2>1
  <2> QED BY <2>2
<1> QED BY <1>2, <1>4, <1>6, <1>9, <1>12

LEMMA FlattenTexts ==
    ASSUME NEW T, NEW R, \A r \in R : r.text \in T, NEW rows \in Seq(Seq(R)),
           NEW lines \in Seq(Seq(T)), Len(lines) = Len(rows),
           \A i \in 1..Len(rows) : lines[i] = TextsOf(rows[i])
    PROVE  FlattenSeq(lines) = TextsOf(FlattenSeq(rows)) /\ FlattenSeq(rows) \in Seq(R)
<1>1. PICK n \in Nat : n = Len(rows) /\ n = Len(lines)
  OBVIOUS
<1>2. PICK h : JoinedSoFar(h, rows) /\ FlattenSeq(rows) = h[n]
  BY <1>1, FlattenIs
<1>3. PICK g : JoinedSoFar(g, lines) /\ FlattenSeq(lines) = g[n]
  BY <1>1, FlattenIs
<1>4. \A i \in 0..n : h[i] \in Seq(R)
  BY <1>1, <1>2, PrefixesAre
<1> DEFINE D == [i \in 0..n |-> {TextsOf(h[i])}]
<1>5. g[0] \in D[0]
  <2>1. g[0] = <<>> /\ h[0] = <<>>
    BY <1>2, <1>3 DEF JoinedSoFar
  <2>2. TextsOf(<<>>) = <<>>
    BY DEF TextsOf
  <2> QED BY <2>1, <2>2
<1>6. ASSUME NEW i \in 1..n, g[i - 1] \in D[i - 1] PROVE g[i] \in D[i]
  <2>1. g[i - 1] = TextsOf(h[i - 1])
    BY <1>6
  <2>2. g[i] = g[i - 1] \o lines[i] /\ h[i] = h[i - 1] \o rows[i]
    BY <1>1, <1>2, <1>3 DEF JoinedSoFar
  <2>3. h[i - 1] \in Seq(R) /\ rows[i] \in Seq(R) /\ lines[i] = TextsOf(rows[i])
    BY <1>1, <1>4
  <2>4. TextsOf(h[i - 1] \o rows[i]) = TextsOf(h[i - 1]) \o TextsOf(rows[i])
    <3>1. PICK a \in Seq(R), b \in Seq(R) : a = h[i - 1] /\ b = rows[i]
      BY <2>3
    <3>2. TextsOf(a \o b) = TextsOf(a) \o TextsOf(b)
      BY TextsJoin
    <3> QED BY <3>1, <3>2
  <2>5. g[i] = TextsOf(h[i])
    BY <2>1, <2>2, <2>3, <2>4
  <2> QED BY <2>5
<1> HIDE DEF D
<1>7. \A i \in 0..n : g[i] \in D[i]
  BY <1>5, <1>6, Throughout
<1>8. g[n] = TextsOf(h[n]) /\ h[n] \in Seq(R)
  <2>1. g[n] \in D[n]
    BY <1>7
  <2> QED BY <1>4, <2>1 DEF D
<1> QED BY <1>2, <1>3, <1>8

(* The reader of the markers, line by line. *)

Texts == STRING \cup {"<", "|", "=", ">"}
Lines == Seq(Texts)
ConflictSegments ==
    [kind : {"conflict"}, index : Nat, ours : Seq(Texts), base : Seq(Texts),
     theirs : Seq(Texts)]
SegmentTypes == [kind : {"common"}, lines : Seq(Texts)] \cup ConflictSegments
Readers == [segments : Seq(SegmentTypes), common : Seq(Texts), current : ConflictSegments,
            inside : BOOLEAN, side : {"ours", "base", "theirs"}, count : Nat]

\* What was read: between two conflicts, and inside one.
Between(segments, common, current, side, count) ==
    [segments |-> segments, common |-> common, current |-> current, inside |-> FALSE,
     side |-> side, count |-> count]
TheConflict(index, ours, base, theirs) ==
    [kind |-> "conflict", index |-> index, ours |-> ours, base |-> base, theirs |-> theirs]
Within(segments, ours, base, theirs, side, count) ==
    [segments |-> segments, common |-> <<>>,
     current |-> TheConflict(count, ours, base, theirs),
     inside |-> TRUE, side |-> side, count |-> count]

Flushed(segments, common) ==
    IF common = <<>> THEN segments ELSE Append(segments, Common(common))

LEMMA PlainIsRead ==
    ASSUME NEW sg, NEW cm, NEW cu, NEW sd, NEW ct, NEW line, line # "<"
    PROVE  ReadLine(Between(sg, cm, cu, sd, ct), line) = Between(sg, Append(cm, line), cu, sd, ct)
BY DEF ReadLine, Between

LEMMA OpeningIsRead ==
    ASSUME NEW sg, NEW cm, NEW cu, NEW sd, NEW ct
    PROVE  ReadLine(Between(sg, cm, cu, sd, ct), "<")
              = Within(Flushed(sg, cm), <<>>, <<>>, <<>>, "ours", ct)
BY DEF ReadLine, Between, OpenConflictAt, FlushCommon, Within, TheConflict, Flushed, NewConflict

LEMMA OursIsRead ==
    ASSUME NEW sg, NEW o, NEW b, NEW t, NEW ct, NEW line, line \notin {"|", "=", ">"}
    PROVE  ReadLine(Within(sg, o, b, t, "ours", ct), line)
              = Within(sg, Append(o, line), b, t, "ours", ct)
BY DEF ReadLine, Within, TheConflict

LEMMA BaseIsRead ==
    ASSUME NEW sg, NEW o, NEW b, NEW t, NEW ct, NEW line, line \notin {"|", "=", ">"}
    PROVE  ReadLine(Within(sg, o, b, t, "base", ct), line)
              = Within(sg, o, Append(b, line), t, "base", ct)
BY DEF ReadLine, Within, TheConflict

LEMMA TheirsIsRead ==
    ASSUME NEW sg, NEW o, NEW b, NEW t, NEW ct, NEW line, line \notin {"|", "=", ">"}
    PROVE  ReadLine(Within(sg, o, b, t, "theirs", ct), line)
              = Within(sg, o, b, Append(t, line), "theirs", ct)
BY DEF ReadLine, Within, TheConflict

LEMMA MarkersAreRead ==
    ASSUME NEW sg, NEW o, NEW b, NEW t, NEW sd, NEW ct
    PROVE  /\ ReadLine(Within(sg, o, b, t, sd, ct), "|") = Within(sg, o, b, t, "base", ct)
           /\ ReadLine(Within(sg, o, b, t, sd, ct), "=") = Within(sg, o, b, t, "theirs", ct)
           /\ \E cu : ReadLine(Within(sg, o, b, t, sd, ct), ">")
                 = Between(Append(sg, TheConflict(ct, o, b, t)), <<>>, cu, sd, ct + 1)
<1>1. ReadLine(Within(sg, o, b, t, sd, ct), "|") = Within(sg, o, b, t, "base", ct)
  BY DEF ReadLine, Within, TheConflict
<1>2. ReadLine(Within(sg, o, b, t, sd, ct), "=") = Within(sg, o, b, t, "theirs", ct)
  BY DEF ReadLine, Within, TheConflict
<1>3. PICK c : c = TheConflict(ct, o, b, t)
  OBVIOUS
<1>4. ReadLine(Within(sg, o, b, t, sd, ct), ">") = CloseConflict(Within(sg, o, b, t, sd, ct))
  BY DEF ReadLine, Within, TheConflict
<1>5. CloseConflict(Within(sg, o, b, t, sd, ct)) = Between(Append(sg, c), <<>>, c, sd, ct + 1)
  BY <1>3 DEF CloseConflict, Within, Between
<1> QED BY <1>1, <1>2, <1>3, <1>4, <1>5

LEMMA ClosingIsRead ==
    ASSUME NEW sg, NEW o, NEW b, NEW t, NEW sd, NEW ct
    PROVE  \E cu : ReadLine(Within(sg, o, b, t, sd, ct), ">")
              = Between(Append(sg, TheConflict(ct, o, b, t)), <<>>, cu, sd, ct + 1)
BY MarkersAreRead

LEMMA LineIsRead ==
    ASSUME NEW s \in Readers, NEW line \in Texts
    PROVE  ReadLine(s, line) \in Readers
<1>1. PICK q : q = ReadLine(s, line)
  OBVIOUS
<1>2. /\ s = [segments |-> s.segments, common |-> s.common, current |-> s.current,
              inside |-> s.inside, side |-> s.side, count |-> s.count]
      /\ s.segments \in Seq(SegmentTypes) /\ s.common \in Seq(Texts)
      /\ s.current \in ConflictSegments /\ s.inside \in BOOLEAN
      /\ s.side \in {"ours", "base", "theirs"} /\ s.count \in Nat
  BY DEF Readers
<1>3. ASSUME ~s.inside, line = "<" PROVE q \in Readers
  <2>1. q = OpenConflictAt(s)
    BY <1>1, <1>3 DEF ReadLine
  <2>2. PICK sg : sg = Flushed(s.segments, s.common)
    OBVIOUS
  <2>3. sg \in Seq(SegmentTypes)
    <3>1. Common(s.common) \in SegmentTypes
      BY <1>2 DEF Common, SegmentTypes
    <3> QED BY <1>2, <2>2, <3>1 DEF Flushed
  <2>4. NewConflict(s.count) \in ConflictSegments
    BY <1>2 DEF NewConflict, ConflictSegments
  <2>5. q = [segments |-> sg, common |-> <<>>, current |-> NewConflict(s.count),
             inside |-> TRUE, side |-> "ours", count |-> s.count]
    BY <1>2, <2>1, <2>2 DEF OpenConflictAt, FlushCommon, Flushed
  <2> QED BY <1>2, <2>3, <2>4, <2>5 DEF Readers
<1>4. ASSUME ~s.inside, line # "<" PROVE q \in Readers
  <2>1. q = [segments |-> s.segments, common |-> Append(s.common, line), current |-> s.current,
             inside |-> s.inside, side |-> s.side, count |-> s.count]
    BY <1>1, <1>2, <1>4 DEF ReadLine
  <2> QED BY <1>2, <2>1 DEF Readers
<1>5. ASSUME s.inside, line = "|" \/ line = "=" PROVE q \in Readers
  <2>1. \E sd \in {"base", "theirs"} : q = [s EXCEPT !.side = sd]
    BY <1>1, <1>5 DEF ReadLine
  <2> QED BY <1>2, <2>1 DEF Readers
<1>6. ASSUME s.inside, line = ">" PROVE q \in Readers
  <2>1. q = CloseConflict(s)
    BY <1>1, <1>6 DEF ReadLine
  <2>2. q = [segments |-> Append(s.segments, s.current), common |-> s.common,
             current |-> s.current, inside |-> FALSE, side |-> s.side, count |-> s.count + 1]
    BY <1>2, <1>6, <2>1 DEF CloseConflict
  <2>3. Append(s.segments, s.current) \in Seq(SegmentTypes)
    BY <1>2 DEF SegmentTypes
  <2> QED BY <1>2, <2>2, <2>3 DEF Readers
<1>7. ASSUME s.inside, line \notin {"|", "=", ">"} PROVE q \in Readers
  <2>1. PICK sd \in {"ours", "base", "theirs"} : sd = s.side
    BY <1>2
  <2>0. PICK cu : cu = s.current
    OBVIOUS
  <2>5. /\ cu = [kind |-> cu.kind, index |-> cu.index, ours |-> cu.ours, base |-> cu.base,
                 theirs |-> cu.theirs]
        /\ cu.kind = "conflict" /\ cu.index \in Nat
        /\ cu.ours \in Seq(Texts) /\ cu.base \in Seq(Texts) /\ cu.theirs \in Seq(Texts)
    BY <1>2, <2>0 DEF ConflictSegments
  <2>2. PICK c : c = [cu EXCEPT ![sd] = Append(@, line)]
    OBVIOUS
  <2>3. c \in ConflictSegments
    <3>1. CASE sd = "ours"
      <4>1. c = [kind |-> cu.kind, index |-> cu.index, ours |-> Append(cu.ours, line), base |-> cu.base, theirs |-> cu.theirs]
        BY <2>2, <2>5, <3>1
      <4>2. Append(cu.ours, line) \in Seq(Texts)
        BY <2>5
      <4> QED BY <2>5, <4>1, <4>2 DEF ConflictSegments
    <3>2. CASE sd = "base"
      <4>1. c = [kind |-> cu.kind, index |-> cu.index, ours |-> cu.ours, base |-> Append(cu.base, line), theirs |-> cu.theirs]
        BY <2>2, <2>5, <3>2
      <4>2. Append(cu.base, line) \in Seq(Texts)
        BY <2>5
      <4> QED BY <2>5, <4>1, <4>2 DEF ConflictSegments
    <3>3. CASE sd = "theirs"
      <4>1. c = [kind |-> cu.kind, index |-> cu.index, ours |-> cu.ours, base |-> cu.base, theirs |-> Append(cu.theirs, line)]
        BY <2>2, <2>5, <3>3
      <4>2. Append(cu.theirs, line) \in Seq(Texts)
        BY <2>5
      <4> QED BY <2>5, <4>1, <4>2 DEF ConflictSegments
    <3> QED BY <3>1, <3>2, <3>3
  <2>4. q = [s EXCEPT !.current = c]
    BY <1>1, <1>7, <2>0, <2>1, <2>2 DEF ReadLine
  <2> QED BY <1>2, <2>3, <2>4 DEF Readers
<1> QED BY <1>1, <1>2, <1>3, <1>4, <1>5, <1>6, <1>7

\* What is read of a text, after each of its lines.
Reading(f, lines) ==
    f = [n \in 0..Len(lines) |-> IF n = 0 THEN NothingRead ELSE ReadLine(f[n - 1], lines[n])]

LEMMA ReadingIs ==
    ASSUME NEW lines \in Seq(Texts), NEW f, Reading(f, lines)
    PROVE  /\ f[0] = NothingRead
           /\ \A n \in 1..Len(lines) : f[n] = ReadLine(f[n - 1], lines[n])
<1>1. PICK size \in Nat : size = Len(lines)
  OBVIOUS
<1>2. f = [n \in 0..size |-> IF n = 0 THEN NothingRead ELSE ReadLine(f[n - 1], lines[n])]
  BY <1>1 DEF Reading
<1>3. 0 \in 0..size /\ \A n \in 1..size : n \in 0..size /\ n # 0
  OBVIOUS
<1> QED BY <1>1, <1>2, <1>3

LEMMA SegmentsAre ==
    ASSUME NEW lines \in Seq(Texts)
    PROVE  \E f : /\ Reading(f, lines)
                  /\ Segments(lines) = FlushCommon(CloseConflict(f[Len(lines)])).segments
<1>1. PICK size \in Nat : size = Len(lines)
  OBVIOUS
<1> DEFINE D == [n \in 0..size |-> Readers]
           Step == [n \in 1..size |-> [s \in Readers |-> ReadLine(s, lines[n])]]
           c == CHOOSE f : Reading(f, lines)
<1>2. NothingRead \in Readers
  BY DEF NothingRead, NewConflict, Readers, ConflictSegments
<1>3. PICK f : Stages(f, NothingRead, size, Step)
  <2> HIDE DEF Step
  <2> QED BY StagesExist
<1>4. /\ f[0] = NothingRead /\ \A n \in 1..size : f[n] = Step[n][f[n - 1]]
  <2> HIDE DEF Step
  <2> QED BY <1>3 DEF Stages
<1>5. \A n \in 1..size : lines[n] \in Texts
  BY <1>1
<1>6. \A n \in 0..size : f[n] \in D[n]
  <2>1. f[0] \in D[0]
    BY <1>2, <1>4
  <2>2. ASSUME NEW n \in 1..size, f[n - 1] \in D[n - 1] PROVE f[n] \in D[n]
    <3>1. f[n - 1] \in Readers
      BY <2>2
    <3>2. f[n] = ReadLine(f[n - 1], lines[n])
      BY <1>4, <3>1
    <3>3. f[n] \in Readers
      BY <1>5, <3>1, <3>2, LineIsRead
    <3> QED BY <3>3
  <2> HIDE DEF D, Step
  <2> QED BY <2>1, <2>2, Throughout
<1>7. \A n \in 0..size : f[n] \in Readers
  BY <1>6
<1>8. Reading(f, lines)
  <2>1. ASSUME NEW n \in 0..size
        PROVE  f[n] = IF n = 0 THEN NothingRead ELSE ReadLine(f[n - 1], lines[n])
    <3>1. CASE n = 0
      BY <1>4, <3>1
    <3>2. CASE n # 0
      <4>1. n \in 1..size /\ n - 1 \in 0..size
        BY <3>2
      <4> QED BY <1>4, <1>7, <3>2, <4>1
    <3> QED BY <3>1, <3>2
  <2>2. f = [n \in 0..size |-> f[n]]
    <3> HIDE DEF Step
    <3> QED BY <1>3 DEF Stages
  <2> HIDE DEF Step, D
  <2> QED BY <1>1, <2>1, <2>2 DEF Reading
<1>9. Reading(c, lines)
  <2> HIDE DEF Step, D
  <2> QED BY <1>8
<1>10. Segments(lines) = FlushCommon(CloseConflict(c[Len(lines)])).segments
  BY DEF Segments, Reading
<1> QED BY <1>9, <1>10

\* A run of lines stands in a text from a place on.
Stands(lines, place, run) ==
    place + Len(run) <= Len(lines) /\ \A j \in 1..Len(run) : lines[place + j] = run[j]

LEMMA PartsStand ==
    ASSUME NEW T, NEW a \in Seq(T), NEW b \in Seq(T), NEW place \in Nat, NEW lines \in Seq(T),
           Stands(lines, place, a \o b)
    PROVE  /\ Stands(lines, place, a) /\ Stands(lines, place + Len(a), b)
           /\ Len(a \o b) = Len(a) + Len(b) /\ a \o b \in Seq(T)
<1>1. PICK m \in Nat, n \in Nat : m = Len(a) /\ n = Len(b)
  OBVIOUS
<1>2. PICK ab : ab = a \o b
  OBVIOUS
<1>7. PICK size \in Nat : size = Len(lines)
  OBVIOUS
<1>3. /\ ab \in Seq(T) /\ Len(ab) = m + n
      /\ \A j \in 1..(m + n) : ab[j] = IF j <= m THEN a[j] ELSE b[j - m]
  BY <1>1, <1>2, ConcatProperties
<1>4. place + (m + n) <= size /\ \A j \in 1..(m + n) : lines[place + j] = ab[j]
  BY <1>2, <1>3, <1>7 DEF Stands
<1>5. Stands(lines, place, a)
  <2>1. \A j \in 1..m : j \in 1..(m + n) /\ j <= m
    OBVIOUS
  <2>2. \A j \in 1..m : lines[place + j] = a[j]
    BY <1>3, <1>4, <2>1
  <2>3. place + m <= size
    BY <1>4
  <2> QED BY <1>1, <1>2, <2>2, <2>3 DEF Stands
<1>6. Stands(lines, place + m, b)
  <2>1. ASSUME NEW j \in 1..n PROVE lines[place + m + j] = b[j]
    <3>1. PICK k \in 1..(m + n) : k = m + j /\ ~(k <= m) /\ k - m = j /\ place + k = place + m + j
      OBVIOUS
    <3>2. lines[place + k] = ab[k] /\ ab[k] = b[k - m]
      BY <1>3, <1>4, <3>1
    <3> QED BY <3>1, <3>2
  <2>2. place + m + n <= size
    BY <1>4
  <2> QED BY <1>1, <1>7, <2>1, <2>2 DEF Stands
<1> QED BY <1>1, <1>2, <1>3, <1>5, <1>6

\* A text is one text and then another.
Joined(c, a, b) == c = a \o b

LEMMA LinesStand ==
    ASSUME NEW lines \in Lines, NEW place \in Nat, NEW a \in Lines, NEW b \in Lines, NEW c,
           Joined(c, a, b), Stands(lines, place, c)
    PROVE  /\ Stands(lines, place, a) /\ Stands(lines, place + Len(a), b)
           /\ Len(c) = Len(a) + Len(b) /\ c \in Lines
<1>1. c = a \o b /\ Stands(lines, place, a \o b)
  BY DEF Joined
<1>2. /\ Stands(lines, place, a) /\ Stands(lines, place + Len(a), b)
      /\ Len(a \o b) = Len(a) + Len(b) /\ a \o b \in Lines
  BY <1>1, PartsStand DEF Lines
<1> QED BY <1>1, <1>2

LEMMA RunIsRead ==
    ASSUME NEW lines \in Seq(Texts), NEW f, Reading(f, lines), NEW place \in Nat,
           NEW run \in Seq(Texts), Stands(lines, place, run), NEW W, f[place] = W[0],
           \A j \in 1..Len(run) : ReadLine(W[j - 1], run[j]) = W[j]
    PROVE  f[place + Len(run)] = W[Len(run)]
<1>1. PICK n \in Nat, size \in Nat : n = Len(run) /\ size = Len(lines)
  OBVIOUS
<1>2. PICK g : g = [j \in 0..n |-> f[place + j]]
  OBVIOUS
<1> DEFINE D == [j \in 0..n |-> {W[j]}]
<1>3. g[0] \in D[0]
  BY <1>2
<1>4. ASSUME NEW j \in 1..n, g[j - 1] \in D[j - 1] PROVE g[j] \in D[j]
  <2>1. g[j - 1] = W[j - 1]
    BY <1>4
  <2>2. PICK k \in 1..size : k = place + j /\ k - 1 = place + (j - 1)
    BY <1>1 DEF Stands
  <2>3. f[k] = ReadLine(f[k - 1], lines[k])
    BY <1>1, ReadingIs
  <2>4. lines[k] = run[j]
    BY <1>1, <2>2 DEF Stands
  <2>5. g[j] = f[k] /\ g[j - 1] = f[k - 1]
    BY <1>2, <2>2
  <2>6. g[j] = W[j]
    BY <1>1, <2>1, <2>3, <2>4, <2>5
  <2> QED BY <2>6
<1> HIDE DEF D
<1>5. \A j \in 0..n : g[j] \in D[j]
  BY <1>3, <1>4, Throughout
<1>6. g[n] = W[n]
  <2>1. g[n] \in D[n]
    BY <1>5
  <2> QED BY <2>1 DEF D
<1> QED BY <1>1, <1>2, <1>6

LEMMA RunGrows ==
    ASSUME NEW T, NEW a \in Seq(T), NEW run \in Seq(T), NEW j \in 1..Len(run)
    PROVE  /\ SubSeq(run, 1, j) = Append(SubSeq(run, 1, j - 1), run[j])
           /\ a \o SubSeq(run, 1, j) = Append(a \o SubSeq(run, 1, j - 1), run[j])
<1>1. PICK s : s = SubSeq(run, 1, j - 1)
  OBVIOUS
<1>2. s \in Seq(T)
  <2>1. \A i \in 1..(j - 1) : run[i] \in T
    OBVIOUS
  <2> QED BY <1>1, <2>1, SubSeqProperties
<1>3. run[j] \in T /\ 1 \in 1..Len(run) /\ j \in 1..Len(run)
  OBVIOUS
<1>4. SubSeq(run, 1, j) = s \o <<run[j]>>
  BY <1>1, <1>3, SubSeqRecursiveSecond
<1>5. s \o <<run[j]>> = Append(s, run[j])
  BY <1>2, <1>3, AppendIsConcat
<1>6. a \o s \in Seq(T)
  BY <1>2, ConcatProperties
<1>7. Append(a \o s, run[j]) = (a \o s) \o <<run[j]>>
  BY <1>3, <1>6, AppendIsConcat
<1>8. (a \o s) \o <<run[j]>> = a \o (s \o <<run[j]>>)
  <2>1. <<run[j]>> \in Seq(T)
    BY <1>3
  <2> QED BY <1>2, <2>1, ConcatAssociative, SMTT(40)
<1> QED BY <1>1, <1>4, <1>5, <1>7, <1>8

LEMMA RunEnds ==
    ASSUME NEW T, NEW a \in Seq(T), NEW run \in Seq(T)
    PROVE  /\ SubSeq(run, 1, 0) = <<>> /\ SubSeq(run, 1, Len(run)) = run /\ a \o <<>> = a
<1>1. SubSeq(run, 1, 0) = <<>>
  <2>1. Len(SubSeq(run, 1, 0)) = 0 /\ SubSeq(run, 1, 0) \in Seq(T)
    BY SubSeqProperties
  <2> QED BY <2>1, EmptySeq
<1>2. SubSeq(run, 1, Len(run)) = run
  BY SubSeqFull
<1>3. a \o <<>> = a
  BY ConcatEmptySeq
<1> QED BY <1>1, <1>2, <1>3

LEMMA MarkerIsRead ==
    ASSUME NEW lines \in Lines, NEW f, Reading(f, lines), NEW place \in Nat, NEW m,
           Stands(lines, place, <<m>>)
    PROVE  f[place + 1] = ReadLine(f[place], m)
<1>1. PICK size \in Nat : size = Len(lines)
  BY DEF Lines
<1>2. Len(<<m>>) = 1 /\ <<m>>[1] = m /\ 1 \in 1..1
  OBVIOUS
<1>3. place + 1 <= size /\ lines[place + 1] = m
  BY <1>1, <1>2 DEF Stands
<1>4. PICK k \in 1..size : k = place + 1 /\ k - 1 = place
  BY <1>3
<1>5. f[k] = ReadLine(f[k - 1], lines[k])
  BY <1>1, ReadingIs DEF Lines
<1> QED BY <1>3, <1>4, <1>5

LEMMA PlainRun ==
    ASSUME NEW lines \in Lines, NEW f, Reading(f, lines), NEW place \in Nat,
           NEW run \in Lines, Stands(lines, place, run),
           \A j \in 1..Len(run) : run[j] # "<",
           NEW sg, NEW cm \in Lines, NEW cu, NEW sd, NEW ct,
           f[place] = Between(sg, cm, cu, sd, ct)
    PROVE  f[place + Len(run)] = Between(sg, cm \o run, cu, sd, ct)
<1>1. PICK n \in Nat : n = Len(run)
  BY DEF Lines
<1>2. PICK W : W = [j \in 0..n |-> Between(sg, cm \o SubSeq(run, 1, j), cu, sd, ct)]
  OBVIOUS
<1>3. /\ W[0] = Between(sg, cm \o SubSeq(run, 1, 0), cu, sd, ct)
      /\ W[n] = Between(sg, cm \o SubSeq(run, 1, n), cu, sd, ct)
      /\ \A j \in 1..n : /\ W[j] = Between(sg, cm \o SubSeq(run, 1, j), cu, sd, ct)
                         /\ W[j - 1] = Between(sg, cm \o SubSeq(run, 1, j - 1), cu, sd, ct)
  BY <1>2
<1>4. SubSeq(run, 1, 0) = <<>> /\ SubSeq(run, 1, n) = run /\ cm \o <<>> = cm
  BY <1>1, RunEnds DEF Lines
<1>5. ASSUME NEW j \in 1..n PROVE ReadLine(W[j - 1], run[j]) = W[j]
  <2>1. cm \o SubSeq(run, 1, j) = Append(cm \o SubSeq(run, 1, j - 1), run[j])
    BY <1>1, RunGrows DEF Lines
  <2>2. run[j] # "<"
    BY <1>1
  <2>3. PICK was : was = cm \o SubSeq(run, 1, j - 1)
    OBVIOUS
  <2>4. ReadLine(Between(sg, was, cu, sd, ct), run[j])
           = Between(sg, Append(was, run[j]), cu, sd, ct)
    BY <2>2, PlainIsRead
  <2> QED BY <1>3, <2>1, <2>3, <2>4
<1>6. f[place] = W[0]
  BY <1>3, <1>4
<1>7. f[place + n] = W[n]
  <2>1. lines \in Seq(Texts) /\ run \in Seq(Texts)
    BY DEF Lines
  <2>2. \A j \in 1..Len(run) : ReadLine(W[j - 1], run[j]) = W[j]
    BY <1>1, <1>5
  <2>3. f[place + Len(run)] = W[Len(run)]
    BY <2>1, <2>2, <1>6, RunIsRead
  <2> QED BY <1>1, <2>3
<1> QED BY <1>1, <1>3, <1>4, <1>7

\* Inside a conflict, with the run read so far on the side being read.
Collected(sg, o, b, t, sd, ct, run) ==
    Within(sg, IF sd = "ours" THEN run ELSE o, IF sd = "base" THEN run ELSE b,
           IF sd = "theirs" THEN run ELSE t, sd, ct)

LEMMA SideRun ==
    ASSUME NEW lines \in Lines, NEW f, Reading(f, lines), NEW place \in Nat,
           NEW run \in Lines, Stands(lines, place, run),
           \A j \in 1..Len(run) : run[j] \notin {"|", "=", ">"},
           NEW sg, NEW o, NEW b, NEW t, NEW sd \in {"ours", "base", "theirs"}, NEW ct,
           f[place] = Collected(sg, o, b, t, sd, ct, <<>>)
    PROVE  f[place + Len(run)] = Collected(sg, o, b, t, sd, ct, run)
<1>1. PICK n \in Nat : n = Len(run)
  BY DEF Lines
<1>2. PICK W : W = [j \in 0..n |-> Collected(sg, o, b, t, sd, ct, SubSeq(run, 1, j))]
  OBVIOUS
<1>3. /\ W[0] = Collected(sg, o, b, t, sd, ct, SubSeq(run, 1, 0))
      /\ W[n] = Collected(sg, o, b, t, sd, ct, SubSeq(run, 1, n))
      /\ \A j \in 1..n :
            /\ W[j] = Collected(sg, o, b, t, sd, ct, SubSeq(run, 1, j))
            /\ W[j - 1] = Collected(sg, o, b, t, sd, ct, SubSeq(run, 1, j - 1))
  BY <1>2
<1>4. SubSeq(run, 1, 0) = <<>> /\ SubSeq(run, 1, n) = run
  BY <1>1, RunEnds DEF Lines
<1>5. ASSUME NEW j \in 1..n PROVE ReadLine(W[j - 1], run[j]) = W[j]
  <2>1. SubSeq(run, 1, j) = Append(SubSeq(run, 1, j - 1), run[j])
    BY <1>1, RunGrows DEF Lines
  <2>2. run[j] \notin {"|", "=", ">"}
    BY <1>1
  <2>3. PICK was, line : was = SubSeq(run, 1, j - 1) /\ line = run[j]
    OBVIOUS
  <2>4. ReadLine(Collected(sg, o, b, t, sd, ct, was), line)
           = Collected(sg, o, b, t, sd, ct, Append(was, line))
    <3>1. CASE sd = "ours"
      BY <2>2, <2>3, <3>1, OursIsRead DEF Collected
    <3>2. CASE sd = "base"
      BY <2>2, <2>3, <3>2, BaseIsRead DEF Collected
    <3>3. CASE sd = "theirs"
      BY <2>2, <2>3, <3>3, TheirsIsRead DEF Collected
    <3> QED BY <3>1, <3>2, <3>3
  <2> QED BY <1>3, <2>1, <2>3, <2>4
<1>6. f[place] = W[0]
  BY <1>3, <1>4
<1>7. f[place + n] = W[n]
  <2>1. lines \in Seq(Texts) /\ run \in Seq(Texts)
    BY DEF Lines
  <2>2. \A j \in 1..Len(run) : ReadLine(W[j - 1], run[j]) = W[j]
    BY <1>1, <1>5
  <2>3. f[place + Len(run)] = W[Len(run)]
    BY <2>1, <2>2, <1>6, RunIsRead
  <2> QED BY <1>1, <2>3
<1> QED BY <1>1, <1>3, <1>4, <1>7

LEMMA OursRun ==
    ASSUME NEW lines \in Lines, NEW f, Reading(f, lines), NEW place \in Nat,
           NEW run \in Lines, Stands(lines, place, run),
           \A j \in 1..Len(run) : run[j] \notin {"|", "=", ">"},
           NEW sg, NEW ct, f[place] = Within(sg, <<>>, <<>>, <<>>, "ours", ct)
    PROVE  f[place + Len(run)] = Within(sg, run, <<>>, <<>>, "ours", ct)
<1>1. PICK sd \in {"ours", "base", "theirs"} : sd = "ours"
  OBVIOUS
<1>2. f[place] = Collected(sg, <<>>, <<>>, <<>>, sd, ct, <<>>)
  BY <1>1 DEF Collected
<1>3. f[place + Len(run)] = Collected(sg, <<>>, <<>>, <<>>, sd, ct, run)
  BY <1>1, <1>2, SideRun
<1> QED BY <1>1, <1>3 DEF Collected

LEMMA BaseRun ==
    ASSUME NEW lines \in Lines, NEW f, Reading(f, lines), NEW place \in Nat,
           NEW run \in Lines, Stands(lines, place, run),
           \A j \in 1..Len(run) : run[j] \notin {"|", "=", ">"},
           NEW sg, NEW o, NEW ct, f[place] = Within(sg, o, <<>>, <<>>, "base", ct)
    PROVE  f[place + Len(run)] = Within(sg, o, run, <<>>, "base", ct)
<1>1. PICK sd \in {"ours", "base", "theirs"} : sd = "base"
  OBVIOUS
<1>2. f[place] = Collected(sg, o, <<>>, <<>>, sd, ct, <<>>)
  BY <1>1 DEF Collected
<1>3. f[place + Len(run)] = Collected(sg, o, <<>>, <<>>, sd, ct, run)
  BY <1>1, <1>2, SideRun
<1> QED BY <1>1, <1>3 DEF Collected

LEMMA TheirsRun ==
    ASSUME NEW lines \in Lines, NEW f, Reading(f, lines), NEW place \in Nat,
           NEW run \in Lines, Stands(lines, place, run),
           \A j \in 1..Len(run) : run[j] \notin {"|", "=", ">"},
           NEW sg, NEW o, NEW b, NEW ct, f[place] = Within(sg, o, b, <<>>, "theirs", ct)
    PROVE  f[place + Len(run)] = Within(sg, o, b, run, "theirs", ct)
<1>1. PICK sd \in {"ours", "base", "theirs"} : sd = "theirs"
  OBVIOUS
<1>2. f[place] = Collected(sg, o, b, <<>>, sd, ct, <<>>)
  BY <1>1 DEF Collected
<1>3. f[place + Len(run)] = Collected(sg, o, b, <<>>, sd, ct, run)
  BY <1>1, <1>2, SideRun
<1> QED BY <1>1, <1>3 DEF Collected

\* The lines of a conflict up to its closing marker.
Opened(r) == {<<"<">> \o r.ours \o base \o <<"=">> \o r.theirs :
                 base \in {<<>>, <<"|">> \o r.base}}

Sides == Seq(STRING \ {"|", "=", ">"})

LEMMA SidesAreTexts ==
    ASSUME NEW s \in Sides
    PROVE  s \in Seq(Texts) /\ \A j \in 1..Len(s) : s[j] \notin {"|", "=", ">"}
<1>1. PICK n \in Nat : n = Len(s)
  BY DEF Sides
<1>2. \A j \in 1..n : s[j] \in STRING \ {"|", "=", ">"}
  BY <1>1 DEF Sides
<1>3. s = [j \in 1..n |-> s[j]]
  BY <1>1 DEF Sides
<1>4. \A j \in 1..n : s[j] \in Texts
  BY <1>2 DEF Texts
<1>5. s \in Seq(Texts)
  BY <1>1, <1>3, <1>4
<1> QED BY <1>1, <1>2, <1>5

LEMMA OpenedIsTexts ==
    ASSUME NEW o \in Seq(Texts), NEW base \in Seq(Texts), NEW t \in Seq(Texts)
    PROVE  /\ <<"<">> \o o \in Seq(Texts)
           /\ <<"<">> \o o \o base \in Seq(Texts)
           /\ <<"<">> \o o \o base \o <<"=">> \in Seq(Texts)
           /\ <<"<">> \o o \o base \o <<"=">> \o t \in Seq(Texts)
           /\ <<"<">> \o o \o base \o <<"=">> \o t \o <<">">> \in Seq(Texts)
<1>1. <<"<">> \in Seq(Texts) /\ <<"=">> \in Seq(Texts) /\ <<">">> \in Seq(Texts)
  BY DEF Texts
<1>2. <<"<">> \o o \in Seq(Texts)
  BY <1>1, ConcatProperties
<1>3. <<"<">> \o o \o base \in Seq(Texts)
  BY <1>2, ConcatProperties
<1>4. <<"<">> \o o \o base \o <<"=">> \in Seq(Texts)
  BY <1>1, <1>3, ConcatProperties
<1>5. <<"<">> \o o \o base \o <<"=">> \o t \in Seq(Texts)
  BY <1>4, ConcatProperties
<1>6. <<"<">> \o o \o base \o <<"=">> \o t \o <<">">> \in Seq(Texts)
  BY <1>1, <1>5, ConcatProperties
<1> QED BY <1>2, <1>3, <1>4, <1>5, <1>6

\* A text of one line.
Lone(s, line) == s = <<line>>
None(s) == s = <<>>

CoreShape(core, o, t, rb, x0, x1, x2, x3, base, bar, mid) ==
    /\ core \in Lines /\ o \in Lines /\ t \in Lines /\ rb \in Lines
    /\ x0 \in Lines /\ x1 \in Lines /\ x2 \in Lines /\ x3 \in Lines
    /\ base \in Lines /\ bar \in Lines /\ mid \in Lines
    /\ Lone(x0, "<") /\ Lone(bar, "|") /\ Lone(mid, "=")
    /\ (None(base) \/ Joined(base, bar, rb))
    /\ Joined(x1, x0, o) /\ Joined(x2, x1, base) /\ Joined(x3, x2, mid)
    /\ Joined(core, x3, t)

ReadSoFar(lines, f, place, core, sg, cm, cu, sd, ct) ==
    /\ lines \in Lines /\ Reading(f, lines) /\ place \in Nat /\ Stands(lines, place, core)
    /\ f[place] = Between(sg, cm, cu, sd, ct)

LEMMA CoreParts ==
    ASSUME NEW o \in Lines, NEW t \in Lines, NEW rb \in Lines, NEW core,
           NEW b0 \in {<<>>, <<"|">> \o rb}, core = <<"<">> \o o \o b0 \o <<"=">> \o t
    PROVE  \E x0, x1, x2, x3, base, bar, mid :
              CoreShape(core, o, t, rb, x0, x1, x2, x3, base, bar, mid)
<1>3. b0 \in Lines /\ (None(b0) \/ Joined(b0, <<"|">>, rb))
  <2>1. <<"|">> \in Lines /\ <<>> \in Lines
    BY DEF Texts, Lines
  <2>2. <<"|">> \o rb \in Lines
    BY <2>1, ConcatProperties DEF Lines
  <2> QED BY <2>1, <2>2 DEF None, Joined
<1>4. PICK x0, x1, x2, x3, bar, mid :
         /\ x0 = <<"<">> /\ x1 = x0 \o o /\ x2 = x1 \o b0 /\ x3 = x2 \o mid
         /\ bar = <<"|">> /\ mid = <<"=">>
  OBVIOUS
<1>5. core = x3 \o t
  BY <1>4
<1>6. /\ x0 \in Lines /\ x1 \in Lines /\ x2 \in Lines /\ x3 \in Lines
      /\ core \in Lines /\ bar \in Lines /\ mid \in Lines
  <2>1. x0 \in Lines /\ bar \in Lines /\ mid \in Lines
    BY <1>4 DEF Texts, Lines
  <2> QED BY <1>3, <1>4, <1>5, <2>1, OpenedIsTexts DEF Lines
<1>7. /\ Lone(x0, "<") /\ Lone(bar, "|") /\ Lone(mid, "=")
      /\ (None(b0) \/ Joined(b0, bar, rb))
      /\ Joined(x1, x0, o) /\ Joined(x2, x1, b0) /\ Joined(x3, x2, mid) /\ Joined(core, x3, t)
  BY <1>3, <1>4, <1>5 DEF Lone, Joined
<1>8. CoreShape(core, o, t, rb, x0, x1, x2, x3, b0, bar, mid)
  BY <1>3, <1>6, <1>7 DEF CoreShape
<1> QED BY <1>8

\* A run that is about to be read, and a text about to be cut in two.
RunAt(lines, f, place, run) ==
    /\ lines \in Lines /\ place \in Nat /\ run \in Lines
    /\ Reading(f, lines) /\ Stands(lines, place, run)
    /\ \A j \in 1..Len(run) : run[j] \notin {"|", "=", ">"}
Cut(lines, place, c, a, b) ==
    /\ lines \in Lines /\ place \in Nat /\ a \in Lines /\ b \in Lines
    /\ Joined(c, a, b) /\ Stands(lines, place, c)

LEMMA CutStands ==
    ASSUME NEW lines, NEW place, NEW c, NEW a, NEW b, Cut(lines, place, c, a, b)
    PROVE  /\ Stands(lines, place, a) /\ Stands(lines, place + Len(a), b)
           /\ Len(c) = Len(a) + Len(b)
<1>1. lines \in Lines /\ place \in Nat /\ a \in Lines /\ b \in Lines
  BY DEF Cut
<1>2. Joined(c, a, b) /\ Stands(lines, place, c)
  BY DEF Cut
<1> QED BY <1>1, <1>2, LinesStand

LEMMA SidesAreRead ==
    ASSUME NEW lines, NEW f, NEW place, NEW run, RunAt(lines, f, place, run),
           NEW sg, NEW o, NEW b, NEW ct
    PROVE  /\ f[place] = Within(sg, <<>>, <<>>, <<>>, "ours", ct) =>
                 f[place + Len(run)] = Within(sg, run, <<>>, <<>>, "ours", ct)
           /\ f[place] = Within(sg, o, <<>>, <<>>, "base", ct) =>
                 f[place + Len(run)] = Within(sg, o, run, <<>>, "base", ct)
           /\ f[place] = Within(sg, o, b, <<>>, "theirs", ct) =>
                 f[place + Len(run)] = Within(sg, o, b, run, "theirs", ct)
<1>1. /\ lines \in Lines /\ place \in Nat /\ run \in Lines
      /\ Reading(f, lines) /\ Stands(lines, place, run)
      /\ \A j \in 1..Len(run) : run[j] \notin {"|", "=", ">"}
  BY DEF RunAt
<1>2. PICK ls \in Lines, p \in Nat, r \in Lines : ls = lines /\ p = place /\ r = run
  BY <1>1
<1>3. Reading(f, ls) /\ Stands(ls, p, r) /\ \A j \in 1..Len(r) : r[j] \notin {"|", "=", ">"}
  BY <1>1, <1>2
<1>4. f[p] = Within(sg, <<>>, <<>>, <<>>, "ours", ct) =>
         f[p + Len(r)] = Within(sg, r, <<>>, <<>>, "ours", ct)
  BY <1>2, <1>3, OursRun
<1>5. f[p] = Within(sg, o, <<>>, <<>>, "base", ct) =>
         f[p + Len(r)] = Within(sg, o, r, <<>>, "base", ct)
  BY <1>2, <1>3, BaseRun
<1>6. f[p] = Within(sg, o, b, <<>>, "theirs", ct) =>
         f[p + Len(r)] = Within(sg, o, b, r, "theirs", ct)
  BY <1>2, <1>3, TheirsRun
<1> QED BY <1>2, <1>4, <1>5, <1>6

LEMMA MarkerAt ==
    ASSUME NEW lines, NEW f, NEW place, NEW one, NEW line, Lone(one, line),
           lines \in Lines /\ place \in Nat /\ Reading(f, lines), Stands(lines, place, one)
    PROVE  f[place + 1] = ReadLine(f[place], line)
BY MarkerIsRead DEF Lone

LEMMA ShapeIsRead ==
    ASSUME NEW lines, NEW f, NEW place, NEW core, NEW sg, NEW cm, NEW cu, NEW sd, NEW ct,
           NEW o, NEW t, NEW rb, NEW x0, NEW x1, NEW x2, NEW x3, NEW base, NEW bar, NEW mid,
           CoreShape(core, o, t, rb, x0, x1, x2, x3, base, bar, mid),
           ReadSoFar(lines, f, place, core, sg, cm, cu, sd, ct),
           o \in Sides, t \in Sides, rb \in Sides
    PROVE  \E b \in Sides : f[place + Len(core)] = Within(Flushed(sg, cm), o, b, t, "theirs", ct)
<1>1. /\ core \in Lines /\ o \in Lines /\ t \in Lines /\ rb \in Lines
      /\ x0 \in Lines /\ x1 \in Lines /\ x2 \in Lines /\ x3 \in Lines
      /\ base \in Lines /\ bar \in Lines /\ mid \in Lines
      /\ lines \in Lines /\ place \in Nat
  BY DEF CoreShape, ReadSoFar
<1>2. /\ Reading(f, lines) /\ Stands(lines, place, core)
      /\ f[place] = Between(sg, cm, cu, sd, ct)
  BY DEF ReadSoFar
<1>3. /\ Lone(x0, "<") /\ Lone(bar, "|") /\ Lone(mid, "=")
      /\ (None(base) \/ Joined(base, bar, rb))
      /\ Joined(x1, x0, o) /\ Joined(x2, x1, base) /\ Joined(x3, x2, mid)
      /\ Joined(core, x3, t)
  BY DEF CoreShape
<1>4. /\ \A j \in 1..Len(o) : o[j] \notin {"|", "=", ">"}
      /\ \A j \in 1..Len(t) : t[j] \notin {"|", "=", ">"}
      /\ \A j \in 1..Len(rb) : rb[j] \notin {"|", "=", ">"}
  BY SidesAreTexts
<1>5. /\ Len(x0) = 1 /\ Len(mid) = 1 /\ Len(bar) = 1
      /\ Len(o) \in Nat /\ Len(t) \in Nat /\ Len(rb) \in Nat /\ Len(base) \in Nat
  BY <1>1, <1>3 DEF Lines, Lone
<1>6. /\ Stands(lines, place, x3) /\ Stands(lines, place + Len(x3), t)
      /\ Len(core) = Len(x3) + Len(t)
  <2>1. Cut(lines, place, core, x3, t)
    BY <1>1, <1>2, <1>3 DEF Cut
  <2> QED BY <2>1, CutStands
<1>7. /\ Stands(lines, place, x2) /\ Stands(lines, place + Len(x2), mid)
      /\ Len(x3) = Len(x2) + Len(mid)
  <2>1. Cut(lines, place, x3, x2, mid)
    BY <1>1, <1>3, <1>6 DEF Cut
  <2> QED BY <2>1, CutStands
<1>8. /\ Stands(lines, place, x1) /\ Stands(lines, place + Len(x1), base)
      /\ Len(x2) = Len(x1) + Len(base)
  <2>1. Cut(lines, place, x2, x1, base)
    BY <1>1, <1>3, <1>7 DEF Cut
  <2> QED BY <2>1, CutStands
<1>9. /\ Stands(lines, place, x0) /\ Stands(lines, place + Len(x0), o)
      /\ Len(x1) = Len(x0) + Len(o)
  <2>1. Cut(lines, place, x1, x0, o)
    BY <1>1, <1>3, <1>8 DEF Cut
  <2> QED BY <2>1, CutStands
<1>10. PICK fl : fl = Flushed(sg, cm)
  OBVIOUS
<1>11. PICK p0 \in Nat : p0 = place + 1
  BY <1>1
<1>12. f[p0] = Within(fl, <<>>, <<>>, <<>>, "ours", ct)
  <2>1. f[place + 1] = ReadLine(f[place], "<")
    BY <1>1, <1>2, <1>3, <1>9, MarkerAt
  <2> QED BY <1>2, <1>10, <1>11, <2>1, OpeningIsRead
<1>13. PICK p1 \in Nat : p1 = place + Len(x1) /\ p1 = p0 + Len(o)
  BY <1>1, <1>5, <1>9, <1>11
<1>14. f[p1] = Within(fl, o, <<>>, <<>>, "ours", ct)
  <2>1. Stands(lines, p0, o)
    BY <1>5, <1>9, <1>11
  <2>2. RunAt(lines, f, p0, o)
    BY <1>1, <1>2, <1>4, <1>11, <2>1 DEF RunAt
  <2> QED BY <1>12, <1>13, <2>2, SidesAreRead
<1>15. PICK p2 \in Nat : p2 = place + Len(x2) /\ p2 = p1 + Len(base)
  BY <1>1, <1>5, <1>8, <1>13
<1>16. \E b \in Sides, s \in {"ours", "base"} : f[p2] = Within(fl, o, b, <<>>, s, ct)
  <2>1. CASE None(base)
    <3>1. p2 = p1
      BY <1>13, <1>15, <2>1 DEF None
    <3>2. <<>> \in Sides
      BY DEF Sides
    <3> QED BY <1>14, <3>1, <3>2
  <2>2. CASE Joined(base, bar, rb)
    <3>1. Cut(lines, p1, base, bar, rb)
      BY <1>1, <1>8, <1>13, <2>2 DEF Cut
    <3>2. /\ Stands(lines, p1, bar) /\ Stands(lines, p1 + Len(bar), rb)
          /\ Len(base) = Len(bar) + Len(rb)
      BY <3>1, CutStands
    <3>3. f[p1 + 1] = ReadLine(f[p1], "|")
      BY <1>1, <1>2, <1>3, <1>13, <3>2, MarkerAt
    <3>4. PICK q \in Nat : q = p1 + 1 /\ p2 = q + Len(rb)
      BY <1>5, <1>13, <1>15, <3>2
    <3>5. f[q] = Within(fl, o, <<>>, <<>>, "base", ct)
      BY <1>14, <3>3, <3>4, MarkersAreRead
    <3>6. Stands(lines, q, rb)
      BY <1>5, <3>2, <3>4
    <3>7. RunAt(lines, f, q, rb)
      BY <1>1, <1>2, <1>4, <3>4, <3>6 DEF RunAt
    <3>8. f[p2] = Within(fl, o, rb, <<>>, "base", ct)
      BY <3>4, <3>5, <3>7, SidesAreRead
    <3> QED BY <3>8
  <2> QED BY <1>3, <2>1, <2>2
<1>17. PICK b \in Sides, s \in {"ours", "base"} : f[p2] = Within(fl, o, b, <<>>, s, ct)
  BY <1>16
<1>18. PICK p3 \in Nat : /\ p3 = place + Len(x3) /\ p3 = p2 + 1
                         /\ place + Len(core) = p3 + Len(t)
  BY <1>1, <1>5, <1>6, <1>7, <1>15
<1>19. f[p3] = Within(fl, o, b, <<>>, "theirs", ct)
  <2>1. f[p2 + 1] = ReadLine(f[p2], "=")
    BY <1>1, <1>2, <1>3, <1>7, <1>15, MarkerAt
  <2>2. f[p2 + 1] = Within(fl, o, b, <<>>, "theirs", ct)
    BY <1>17, <2>1, MarkersAreRead
  <2> QED BY <1>18, <2>2
<1>20. f[p3 + Len(t)] = Within(fl, o, b, t, "theirs", ct)
  <2>1. Stands(lines, p3, t)
    BY <1>6, <1>18
  <2>2. RunAt(lines, f, p3, t)
    BY <1>1, <1>2, <1>4, <1>18, <2>1 DEF RunAt
  <2> QED BY <1>19, <2>2, SidesAreRead
<1> QED BY <1>10, <1>17, <1>18, <1>20

LEMMA ConflictIsRead ==
    ASSUME NEW lines \in Lines, NEW f, Reading(f, lines), NEW place \in Nat, NEW r,
           r.ours \in Sides, r.base \in Sides, r.theirs \in Sides,
           NEW core \in Opened(r), Stands(lines, place, core),
           NEW sg, NEW cm, NEW cu, NEW sd, NEW ct, f[place] = Between(sg, cm, cu, sd, ct)
    PROVE  \E b \in Sides : f[place + Len(core)]
                 = Within(Flushed(sg, cm), r.ours, b, r.theirs, "theirs", ct)
<1>1. PICK o \in Lines, t \in Lines, rb \in Lines :
         o = r.ours /\ t = r.theirs /\ rb = r.base /\ o \in Sides /\ t \in Sides /\ rb \in Sides
  BY SidesAreTexts DEF Lines
<1>2. PICK b0 \in {<<>>, <<"|">> \o rb} : core = <<"<">> \o o \o b0 \o <<"=">> \o t
  BY <1>1 DEF Opened
<1>3. PICK x0, x1, x2, x3, base, bar, mid :
         CoreShape(core, o, t, rb, x0, x1, x2, x3, base, bar, mid)
  BY <1>1, <1>2, CoreParts
<1>4. ReadSoFar(lines, f, place, core, sg, cm, cu, sd, ct)
  BY DEF ReadSoFar
<1>5. o \in Sides /\ t \in Sides /\ rb \in Sides
  BY <1>1
<1>6. \E b \in Sides : f[place + Len(core)] = Within(Flushed(sg, cm), o, b, t, "theirs", ct)
  BY <1>3, <1>4, <1>5, ShapeIsRead
<1> QED BY <1>1, <1>6

Closing == <<">">>

LEMMA WrittenIs ==
    ASSUME NEW r \in Regions, NEW piece \in Written(r)
    PROVE  /\ piece \in Lines
           /\ r.kind = "common" =>
                 piece = r.lines /\ \A j \in 1..Len(piece) : piece[j] # "<"
           /\ r.kind # "common" =>
                 /\ r.kind = "conflict" /\ r.ours \in Sides /\ r.base \in Sides
                 /\ r.theirs \in Sides
                 /\ \E core \in Opened(r) : core \in Lines /\ piece = core \o Closing
<1>1. CASE r.kind = "common"
  <2>1. piece = r.lines /\ r.lines \in Seq(STRING \ {"<"})
    BY <1>1 DEF Written, Regions
  <2>2. PICK n \in Nat : n = Len(piece)
    BY <2>1
  <2>7. PICK q : q = piece
    OBVIOUS
  <2>6. q = [j \in 1..n |-> q[j]]
    BY <2>1, <2>2, <2>7
  <2>3. \A j \in 1..n : piece[j] \in STRING \ {"<"}
    BY <2>1, <2>2
  <2>4. \A j \in 1..n : piece[j] \in Texts
    BY <2>3 DEF Texts
  <2>5. piece \in Lines
    <3>1. \A j \in 1..n : q[j] \in Texts
      BY <2>4, <2>7
    <3>2. q \in Seq(Texts)
      BY <2>6, <3>1
    <3> QED BY <2>7, <3>2 DEF Lines
  <2> QED BY <1>1, <2>1, <2>2, <2>3, <2>5
<1>2. CASE r.kind # "common"
  <2>1. r.kind = "conflict" /\ r.ours \in Sides /\ r.base \in Sides /\ r.theirs \in Sides
    BY <1>2 DEF Regions, Sides
  <2>2. PICK o \in Lines, t \in Lines, rb \in Lines : o = r.ours /\ t = r.theirs /\ rb = r.base
    BY <2>1, SidesAreTexts DEF Lines
  <2>3. PICK base : /\ (base = <<>> \/ base = <<"|">> \o rb)
                    /\ piece = <<"<">> \o o \o base \o <<"=">> \o t \o <<">">>
    BY <1>2, <2>2 DEF Written
  <2>4. base \in Lines
    <3>1. <<"|">> \in Lines /\ <<>> \in Lines
      BY DEF Texts, Lines
    <3>2. <<"|">> \o rb \in Lines
      BY <3>1, ConcatProperties DEF Lines
    <3> QED BY <2>3, <3>1, <3>2
  <2>5. PICK core : core = <<"<">> \o o \o base \o <<"=">> \o t
    OBVIOUS
  <2>6. core \in Lines /\ piece = core \o Closing /\ piece \in Lines
    BY <2>2, <2>3, <2>4, <2>5, OpenedIsTexts DEF Lines, Closing
  <2>7. core \in Opened(r)
    BY <2>2, <2>3, <2>5 DEF Opened
  <2> QED BY <1>2, <2>1, <2>6, <2>7
<1> QED BY <1>1, <1>2

(* What is composed of the segments read. *)

SegmentLines(x, picks) ==
    IF x.kind = "common" THEN x.lines ELSE ConflictLines(x, Picked(x, picks))

LEMMA SegmentHasLines ==
    ASSUME NEW x \in SegmentTypes, NEW picks
    PROVE  SegmentLines(x, picks) \in Lines
<1>1. CASE x.kind = "common"
  <2>1. x.lines \in Lines
    BY <1>1 DEF SegmentTypes, ConflictSegments, Lines
  <2> QED BY <1>1, <2>1 DEF SegmentLines
<1>2. CASE x.kind # "common"
  <2>1. x.ours \in Lines /\ x.theirs \in Lines
    BY <1>2 DEF SegmentTypes, ConflictSegments, Lines
  <2>2. PICK a, b : /\ a = (IF Picked(x, picks).ours THEN x.ours ELSE <<>>)
                    /\ b = (IF Picked(x, picks).theirs THEN x.theirs ELSE <<>>)
    OBVIOUS
  <2>3. a \in Lines /\ b \in Lines
    <3>1. <<>> \in Lines
      BY DEF Lines
    <3> QED BY <2>1, <2>2, <3>1
  <2>4. a \o b \in Lines
    BY <2>3, ConcatProperties DEF Lines
  <2> QED BY <1>2, <2>2, <2>4 DEF SegmentLines, ConflictLines
<1> QED BY <1>1, <1>2

LEMMA ComposeAppends ==
    ASSUME NEW sg \in Seq(SegmentTypes), NEW x \in SegmentTypes, NEW picks
    PROVE  /\ ComposeMergeResult(Append(sg, x), picks)
                 = ComposeMergeResult(sg, picks) \o SegmentLines(x, picks)
           /\ ComposeMergeResult(sg, picks) \in Lines
<1>1. PICK n \in Nat : n = Len(sg)
  OBVIOUS
<1>2. PICK more : more = Append(sg, x)
  OBVIOUS
<1>3. /\ DOMAIN more = 1..(n + 1) /\ more[n + 1] = x
      /\ \A i \in 1..n : more[i] = sg[i] /\ sg[i] \in SegmentTypes
      /\ DOMAIN sg = 1..n
  BY <1>1, <1>2
<1>4. PICK s : s = [i \in 1..n |-> SegmentLines(sg[i], picks)]
  OBVIOUS
<1>5. PICK sx : sx = SegmentLines(x, picks)
  OBVIOUS
<1>6. PICK m : m = [i \in 1..(n + 1) |-> SegmentLines(more[i], picks)]
  OBVIOUS
<1>7. s \in Seq(Lines) /\ Len(s) = n /\ sx \in Lines
  <2>1. \A i \in 1..n : SegmentLines(sg[i], picks) \in Lines
    BY <1>3, SegmentHasLines
  <2>2. sx \in Lines
    BY <1>5, SegmentHasLines
  <2> QED BY <1>4, <2>1, <2>2
<1>8. m = Append(s, sx)
  <2>1. PICK w : w = Append(s, sx)
    OBVIOUS
  <2>2. /\ w = [i \in 1..(n + 1) |-> w[i]] /\ w[n + 1] = sx
        /\ \A i \in 1..n : w[i] = s[i]
    <3>1. PICK q \in Seq(Lines), y \in Lines : q = s /\ y = sx
      BY <1>7
    <3>2. Len(q) = n /\ w = Append(q, y)
      BY <1>7, <2>1, <3>1
    <3>3. w \in Seq(Lines) /\ Len(w) = n + 1 /\ w[n + 1] = y /\ \A i \in 1..n : w[i] = q[i]
      BY <3>1, <3>2, <1>1
    <3> QED BY <3>1, <3>3
  <2>3. ASSUME NEW i \in 1..(n + 1) PROVE m[i] = w[i]
    <3>1. CASE i = n + 1
      BY <1>3, <1>5, <1>6, <2>2, <3>1
    <3>2. CASE i # n + 1
      <4>1. i \in 1..n
        BY <1>1, <3>2
      <4> QED BY <1>3, <1>4, <1>6, <2>2, <4>1
    <3> QED BY <3>1, <3>2
  <2>4. m = [i \in 1..(n + 1) |-> m[i]]
    BY <1>6
  <2> QED BY <2>1, <2>2, <2>3, <2>4
<1>9. FlattenSeq(Append(s, sx)) = FlattenSeq(s) \o sx /\ FlattenSeq(s) \in Lines
  BY <1>7, FlattenAppends DEF Lines
<1>10. ComposeMergeResult(sg, picks) = FlattenSeq(s)
  BY <1>3, <1>4 DEF ComposeMergeResult, SegmentLines
<1>11. ComposeMergeResult(more, picks) = FlattenSeq(m)
  BY <1>3, <1>6 DEF ComposeMergeResult, SegmentLines
<1> QED BY <1>2, <1>5, <1>8, <1>9, <1>10, <1>11

\* As many conflicts as were counted, with the indexes below the count.
Counted(sg, ct) ==
    /\ IsFiniteSet(Conflicts(sg)) /\ Cardinality(Conflicts(sg)) = ct
    /\ \A i \in Conflicts(sg) : sg[i].index \in 0..(ct - 1)
    /\ \A k \in 1..ct : \E i \in Conflicts(sg) : sg[i].index + 1 = k

LEMMA CommonIsCounted ==
    ASSUME NEW sg \in Seq(SegmentTypes), NEW ct \in Nat, Counted(sg, ct), NEW cm \in Lines
    PROVE  Common(cm) \in SegmentTypes /\ Counted(Append(sg, Common(cm)), ct)
<1>1. PICK x : x = Common(cm)
  OBVIOUS
<1>2. x \in SegmentTypes /\ x.kind = "common"
  BY <1>1 DEF Common, SegmentTypes, Lines
<1>3. PICK n \in Nat : n = Len(sg)
  OBVIOUS
<1>4. PICK m : m = Append(sg, x)
  OBVIOUS
<1>5. DOMAIN m = 1..(n + 1) /\ m[n + 1] = x /\ DOMAIN sg = 1..n /\ \A i \in 1..n : m[i] = sg[i]
  BY <1>2, <1>3, <1>4
<1>6. Conflicts(m) = Conflicts(sg) /\ \A i \in Conflicts(sg) : m[i] = sg[i]
  BY <1>2, <1>5 DEF Conflicts
<1>7. Counted(m, ct)
  BY <1>6 DEF Counted
<1> QED BY <1>1, <1>2, <1>4, <1>7

LEMMA ConflictIsCounted ==
    ASSUME NEW sg \in Seq(SegmentTypes), NEW ct \in Nat, Counted(sg, ct),
           NEW o \in Lines, NEW b \in Lines, NEW t \in Lines
    PROVE  /\ TheConflict(ct, o, b, t) \in SegmentTypes
           /\ Counted(Append(sg, TheConflict(ct, o, b, t)), ct + 1)
<1>1. PICK x : x = TheConflict(ct, o, b, t)
  OBVIOUS
<1>2. x \in SegmentTypes /\ x.kind = "conflict" /\ x.index = ct
  BY <1>1 DEF TheConflict, SegmentTypes, ConflictSegments, Lines
<1>3. PICK n \in Nat : n = Len(sg)
  OBVIOUS
<1>4. PICK m : m = Append(sg, x)
  OBVIOUS
<1>5. DOMAIN m = 1..(n + 1) /\ m[n + 1] = x /\ DOMAIN sg = 1..n /\ \A i \in 1..n : m[i] = sg[i]
  BY <1>2, <1>3, <1>4
<1>6. /\ Conflicts(m) = Conflicts(sg) \cup {n + 1} /\ n + 1 \notin Conflicts(sg)
      /\ \A i \in Conflicts(sg) : m[i] = sg[i]
  BY <1>2, <1>5 DEF Conflicts
<1>7. IsFiniteSet(Conflicts(m)) /\ Cardinality(Conflicts(m)) = ct + 1
  <2>1. IsFiniteSet(Conflicts(sg)) /\ Cardinality(Conflicts(sg)) = ct
    BY DEF Counted
  <2>2. PICK S, e : S = Conflicts(sg) /\ e = n + 1
    OBVIOUS
  <2>3. IsFiniteSet(S \cup {e}) /\ Cardinality(S \cup {e}) = Cardinality(S) + 1
    BY <1>6, <2>1, <2>2, FS_AddElement
  <2> QED BY <1>6, <2>1, <2>2, <2>3
<1>8. \A i \in Conflicts(m) : m[i].index \in 0..(ct + 1 - 1)
  <2>1. ASSUME NEW i \in Conflicts(m) PROVE m[i].index \in 0..ct
    <3>1. CASE i = n + 1
      BY <1>2, <1>5, <3>1
    <3>2. CASE i # n + 1
      <4>1. i \in Conflicts(sg) /\ m[i] = sg[i]
        BY <1>6, <3>2
      <4>2. sg[i].index \in 0..(ct - 1)
        BY <4>1 DEF Counted
      <4> QED BY <4>1, <4>2
    <3> QED BY <3>1, <3>2
  <2> QED BY <2>1
<1>9. ASSUME NEW k \in 1..(ct + 1) PROVE \E i \in Conflicts(m) : m[i].index + 1 = k
  <2>1. CASE k = ct + 1
    <3>1. n + 1 \in Conflicts(m) /\ m[n + 1].index + 1 = k
      BY <1>2, <1>5, <1>6, <2>1
    <3> QED BY <3>1
  <2>2. CASE k # ct + 1
    <3>1. k \in 1..ct
      BY <2>2
    <3>2. PICK i \in Conflicts(sg) : sg[i].index + 1 = k
      BY <3>1 DEF Counted
    <3>3. i \in Conflicts(m) /\ m[i].index + 1 = k
      BY <1>6, <3>2
    <3> QED BY <3>3
  <2> QED BY <2>1, <2>2
<1>10. Counted(m, ct + 1)
  BY <1>7, <1>8, <1>9 DEF Counted
<1> QED BY <1>1, <1>2, <1>4, <1>10

LEMMA FlushedIs ==
    ASSUME NEW sg \in Seq(SegmentTypes), NEW ct \in Nat, Counted(sg, ct), NEW cm \in Lines,
           NEW picks
    PROVE  /\ Flushed(sg, cm) \in Seq(SegmentTypes) /\ Counted(Flushed(sg, cm), ct)
           /\ ComposeMergeResult(Flushed(sg, cm), picks) = ComposeMergeResult(sg, picks) \o cm
<1>1. CASE cm = <<>>
  <2>1. Flushed(sg, cm) = sg
    BY <1>1 DEF Flushed
  <2>2. PICK out : out = ComposeMergeResult(sg, picks)
    OBVIOUS
  <2>3. out \in Lines
    <3>1. Common(cm) \in SegmentTypes
      BY CommonIsCounted
    <3>2. PICK x \in SegmentTypes : x = Common(cm)
      BY <3>1
    <3> QED BY <2>2, <3>2, ComposeAppends
  <2>4. out \o <<>> = out
    BY <2>3, ConcatEmptySeq DEF Lines
  <2> QED BY <1>1, <2>1, <2>2, <2>4
<1>2. CASE cm # <<>>
  <2>1. PICK x : x = Common(cm)
    OBVIOUS
  <2>2. Flushed(sg, cm) = Append(sg, x)
    BY <1>2, <2>1 DEF Flushed
  <2>3. x \in SegmentTypes /\ Counted(Append(sg, x), ct)
    BY <2>1, CommonIsCounted
  <2>4. SegmentLines(x, picks) = cm
    BY <2>1 DEF SegmentLines, Common
  <2>5. ComposeMergeResult(Append(sg, x), picks) = ComposeMergeResult(sg, picks) \o cm
    BY <2>3, <2>4, ComposeAppends
  <2>6. Append(sg, x) \in Seq(SegmentTypes)
    BY <2>3
  <2> QED BY <2>2, <2>3, <2>5, <2>6
<1> QED BY <1>1, <1>2

(* A document is read region by region. *)

Nth(regions, i) == Cardinality({j \in 1..i : regions[j].kind = "conflict"})

LEMMA NthIs ==
    ASSUME NEW regions, NEW i \in Nat
    PROVE  /\ Nth(regions, 0) = 0 /\ Nth(regions, i) \in Nat
           /\ i > 0 => Nth(regions, i) = Nth(regions, i - 1)
                          + (IF regions[i].kind = "conflict" THEN 1 ELSE 0)
<1> DEFINE S(k) == {j \in 1..k : regions[j].kind = "conflict"}
<1>1. ASSUME NEW k \in Nat PROVE IsFiniteSet(S(k)) /\ Cardinality(S(k)) \in Nat
  <2>1. IsFiniteSet(1..k)
    BY FS_Interval
  <2>2. S(k) \subseteq 1..k
    OBVIOUS
  <2> QED BY <2>1, <2>2, FS_Subset, FS_CardinalityType
<1>2. Nth(regions, 0) = 0
  <2>1. S(0) = {}
    OBVIOUS
  <2> QED BY <2>1, FS_EmptySet DEF Nth
<1>3. ASSUME i > 0
      PROVE  Nth(regions, i) = Nth(regions, i - 1)
                + (IF regions[i].kind = "conflict" THEN 1 ELSE 0)
  <2>1. i - 1 \in Nat
    BY <1>3
  <2>2. CASE regions[i].kind = "conflict"
    <3>1. S(i) = S(i - 1) \cup {i} /\ i \notin S(i - 1)
      BY <1>3, <2>2
    <3>2. IsFiniteSet(S(i - 1))
      BY <1>1, <2>1
    <3>3. Cardinality(S(i)) = Cardinality(S(i - 1)) + 1
      <4> HIDE DEF S
      <4> QED BY <3>1, <3>2, FS_AddElement
    <3> QED BY <2>2, <3>3 DEF Nth
  <2>3. CASE regions[i].kind # "conflict"
    <3>1. S(i) = S(i - 1)
      BY <1>3, <2>3
    <3>2. Cardinality(S(i - 1)) \in Nat
      BY <1>1, <2>1
    <3>3. /\ Nth(regions, i) = Cardinality(S(i))
          /\ Nth(regions, i - 1) = Cardinality(S(i - 1))
      BY DEF Nth
    <3> HIDE DEF S
    <3> QED BY <2>3, <3>1, <3>2, <3>3
  <2> QED BY <2>2, <2>3
<1> QED BY <1>1, <1>2, <1>3 DEF Nth

\* What a region leaves of its lines, when it is the k-th disputed one.
RegionLines(r, k, ours, theirs) ==
    IF r.kind = "common" THEN r.lines
    ELSE (IF k \in ours THEN r.ours ELSE <<>>) \o (IF k \in theirs THEN r.theirs ELSE <<>>)

PicksMatch(picks, k, ours, theirs) ==
    (picks[k].ours <=> k \in ours) /\ (picks[k].theirs <=> k \in theirs)

\* Between two regions: the conflicts so far and the lines they compose.
ReadTo(s, ct, picks, out) ==
    \E sg \in Seq(SegmentTypes), cm \in Lines : \E cu, sd :
        /\ s = Between(sg, cm, cu, sd, ct) /\ Counted(sg, ct)
        /\ ComposeMergeResult(sg, picks) \o cm = out

\* The lines of a disputed region, up to the last marker, stand at a place.
OpenAt(lines, f, place, r, core) ==
    /\ lines \in Lines /\ Reading(f, lines) /\ place \in Nat /\ r.kind # "common"
    /\ r.ours \in Sides /\ r.base \in Sides /\ r.theirs \in Sides
    /\ core \in Opened(r) /\ Stands(lines, place, core)

LEMMA LastIsRead ==
    ASSUME NEW lines, NEW f, NEW place, NEW r, NEW core, OpenAt(lines, f, place, r, core),
           NEW ct \in Nat, NEW picks, NEW out, ReadTo(f[place], ct, picks, out),
           NEW ours, NEW theirs, PicksMatch(picks, ct + 1, ours, theirs)
    PROVE  /\ ReadTo(CloseConflict(f[place + Len(core)]), ct + 1, picks,
                     out \o RegionLines(r, ct + 1, ours, theirs))
           /\ ReadLine(f[place + Len(core)], ">") = CloseConflict(f[place + Len(core)])
<1>0. /\ lines \in Lines /\ Reading(f, lines) /\ place \in Nat /\ r.kind # "common"
      /\ r.ours \in Sides /\ r.base \in Sides /\ r.theirs \in Sides
      /\ core \in Opened(r) /\ Stands(lines, place, core)
  BY DEF OpenAt
<1>1. PICK sg \in Seq(SegmentTypes), cm \in Lines : \E cu, sd :
         /\ f[place] = Between(sg, cm, cu, sd, ct) /\ Counted(sg, ct)
         /\ ComposeMergeResult(sg, picks) \o cm = out
  BY DEF ReadTo
<1>2. PICK cu, sd : f[place] = Between(sg, cm, cu, sd, ct)
  BY <1>1
<1>3. Counted(sg, ct) /\ ComposeMergeResult(sg, picks) \o cm = out
  BY <1>1
<1>4. PICK fl : fl = Flushed(sg, cm)
  OBVIOUS
<1>5. /\ fl \in Seq(SegmentTypes) /\ Counted(fl, ct)
      /\ ComposeMergeResult(fl, picks) = out
  BY <1>1, <1>3, <1>4, FlushedIs
<1>6. PICK b \in Sides : f[place + Len(core)] = Within(fl, r.ours, b, r.theirs, "theirs", ct)
  BY <1>0, <1>2, <1>4, ConflictIsRead
<1>7. PICK o \in Lines, sb \in Lines, t \in Lines : o = r.ours /\ sb = b /\ t = r.theirs
  BY <1>0, <1>6, SidesAreTexts DEF Lines
<1>8. PICK x : x = TheConflict(ct, o, sb, t)
  OBVIOUS
<1>9. x \in SegmentTypes /\ Counted(Append(fl, x), ct + 1)
  BY <1>5, <1>7, <1>8, ConflictIsCounted
<1>10. SegmentLines(x, picks) = RegionLines(r, ct + 1, ours, theirs)
  <2>1. x.kind = "conflict" /\ x.index = ct /\ x.ours = o /\ x.theirs = t
    BY <1>8 DEF TheConflict
  <2>2. Picked(x, picks) = picks[ct + 1]
    BY <2>1 DEF Picked
  <2>3. /\ (IF picks[ct + 1].ours THEN o ELSE <<>>) = (IF ct + 1 \in ours THEN o ELSE <<>>)
        /\ (IF picks[ct + 1].theirs THEN t ELSE <<>>) = (IF ct + 1 \in theirs THEN t ELSE <<>>)
    BY DEF PicksMatch
  <2> QED BY <1>0, <1>7, <2>1, <2>2, <2>3 DEF SegmentLines, ConflictLines, RegionLines
<1>11. PICK w : w = Append(fl, x)
  OBVIOUS
<1>12. /\ w \in Seq(SegmentTypes) /\ Counted(w, ct + 1)
       /\ ComposeMergeResult(w, picks) = out \o RegionLines(r, ct + 1, ours, theirs)
       /\ ComposeMergeResult(w, picks) \in Lines
  <2>1. w \in Seq(SegmentTypes)
    BY <1>5, <1>9, <1>11
  <2>2. ComposeMergeResult(w, picks) = out \o RegionLines(r, ct + 1, ours, theirs)
    BY <1>5, <1>9, <1>10, <1>11, ComposeAppends, ZenonT(60)
  <2>3. ComposeMergeResult(w, picks) \in Lines
    <3>1. PICK s \in Seq(SegmentTypes), y \in SegmentTypes : s = w /\ y = x
      BY <1>9, <2>1
    <3>2. ComposeMergeResult(s, picks) \in Lines
      BY ComposeAppends
    <3> QED BY <3>1, <3>2
  <2> QED BY <1>9, <1>11, <2>1, <2>2, <2>3
<1>13. PICK q : q = f[place + Len(core)]
  OBVIOUS
<1>14. q = Within(fl, o, sb, t, "theirs", ct)
  BY <1>6, <1>7, <1>13
<1>15. ReadLine(q, ">") = CloseConflict(q)
  BY <1>14 DEF ReadLine, Within
<1>16. \E cu2 : CloseConflict(q) = Between(w, <<>>, cu2, "theirs", ct + 1)
  <2>1. \E cu2 : ReadLine(Within(fl, o, sb, t, "theirs", ct), ">")
           = Between(Append(fl, TheConflict(ct, o, sb, t)), <<>>, cu2, "theirs", ct + 1)
    BY ClosingIsRead
  <2> QED BY <1>8, <1>11, <1>14, <1>15, <2>1
<1>17. <<>> \in Lines /\ ComposeMergeResult(w, picks) \o <<>> = ComposeMergeResult(w, picks)
  BY <1>12, ConcatEmptySeq DEF Lines
<1>18. ReadTo(CloseConflict(q), ct + 1, picks, out \o RegionLines(r, ct + 1, ours, theirs))
  BY <1>12, <1>16, <1>17 DEF ReadTo
<1> QED BY <1>13, <1>15, <1>18

LEMMA RegionIsRead ==
    ASSUME NEW lines \in Lines, NEW f, Reading(f, lines), NEW place \in Nat,
           NEW r \in Regions, NEW piece \in Written(r), Stands(lines, place, piece),
           NEW ct \in Nat, NEW picks, NEW out, ReadTo(f[place], ct, picks, out),
           NEW ours, NEW theirs,
           r.kind = "conflict" => PicksMatch(picks, ct + 1, ours, theirs)
    PROVE  ReadTo(f[place + Len(piece)], ct + (IF r.kind = "conflict" THEN 1 ELSE 0), picks,
                  out \o RegionLines(r, ct + (IF r.kind = "conflict" THEN 1 ELSE 0),
                                     ours, theirs))
<1>1. CASE r.kind = "common"
  <2>1. PICK run \in Lines : run = piece /\ run = r.lines
    BY <1>1, WrittenIs
  <2>2. Stands(lines, place, run) /\ \A j \in 1..Len(run) : run[j] # "<"
    BY <1>1, <2>1, WrittenIs
  <2>3. PICK sg \in Seq(SegmentTypes), cm \in Lines : \E cu, sd :
           /\ f[place] = Between(sg, cm, cu, sd, ct) /\ Counted(sg, ct)
           /\ ComposeMergeResult(sg, picks) \o cm = out
    BY DEF ReadTo
  <2>4. PICK cu, sd : f[place] = Between(sg, cm, cu, sd, ct)
    BY <2>3
  <2>5. f[place + Len(run)] = Between(sg, cm \o run, cu, sd, ct)
    <3>1. PICK before \in Lines : before = cm
      BY <2>3
    <3>2. f[place] = Between(sg, before, cu, sd, ct)
      BY <2>4, <3>1
    <3>3. f[place + Len(run)] = Between(sg, before \o run, cu, sd, ct)
      BY <2>1, <2>2, <3>1, <3>2, PlainRun
    <3> QED BY <3>1, <3>3
  <2>6. PICK c : c = ComposeMergeResult(sg, picks)
    OBVIOUS
  <2>7. c \in Lines
    <3>1. Common(cm) \in SegmentTypes
      BY <2>3, CommonIsCounted
    <3>2. PICK x \in SegmentTypes : x = Common(cm)
      BY <3>1
    <3> QED BY <2>3, <2>6, <3>2, ComposeAppends
  <2>8. (c \o cm) \o run = c \o (cm \o run) /\ cm \o run \in Lines
    <3>1. PICK a \in Seq(Texts), b \in Seq(Texts), e \in Seq(Texts) : a = c /\ b = cm /\ e = run
      BY <2>1, <2>3, <2>7 DEF Lines
    <3>2. (a \o b) \o e = a \o (b \o e)
      BY <3>1, ConcatAssociative, SMTT(40)
    <3>3. b \o e \in Seq(Texts)
      BY <3>1, ConcatProperties
    <3> QED BY <3>1, <3>2, <3>3 DEF Lines
  <2>9. Counted(sg, ct) /\ c \o cm = out
    BY <2>3, <2>6
  <2>10. RegionLines(r, ct, ours, theirs) = run
    BY <1>1, <2>1 DEF RegionLines
  <2>11. ReadTo(f[place + Len(run)], ct, picks, out \o run)
    <3>1. PICK cr \in Lines : cr = cm \o run
      BY <2>8
    <3>2. ComposeMergeResult(sg, picks) \o cr = out \o run
      BY <2>6, <2>8, <2>9, <3>1
    <3>3. f[place + Len(run)] = Between(sg, cr, cu, sd, ct)
      BY <2>5, <3>1
    <3> QED BY <2>3, <2>9, <3>1, <3>2, <3>3 DEF ReadTo
  <2>12. ct + (IF r.kind = "conflict" THEN 1 ELSE 0) = ct
    BY <1>1
  <2> QED BY <2>1, <2>10, <2>11, <2>12
<1>2. CASE r.kind # "common"
  <2>1. r.kind = "conflict" /\ r.ours \in Sides /\ r.base \in Sides /\ r.theirs \in Sides
    BY <1>2, WrittenIs
  <2>2. PICK core \in Opened(r) : core \in Lines /\ piece = core \o Closing
    BY <1>2, WrittenIs
  <2>3. Closing \in Lines /\ Len(Closing) = 1
    BY DEF Closing, Lines, Texts
  <2>4. Cut(lines, place, piece, core, Closing)
    BY <2>2, <2>3 DEF Cut, Joined
  <2>5. /\ Stands(lines, place, core) /\ Stands(lines, place + Len(core), Closing)
        /\ Len(piece) = Len(core) + 1
    <3>1. PICK last : last = Closing
      OBVIOUS
    <3>2. Cut(lines, place, piece, core, last)
      BY <2>4, <3>1
    <3>3. /\ Stands(lines, place, core) /\ Stands(lines, place + Len(core), last)
          /\ Len(piece) = Len(core) + Len(last)
      BY <3>2, CutStands
    <3> QED BY <2>3, <3>1, <3>3
  <2>6. /\ ReadTo(CloseConflict(f[place + Len(core)]), ct + 1, picks,
                  out \o RegionLines(r, ct + 1, ours, theirs))
        /\ ReadLine(f[place + Len(core)], ">") = CloseConflict(f[place + Len(core)])
    <3>1. OpenAt(lines, f, place, r, core)
      BY <1>2, <2>1, <2>2, <2>5 DEF OpenAt
    <3>2. PicksMatch(picks, ct + 1, ours, theirs)
      BY <2>1
    <3> QED BY <3>1, <3>2, LastIsRead
  <2>7. PICK p \in Nat : p = place + Len(core) /\ place + Len(piece) = p + 1
    <3>1. Len(core) \in Nat
      BY <2>2 DEF Lines
    <3> QED BY <2>5, <3>1
  <2>8. f[p + 1] = ReadLine(f[p], ">")
    <3>1. Lone(Closing, ">")
      BY DEF Lone, Closing
    <3>2. Stands(lines, p, Closing)
      BY <2>5, <2>7
    <3> QED BY <2>7, <3>1, <3>2, MarkerAt
  <2>9. ct + (IF r.kind = "conflict" THEN 1 ELSE 0) = ct + 1
    BY <2>1
  <2> QED BY <2>6, <2>7, <2>8, <2>9
<1> QED BY <1>1, <1>2

LEMMA ReadingEnds ==
    ASSUME NEW s, NEW ct \in Nat, NEW picks, NEW out, ReadTo(s, ct, picks, out)
    PROVE  /\ CloseConflict(s) = s
           /\ FlushCommon(s).segments \in Seq(SegmentTypes)
           /\ Counted(FlushCommon(s).segments, ct)
           /\ ComposeMergeResult(FlushCommon(s).segments, picks) = out
<1>1. PICK sg \in Seq(SegmentTypes), cm \in Lines : \E cu, sd :
         /\ s = Between(sg, cm, cu, sd, ct) /\ Counted(sg, ct)
         /\ ComposeMergeResult(sg, picks) \o cm = out
  BY DEF ReadTo
<1>2. PICK cu, sd : s = Between(sg, cm, cu, sd, ct)
  BY <1>1
<1>3. CloseConflict(s) = s
  BY <1>2 DEF CloseConflict, Between
<1>4. FlushCommon(s).segments = Flushed(sg, cm)
  BY <1>2 DEF FlushCommon, Between, Flushed
<1>5. /\ Flushed(sg, cm) \in Seq(SegmentTypes) /\ Counted(Flushed(sg, cm), ct)
      /\ ComposeMergeResult(Flushed(sg, cm), picks) = ComposeMergeResult(sg, picks) \o cm
  BY <1>1, FlushedIs
<1> QED BY <1>1, <1>3, <1>4, <1>5

ConflictsOf(regions) == Nth(regions, Len(regions))

\* The regions were written as these pieces.
WrittenAs(regions, pieces) ==
    /\ regions \in Seq(Regions) /\ pieces \in Seq(Lines) /\ Len(pieces) = Len(regions)
    /\ \A i \in 1..Len(regions) : pieces[i] \in Written(regions[i])

\* What is left of every region.
Left(regions, ours, theirs) ==
    [i \in DOMAIN regions |-> RegionLines(regions[i], Nth(regions, i), ours, theirs)]

LEMMA RegionHasLines ==
    ASSUME NEW r \in Regions, NEW k, NEW ours, NEW theirs
    PROVE  RegionLines(r, k, ours, theirs) \in Lines
<1>1. CASE r.kind = "common"
  <2>1. Written(r) = {r.lines}
    BY <1>1 DEF Written
  <2>2. PICK piece \in Written(r) : piece = r.lines
    BY <2>1
  <2>3. piece \in Lines
    BY <2>2, WrittenIs
  <2> QED BY <1>1, <2>2, <2>3 DEF RegionLines
<1>2. CASE r.kind # "common"
  <2>1. r.ours \in Sides /\ r.theirs \in Sides
    BY <1>2 DEF Regions, Sides
  <2>2. PICK a, b : /\ a = (IF k \in ours THEN r.ours ELSE <<>>)
                    /\ b = (IF k \in theirs THEN r.theirs ELSE <<>>)
    OBVIOUS
  <2>3. a \in Seq(Texts) /\ b \in Seq(Texts)
    <3>1. <<>> \in Seq(Texts)
      OBVIOUS
    <3>2. r.ours \in Seq(Texts) /\ r.theirs \in Seq(Texts)
      BY <2>1, SidesAreTexts
    <3> QED BY <2>2, <3>1, <3>2
  <2>4. a \o b \in Seq(Texts)
    BY <2>3, ConcatProperties
  <2> QED BY <1>2, <2>2, <2>4 DEF RegionLines, Lines
<1> QED BY <1>1, <1>2

LEMMA NothingIsRead ==
    ASSUME NEW picks
    PROVE  ReadTo(NothingRead, 0, picks, <<>>)
<1>1. NothingRead = Between(<<>>, <<>>, NewConflict(0), "ours", 0)
  BY DEF NothingRead, Between
<1>2. Counted(<<>>, 0)
  <2>1. Conflicts(<<>>) = {}
    BY DEF Conflicts
  <2>2. IsFiniteSet({}) /\ Cardinality({}) = 0
    BY FS_EmptySet
  <2>3. PICK e : e = <<>>
    OBVIOUS
  <2>4. Conflicts(e) = {} /\ IsFiniteSet(Conflicts(e)) /\ Cardinality(Conflicts(e)) = 0
    BY <2>1, <2>2, <2>3
  <2>5. \A k \in 1..0 : \E i \in Conflicts(e) : e[i].index + 1 = k
    OBVIOUS
  <2>6. Counted(e, 0)
    BY <2>4, <2>5 DEF Counted
  <2> QED BY <2>3, <2>6
<1>3. ComposeMergeResult(<<>>, picks) \o <<>> = <<>>
  <2>1. PICK m : m = [i \in DOMAIN <<>> |-> SegmentLines(<<>>[i], picks)]
    OBVIOUS
  <2>2. m = <<>>
    BY <2>1
  <2>3. FlattenSeq(m) = <<>>
    BY <2>2 DEF FlattenSeq
  <2>4. ComposeMergeResult(<<>>, picks) = FlattenSeq(m)
    BY <2>1 DEF ComposeMergeResult, SegmentLines
  <2> QED BY <2>3, <2>4
<1>4. <<>> \in Seq(SegmentTypes) /\ <<>> \in Lines
  BY DEF Lines
<1>5. PICK none : none = <<>>
  OBVIOUS
<1>6. PICK cu : cu = NewConflict(0)
  OBVIOUS
<1> QED BY <1>1, <1>2, <1>3, <1>4 DEF ReadTo

LEMMA RegionsAreRead ==
    ASSUME NEW lines \in Lines, NEW f, Reading(f, lines), NEW regions, NEW pieces,
           WrittenAs(regions, pieces), NEW h, JoinedSoFar(h, pieces), NEW picks, NEW ours,
           NEW theirs, \A k \in 1..ConflictsOf(regions) : PicksMatch(picks, k, ours, theirs),
           NEW g, JoinedSoFar(g, Left(regions, ours, theirs)),
           NEW top \in 0..Len(regions), Stands(lines, 0, h[top])
    PROVE  ReadTo(f[Len(h[top])], Nth(regions, top), picks, g[top])
<1>1. PICK n \in Nat : n = Len(regions) /\ n = Len(pieces) /\ DOMAIN regions = 1..n
  BY DEF WrittenAs
<1>2. /\ \A i \in 1..n : regions[i] \in Regions /\ pieces[i] \in Written(regions[i])
      /\ \A i \in 1..n : pieces[i] \in Lines
  BY <1>1 DEF WrittenAs
<1>3. \A i \in 0..n : h[i] \in Lines
  <2>1. pieces \in Seq(Seq(Texts))
    BY DEF WrittenAs, Lines
  <2> QED BY <1>1, <2>1, PrefixesAre DEF Lines
<1>4. h[0] = <<>> /\ \A i \in 1..n : h[i] = h[i - 1] \o pieces[i]
  BY <1>1 DEF JoinedSoFar
<1>5. /\ g[0] = <<>>
      /\ \A i \in 1..n :
            g[i] = g[i - 1] \o RegionLines(regions[i], Nth(regions, i), ours, theirs)
  <2>1. PICK left : left = Left(regions, ours, theirs)
    OBVIOUS
  <2>2. left = [i \in 1..n |-> RegionLines(regions[i], Nth(regions, i), ours, theirs)]
    BY <1>1, <2>1 DEF Left
  <2>3. Len(left) = n
    BY <2>2
  <2>4. JoinedSoFar(g, left)
    BY <2>1
  <2>5. g[0] = <<>> /\ \A i \in 1..n : g[i] = g[i - 1] \o left[i]
    BY <2>3, <2>4 DEF JoinedSoFar
  <2> QED BY <2>2, <2>5
<1> DEFINE Good(i) == Stands(lines, 0, h[i]) =>
                         ReadTo(f[Len(h[i])], Nth(regions, i), picks, g[i])
           Bad == {i \in 0..n : ~Good(i)}
<1>6. 0 \notin Bad
  <2>1. f[0] = NothingRead
    BY ReadingIs DEF Lines
  <2>2. Len(h[0]) = 0
    BY <1>4
  <2>3. Nth(regions, 0) = 0
    <3>1. PICK zero \in Nat : zero = 0
      OBVIOUS
    <3> QED BY <3>1, NthIs
  <2> QED BY <1>4, <1>5, <2>1, <2>2, <2>3, NothingIsRead
<1>7. ASSUME NEW i \in 1..n, Good(i - 1) PROVE Good(i)
  <2> SUFFICES ASSUME Stands(lines, 0, h[i])
               PROVE  ReadTo(f[Len(h[i])], Nth(regions, i), picks, g[i])
    OBVIOUS
  <2>1. PICK was \in Lines, piece \in Lines, now \in Lines :
           was = h[i - 1] /\ piece = pieces[i] /\ now = h[i]
    BY <1>2, <1>3
  <2>2. Cut(lines, 0, now, was, piece)
    BY <1>4, <2>1 DEF Cut, Joined
  <2>3. /\ Stands(lines, 0, was) /\ Stands(lines, 0 + Len(was), piece)
        /\ Len(now) = Len(was) + Len(piece)
    BY <2>2, CutStands
  <2>4. PICK place \in Nat : place = Len(was) /\ place = 0 + Len(was)
    BY <2>1 DEF Lines
  <2>5. PICK ct \in Nat : ct = Nth(regions, i - 1)
    <3>1. PICK k \in Nat : k = i - 1
      OBVIOUS
    <3> QED BY <3>1, NthIs
  <2>6. ReadTo(f[place], ct, picks, g[i - 1])
    BY <1>7, <2>1, <2>3, <2>4, <2>5
  <2>7. PICK r \in Regions : r = regions[i] /\ piece \in Written(r)
    BY <1>2, <2>1
  <2>8. Nth(regions, i) = ct + (IF r.kind = "conflict" THEN 1 ELSE 0)
    BY <2>5, <2>7, NthIs
  <2>9. ASSUME r.kind = "conflict" PROVE PicksMatch(picks, ct + 1, ours, theirs)
    <3>1. ct + 1 = Nth(regions, i)
      BY <2>8, <2>9
    <3>2. Nth(regions, i) <= ConflictsOf(regions) /\ ConflictsOf(regions) \in Nat
      <4>1. /\ IsFiniteSet({j \in 1..n : regions[j].kind = "conflict"})
            /\ {j \in 1..i : regions[j].kind = "conflict"}
                  \subseteq {j \in 1..n : regions[j].kind = "conflict"}
        <5>1. IsFiniteSet(1..n)
          BY FS_Interval
        <5>2. {j \in 1..n : regions[j].kind = "conflict"} \subseteq 1..n
          OBVIOUS
        <5> QED BY <5>1, <5>2, FS_Subset
      <4>2. Nth(regions, i) <= Nth(regions, n)
        BY <4>1, FS_Subset DEF Nth
      <4>3. Nth(regions, n) \in Nat
        BY NthIs
      <4> QED BY <1>1, <4>2, <4>3 DEF ConflictsOf
    <3>3. ct + 1 \in 1..ConflictsOf(regions)
      BY <2>5, <3>1, <3>2
    <3> QED BY <3>3
  <2>10. PICK k \in Nat : k = ct + (IF r.kind = "conflict" THEN 1 ELSE 0)
    BY <2>5
  <2>11. ReadTo(f[place + Len(piece)], k, picks, g[i - 1] \o RegionLines(r, k, ours, theirs))
    <3>1. PICK out : out = g[i - 1]
      OBVIOUS
    <3>2. ReadTo(f[place], ct, picks, out) /\ Stands(lines, place, piece)
      BY <2>3, <2>4, <2>6, <3>1
    <3>3. PICK q \in Written(r) : q = piece
      BY <2>7
    <3>4. ReadTo(f[place + Len(q)], ct + (IF r.kind = "conflict" THEN 1 ELSE 0), picks,
                 out \o RegionLines(r, ct + (IF r.kind = "conflict" THEN 1 ELSE 0),
                                    ours, theirs))
      BY <2>4, <2>5, <2>7, <2>9, <3>2, <3>3, RegionIsRead, ZenonT(60)
    <3> QED BY <2>10, <3>1, <3>3, <3>4
  <2>12. place + Len(piece) = Len(now)
    BY <2>3, <2>4
  <2>13. g[i] = g[i - 1] \o RegionLines(r, k, ours, theirs)
    BY <1>5, <2>7, <2>8, <2>10
  <2> QED BY <2>1, <2>8, <2>10, <2>11, <2>12, <2>13
<1>8. Bad = {}
  <2>1. Bad \subseteq 0..n
    OBVIOUS
  <2>2. \A i \in 1..n : i - 1 \notin Bad => i \notin Bad
    <3>1. ASSUME NEW i \in 1..n, i - 1 \notin Bad PROVE i \notin Bad
      <4>1. i - 1 \in 0..n
        OBVIOUS
      <4>2. Good(i - 1)
        BY <3>1, <4>1
      <4>3. Good(i)
        <5> HIDE DEF Good
        <5> QED BY <1>7, <4>2
      <4> QED BY <4>3
    <3> QED BY <3>1
  <2> HIDE DEF Bad
  <2> QED BY <1>1, <1>6, <2>1, <2>2, NoneFails
<1>9. Good(top)
  <2>1. top \in 0..n
    BY <1>1
  <2> QED BY <1>8, <2>1
<1> QED BY <1>9

LEMMA ClosingIs == Closing \in Seq(Texts) /\ Closing \in Lines /\ Len(Closing) = 1
<1>1. Closing \in Lines /\ Len(Closing) = 1
  BY DEF Closing, Lines, Texts
<1> QED BY <1>1 DEF Lines

LEMMA FrontIs ==
    ASSUME NEW a \in Lines
    PROVE  Front(a \o Closing) = a
<1>1. PICK s \in Seq(Texts), n \in Nat : s = a /\ n = Len(s)
  BY DEF Lines
<1>2. PICK c \in Seq(Texts) : c = Closing /\ Len(c) = 1
  BY ClosingIs
<1>3. PICK w : w = s \o c
  OBVIOUS
<1>4. w \in Seq(Texts) /\ Len(w) = n + 1 /\ \A i \in 1..n : w[i] = s[i]
  <2>1. /\ w \in Seq(Texts) /\ Len(w) = Len(s) + Len(c)
        /\ \A i \in 1 .. Len(s) + Len(c) : w[i] = IF i <= Len(s) THEN s[i] ELSE c[i - Len(s)]
    BY <1>1, <1>2, <1>3, ConcatProperties
  <2>2. ASSUME NEW i \in 1..n PROVE w[i] = s[i]
    BY <1>1, <1>2, <2>1
  <2> QED BY <1>1, <1>2, <2>1, <2>2
<1>5. PICK q : q = SubSeq(w, 1, n)
  OBVIOUS
<1>6. q \in Seq(Texts) /\ Len(q) = n /\ \A i \in 1..n : q[i] = w[i]
  <2>1. \A i \in 1..n : w[i] \in Texts
    BY <1>1, <1>4
  <2> QED BY <1>1, <1>4, <1>5, <2>1, SubSeqProperties
<1>7. q = s
  BY <1>1, <1>4, <1>6
<1>8. Front(w) = q
  BY <1>1, <1>4, <1>5 DEF Front
<1> QED BY <1>1, <1>2, <1>3, <1>7, <1>8

Torn(regions) == Len(regions) > 0 /\ regions[Len(regions)].kind = "conflict"

LEMMA PiecesAre ==
    ASSUME NEW d, WrittenByGit(d)
    PROVE  \E pieces : /\ WrittenAs(d.regions, pieces)
                       /\ \/ d.result = FlattenSeq(pieces)
                          \/ Torn(d.regions) /\ d.result = Front(FlattenSeq(pieces))
<1>1. d.regions \in Seq(Regions)
  BY DEF WrittenByGit
<1>2. PICK n \in Nat : n = Len(d.regions)
  BY <1>1
<1>3. CASE d.kind # "text"
  <2>1. d.regions = <<>> /\ d.result = <<>>
    BY <1>3 DEF WrittenByGit
  <2>2. PICK none : none = <<>>
    OBVIOUS
  <2>3. none \in Seq(Lines) /\ none \in Seq(Regions) /\ Len(none) = 0 /\ FlattenSeq(none) = <<>>
    BY <2>2 DEF FlattenSeq
  <2>4. d.regions = none /\ d.result = FlattenSeq(none)
    BY <2>1, <2>2, <2>3
  <2>5. WrittenAs(d.regions, none)
    BY <2>3, <2>4 DEF WrittenAs
  <2> QED BY <2>4, <2>5
<1>4. CASE d.kind = "text"
  <2>1. PICK pieces \in [1..n -> UNION {Written(d.regions[i]) : i \in 1..n}] :
           /\ \A i \in 1..n : pieces[i] \in Written(d.regions[i])
           /\ \/ d.result = FlattenSeq(pieces)
              \/ /\ n > 0 /\ d.regions[n].kind = "conflict"
                 /\ d.result = Front(FlattenSeq(pieces))
    BY <1>2, <1>4 DEF WrittenByGit
  <2>2. ASSUME NEW i \in 1..n PROVE pieces[i] \in Lines
    <3>1. PICK r \in Regions : r = d.regions[i]
      BY <1>1, <1>2
    <3>2. PICK piece \in Written(r) : piece = pieces[i]
      BY <2>1, <3>1
    <3> QED BY <3>2, WrittenIs
  <2>3. pieces \in Seq(Lines) /\ Len(pieces) = n
    BY <1>2, <2>1, <2>2
  <2>4. WrittenAs(d.regions, pieces)
    BY <1>1, <1>2, <2>1, <2>3 DEF WrittenAs
  <2>5. n > 0 /\ d.regions[n].kind = "conflict" => Torn(d.regions)
    BY <1>2 DEF Torn
  <2> QED BY <2>1, <2>4, <2>5
<1> QED BY <1>3, <1>4

\* What the reader makes of a document, and what its picks compose.
ReadWell(segments, ct, picks, out) ==
    /\ segments \in Seq(SegmentTypes) /\ Counted(segments, ct)
    /\ ComposeMergeResult(segments, picks) = out

LEMMA DocumentIsRead ==
    ASSUME NEW d, WrittenByGit(d), NEW picks, NEW ours, NEW theirs,
           \A k \in 1..ConflictsOf(d.regions) : PicksMatch(picks, k, ours, theirs)
    PROVE  /\ d.result \in Lines
           /\ ReadWell(Segments(d.result), ConflictsOf(d.regions), picks,
                       Resolution(d, ours, theirs))
<1>1. PICK regions, lines : regions = d.regions /\ lines = d.result
  OBVIOUS
<1>2. PICK pieces : /\ WrittenAs(regions, pieces)
                    /\ \/ lines = FlattenSeq(pieces)
                       \/ Torn(regions) /\ lines = Front(FlattenSeq(pieces))
  BY <1>1, PiecesAre
<1>3. /\ regions \in Seq(Regions) /\ pieces \in Seq(Lines) /\ Len(pieces) = Len(regions)
      /\ \A i \in 1..Len(regions) : pieces[i] \in Written(regions[i])
  BY <1>2 DEF WrittenAs
<1>4. PICK n \in Nat : n = Len(regions) /\ n = Len(pieces) /\ DOMAIN regions = 1..n
  BY <1>3
<1>5. PICK h : JoinedSoFar(h, pieces) /\ FlattenSeq(pieces) = h[n]
  BY <1>3, <1>4, FlattenIs DEF Lines
<1>6. \A i \in 0..n : h[i] \in Lines
  BY <1>3, <1>4, <1>5, PrefixesAre DEF Lines
<1>7. \A i \in 1..n : RegionLines(regions[i], Nth(regions, i), ours, theirs) \in Lines
  BY <1>3, <1>4, RegionHasLines
<1>8. PICK left : left = Left(regions, ours, theirs)
  OBVIOUS
<1>9. /\ left \in Seq(Lines) /\ Len(left) = n
      /\ left = [i \in 1..n |-> RegionLines(regions[i], Nth(regions, i), ours, theirs)]
  BY <1>4, <1>7, <1>8 DEF Left
<1>10. PICK g : JoinedSoFar(g, left) /\ FlattenSeq(left) = g[n]
  BY <1>9, FlattenIs DEF Lines
<1>11. Resolution(d, ours, theirs) = g[n]
  BY <1>1, <1>8, <1>10 DEF Resolution, Left, RegionLines, Nth
<1>12. \A k \in 1..ConflictsOf(regions) : PicksMatch(picks, k, ours, theirs)
  BY <1>1
<1>13. ConflictsOf(regions) = Nth(regions, n) /\ Nth(regions, n) \in Nat
  BY <1>4, NthIs DEF ConflictsOf
<1>14. CASE lines = FlattenSeq(pieces)
  <2>1. PICK text \in Lines : text = lines /\ text = h[n]
    BY <1>4, <1>5, <1>6, <1>14
  <2>2. PICK f : /\ Reading(f, text)
                 /\ Segments(text) = FlushCommon(CloseConflict(f[Len(text)])).segments
    BY SegmentsAre DEF Lines
  <2>3. Stands(text, 0, h[n])
    <3>1. PICK size \in Nat : size = Len(text)
      BY DEF Lines
    <3> QED BY <2>1, <3>1 DEF Stands
  <2>4. PICK top \in 0..Len(regions) : top = n
    BY <1>4
  <2>5. JoinedSoFar(g, Left(regions, ours, theirs))
    BY <1>8, <1>10
  <2>6. ReadTo(f[Len(h[top])], Nth(regions, top), picks, g[top])
    BY <1>2, <1>5, <1>12, <2>1, <2>2, <2>3, <2>4, <2>5, RegionsAreRead
  <2>7. PICK s : s = f[Len(text)]
    OBVIOUS
  <2>8. PICK ct \in Nat : ct = Nth(regions, n)
    BY <1>13
  <2>9. ReadTo(s, ct, picks, g[n])
    BY <2>1, <2>4, <2>6, <2>7, <2>8
  <2>10. /\ CloseConflict(s) = s /\ FlushCommon(s).segments \in Seq(SegmentTypes)
         /\ Counted(FlushCommon(s).segments, ct)
         /\ ComposeMergeResult(FlushCommon(s).segments, picks) = g[n]
    BY <2>9, ReadingEnds
  <2>11. Segments(text) = FlushCommon(s).segments
    BY <2>2, <2>7, <2>10
  <2> QED BY <1>1, <1>11, <1>13, <2>1, <2>8, <2>10, <2>11 DEF ReadWell
<1>15. CASE Torn(regions) /\ lines = Front(FlattenSeq(pieces))
  <2>1. n > 0 /\ regions[n].kind = "conflict"
    BY <1>4, <1>15 DEF Torn
  <2>2. PICK r \in Regions : r = regions[n] /\ r.kind = "conflict"
    BY <1>3, <1>4, <2>1
  <2>3. PICK piece \in Written(r) : piece = pieces[n]
    BY <1>3, <1>4, <2>1, <2>2
  <2>4. r.ours \in Sides /\ r.base \in Sides /\ r.theirs \in Sides /\ r.kind # "common"
    BY <2>2, <2>3, WrittenIs
  <2>5. PICK core \in Opened(r) : core \in Lines /\ piece = core \o Closing
    BY <2>2, <2>3, WrittenIs
  <2>6. PICK m \in 0..n : m = n - 1
    BY <2>1
  <2>7. PICK was \in Lines : was = h[m]
    BY <1>6, <2>6
  <2>8. h[n] = was \o piece
    <3>1. PICK k \in 1..n : k = n /\ k - 1 = m
      BY <2>1, <2>6
    <3>2. h[k] = h[k - 1] \o pieces[k]
      BY <1>4, <1>5 DEF JoinedSoFar
    <3> QED BY <2>3, <2>7, <3>1, <3>2
  <2>9. PICK text : text = was \o core
    OBVIOUS
  <2>10. text \in Lines /\ h[n] = text \o Closing
    <3>1. PICK a \in Seq(Texts), b \in Seq(Texts), e \in Seq(Texts) :
             a = was /\ b = core /\ e = Closing
      BY <2>5, <2>7, ClosingIs DEF Lines
    <3>2. (a \o b) \o e = a \o (b \o e)
      BY <3>1, ConcatAssociative, SMTT(40)
    <3>3. a \o b \in Seq(Texts)
      BY <3>1, ConcatProperties
    <3> QED BY <2>5, <2>8, <2>9, <3>1, <3>2, <3>3 DEF Lines
  <2>11. lines = text
    BY <1>5, <1>15, <2>10, FrontIs
  <2>12. PICK f : /\ Reading(f, text)
                  /\ Segments(text) = FlushCommon(CloseConflict(f[Len(text)])).segments
    BY <2>10, SegmentsAre DEF Lines
  <2>13. Cut(text, 0, text, was, core)
    <3>1. Stands(text, 0, text)
      <4>1. PICK size \in Nat : size = Len(text)
        BY <2>10 DEF Lines
      <4> QED BY <4>1 DEF Stands
    <3> QED BY <2>5, <2>7, <2>9, <2>10, <3>1 DEF Cut, Joined
  <2>14. /\ Stands(text, 0, was) /\ Stands(text, 0 + Len(was), core)
         /\ Len(text) = Len(was) + Len(core)
    BY <2>13, CutStands
  <2>15. PICK place \in Nat : place = Len(was) /\ place = 0 + Len(was)
    BY <2>7 DEF Lines
  <2>16. PICK top \in 0..Len(regions) : top = m
    BY <1>4, <2>6
  <2>17. JoinedSoFar(g, Left(regions, ours, theirs))
    BY <1>8, <1>10
  <2>18. ReadTo(f[Len(h[top])], Nth(regions, top), picks, g[top])
    <3>1. PICK tx \in Lines : tx = text
      BY <2>10
    <3>2. Reading(f, tx) /\ Stands(tx, 0, h[top])
      BY <2>7, <2>12, <2>14, <2>16, <3>1
    <3> QED BY <1>2, <1>5, <1>12, <2>16, <2>17, <3>1, <3>2, RegionsAreRead
  <2>19. PICK ct \in Nat : ct = Nth(regions, m) /\ Nth(regions, n) = ct + 1
    <3>1. PICK k \in Nat : k = m
      BY <2>6
    <3>2. Nth(regions, k) \in Nat
      BY NthIs
    <3>3. Nth(regions, n) = Nth(regions, n - 1) + 1
      BY <2>1, NthIs
    <3> QED BY <2>6, <3>1, <3>2, <3>3
  <2>20. PICK out : out = g[m]
    OBVIOUS
  <2>21. ReadTo(f[place], ct, picks, out)
    BY <2>7, <2>15, <2>16, <2>18, <2>19, <2>20
  <2>22. OpenAt(text, f, place, r, core)
    BY <2>4, <2>5, <2>10, <2>12, <2>14, <2>15 DEF OpenAt
  <2>23. PicksMatch(picks, ct + 1, ours, theirs)
    <3>1. ct + 1 \in 1..ConflictsOf(regions)
      BY <1>13, <2>19
    <3> QED BY <1>12, <3>1
  <2>24. ReadTo(CloseConflict(f[place + Len(core)]), ct + 1, picks,
                out \o RegionLines(r, ct + 1, ours, theirs))
    BY <2>19, <2>21, <2>22, <2>23, LastIsRead
  <2>25. g[n] = out \o RegionLines(r, ct + 1, ours, theirs)
    <3>1. PICK i \in 1..n : i = n /\ i - 1 = m
      BY <2>1, <2>6
    <3>2. g[i] = g[i - 1] \o left[i]
      BY <1>9, <1>10 DEF JoinedSoFar
    <3>3. left[i] = RegionLines(regions[i], Nth(regions, i), ours, theirs)
      BY <1>9
    <3> QED BY <2>2, <2>19, <2>20, <3>1, <3>2, <3>3
  <2>26. PICK s : s = CloseConflict(f[Len(text)])
    OBVIOUS
  <2>27. PICK k \in Nat : k = ct + 1
    BY <2>19
  <2>28. ReadTo(s, k, picks, g[n])
    <3>1. place + Len(core) = Len(text)
      BY <2>14, <2>15
    <3> QED BY <2>24, <2>25, <2>26, <2>27, <3>1
  <2>29. /\ FlushCommon(s).segments \in Seq(SegmentTypes)
         /\ Counted(FlushCommon(s).segments, k)
         /\ ComposeMergeResult(FlushCommon(s).segments, picks) = g[n]
    BY <2>27, <2>28, ReadingEnds
  <2>30. Segments(text) = FlushCommon(s).segments
    BY <2>12, <2>26
  <2> QED BY <1>1, <1>11, <1>13, <2>10, <2>11, <2>19, <2>27, <2>29, <2>30 DEF ReadWell
<1> QED BY <1>2, <1>14, <1>15

(* The rows of the Output pane. *)

PaneRows == [text : Texts, side : {"both", "ours", "theirs"}]
RowsOf(lines, side) == [j \in DOMAIN lines |-> [text |-> lines[j], side |-> side]]

\* The rows of a segment that is decided.
SegmentRows(x, picks) ==
    IF x.kind = "common" THEN RowsOf(x.lines, "both")
    ELSE (IF Picked(x, picks).ours THEN RowsOf(x.ours, "ours") ELSE <<>>)
         \o (IF Picked(x, picks).theirs THEN RowsOf(x.theirs, "theirs") ELSE <<>>)

LEMMA RowsHaveTexts ==
    ASSUME NEW lines \in Lines, NEW side \in {"both", "ours", "theirs"}
    PROVE  RowsOf(lines, side) \in Seq(PaneRows) /\ TextsOf(RowsOf(lines, side)) = lines
<1>1. PICK n \in Nat : n = Len(lines) /\ DOMAIN lines = 1..n
  BY DEF Lines
<1>2. lines = [j \in 1..n |-> lines[j]] /\ \A j \in 1..n : lines[j] \in Texts
  BY <1>1 DEF Lines
<1>3. PICK rows : rows = [j \in 1..n |-> [text |-> lines[j], side |-> side]]
  OBVIOUS
<1>4. \A j \in 1..n : rows[j] \in PaneRows /\ rows[j].text = lines[j]
  BY <1>2, <1>3 DEF PaneRows
<1>5. rows \in Seq(PaneRows) /\ DOMAIN rows = 1..n
  BY <1>1, <1>3, <1>4
<1>6. [j \in DOMAIN rows |-> rows[j].text] = [j \in 1..n |-> lines[j]]
  BY <1>4, <1>5
<1>7. rows = RowsOf(lines, side)
  BY <1>1, <1>3 DEF RowsOf
<1> QED BY <1>2, <1>5, <1>6, <1>7 DEF TextsOf

LEMMA SegmentIsShown ==
    ASSUME NEW x \in SegmentTypes, NEW picks
    PROVE  /\ SegmentRows(x, picks) \in Seq(PaneRows)
           /\ TextsOf(SegmentRows(x, picks)) = SegmentLines(x, picks)
<1>1. CASE x.kind = "common"
  <2>1. x.lines \in Lines
    BY <1>1 DEF SegmentTypes, ConflictSegments, Lines
  <2> QED BY <1>1, <2>1, RowsHaveTexts DEF SegmentRows, SegmentLines
<1>2. CASE x.kind # "common"
  <2>1. x.ours \in Lines /\ x.theirs \in Lines /\ <<>> \in Lines
    BY <1>2 DEF SegmentTypes, ConflictSegments, Lines
  <2>2. PICK a, b : /\ a = (IF Picked(x, picks).ours THEN x.ours ELSE <<>>)
                    /\ b = (IF Picked(x, picks).theirs THEN x.theirs ELSE <<>>)
    OBVIOUS
  <2>3. PICK ra, rb : /\ ra = (IF Picked(x, picks).ours THEN RowsOf(x.ours, "ours") ELSE <<>>)
                      /\ rb = (IF Picked(x, picks).theirs THEN RowsOf(x.theirs, "theirs")
                               ELSE <<>>)
    OBVIOUS
  <2>4. <<>> \in Seq(PaneRows) /\ TextsOf(<<>>) = <<>>
    BY DEF TextsOf
  <2>5. ra \in Seq(PaneRows) /\ TextsOf(ra) = a
    <3>1. RowsOf(x.ours, "ours") \in Seq(PaneRows) /\ TextsOf(RowsOf(x.ours, "ours")) = x.ours
      BY <2>1, RowsHaveTexts
    <3> QED BY <2>2, <2>3, <2>4, <3>1
  <2>6. rb \in Seq(PaneRows) /\ TextsOf(rb) = b
    <3>1. /\ RowsOf(x.theirs, "theirs") \in Seq(PaneRows)
          /\ TextsOf(RowsOf(x.theirs, "theirs")) = x.theirs
      BY <2>1, RowsHaveTexts
    <3> QED BY <2>2, <2>3, <2>4, <3>1
  <2>7. ra \o rb \in Seq(PaneRows) /\ TextsOf(ra \o rb) = a \o b
    <3>1. PICK p \in Seq(PaneRows), q \in Seq(PaneRows) : p = ra /\ q = rb
      BY <2>5, <2>6
    <3>2. p \o q \in Seq(PaneRows)
      BY ConcatProperties
    <3>3. TextsOf(p \o q) = TextsOf(p) \o TextsOf(q)
      BY TextsJoin
    <3> QED BY <2>5, <2>6, <3>1, <3>2, <3>3
  <2>8. SegmentRows(x, picks) = ra \o rb /\ SegmentLines(x, picks) = a \o b
    BY <1>2, <2>2, <2>3 DEF SegmentRows, SegmentLines, ConflictLines
  <2> QED BY <2>7, <2>8
<1> QED BY <1>1, <1>2

LEMMA RowsAreComposed ==
    ASSUME NEW sg \in Seq(SegmentTypes), NEW picks, NEW preview,
           UnresolvedConflicts(sg, picks) = {}
    PROVE  TextsOf(OutputRows(sg, picks, preview)) = ComposeMergeResult(sg, picks)
<1>1. PICK n \in Nat : n = Len(sg) /\ DOMAIN sg = 1..n
  OBVIOUS
<1>2. \A i \in 1..n : sg[i] \in SegmentTypes
  BY <1>1
<1>3. PICK rows : rows = [i \in 1..n |-> SegmentRows(sg[i], picks)]
  OBVIOUS
<1>4. PICK lines : lines = [i \in 1..n |-> SegmentLines(sg[i], picks)]
  OBVIOUS
<1>5. rows \in Seq(Seq(PaneRows)) /\ Len(rows) = n
  <2>1. \A i \in 1..n : SegmentRows(sg[i], picks) \in Seq(PaneRows)
    BY <1>2, SegmentIsShown
  <2> QED BY <1>1, <1>3, <2>1
<1>6. lines \in Seq(Seq(Texts)) /\ Len(lines) = n
  <2>1. \A i \in 1..n : SegmentLines(sg[i], picks) \in Seq(Texts)
    BY <1>2, SegmentHasLines DEF Lines
  <2> QED BY <1>1, <1>4, <2>1
<1>7. \A i \in 1..n : lines[i] = TextsOf(rows[i])
  BY <1>2, <1>3, <1>4, SegmentIsShown
<1>8. FlattenSeq(lines) = TextsOf(FlattenSeq(rows))
  <2>1. \A r \in PaneRows : r.text \in Texts
    BY DEF PaneRows
  <2>2. Len(lines) = Len(rows) /\ \A i \in 1..Len(rows) : lines[i] = TextsOf(rows[i])
    BY <1>5, <1>6, <1>7
  <2> QED BY <1>5, <1>6, <2>1, <2>2, FlattenTexts, ZenonT(60)
<1>9. ComposeMergeResult(sg, picks) = FlattenSeq(lines)
  BY <1>1, <1>4 DEF ComposeMergeResult, SegmentLines
<1>10. \A i \in 1..n : sg[i].kind # "common" => Picked(sg[i], picks) # NoPick
  <2>1. \A i \in 1..n : sg[i].kind # "common" => sg[i].kind = "conflict"
    BY <1>2 DEF SegmentTypes, ConflictSegments
  <2> QED BY <1>1, <2>1 DEF UnresolvedConflicts, Conflicts
<1>11. OutputRows(sg, picks, preview) = FlattenSeq(rows)
  <2>1. PICK out : out = [i \in DOMAIN sg |->
        LET s == sg[i]
            rs(ls, side) == [j \in DOMAIN ls |-> [text |-> ls[j], side |-> side]]
            slice == preview[s.index + 1]
        IN  IF s.kind = "common" THEN rs(s.lines, "both")
            ELSE IF Picked(s, picks) = NoPick
                 THEN rs(IF slice = <<>> THEN <<"">> ELSE slice, "unresolved")
            ELSE (IF Picked(s, picks).ours THEN rs(s.ours, "ours") ELSE <<>>)
                 \o (IF Picked(s, picks).theirs THEN rs(s.theirs, "theirs") ELSE <<>>)]
    OBVIOUS
  <2>2. OutputRows(sg, picks, preview) = FlattenSeq(out)
    BY <2>1 DEF OutputRows
  <2>3. ASSUME NEW i \in 1..n PROVE out[i] = rows[i]
    <3>1. rows[i] = SegmentRows(sg[i], picks)
      BY <1>3
    <3>2. CASE sg[i].kind = "common"
      BY <1>1, <2>1, <3>1, <3>2 DEF SegmentRows, RowsOf
    <3>3. CASE sg[i].kind # "common"
      <4>1. Picked(sg[i], picks) # NoPick
        BY <1>10, <3>3
      <4> QED BY <1>1, <2>1, <3>1, <3>3, <4>1 DEF SegmentRows, RowsOf
    <3> QED BY <3>2, <3>3
  <2>4. out = [i \in 1..n |-> out[i]] /\ rows = [i \in 1..n |-> rows[i]]
    BY <1>1, <1>3, <2>1
  <2> QED BY <2>2, <2>3, <2>4
<1> QED BY <1>8, <1>9, <1>11

(* The editor. *)

Documents == MergeDocuments \cup {NoDocument}
Picks == [ours : BOOLEAN, theirs : BOOLEAN]
CountOf(d) == ConflictsOf(d.regions)

LEMMA DocumentsAreWritten ==
    ASSUME NEW d \in Documents
    PROVE  WrittenByGit(d) /\ CountOf(d) \in Nat /\ (d.kind # "text" => CountOf(d) = 0)
<1>1. WrittenByGit(d)
  <2>1. CASE d = NoDocument
    <3>1. PICK none : none = <<>>
      OBVIOUS
    <3>2. none \in Seq(Regions)
      BY <3>1
    <3>3. d.kind = "missing" /\ d.result = <<>> /\ d.regions = none
      BY <2>1, <3>1 DEF NoDocument
    <3> QED BY <3>1, <3>2, <3>3 DEF WrittenByGit
  <2>2. CASE d \in MergeDocuments
    BY <2>2, MergeAssumption
  <2> QED BY <2>1, <2>2 DEF Documents
<1>2. PICK n \in Nat : n = Len(d.regions)
  BY <1>1 DEF WrittenByGit
<1>3. CountOf(d) \in Nat
  BY <1>2, NthIs DEF CountOf, ConflictsOf
<1>4. ASSUME d.kind # "text" PROVE CountOf(d) = 0
  <2>1. d.regions = <<>>
    BY <1>1, <1>4 DEF WrittenByGit
  <2>2. PICK zero \in Nat : zero = 0
    OBVIOUS
  <2>3. Nth(d.regions, zero) = 0
    BY <2>2, NthIs
  <2> QED BY <2>1, <2>2, <2>3 DEF CountOf, ConflictsOf
<1> QED BY <1>1, <1>3, <1>4

LEMMA ConflictsAreCounted ==
    ASSUME NEW d \in Documents
    PROVE  /\ Segments(d.result) \in Seq(SegmentTypes)
           /\ Counted(Segments(d.result), CountOf(d))
           /\ Cardinality(Conflicts(Segments(d.result))) = CountOf(d)
<1>1. WrittenByGit(d) /\ CountOf(d) \in Nat
  BY DocumentsAreWritten
<1>2. PICK picks : picks = [k \in 1..CountOf(d) |-> NoPick]
  OBVIOUS
<1>3. \A k \in 1..ConflictsOf(d.regions) : PicksMatch(picks, k, {}, {})
  BY <1>2 DEF PicksMatch, NoPick, CountOf
<1>4. ReadWell(Segments(d.result), ConflictsOf(d.regions), picks, Resolution(d, {}, {}))
  BY <1>1, <1>3, DocumentIsRead
<1> QED BY <1>4 DEF ReadWell, Counted, CountOf

LEMMA ParsedIs ==
    ASSUME document \in Documents
    PROVE  /\ Parsed = Segments(document.result)
           /\ Parsed \in Seq(SegmentTypes) /\ Counted(Parsed, CountOf(document))
           /\ Cardinality(Conflicts(Parsed)) = CountOf(document)
<1>1. PICK d \in Documents : d = document
  OBVIOUS
<1>2. WrittenByGit(d)
  BY DocumentsAreWritten
<1>3. d.kind # "text" => d.result = <<>>
  BY <1>2 DEF WrittenByGit
<1>4. Parsed = Segments(d.result)
  BY <1>1, <1>3 DEF Parsed
<1> QED BY <1>1, <1>4, ConflictsAreCounted

\* Only sides of the document's conflicts were asked for.
AskedOf(asked, n) == asked \subseteq (1..n) \X MergeSides

\* What the user asked of every region is what is selected of it, in the
\* document that is shown.
SelectionsFit ==
    /\ selections \in Seq(Picks) /\ Len(selections) = CountOf(document)
    /\ AskedOf(askedSides, CountOf(document))
    /\ \A i \in DOMAIN selections :
          /\ selections[i].ours <=> <<i, "ours">> \in askedSides
          /\ selections[i].theirs <=> <<i, "theirs">> \in askedSides

MergeFits ==
    /\ document \in Documents /\ opening \in Documents
    /\ SelectionsFit
    /\ SavedIsChosen

LEMMA SaveIsChosen ==
    ASSUME MergeFits, CanSave, manual = NoManualText,
           NEW ours, ours = {i \in DOMAIN selections : <<i, "ours">> \in askedSides},
           NEW theirs, theirs = {i \in DOMAIN selections : <<i, "theirs">> \in askedSides}
    PROVE  /\ CountOf(document) > 0 => Composed = Resolution(document, ours, theirs)
           /\ ours \cup theirs = 1..CountOf(document)
           /\ Composed = TextsOf(ResultRows)
<1>1. PICK d \in Documents : d = document
  BY DEF MergeFits
<1>2. WrittenByGit(d) /\ CountOf(d) \in Nat
  BY DocumentsAreWritten
<1>3. PICK n \in Nat : n = CountOf(d) /\ n = ConflictsOf(d.regions)
  BY <1>2 DEF CountOf
<1>4. /\ selections \in Seq(Picks) /\ DOMAIN selections = 1..n
      /\ \A i \in 1..n : /\ selections[i] \in Picks
                         /\ selections[i].ours <=> i \in ours
                         /\ selections[i].theirs <=> i \in theirs
  <2>1. selections \in Seq(Picks) /\ DOMAIN selections = 1..n
    BY <1>1, <1>3 DEF MergeFits, SelectionsFit
  <2>2. ASSUME NEW i \in 1..n
        PROVE  /\ selections[i] \in Picks
               /\ selections[i].ours <=> i \in ours
               /\ selections[i].theirs <=> i \in theirs
    <3>1. i \in DOMAIN selections
      BY <2>1
    <3>2. selections[i].ours <=> <<i, "ours">> \in askedSides
      BY <3>1 DEF MergeFits, SelectionsFit
    <3>3. selections[i].theirs <=> <<i, "theirs">> \in askedSides
      BY <3>1 DEF MergeFits, SelectionsFit
    <3>4. selections[i] \in Picks
      BY <2>1
    <3>5. i \in ours <=> <<i, "ours">> \in askedSides
      BY <3>1
    <3>6. i \in theirs <=> <<i, "theirs">> \in askedSides
      BY <3>1
    <3> QED BY <3>2, <3>3, <3>4, <3>5, <3>6
  <2> QED BY <2>1, <2>2
<1>5. \A k \in 1..ConflictsOf(d.regions) : PicksMatch(selections, k, ours, theirs)
  BY <1>3, <1>4 DEF PicksMatch
<1>6. /\ d.result \in Lines
      /\ ReadWell(Segments(d.result), ConflictsOf(d.regions), selections,
                  Resolution(d, ours, theirs))
  BY <1>2, <1>5, DocumentIsRead
<1>7. /\ Parsed = Segments(d.result) /\ Parsed \in Seq(SegmentTypes) /\ Counted(Parsed, n)
      /\ Cardinality(Conflicts(Parsed)) = n
  BY <1>1, <1>3, ParsedIs DEF MergeFits
<1>8. ComposeMergeResult(Parsed, selections) = Resolution(d, ours, theirs)
  BY <1>6, <1>7 DEF ReadWell
<1>9. UnresolvedConflicts(Parsed, selections) = {}
  BY DEF CanSave
<1>10. Conflicts(Parsed) # {} <=> n > 0
  <2>1. IsFiniteSet(Conflicts(Parsed))
    BY <1>7 DEF Counted
  <2> QED BY <1>7, <2>1, FS_EmptySet
<1>11. ours \cup theirs = 1..n
  <2>1. ours \cup theirs \subseteq 1..n
    BY <1>4
  <2>2. ASSUME NEW k \in 1..n PROVE k \in ours \cup theirs
    <3>1. PICK i \in Conflicts(Parsed) : Parsed[i].index + 1 = k
      BY <1>7 DEF Counted
    <3>2. Picked(Parsed[i], selections) # NoPick
      BY <1>9 DEF UnresolvedConflicts
    <3>3. selections[k] # NoPick
      BY <3>1, <3>2 DEF Picked
    <3>4. selections[k].ours \/ selections[k].theirs
      <4>1. PICK p \in Picks : p = selections[k]
        BY <1>4
      <4>2. p = [ours |-> p.ours, theirs |-> p.theirs] /\ p.ours \in BOOLEAN
            /\ p.theirs \in BOOLEAN
        BY <4>1 DEF Picks
      <4> QED BY <3>3, <4>1, <4>2 DEF NoPick
    <3> QED BY <1>4, <3>4
  <2> QED BY <2>1, <2>2
<1>12. CASE n > 0
  <2>1. Conflicts(Parsed) # {}
    BY <1>10, <1>12
  <2>2. Composed = ComposeMergeResult(Parsed, selections)
    BY <2>1 DEF Composed
  <2>3. ResultRows = OutputRows(Parsed, selections, BaseSlices(Parsed, document.base))
    BY <2>1 DEF ResultRows
  <2>4. TextsOf(ResultRows) = ComposeMergeResult(Parsed, selections)
    BY <1>7, <1>9, <2>3, RowsAreComposed
  <2> QED BY <1>1, <1>3, <1>8, <1>11, <2>2, <2>4
<1>13. CASE n = 0
  <2>1. Conflicts(Parsed) = {}
    BY <1>10, <1>13
  <2>2. PICK lines \in Lines : lines = Composed
    BY <1>1, <1>6, <2>1 DEF Composed
  <2>3. ResultRows = [j \in DOMAIN lines |-> [text |-> lines[j], side |-> "both"]]
    BY <2>1, <2>2 DEF ResultRows
  <2>4. ResultRows = RowsOf(lines, "both")
    BY <2>3 DEF RowsOf
  <2>5. TextsOf(ResultRows) = lines
    BY <2>4, RowsHaveTexts
  <2> QED BY <1>1, <1>3, <1>11, <1>13, <2>2, <2>5
<1> QED BY <1>3, <1>12, <1>13

LEMMA NothingIsCounted ==
    NoDocument \in Documents /\ CountOf(NoDocument) = 0
<1>1. NoDocument \in Documents
  BY DEF Documents
<1>2. NoDocument.kind # "text"
  BY DEF NoDocument
<1> QED BY <1>1, <1>2, DocumentsAreWritten

LEMMA NothingIsAsked ==
    ASSUME NEW n
    PROVE  AskedOf({}, n)
BY DEF AskedOf

\* Of a document nothing was asked yet, and nothing is selected.
LEMMA DefaultsFit ==
    ASSUME NEW d \in Documents, document' = d, askedSides' = {},
           selections' = DefaultSelections(Segments(d.result))
    PROVE  SelectionsFit'
<1>1. PICK n \in Nat : n = CountOf(d)
  BY DocumentsAreWritten
<1>2. Cardinality(Conflicts(Segments(d.result))) = n
  BY <1>1, ConflictsAreCounted
<1>3. selections' = [i \in 1..n |-> NoPick]
  BY <1>2 DEF DefaultSelections
<1>4. NoPick \in Picks /\ ~NoPick.ours /\ ~NoPick.theirs
  BY DEF NoPick, Picks
<1>5. selections' \in Seq(Picks) /\ Len(selections') = n /\ DOMAIN selections' = 1..n
  BY <1>3, <1>4
<1>6. \A i \in DOMAIN selections' : ~selections'[i].ours /\ ~selections'[i].theirs
  BY <1>3, <1>4
<1>7. (CountOf(document))' = n
  BY <1>1
<1>8. AskedOf(askedSides', (CountOf(document))')
  BY NothingIsAsked
<1>9. ASSUME NEW k \in DOMAIN selections'
      PROVE  /\ selections'[k].ours <=> <<k, "ours">> \in askedSides'
             /\ selections'[k].theirs <=> <<k, "theirs">> \in askedSides'
  BY <1>6
<1>10. selections' \in Seq(Picks) /\ Len(selections') = (CountOf(document))'
  BY <1>5, <1>7
<1> QED BY <1>8, <1>9, <1>10 DEF SelectionsFit

LEMMA ChosenStays ==
    ASSUME SavedIsChosen, lastSave' = lastSave
    PROVE  SavedIsChosen'
BY DEF SavedIsChosen

LEMMA SelectionsStay ==
    ASSUME SelectionsFit, document' = document, selections' = selections,
           askedSides' = askedSides
    PROVE  SelectionsFit'
BY DEF SelectionsFit, CountOf

LEMMA MergeStarts ==
    ASSUME MergeInit
    PROVE  MergeFits
<1>1. /\ document = NoDocument /\ opening = NoDocument /\ selections = <<>>
      /\ askedSides = {} /\ lastSave = NoSave
  BY DEF MergeInit
<1>2. SelectionsFit
  <2>1. CountOf(document) = 0 /\ AskedOf(askedSides, CountOf(document))
    BY <1>1, NothingIsCounted, NothingIsAsked
  <2>2. selections \in Seq(Picks) /\ Len(selections) = 0 /\ DOMAIN selections = {}
    BY <1>1
  <2> QED BY <2>1, <2>2 DEF SelectionsFit
<1>3. SavedIsChosen
  BY <1>1 DEF SavedIsChosen
<1> QED BY <1>1, <1>2, <1>3, NothingIsCounted DEF MergeFits

LEMMA LeavingFits ==
    ASSUME EditorLeaves
    PROVE  document' \in Documents /\ SelectionsFit'
<1>1. document' = NoDocument /\ selections' = <<>> /\ askedSides' = {}
  BY DEF EditorLeaves
<1>2. (CountOf(document))' = 0 /\ AskedOf(askedSides', (CountOf(document))')
  BY <1>1, NothingIsCounted, NothingIsAsked
<1>3. selections' \in Seq(Picks) /\ Len(selections') = 0 /\ DOMAIN selections' = {}
  BY <1>1
<1>4. document' \in Documents
  BY <1>1, NothingIsCounted
<1> QED BY <1>2, <1>3, <1>4 DEF SelectionsFit

LEMMA OpeningFits ==
    ASSUME MergeFits, ConflictOpens
    PROVE  MergeFits'
<1>1. PICK d \in Documents : d = document
  BY DEF MergeFits
<1>2. PICK e \in Documents : e = opening
  BY DEF MergeFits
<1>3. /\ document' = e /\ opening' = NoDocument /\ lastSave' = lastSave
      /\ ComposeAgain(e)
  BY <1>2 DEF ConflictOpens
<1>4. askedSides' = IF <<e.path, e.digest, e.result>> = <<d.path, d.digest, d.result>>
                    THEN askedSides ELSE {}
  BY <1>1, <1>2 DEF ConflictOpens
<1>5. /\ d.kind # "text" => CountOf(d) = 0
      /\ e.kind # "text" => CountOf(e) = 0
  BY DocumentsAreWritten
<1>6. /\ Cardinality(Conflicts(Segments(d.result))) = CountOf(d)
      /\ Cardinality(Conflicts(Segments(e.result))) = CountOf(e)
  BY ConflictsAreCounted
<1>7. SelectionsFit'
  <2>1. CASE Fingerprint(e) = Fingerprint(d)
    <3>1. e.path = d.path /\ e.digest = d.digest /\ CountOf(e) = CountOf(d)
      BY <2>1, <1>6 DEF Fingerprint
    <3>2. selections' = selections
      BY <1>1, <1>3, <2>1 DEF ComposeAgain
    <3>3. (CountOf(document))' = CountOf(document)
      BY <1>1, <1>3, <3>1
    <3>4. CASE CountOf(d) = 0
      <4>1. AskedOf(askedSides, 0)
        BY <3>4, <1>1 DEF MergeFits, SelectionsFit
      <4>2. askedSides = {}
        BY <4>1 DEF AskedOf
      <4>7. askedSides' = askedSides
        BY <4>2, <1>4
      <4> QED BY <3>2, <3>3, <4>7 DEF MergeFits, SelectionsFit
    <3>5. CASE CountOf(d) # 0
      <4>1. d.kind = "text" /\ e.kind = "text"
        BY <3>1, <3>5, <1>5
      <4>2. NoDocument.kind # "text"
        BY DEF NoDocument
      <4>3. d \in MergeDocuments /\ e \in MergeDocuments
        BY <4>1, <4>2 DEF Documents
      <4>4. e.result = d.result
        BY <4>1, <4>3, <3>1, MergeAssumption
      <4>5. askedSides' = askedSides
        BY <1>4, <3>1, <4>4
      <4> QED BY <3>2, <3>3, <4>5 DEF MergeFits, SelectionsFit
    <3> QED BY <3>4, <3>5
  <2>2. CASE Fingerprint(e) # Fingerprint(d)
    <3>1. selections' = DefaultSelections(Segments(e.result))
      BY <1>1, <1>3, <2>2 DEF ComposeAgain
    <3>2. <<e.path, e.digest, e.result>> # <<d.path, d.digest, d.result>>
      BY <2>2 DEF Fingerprint
    <3>3. askedSides' = {}
      BY <1>4, <3>2
    <3> QED BY <1>3, <3>1, <3>3, DefaultsFit
  <2> QED BY <2>1, <2>2
<1>8. SavedIsChosen'
  BY <1>3, ChosenStays DEF MergeFits
<1> QED BY <1>3, <1>7, <1>8, NothingIsCounted DEF MergeFits

LEMMA SelectionsAre ==
    ASSUME NEW n \in Nat, NEW t \in Seq(Picks), Len(t) = n, selections' = t,
           (CountOf(document))' = n,
           NEW asked, askedSides' = asked, AskedOf(asked, n),
           \A k \in 1..n : /\ t[k].ours <=> <<k, "ours">> \in asked
                           /\ t[k].theirs <=> <<k, "theirs">> \in asked
    PROVE  SelectionsFit'
<1>1. DOMAIN t = 1..n
  OBVIOUS
<1>2. selections' \in Seq(Picks) /\ Len(selections') = (CountOf(document))'
  OBVIOUS
<1>3. AskedOf(askedSides', (CountOf(document))')
  OBVIOUS
<1>4. ASSUME NEW k \in DOMAIN selections'
      PROVE  /\ selections'[k].ours <=> <<k, "ours">> \in askedSides'
             /\ selections'[k].theirs <=> <<k, "theirs">> \in askedSides'
  <2>1. k \in 1..n
    BY <1>1
  <2> QED BY <2>1
<1> QED BY <1>2, <1>3, <1>4 DEF SelectionsFit

\* A click on a line of a side flips that side of its region.
LEMMA FlippingFits ==
    ASSUME MergeFits, document' = document, NEW i \in DOMAIN selections,
           NEW side \in MergeSides, selections' = PickOf(i, side),
           askedSides' = Flip(i, side)
    PROVE  SelectionsFit'
<1>1. PICK n \in Nat : n = CountOf(document)
  BY DocumentsAreWritten DEF MergeFits
<1>2. PICK s \in Seq(Picks) : s = selections
  BY DEF MergeFits, SelectionsFit
<1>3. DOMAIN s = 1..n /\ Len(s) = n
  BY <1>1, <1>2 DEF MergeFits, SelectionsFit
<1>4. PICK p \in Picks : p = s[i]
  BY <1>2
<1>5. PICK q : q = [p EXCEPT ![side] = ~@]
  OBVIOUS
<1>6. /\ p.ours \in BOOLEAN /\ p.theirs \in BOOLEAN
      /\ p = [ours |-> p.ours, theirs |-> p.theirs]
  BY <1>4 DEF Picks
<1>7. side = "ours" => q = [ours |-> ~p.ours, theirs |-> p.theirs]
  BY <1>5, <1>6
<1>8. side = "theirs" => q = [ours |-> p.ours, theirs |-> ~p.theirs]
  BY <1>5, <1>6
<1>9. side = "ours" \/ side = "theirs"
  BY DEF MergeSides
<1>10. q \in Picks
  <2>1. PICK a, b \in BOOLEAN : q = [ours |-> a, theirs |-> b]
    BY <1>6, <1>7, <1>8, <1>9
  <2>2. [ours |-> a, theirs |-> b] \in Picks
    BY <2>1 DEF Picks
  <2> QED BY <1>9, <2>1, <2>2
<1>11. PICK t : t = [s EXCEPT ![i] = q]
  OBVIOUS
<1>12. selections' = t
  BY <1>2, <1>4, <1>5, <1>11 DEF PickOf
<1>13. t \in Seq(Picks) /\ Len(t) = n /\ DOMAIN t = 1..n
  BY <1>2, <1>3, <1>10, <1>11
<1>14. PICK asked, asked2 : asked = askedSides /\ asked2 = Flip(i, side)
  OBVIOUS
<1>15. asked2 = IF <<i, side>> \in asked THEN asked \ {<<i, side>>}
                ELSE asked \cup {<<i, side>>}
  BY <1>14 DEF Flip
<1>16. /\ AskedOf(asked, n)
       /\ \A k \in 1..n : /\ s[k].ours <=> <<k, "ours">> \in asked
                          /\ s[k].theirs <=> <<k, "theirs">> \in asked
  <2>1. /\ AskedOf(askedSides, n)
        /\ \A k \in DOMAIN selections :
              /\ selections[k].ours <=> <<k, "ours">> \in askedSides
              /\ selections[k].theirs <=> <<k, "theirs">> \in askedSides
    BY <1>1 DEF MergeFits, SelectionsFit
  <2>2. selections = s /\ askedSides = asked /\ DOMAIN selections = 1..n
    BY <1>2, <1>3, <1>14
  <2>3. \A k \in 1..n : k \in DOMAIN selections
    BY <2>2
  <2>4. AskedOf(asked, n)
    BY <2>1, <2>2
  <2>5. ASSUME NEW k \in 1..n
        PROVE  /\ s[k].ours <=> <<k, "ours">> \in asked
               /\ s[k].theirs <=> <<k, "theirs">> \in asked
    <3>1. k \in DOMAIN selections
      BY <2>3
    <3>2. /\ selections[k].ours <=> <<k, "ours">> \in askedSides
          /\ selections[k].theirs <=> <<k, "theirs">> \in askedSides
      BY <2>1, <3>1
    <3>3. selections[k] = s[k] /\ askedSides = asked
      BY <2>2
    <3> QED BY <3>2, <3>3
  <2> QED BY <2>4, <2>5
<1>17. AskedOf(asked2, n)
  BY <1>2, <1>3, <1>15, <1>16 DEF AskedOf
<1>18. ASSUME NEW k \in 1..n
       PROVE  /\ t[k].ours <=> <<k, "ours">> \in asked2
              /\ t[k].theirs <=> <<k, "theirs">> \in asked2
  <2>1. CASE k # i
    <3>1. t[k] = s[k]
      BY <1>3, <1>11, <2>1
    <3>2. <<k, "ours">> # <<i, side>> /\ <<k, "theirs">> # <<i, side>>
      BY <2>1
    <3> QED BY <1>15, <1>16, <3>1, <3>2
  <2>2. CASE k = i /\ side = "ours"
    <3>1. t[k] = q /\ t[k] = [ours |-> ~p.ours, theirs |-> p.theirs]
      BY <1>2, <1>3, <1>7, <1>11, <2>2
    <3>2. t[k].ours = ~p.ours /\ t[k].theirs = p.theirs
      BY <3>1
    <3>3. <<k, "theirs">> # <<i, side>> /\ <<k, "ours">> = <<i, side>>
      BY <2>2
    <3>4. /\ p.ours <=> <<k, "ours">> \in asked
          /\ p.theirs <=> <<k, "theirs">> \in asked
      BY <1>4, <1>16, <2>2
    <3> QED BY <1>15, <3>2, <3>3, <3>4
  <2>3. CASE k = i /\ side = "theirs"
    <3>1. t[k] = q /\ t[k] = [ours |-> p.ours, theirs |-> ~p.theirs]
      BY <1>2, <1>3, <1>8, <1>11, <2>3
    <3>2. t[k].ours = p.ours /\ t[k].theirs = ~p.theirs
      BY <3>1
    <3>3. <<k, "ours">> # <<i, side>> /\ <<k, "theirs">> = <<i, side>>
      BY <2>3
    <3>4. /\ p.ours <=> <<k, "ours">> \in asked
          /\ p.theirs <=> <<k, "theirs">> \in asked
      BY <1>4, <1>16, <2>3
    <3> QED BY <1>15, <3>2, <3>3, <3>4
  <2> QED BY <1>9, <2>1, <2>2, <2>3
<1>19. (CountOf(document))' = n
  BY <1>1
<1>20. askedSides' = asked2
  BY <1>14
<1> QED BY <1>12, <1>13, <1>17, <1>18, <1>19, <1>20, SelectionsAre

\* The checkbox of a pane picks, or unpicks, its side of every region.
LEMMA SideFits ==
    ASSUME MergeFits, NEW side \in MergeSides, ToggleSide(side)
    PROVE  SelectionsFit'
<1>1. PICK n \in Nat : n = CountOf(document)
  BY DocumentsAreWritten DEF MergeFits
<1>2. PICK s \in Seq(Picks) : s = selections
  BY DEF MergeFits, SelectionsFit
<1>3. DOMAIN s = 1..n /\ Len(s) = n
  BY <1>1, <1>2 DEF MergeFits, SelectionsFit
<1>4. PICK next \in BOOLEAN : next = ~AllSelected(side)
  OBVIOUS
<1>5. PICK asked : asked = askedSides
  OBVIOUS
<1>6. PICK asked2 : asked2 = askedSides'
  OBVIOUS
<1>7. PICK all : all = {<<k, side>> : k \in 1..n}
  OBVIOUS
<1>8. asked2 = IF next THEN asked \cup all ELSE asked \ all
  BY <1>2, <1>3, <1>4, <1>5, <1>6, <1>7 DEF ToggleSide
<1>9. PICK t : t = [k \in 1..n |-> [s[k] EXCEPT ![side] = next]]
  OBVIOUS
<1>10. selections' = t /\ document' = document
  BY <1>2, <1>3, <1>4, <1>9 DEF ToggleSide
<1>11. /\ AskedOf(asked, n)
       /\ \A k \in 1..n : /\ s[k].ours <=> <<k, "ours">> \in asked
                          /\ s[k].theirs <=> <<k, "theirs">> \in asked
  <2>1. /\ AskedOf(askedSides, n)
        /\ \A k \in DOMAIN selections :
              /\ selections[k].ours <=> <<k, "ours">> \in askedSides
              /\ selections[k].theirs <=> <<k, "theirs">> \in askedSides
    BY <1>1 DEF MergeFits, SelectionsFit
  <2>2. selections = s /\ askedSides = asked /\ DOMAIN selections = 1..n
    BY <1>2, <1>3, <1>5
  <2>3. \A k \in 1..n : k \in DOMAIN selections
    BY <2>2
  <2>4. AskedOf(asked, n)
    BY <2>1, <2>2
  <2>5. ASSUME NEW k \in 1..n
        PROVE  /\ s[k].ours <=> <<k, "ours">> \in asked
               /\ s[k].theirs <=> <<k, "theirs">> \in asked
    <3>1. k \in DOMAIN selections
      BY <2>3
    <3>2. /\ selections[k].ours <=> <<k, "ours">> \in askedSides
          /\ selections[k].theirs <=> <<k, "theirs">> \in askedSides
      BY <2>1, <3>1
    <3>3. selections[k] = s[k] /\ askedSides = asked
      BY <2>2
    <3> QED BY <3>2, <3>3
  <2> QED BY <2>4, <2>5
<1>12. AskedOf(asked2, n)
  BY <1>7, <1>8, <1>11 DEF AskedOf
<1>13. side = "ours" \/ side = "theirs"
  BY DEF MergeSides
<1>14. ASSUME NEW k \in 1..n
       PROVE  /\ t[k] \in Picks
              /\ t[k].ours <=> <<k, "ours">> \in asked2
              /\ t[k].theirs <=> <<k, "theirs">> \in asked2
  <2>1. PICK p \in Picks : p = s[k]
    BY <1>2, <1>3
  <2>2. PICK q : q = [p EXCEPT ![side] = next]
    OBVIOUS
  <2>3. t[k] = q
    BY <1>9, <2>1, <2>2
  <2>4. /\ p.ours \in BOOLEAN /\ p.theirs \in BOOLEAN
        /\ p = [ours |-> p.ours, theirs |-> p.theirs]
    BY <2>1 DEF Picks
  <2>5. /\ p.ours <=> <<k, "ours">> \in asked
        /\ p.theirs <=> <<k, "theirs">> \in asked
    BY <1>11, <2>1
  <2>6. CASE side = "ours"
    <3>1. q = [ours |-> next, theirs |-> p.theirs]
      BY <2>2, <2>4, <2>6
    <3>2. q \in Picks /\ q.ours = next /\ q.theirs = p.theirs
      BY <2>4, <3>1 DEF Picks
    <3>3. <<k, "ours">> \in all /\ <<k, "theirs">> \notin all
      BY <1>7, <2>6
    <3>4. /\ next <=> <<k, "ours">> \in asked2
          /\ <<k, "theirs">> \in asked2 <=> <<k, "theirs">> \in asked
      BY <1>8, <3>3
    <3> QED BY <2>3, <2>5, <3>2, <3>4
  <2>7. CASE side = "theirs"
    <3>1. q = [ours |-> p.ours, theirs |-> next]
      BY <2>2, <2>4, <2>7
    <3>2. q \in Picks /\ q.ours = p.ours /\ q.theirs = next
      BY <2>4, <3>1 DEF Picks
    <3>3. <<k, "theirs">> \in all /\ <<k, "ours">> \notin all
      BY <1>7, <2>7
    <3>4. /\ next <=> <<k, "theirs">> \in asked2
          /\ <<k, "ours">> \in asked2 <=> <<k, "ours">> \in asked
      BY <1>8, <3>3
    <3> QED BY <2>3, <2>5, <3>2, <3>4
  <2> QED BY <1>13, <2>6, <2>7
<1>15. t \in Seq(Picks) /\ Len(t) = n /\ DOMAIN t = 1..n
  <2>1. DOMAIN t = 1..n /\ t = [k \in 1..n |-> t[k]]
    BY <1>9
  <2>2. \A k \in 1..n : t[k] \in Picks
    BY <1>14
  <2> QED BY <2>1, <2>2
<1>16. (CountOf(document))' = n
  BY <1>1, <1>10
<1> QED BY <1>6, <1>10, <1>12, <1>14, <1>15, <1>16, SelectionsAre

LEMMA SavingFits ==
    ASSUME MergeFits, SaveResult
    PROVE  SavedIsChosen'
<1>1. PICK ours : ours = {i \in DOMAIN selections : <<i, "ours">> \in askedSides}
  OBVIOUS
<1>2. PICK theirs : theirs = {i \in DOMAIN selections : <<i, "theirs">> \in askedSides}
  OBVIOUS
<1>3. PICK d, text, rows : d = document /\ rows = ResultRows
                           /\ text = IF manual # NoManualText THEN manual ELSE Composed
  OBVIOUS
<1>4. PICK byHand \in BOOLEAN : byHand = (manual # NoManualText)
  OBVIOUS
<1>5. PICK save : save = [doc |-> d, text |-> text, rows |-> rows, ours |-> ours,
                          theirs |-> theirs, manual |-> byHand]
  OBVIOUS
<1>6. lastSave' = save
  BY <1>1, <1>2, <1>3, <1>4, <1>5 DEF SaveResult
<1>7. /\ save.doc = d /\ save.text = text /\ save.rows = rows /\ save.ours = ours
      /\ save.theirs = theirs /\ save.manual = byHand
  BY <1>5
<1>8. ASSUME ~byHand
      PROVE  /\ CountOf(d) > 0 => text = Resolution(d, ours, theirs)
             /\ ours \cup theirs = 1..CountOf(d)
             /\ text = TextsOf(rows)
  <2>1. manual = NoManualText
    BY <1>4, <1>8
  <2>2. CanSave
    BY DEF SaveResult
  <2>3. text = Composed
    BY <1>3, <2>1
  <2>4. /\ CountOf(document) > 0 => Composed = Resolution(document, ours, theirs)
        /\ ours \cup theirs = 1..CountOf(document)
        /\ Composed = TextsOf(ResultRows)
    BY <1>1, <1>2, <2>1, <2>2, SaveIsChosen
  <2> QED BY <1>3, <2>3, <2>4
<1>9. CountOf(d) = Cardinality({i \in DOMAIN d.regions : d.regions[i].kind = "conflict"})
  <2>1. WrittenByGit(d)
    BY <1>3, DocumentsAreWritten DEF MergeFits
  <2>2. DOMAIN d.regions = 1..Len(d.regions)
    BY <2>1 DEF WrittenByGit
  <2> QED BY <2>2 DEF CountOf, ConflictsOf, Nth
<1>10. SavedIsChosen' = (lastSave' # NoSave /\ ~lastSave'.manual =>
          LET e == lastSave'.doc
              n == Cardinality({i \in DOMAIN e.regions : e.regions[i].kind = "conflict"})
          IN  /\ n > 0 => lastSave'.text = Resolution(e, lastSave'.ours, lastSave'.theirs)
              /\ lastSave'.ours \cup lastSave'.theirs = 1 .. n
              /\ lastSave'.text = TextsOf(lastSave'.rows))
  BY DEF SavedIsChosen, TextsOf
<1> QED BY <1>6, <1>7, <1>8, <1>9, <1>10

LEMMA MergeStepFits ==
    ASSUME MergeFits, [MergeNext]_mergeVars
    PROVE  MergeFits'
<1> USE DEF MergeFits
<1>1. ASSUME NEW d \in MergeDocuments, OpenConflict(d) PROVE MergeFits'
  <2>1. /\ opening' = d /\ document' = document /\ selections' = selections
        /\ askedSides' = askedSides /\ lastSave' = lastSave
    BY <1>1 DEF OpenConflict
  <2> QED BY <2>1, SelectionsStay, ChosenStays DEF Documents
<1>2. ASSUME ConflictOpens PROVE MergeFits'
  BY <1>2, OpeningFits
<1>3. ASSUME LeaveEditor PROVE MergeFits'
  <2>1. EditorLeaves /\ opening' = opening /\ lastSave' = lastSave
    BY <1>3 DEF LeaveEditor
  <2> QED BY <2>1, LeavingFits, ChosenStays
<1>4. ASSUME ResetPicks PROVE MergeFits'
  <2>1. /\ document' = document /\ opening' = opening /\ askedSides' = {}
        /\ selections' = DefaultSelections(Parsed) /\ lastSave' = lastSave
    BY <1>4 DEF ResetPicks
  <2>2. Parsed = Segments(document.result)
    BY ParsedIs
  <2>3. PICK d \in Documents : d = document
    OBVIOUS
  <2>4. SelectionsFit'
    BY <2>1, <2>2, <2>3, DefaultsFit
  <2> QED BY <2>1, <2>4, ChosenStays
<1>5. ASSUME NEW i \in DOMAIN selections, NEW side \in MergeSides, ToggleConflict(i, side)
      PROVE  MergeFits'
  <2>1. /\ document' = document /\ opening' = opening /\ lastSave' = lastSave
        /\ selections' = PickOf(i, side) /\ askedSides' = Flip(i, side)
    BY <1>5 DEF ToggleConflict
  <2>2. SelectionsFit'
    BY <2>1, FlippingFits
  <2> QED BY <2>1, <2>2, ChosenStays
<1>6. ASSUME NEW side \in MergeSides, ToggleSide(side) PROVE MergeFits'
  <2>1. document' = document /\ opening' = opening /\ lastSave' = lastSave
    BY <1>6 DEF ToggleSide
  <2>2. SelectionsFit'
    BY <1>6, SideFits
  <2> QED BY <2>1, <2>2, ChosenStays
<1>7. ASSUME SaveResult PROVE MergeFits'
  <2>1. /\ document' = document /\ opening' = opening /\ selections' = selections
        /\ askedSides' = askedSides
    BY <1>7 DEF SaveResult
  <2>2. SavedIsChosen'
    BY <1>7, SavingFits
  <2> QED BY <2>1, <2>2, SelectionsStay
<1>8. ASSUME NEW ok \in BOOLEAN, SaveEnds(ok) PROVE MergeFits'
  <2>1. opening' = opening /\ lastSave' = lastSave
    BY <1>8 DEF SaveEnds
  <2>2. \/ EditorLeaves
        \/ document' = document /\ selections' = selections /\ askedSides' = askedSides
    BY <1>8 DEF SaveEnds
  <2>3. document' \in Documents /\ SelectionsFit'
    BY <2>2, LeavingFits, SelectionsStay
  <2> QED BY <2>1, <2>3, ChosenStays
<1>9. ASSUME \/ EditManually \/ BackToPicking
             \/ \E direction \in {-1, 1} : StepConflict(direction)
             \/ \E text \in {<<>>, <<"typed">>} : TypeResult(text)
             \/ \E ending \in {"preserve", "lf", "cr_lf"} : ChooseLineEnding(ending)
             \/ UNCHANGED mergeVars
      PROVE  MergeFits'
  <2>1. /\ document' = document /\ opening' = opening /\ selections' = selections
        /\ askedSides' = askedSides /\ lastSave' = lastSave
    BY <1>9 DEF EditManually, BackToPicking, StepConflict, TypeResult, ChooseLineEnding,
                mergeVars
  <2> QED BY <2>1, SelectionsStay, ChosenStays
<1> QED BY <1>1, <1>2, <1>3, <1>4, <1>5, <1>6, <1>7, <1>8, <1>9 DEF MergeNext

\* A save of the picker is the file Git wrote with the sides the user picked.
THEOREM SavesAreChosen == MergeSpec => []SavedIsChosen
<1>1. MergeFits => SavedIsChosen
  BY DEF MergeFits
<1> QED BY <1>1, MergeStarts, MergeStepFits, PTL DEF MergeSpec
=============================================================================
