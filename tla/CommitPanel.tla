----------------------------- MODULE CommitPanel -----------------------------
(***************************************************************************)
(* What is selected in the graph, the panel loaded for it and the commit   *)
(* search: useCommitSelection.ts, useCommitSearch.ts, the details effect   *)
(* of useRepositoryOverview.ts and the keys of CommitGraph.tsx.            *)
(* The histories a load answers with are a parameter; their layout and     *)
(* the load itself are modelled in other modules.                          *)
(***************************************************************************)
EXTENDS Integers, FiniteSets, SequencesExt

CONSTANTS PanelHistories,   \* repository -> set of the histories a load answers
          FirstRepo,   \* the repository shown first
          PanelBound   \* user actions and loads of a run

ASSUME PanelAssumption ==
    /\ FirstRepo \in DOMAIN PanelHistories
    /\ \A repo \in DOMAIN PanelHistories : PanelHistories[repo] \subseteq Seq(STRING)
    /\ PanelBound \in Nat

VARIABLES
    shownRepo,    \* activeRepository
    loadedRepo,   \* overviewRepositoryId: the repository on the screen
    history,      \* the commits of the loaded history, newest first
    selected,     \* selectedOid
    wip,          \* wipSelected
    details,      \* the commit of the panel shown, with its actions
    panelSeq,     \* detailsLoadSequence
    panelCalls,   \* loadCommitPanel calls: [seq, oid]
    panelFailed,  \* the last load of a panel failed
    searchOpen, query, hits, hitIndex,
    searchSeq,    \* searchSequence
    timer,        \* the search waits for its 180 ms
    searchCalls,  \* searchCommits calls: [seq, repo, query]
    panelActs     \* actions so far (bound)

selectionVars == <<selected, wip, details, panelSeq, panelCalls, panelFailed>>
searchVars    == <<searchOpen, query, hits, hitIndex, searchSeq, timer, searchCalls>>
panelVars     == <<shownRepo, loadedRepo, history, selectionVars, searchVars, panelActs>>

Repos    == DOMAIN PanelHistories
NoRepo   == "no repository"
NoPanelOid == "no commit"
NoQuery  == ""
Queries  == {"one", "all"}
CommitsOf(repo) == UNION {ToSet(rows) : rows \in PanelHistories[repo]}

\* What git finds: one commit, or every commit of the log.
Found(repo, text, rows) ==
    IF rows = <<>> THEN <<>> ELSE IF text = "one" THEN <<rows[Len(rows)]>> ELSE rows

PanelActs == panelActs < PanelBound /\ panelActs' = panelActs + 1

-----------------------------------------------------------------------------
\* The details effect. It runs when the repository, the loaded repository, the
\* selection or the WIP row changed; shown is what the handler itself left in
\* details, which only matters when the effect does not run.
Effect(oid, onWip, loaded, changed, shown) ==
    /\ selected' = oid /\ wip' = onWip
    /\ IF ~changed
       THEN details' = shown /\ UNCHANGED <<panelSeq, panelCalls, panelFailed>>
       ELSE /\ panelSeq' = panelSeq + 1
            /\ details' = NoPanelOid
            /\ panelFailed' = FALSE
            /\ panelCalls' = IF loaded /\ oid # NoPanelOid /\ ~onWip
                             THEN panelCalls \cup {[seq |-> panelSeq + 1, oid |-> oid]}
                             ELSE panelCalls

OnScreen == loadedRepo = shownRepo

\* A mutant: the effect forgets that the WIP row took the selection.
SelectKeepingPanel(oid, onWip) ==
    Effect(oid, onWip, OnScreen, FALSE, details)

\* A handler that selects and clears the panel itself.
Select(oid, onWip) ==
    Effect(oid, onWip, OnScreen, oid # selected \/ onWip # wip, NoPanelOid)

\* selectCommitOid does nothing for the commit already selected.
SelectCommitOid(oid) ==
    IF ~wip /\ selected = oid THEN UNCHANGED selectionVars ELSE Select(oid, FALSE)

ClickCommit ==
    /\ PanelActs
    /\ \E i \in DOMAIN history : SelectCommitOid(history[i])
    /\ UNCHANGED <<shownRepo, loadedRepo, history, searchVars>>

\* A parent named in the panel; it may be on a page not loaded.
JumpToCommit ==
    /\ PanelActs
    /\ details # NoPanelOid
    /\ \E oid \in CommitsOf(loadedRepo) : SelectCommitOid(oid)
    /\ UNCHANGED <<shownRepo, loadedRepo, history, searchVars>>

SelectWip ==
    /\ PanelActs
    /\ OnScreen
    /\ Select(NoPanelOid, TRUE)
    /\ UNCHANGED <<shownRepo, loadedRepo, history, searchVars>>

\* handleKeyDown of the list, with the WIP row above it.
CurrentIndex ==
    IF \E i \in DOMAIN history : history[i] = selected
    THEN CHOOSE i \in DOMAIN history : history[i] = selected
    ELSE IF wip THEN 0 ELSE 1

KeyTarget(key) ==
    LET last == Len(history)
    IN  CASE key = "ArrowDown" -> IF CurrentIndex < last THEN CurrentIndex + 1 ELSE last
          [] key = "ArrowUp"   -> IF CurrentIndex > 1 THEN CurrentIndex - 1 ELSE 0
          [] key = "Home"      -> 1
          [] key = "End"       -> last
          [] key = "Enter"     -> CurrentIndex

GraphKey(key) ==
    /\ PanelActs
    /\ history # <<>>
    /\ LET row == KeyTarget(key)
       IN  IF row # 0 THEN SelectCommitOid(history[row])
           ELSE IF key = "ArrowUp" THEN Select(NoPanelOid, TRUE)
           ELSE UNCHANGED selectionVars
    /\ UNCHANGED <<shownRepo, loadedRepo, history, searchVars>>

-----------------------------------------------------------------------------
(* The search. *)

NoHits == hits' = <<>> /\ hitIndex' = 0

\* The search effect: every change of the repository, the bar or the text
\* outdates the search under way and starts the wait for the next one.
SearchEffect(repo, open, text) ==
    /\ searchOpen' = open /\ query' = text
    /\ searchSeq' = searchSeq + 1
    /\ IF open /\ repo # NoRepo /\ text # NoQuery
       THEN timer' = TRUE /\ UNCHANGED <<hits, hitIndex>>
       ELSE timer' = FALSE /\ NoHits
    /\ UNCHANGED searchCalls

TypeQuery ==
    /\ PanelActs
    /\ \E text \in Queries \cup {NoQuery} :
          text # query /\ SearchEffect(shownRepo, TRUE, text)
    /\ UNCHANGED <<shownRepo, loadedRepo, history, selectionVars>>

CloseSearch ==
    /\ PanelActs
    /\ searchOpen /\ SearchEffect(shownRepo, FALSE, NoQuery)
    /\ UNCHANGED <<shownRepo, loadedRepo, history, selectionVars>>

SendSearch ==
    /\ timer /\ timer' = FALSE
    /\ searchCalls' = searchCalls
           \cup {[seq |-> searchSeq, repo |-> shownRepo, query |-> query]}
    /\ UNCHANGED <<shownRepo, loadedRepo, history, selectionVars, searchOpen, query,
                   hits, hitIndex, searchSeq, panelActs>>

\* The answer of a search superseded by another, or by a switch, is dropped.
SearchIsLive(call) == call.seq = searchSeq /\ call.repo = shownRepo

\* An answer selects its first hit; the panel is left to the effect.
SearchArrives ==
    \E call \in searchCalls, rows \in UNION {PanelHistories[repo] : repo \in Repos} :
        /\ rows \in PanelHistories[call.repo]
        /\ searchCalls' = searchCalls \ {call}
        /\ LET found == Found(call.repo, call.query, rows)
           IN  IF ~SearchIsLive(call)
               THEN UNCHANGED <<hits, hitIndex, selectionVars>>
               ELSE /\ hits' = found /\ hitIndex' = 1
                    /\ IF found = <<>> THEN UNCHANGED selectionVars
                       ELSE Effect(found[1], FALSE, OnScreen,
                                   found[1] # selected \/ wip, details)
        /\ UNCHANGED <<shownRepo, loadedRepo, history, searchOpen, query,
                       searchSeq, timer, panelActs>>

SearchFails ==
    /\ \E call \in searchCalls : searchCalls' = searchCalls \ {call}
    /\ UNCHANGED <<shownRepo, loadedRepo, history, selectionVars, searchOpen, query,
                   hits, hitIndex, searchSeq, timer, panelActs>>

\* navigateSearch: the next or the previous hit, round and round.
NavigateSearch ==
    /\ PanelActs
    /\ searchOpen /\ hits # <<>>
    /\ \E step \in {1, Len(hits) - 1} :
          LET next == ((hitIndex - 1 + step) % Len(hits)) + 1
          IN  hitIndex' = next /\ Select(hits[next], FALSE)
    /\ UNCHANGED <<shownRepo, loadedRepo, history, searchOpen, query, hits,
                   searchSeq, timer, searchCalls>>

-----------------------------------------------------------------------------
(* Repositories and loads. *)

\* Another tab: the screen is emptied, the selection is left to the load, and
\* an open search runs again in the other repository.
ShowRepository ==
    /\ PanelActs
    /\ \E repo \in Repos \ {shownRepo} :
        /\ shownRepo' = repo
        /\ loadedRepo' = NoRepo /\ history' = <<>>
        /\ Effect(selected, wip, FALSE, TRUE, NoPanelOid)
        /\ SearchEffect(repo, searchOpen, query)

\* A load of the shown repository: the selection of a refresh is kept when the
\* commit is still there, else the WIP row or the first commit is selected.
OverviewArrives ==
    /\ PanelActs
    /\ \E rows \in PanelHistories[shownRepo], clean \in BOOLEAN :
        LET kept  == OnScreen /\ selected \in ToSet(rows)
            oid   == IF kept THEN selected
                     ELSE IF ~clean \/ rows = <<>> THEN NoPanelOid ELSE rows[1]
            onWip == ~kept /\ ~clean
        IN  /\ history' = rows /\ loadedRepo' = shownRepo
            /\ Effect(oid, onWip, TRUE,
                      ~OnScreen \/ oid # selected \/ onWip # wip, details)
    /\ UNCHANGED <<shownRepo, searchVars>>

PanelArrives(call) ==
    /\ call \in panelCalls
    /\ panelCalls' = panelCalls \ {call}
    /\ details' = IF call.seq = panelSeq THEN call.oid ELSE details
    /\ UNCHANGED <<shownRepo, loadedRepo, history, selected, wip, panelSeq,
                   panelFailed, searchVars, panelActs>>

PanelFails(call) ==
    /\ call \in panelCalls
    /\ panelCalls' = panelCalls \ {call}
    /\ panelFailed' = (panelFailed \/ call.seq = panelSeq)
    /\ UNCHANGED <<shownRepo, loadedRepo, history, selected, wip, details, panelSeq,
                   searchVars, panelActs>>

PanelInit ==
    /\ shownRepo = FirstRepo /\ loadedRepo = NoRepo /\ history = <<>>
    /\ selected = NoPanelOid /\ wip = FALSE /\ details = NoPanelOid
    /\ panelSeq = 0 /\ panelCalls = {} /\ panelFailed = FALSE
    /\ searchOpen = FALSE /\ query = NoQuery /\ hits = <<>> /\ hitIndex = 0
    /\ searchSeq = 0 /\ timer = FALSE /\ searchCalls = {} /\ panelActs = 0

PanelNext ==
    \/ ClickCommit \/ JumpToCommit \/ SelectWip
    \/ \E key \in {"ArrowDown", "ArrowUp", "Home", "End", "Enter"} : GraphKey(key)
    \/ TypeQuery \/ CloseSearch \/ SendSearch
    \/ SearchArrives \/ SearchFails \/ NavigateSearch
    \/ ShowRepository \/ OverviewArrives
    \/ \E call \in panelCalls : PanelArrives(call) \/ PanelFails(call)

PanelSpec == PanelInit /\ [][PanelNext]_panelVars

-----------------------------------------------------------------------------
PanelTypeOK ==
    /\ shownRepo \in Repos /\ loadedRepo \in Repos \cup {NoRepo}
    /\ selected \in {NoPanelOid} \cup UNION {CommitsOf(repo) : repo \in Repos}
    /\ wip \in BOOLEAN /\ searchOpen \in BOOLEAN /\ timer \in BOOLEAN
    /\ \A call \in panelCalls : call.seq <= panelSeq
    /\ hits # <<>> => hitIndex \in DOMAIN hits

\* The panel on the screen, and with it the actions offered for its commit, is
\* of the selected commit of the repository on the screen: whatever loads,
\* searches and refreshes answered in between.
PanelIsOfSelection ==
    details # NoPanelOid =>
        details = selected /\ ~wip /\ OnScreen

\* Not held: the selected commit is of the repository on the screen. The hits
\* of a search outlive a tab switch until the search of the new tab answers.
SelectionIsOfRepository ==
    OnScreen /\ selected # NoPanelOid => selected \in CommitsOf(shownRepo)

\* Not held: a selected commit has its panel, or a load of it under way that
\* did not fail. Walking a search with a single hit clears the panel and
\* selects the commit already selected, so nothing loads it again.
PanelIsLoaded ==
    OnScreen /\ selected # NoPanelOid /\ ~wip /\ details = NoPanelOid /\ ~panelFailed =>
        \E call \in panelCalls : call.seq = panelSeq
=============================================================================
