---------------------------- MODULE WorktreePane ----------------------------
\* The working-tree panel (WorktreePanel.tsx) and the commit drafts App keeps per
\* tab: the sections, the two context menus, the commit form, the summary field
\* of the graph's WIP row, and what comes back when a command ends.  Commands
\* wait behind a refresh and behind each other; the status on screen is replaced
\* by every load, and by whatever other programs did meanwhile.
EXTENDS Naturals, Sequences, FiniteSets

CONSTANTS PaneTabs, PaneFiles, Words,
          PaneBound  \* bound on the user's acts in a behaviour

VARIABLES paneTabs,    \* the open tabs
          tabOn,       \* the active one
          drafts,      \* commitDrafts: tab -> draft, for the tabs that have one
          status,      \* the entries on screen: file -> its two sides
          operation,   \* operation_state of the snapshot on screen
          paneMenu,    \* the file or folder menu, or NoMenu
          asked,       \* the commands asked for and not yet answered, in order
          started,     \* whether the first of them runs
          refreshing,  \* overviewLoading
          paneActs

NoPaneMenu == [kind |-> "none", tab |-> "-"]
EmptyDraft == [message |-> "", description |-> "", amend |-> FALSE]
Sides == {"clean", "unstaged", "staged", "both", "conflicted"}
Operations == {"normal", "merge"}

draftVars == <<drafts>>
screenVars == <<tabOn, status, operation>>
queueVars == <<asked, started>>
paneVars == <<paneTabs, screenVars, draftVars, paneMenu, queueVars, refreshing, paneActs>>

PaneActs == paneActs < PaneBound /\ paneActs' = paneActs + 1

\* The panel disables itself while a command runs, not while one waits.
PaneBusy == started

-----------------------------------------------------------------------------
\* The three sections.
ConflictedFiles == {f \in PaneFiles : status[f] = "conflicted"}
Staged == {f \in PaneFiles : status[f] \in {"staged", "both"}}
Unstaged == {f \in PaneFiles : status[f] \in {"unstaged", "both"}}
OperationPending == operation # "normal"

DraftOf(tab) == IF tab \in DOMAIN drafts THEN drafts[tab] ELSE EmptyDraft

\* updateActiveCommitDraft of the render the caller was made in.
WithDraft(tab, draft) ==
    [t \in DOMAIN drafts \cup {tab} |-> IF t = tab THEN draft ELSE drafts[t]]

CanCommit ==
    /\ operation = "normal" /\ ~PaneBusy /\ ConflictedFiles = {}
    /\ DraftOf(tabOn).message # ""
    /\ Staged # {} \/ DraftOf(tabOn).amend

Request(kind, files) ==
    /\ asked' = Append(asked, [tab |-> tabOn, kind |-> kind, files |-> files,
                               draft |-> DraftOf(tabOn)])
    /\ UNCHANGED started

-----------------------------------------------------------------------------
\* Writing the message: the form's fields are disabled while a command runs, the
\* field of the WIP row is not.
TypeInForm ==
    /\ PaneActs
    /\ ~PaneBusy /\ ~OperationPending
    /\ \/ \E word \in Words : drafts' = WithDraft(tabOn, [DraftOf(tabOn) EXCEPT !.message = word])
       \/ \E word \in Words : drafts' = WithDraft(tabOn, [DraftOf(tabOn) EXCEPT !.description = word])
       \/ drafts' = WithDraft(tabOn, [DraftOf(tabOn) EXCEPT !.amend = ~@])
    /\ UNCHANGED <<paneTabs, screenVars, paneMenu, queueVars, refreshing>>

TypeInWipRow ==
    /\ PaneActs
    /\ ConflictedFiles = {}
    /\ \E word \in Words :
          drafts' = WithDraft(tabOn, [DraftOf(tabOn) EXCEPT !.message = word])
    /\ UNCHANGED <<paneTabs, screenVars, paneMenu, queueVars, refreshing>>

\* submit, by the button or the gitcat:commit event of the shortcut.
SubmitCommit ==
    /\ PaneActs
    /\ CanCommit /\ Request("commit", Staged)
    /\ UNCHANGED <<paneTabs, screenVars, draftVars, paneMenu, refreshing>>

-----------------------------------------------------------------------------
\* The buttons of the sections and rows.
StageFiles ==
    /\ PaneActs
    /\ ~PaneBusy /\ ~OperationPending /\ Unstaged # {}
    /\ \E files \in {Unstaged} \cup {{f} : f \in Unstaged} : Request("stage", files)
    /\ UNCHANGED <<paneTabs, screenVars, draftVars, paneMenu, refreshing>>

UnstageFiles ==
    /\ PaneActs
    /\ ~PaneBusy /\ Staged # {}
    /\ \E files \in {Staged} \cup {{f} : f \in Staged} : Request("unstage", files)
    /\ UNCHANGED <<paneTabs, screenVars, draftVars, paneMenu, refreshing>>

\* The bin of the header is not there while a file is in conflict.
DiscardEverything ==
    /\ PaneActs
    /\ ~PaneBusy /\ ConflictedFiles = {} /\ \E f \in PaneFiles : status[f] # "clean"
    /\ Request("discard", {f \in PaneFiles : status[f] # "clean"})
    /\ UNCHANGED <<paneTabs, screenVars, draftVars, paneMenu, refreshing>>

ResolveFiles ==
    /\ PaneActs
    /\ ~PaneBusy /\ ConflictedFiles # {}
    /\ \E files \in {ConflictedFiles} \cup {{f} : f \in ConflictedFiles} : Request("resolve", files)
    /\ UNCHANGED <<paneTabs, screenVars, draftVars, paneMenu, refreshing>>

\* OperationForm: continuing waits for the last conflict; a merge has no skip.
ControlFromForm ==
    /\ PaneActs
    /\ OperationPending /\ ~PaneBusy
    /\ \E kind \in {"continue", "abort"} \cup (IF operation = "merge" THEN {} ELSE {"skip"}) :
          /\ kind = "continue" => ConflictedFiles = {}
          /\ Request(kind, {})
    /\ UNCHANGED <<paneTabs, screenVars, draftVars, paneMenu, refreshing>>

-----------------------------------------------------------------------------
\* The menus keep the entries of the moment they were opened.
OpenFileMenu ==
    /\ PaneActs
    /\ \E f \in PaneFiles, staged \in BOOLEAN :
          /\ f \in (IF staged THEN Staged ELSE Unstaged) /\ (OperationPending => staged)
          /\ paneMenu' = [kind |-> "file", tab |-> tabOn, files |-> {f},
                          conflicts |-> {}, staged |-> staged]
    /\ UNCHANGED <<paneTabs, screenVars, draftVars, queueVars, refreshing>>

OpenFolderMenu ==
    /\ PaneActs
    /\ \E staged \in BOOLEAN :
          LET rows == IF staged THEN Staged
                      ELSE IF ConflictedFiles # {} THEN ConflictedFiles ELSE Unstaged
          IN  /\ rows # {} /\ (OperationPending /\ ~staged => ConflictedFiles # {})
              /\ paneMenu' = [kind |-> "folder", tab |-> tabOn, files |-> rows \ ConflictedFiles,
                              conflicts |-> rows \cap ConflictedFiles, staged |-> staged]
    /\ UNCHANGED <<paneTabs, screenVars, draftVars, queueVars, refreshing>>

\* A file menu has no disabled item; a folder menu's are disabled while busy.
MenuActions ==
    {<<IF paneMenu.staged THEN "unstage" ELSE "stage", paneMenu.files>>,
     <<"discard", paneMenu.files>>, <<"stash", paneMenu.files>>, <<"ignore", {}>>}
    \cup (IF paneMenu.conflicts = {} THEN {} ELSE {<<"resolve", paneMenu.conflicts>>})

ChooseInMenu ==
    /\ PaneActs
    /\ paneMenu # NoPaneMenu
    /\ paneMenu.kind = "folder" => ~PaneBusy
    /\ \E item \in MenuActions :
          /\ item[1] # "ignore" /\ paneMenu.kind = "folder"
                => item[2] # {}
          /\ Request(item[1], item[2])
    /\ paneMenu' = NoPaneMenu
    /\ UNCHANGED <<paneTabs, screenVars, draftVars, refreshing>>

CloseMenuUnused ==
    /\ paneMenu # NoPaneMenu /\ paneMenu' = NoPaneMenu
    /\ UNCHANGED <<paneTabs, screenVars, draftVars, queueVars, refreshing, paneActs>>

-----------------------------------------------------------------------------
\* The queue starts a command once no refresh is under way.
CommandStarts ==
    /\ asked # <<>> /\ ~started /\ ~refreshing
    /\ started' = TRUE
    /\ UNCHANGED <<paneTabs, screenVars, draftVars, paneMenu, asked, refreshing, paneActs>>

\* A mutant: the form clears the draft of the tab on screen.
ClearedOnScreen(command) ==
    WithDraft(tabOn, [command.draft EXCEPT !.message = "", !.description = "", !.amend = FALSE])

\* A commit that was made clears the draft it was made of, in its own tab.
Cleared(command) ==
    WithDraft(command.tab,
              [command.draft EXCEPT !.message = "", !.description = "", !.amend = FALSE])

\* What a load brings: after it the status may be any.
StatusArrives == status' \in [PaneFiles -> Sides] /\ operation' \in Operations

\* The command ends, well or not; its tab's status is loaded again if it is the
\* one on screen.
CommandEnds ==
    /\ started
    /\ \E well \in BOOLEAN :
          /\ drafts' = IF well /\ asked[1].kind = "commit" THEN Cleared(asked[1]) ELSE drafts
          /\ IF well /\ asked[1].tab = tabOn THEN StatusArrives
             ELSE UNCHANGED <<status, operation>>
    /\ asked' = Tail(asked) /\ started' = FALSE
    /\ UNCHANGED <<paneTabs, tabOn, paneMenu, refreshing, paneActs>>

\* The refresh button and the load of a tab; the watcher's loads do not show.
RefreshStarts ==
    /\ ~started /\ ~refreshing /\ refreshing' = TRUE
    /\ UNCHANGED <<paneTabs, screenVars, draftVars, paneMenu, queueVars, paneActs>>

RefreshEnds ==
    /\ refreshing /\ refreshing' = FALSE
    /\ StatusArrives
    /\ UNCHANGED <<paneTabs, tabOn, draftVars, paneMenu, queueVars, paneActs>>

SilentRefresh ==
    /\ ~started /\ StatusArrives
    /\ UNCHANGED <<paneTabs, tabOn, draftVars, paneMenu, queueVars, refreshing, paneActs>>

\* The panel goes with the snapshot of the old tab, and its menus with it.
MenuAfter(tab) == NoPaneMenu

SwitchPane ==
    /\ PaneActs
    /\ \E tab \in paneTabs \ {tabOn} : tabOn' = tab /\ paneMenu' = MenuAfter(tab)
    /\ StatusArrives /\ refreshing' = FALSE
    /\ UNCHANGED <<paneTabs, draftVars, queueVars>>

\* Closing a tab forgets its draft; its commands stay in the queue.
ClosePane ==
    /\ PaneActs
    /\ \E tab \in paneTabs :
          /\ Cardinality(paneTabs) > 1
          /\ paneTabs' = paneTabs \ {tab}
          /\ drafts' = [t \in DOMAIN drafts \ {tab} |-> drafts[t]]
          /\ IF tab = tabOn
             THEN /\ tabOn' \in paneTabs \ {tab} /\ paneMenu' = MenuAfter(tabOn')
                  /\ StatusArrives /\ refreshing' = FALSE
             ELSE UNCHANGED <<screenVars, paneMenu, refreshing>>
    /\ UNCHANGED queueVars

PaneInit ==
    /\ paneTabs = PaneTabs /\ tabOn \in PaneTabs
    /\ drafts = [t \in {} |-> EmptyDraft]
    /\ status \in [PaneFiles -> Sides] /\ operation \in Operations
    /\ paneMenu = NoPaneMenu /\ asked = <<>> /\ started = FALSE
    /\ refreshing = FALSE /\ paneActs = 0

PaneNext ==
    \/ TypeInForm \/ TypeInWipRow \/ SubmitCommit
    \/ StageFiles \/ UnstageFiles \/ DiscardEverything \/ ResolveFiles \/ ControlFromForm
    \/ OpenFileMenu \/ OpenFolderMenu \/ ChooseInMenu \/ CloseMenuUnused
    \/ CommandStarts \/ CommandEnds \/ RefreshStarts \/ RefreshEnds \/ SilentRefresh
    \/ SwitchPane \/ ClosePane

PaneSpec == PaneInit /\ [][PaneNext]_paneVars

-----------------------------------------------------------------------------
\* Types, and a menu on the screen is of the tab on the screen: what it does is
\* done to the repository whose entries it shows.
PaneTypeOK ==
    /\ tabOn \in paneTabs /\ status \in [PaneFiles -> Sides]
    /\ paneMenu # NoPaneMenu => paneMenu.tab = tabOn
    /\ started => asked # <<>>
    /\ \A t \in DOMAIN drafts : drafts[t].message \in Words

\* The end of a command touches no draft but that of the tab it was asked in,
\* whichever tab the user has gone to.
ReturnClearsItsOwn ==
    [][\A t \in PaneTabs :
          started /\ asked' = Tail(asked) /\ t # asked[1].tab
             => /\ t \in DOMAIN drafts' <=> t \in DOMAIN drafts
                /\ t \in DOMAIN drafts => drafts'[t] = drafts[t]]_paneVars

\* Not kept: text leaves a draft only when it was committed (the WIP row can be
\* typed in while the commit runs, the whole form while it waits).
TypedTextStays ==
    [][started /\ asked' = Tail(asked) /\ asked[1].tab \in DOMAIN drafts
         => LET before == drafts[asked[1].tab]
            IN  \/ drafts'[asked[1].tab] = before
                \/ /\ before.message = asked[1].draft.message
                   /\ before.description = asked[1].draft.description]_paneVars

\* Not kept: staging never takes a file in conflict (a menu opened before the
\* conflict still stages it, which marks it resolved).
StageLeavesConflicts ==
    [][\A f \in ConflictedFiles :
          Len(asked') > Len(asked) /\ asked'[Len(asked')].kind = "stage"
             => f \notin asked'[Len(asked')].files]_paneVars

\* Not kept: what the bin discards is in one of the panel's sections (a pending
\* operation hides the unstaged one).
DiscardAllIsShown ==
    [][Len(asked') > Len(asked) /\ asked'[Len(asked')].kind = "discard"
          /\ paneMenu = NoPaneMenu
         => asked'[Len(asked')].files
               \subseteq Staged \cup ConflictedFiles
                  \cup (IF OperationPending THEN {} ELSE Unstaged)]_paneVars
=============================================================================
