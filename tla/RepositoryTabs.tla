--------------------------- MODULE RepositoryTabs ---------------------------
(***************************************************************************)
(* The tabs of the window, the handles they hold in the registry, and the  *)
(* ways a repository comes into a tab: useRepositoryTabs.ts,               *)
(* useWorkspaceBootstrap.ts, useLaunchRepository.ts and launch.rs.         *)
(*                                                                         *)
(* The client runs one callback at a time and renders after each, so an    *)
(* action of it ends at an await; calls to the backend are served in any   *)
(* order.  The registry is the one CoreRegistry promises: an open folder   *)
(* answers with its handle, and every new entry has a new handle.          *)
(***************************************************************************)
EXTENDS Naturals, Sequences, FiniteSets

CONSTANTS
    Tabs, NoTab,   \* tab ids, none
    Roots,         \* worktree roots
    Folders,       \* paths the user picks: roots and folders inside of them
    RootOf,        \* the root Git finds for a folder
    NoHandle,      \* no handle, or an error in its place
    Kinds,         \* the operations the user may ask for
    MaxHandles,    \* bound: times one root enters the registry
    MaxLaunches    \* bound: folders handed over by a launch

ASSUME FoldersAssumption ==
    /\ Roots \subseteq Folders
    /\ Roots \cap {"", "start", "absent"} = {}
    /\ RootOf \in [Folders -> Roots] /\ \A r \in Roots : RootOf[r] = r
ASSUME TabsAssumption == NoTab \notin Tabs
ASSUME KindsAssumption == Kinds \subseteq {"open", "clone", "create", "reopen"}
ASSUME BoundsAssumption == MaxHandles \in Nat \ {0} /\ MaxLaunches \in Nat

Handle == [root : Roots, number : 1 .. MaxHandles]
ASSUME NoHandleAssumption == NoHandle \notin Handle

VARIABLES
    initializing,  \* the stored workspace: "loading", "opening", and then "no"
    page,          \* per tab: its repository_path, "start", or "absent" without the tab
    activeTabId,   \* active_tab_id
    preferred,     \* the active_tab_id of the stored workspace, until its repositories are open
    runtime,       \* per tab: the handle it works with
    errors,        \* the tabs with an error in place of the repository
    opening,       \* per tab: the openRepository the bootstrap or the tab itself has made
    busy, tabWork, \* the operation that sets busy
    closedTabs,    \* the paths of closed tabs, the last one closed last
    disk,          \* the roots that are repositories on disk
    open, used,    \* the registry, per root: the open handle or 0; handles given out
    closes,        \* handles whose close call is on its way
    slot,          \* the folder of the command line, until the client takes it
    handedOver,    \* folders handed over by a launch and not yet answered
    launches

workspaceVars == <<initializing, page, activeTabId, preferred, runtime, errors, opening, busy, tabWork,
                closedTabs>>
registryVars == <<open, used>>
launchVars == <<slot, handedOver, launches>>
tabVars == <<workspaceVars, disk, registryVars, closes, launchVars>>

NoCall == [stage |-> "none", path |-> "", answer |-> NoHandle]
Call == [stage : {"none", "called", "answered"}, path : Roots \cup {""},
         answer : Handle \cup {NoHandle}]
NoWork == [kind |-> "none", stage |-> "none", path |-> "", target |-> NoTab, answer |-> NoHandle]
Work == [kind : Kinds \cup {"open", "none"}, stage : {"none", "called", "extras", "answered"},
         path : Folders \cup {""}, target : Tabs \cup {NoTab}, answer : Handle \cup {NoHandle}]

TabTypeOK ==
    /\ initializing \in {"loading", "opening", "no"}
    /\ page \in [Tabs -> Roots \cup {"start", "absent"}]
    /\ {activeTabId, preferred} \subseteq Tabs \cup {NoTab}
    /\ runtime \in [Tabs -> Handle \cup {NoHandle}]
    /\ errors \subseteq Tabs
    /\ opening \in [Tabs -> Call]
    /\ busy \in BOOLEAN
    /\ tabWork \in Work /\ (busy <=> tabWork.kind # "none")
    /\ closedTabs \in Seq(Roots)
    /\ disk \subseteq Roots
    /\ open \in [Roots -> 0 .. MaxHandles] /\ used \in [Roots -> 0 .. MaxHandles]
    /\ closes \subseteq Handle
    /\ slot \in Folders \cup {""}
    /\ handedOver \subseteq Folders
    /\ launches \in Nat

TabInit ==
    /\ initializing = "loading"
    /\ page = [t \in Tabs |-> "absent"]
    /\ activeTabId = NoTab /\ preferred = NoTab
    /\ runtime = [t \in Tabs |-> NoHandle]
    /\ errors = {}
    /\ opening = [t \in Tabs |-> NoCall]
    /\ busy = FALSE /\ tabWork = NoWork
    /\ closedTabs = <<>>
    /\ disk \in SUBSET Roots
    /\ open = [r \in Roots |-> 0] /\ used = [r \in Roots |-> 0]
    /\ closes = {}
    /\ slot \in (IF MaxLaunches > 0 THEN Folders ELSE {}) \cup {""}
    /\ handedOver = {slot} \ {""}
    /\ launches = IF slot = "" THEN 0 ELSE 1

(***************************************************************************)
(* The registry.                                                           *)
(***************************************************************************)

\* register: the handle the root has, or a new one.
Register(root) ==
    IF open[root] # 0
    THEN UNCHANGED registryVars
    ELSE /\ used[root] < MaxHandles
         /\ used' = [used EXCEPT ![root] = @ + 1]
         /\ open' = [open EXCEPT ![root] = used[root] + 1]

\* After Register, the handle it answers with.
Registered(root) == [root |-> root, number |-> open'[root]]

ServeClose(h) ==
    /\ h \in closes
    /\ closes' = closes \ {h}
    /\ open' = IF open[h.root] = h.number THEN [open EXCEPT ![h.root] = 0] ELSE open
    /\ UNCHANGED <<workspaceVars, disk, used, launchVars>>

(***************************************************************************)
(* Tabs: the updates of setPersisted and setRuntime.                       *)
(***************************************************************************)
Present(t) == page[t] # "absent"
Holding(root) == {t \in Tabs : page[t] = root}

\* An id that is only not on the screen.
FreshByAbsence == {t \in Tabs : ~ Present(t)}

\* makeId: the id of no tab, past or present.  What an answer notes under the id of
\* a closed tab is never read again, so such an id is free once its call is answered.
Fresh == {t \in Tabs : ~ Present(t) /\ opening[t] = NoCall}

\* Bound: as many ids left for new tabs as what is at work and on its way will need.
Room(n) == Cardinality(Fresh) >= n + (IF slot = "" THEN 0 ELSE 1)

\* revealTab: the tab forward, the start tab that asked for it away.
Reveal(t, target) ==
    /\ page' = [s \in Tabs |-> IF s = target THEN "absent" ELSE page[s]]
    /\ activeTabId' = t
    /\ UNCHANGED <<runtime, errors>>

Fill(t, h) ==
    /\ page' = [page EXCEPT ![t] = h.root]
    /\ runtime' = [runtime EXCEPT ![t] = h]
    /\ errors' = errors \ {t}
    /\ activeTabId' = t

\* adoptRepository: into the tab that asked for it, or into a new one.
Adopt(h, target) ==
    IF target # NoTab
    THEN Fill(target, h)
    ELSE \E t \in Fresh : Fill(t, h)

(***************************************************************************)
(* The operations that set busy.                                           *)
(***************************************************************************)
StartWork(kind, path, target) ==
    /\ target # NoTab \/ Fresh # {}
    /\ busy' = TRUE
    /\ tabWork' = [kind |-> kind, stage |-> "called", path |-> path, target |-> target,
                answer |-> NoHandle]

\* openRepositoryPath up to its await.
OpenPath(path, target) ==
    /\ ~ busy
    /\ IF Holding(path) # {}
       THEN /\ \E t \in Holding(path) : Reveal(t, target)
            /\ handedOver' = handedOver \ {path}
            /\ UNCHANGED <<busy, tabWork>>
       ELSE /\ StartWork("open", path, target)
            /\ UNCHANGED <<page, activeTabId, runtime, errors, handedOver>>
    /\ UNCHANGED <<initializing, preferred, opening, closedTabs, disk, registryVars, closes>>

Usable == initializing = "no"

\* From a start page, which is the active tab, or from the menu.
Targets == {NoTab} \cup {t \in Tabs : t = activeTabId /\ page[t] = "start"}

ChooseRepository(path) ==
    /\ Usable /\ "open" \in Kinds
    /\ \E target \in Targets : (target = NoTab => Room(1)) /\ OpenPath(path, target)
    /\ UNCHANGED <<slot, launches>>

\* cloneRepository and createRepository: into a folder the user names.
CloneOrCreate(kind, path) ==
    /\ Usable /\ kind \in Kinds \cap {"clone", "create"} /\ ~ busy
    /\ path \in Roots
    /\ \E target \in Targets : (target = NoTab => Room(1)) /\ StartWork(kind, path, target)
    /\ UNCHANGED <<initializing, preferred, page, activeTabId, runtime, errors, opening, closedTabs,
                   disk, registryVars, closes, launchVars>>

\* reopenClosedRepository: the last closed path that no tab holds.
ReopenClosed ==
    LET missing == {i \in DOMAIN closedTabs : Holding(closedTabs[i]) = {}} IN
    /\ Usable /\ "reopen" \in Kinds /\ ~ busy /\ closedTabs # <<>> /\ Room(1)
    /\ IF missing = {}
       THEN closedTabs' = <<>> /\ UNCHANGED <<busy, tabWork>>
       ELSE \E last \in missing :
            /\ \A i \in missing : i <= last
            /\ closedTabs' = SubSeq(closedTabs, 1, last - 1)
            /\ StartWork("reopen", closedTabs[last], NoTab)
    /\ UNCHANGED <<initializing, preferred, page, activeTabId, runtime, errors, opening,
                   disk, registryVars, closes, launchVars>>

\* What the backend makes of it: git finds, clones or creates the repository.
ServeWork ==
    LET root == RootOf[tabWork.path] IN
    /\ tabWork.stage = "called"
    /\ IF tabWork.kind \in {"open", "reopen"}
       THEN root \in disk /\ UNCHANGED disk
       ELSE /\ tabWork.kind = "clone" => root \notin disk
            /\ disk' = disk \cup {root}
    /\ Register(root)
    /\ tabWork' = [tabWork EXCEPT !.stage = IF tabWork.kind = "create" THEN "extras" ELSE "answered",
                            !.answer = Registered(root)]
    /\ UNCHANGED <<initializing, preferred, page, activeTabId, runtime, errors, opening, busy, closedTabs,
                   closes, launchVars>>

\* The ignore file and the remote of a new repository.
ServeExtras ==
    /\ tabWork.stage = "extras"
    /\ tabWork' = [tabWork EXCEPT !.stage = "answered"]
    /\ UNCHANGED <<initializing, preferred, page, activeTabId, runtime, errors, opening, busy, closedTabs,
                   disk, registryVars, closes, launchVars>>

RefuseWork ==
    /\ tabWork.stage \in {"called", "extras"}
    /\ tabWork' = [tabWork EXCEPT !.stage = "answered", !.answer = NoHandle]
    /\ UNCHANGED <<initializing, preferred, page, activeTabId, runtime, errors, opening, busy, closedTabs,
                   disk, registryVars, closes, launchVars>>

\* FinishWork without the second search for a tab that holds the repository.
FinishWithoutSearch ==
    LET h == tabWork.answer IN
    /\ tabWork.stage = "answered"
    /\ IF h = NoHandle THEN UNCHANGED <<page, activeTabId, runtime, errors>> ELSE Adopt(h, tabWork.target)
    /\ busy' = FALSE /\ tabWork' = NoWork
    /\ handedOver' = handedOver \ {tabWork.path}
    /\ UNCHANGED <<initializing, preferred, opening, closedTabs, disk, registryVars, closes, slot, launches>>

\* The rest of the operation after its await.
FinishWork ==
    LET h == tabWork.answer IN
    /\ tabWork.stage = "answered"
    /\ \/ h = NoHandle /\ UNCHANGED <<page, activeTabId, runtime, errors>>
       \/ /\ h # NoHandle /\ tabWork.kind = "open" /\ Holding(h.root) # {}
          /\ \E t \in Holding(h.root) : Reveal(t, tabWork.target)
       \/ /\ h # NoHandle /\ (tabWork.kind = "open" => Holding(h.root) = {})
          /\ Adopt(h, tabWork.target)
    /\ busy' = FALSE /\ tabWork' = NoWork
    /\ handedOver' = handedOver \ {tabWork.path}
    /\ UNCHANGED <<initializing, preferred, opening, closedTabs, disk, registryVars, closes, slot, launches>>

(***************************************************************************)
(* Tabs without an await.                                                  *)
(***************************************************************************)
OpenStartTab ==
    /\ Usable /\ ~ busy /\ Room(1)
    /\ \E t \in Fresh : page' = [page EXCEPT ![t] = "start"] /\ activeTabId' = t
    /\ UNCHANGED <<initializing, preferred, runtime, errors, opening, busy, tabWork, closedTabs,
                   disk, registryVars, closes, launchVars>>

Select(t) ==
    /\ Usable /\ Present(t) /\ activeTabId # t
    /\ activeTabId' = t
    /\ UNCHANGED <<initializing, preferred, page, runtime, errors, opening, busy, tabWork, closedTabs,
                   disk, registryVars, closes, launchVars>>

\* A list of closed tabs, where each path stands once at most, without this one.
Without(paths, root) ==
    LET at == {i \in DOMAIN paths : paths[i] = root} IN
    IF at = {} THEN paths
    ELSE LET i == CHOOSE i \in at : TRUE
         IN  SubSeq(paths, 1, i - 1) \o SubSeq(paths, i + 1, Len(paths))

\* closeTab: the close call is sent and not waited for.
CloseTab(t) ==
    LET rest == {s \in Tabs \ {t} : Present(s)} IN
    /\ Usable /\ ~ busy /\ Present(t)
    /\ closedTabs' = IF page[t] = "start" THEN closedTabs
                     ELSE Append(Without(closedTabs, page[t]), page[t])
    /\ closes' = closes \cup ({runtime[t]} \ {NoHandle})
    /\ page' = [page EXCEPT ![t] = "absent"]
    /\ runtime' = [runtime EXCEPT ![t] = NoHandle]
    /\ errors' = errors \ {t}
    /\ IF activeTabId # t THEN activeTabId' = activeTabId
       ELSE IF rest = {} THEN activeTabId' = NoTab ELSE activeTabId' \in rest
    /\ UNCHANGED <<initializing, preferred, opening, busy, tabWork, disk, registryVars, launchVars>>

(***************************************************************************)
(* openTabRepository: the active tab opens itself, or is told to try again.*)
(***************************************************************************)
OpensItself(t) == Usable /\ activeTabId = t /\ page[t] \in Roots /\ runtime[t] = NoHandle

CallFor(root) == [stage |-> "called", path |-> root, answer |-> NoHandle]

OpenTab(t) ==
    /\ OpensItself(t) /\ opening[t] = NoCall
    /\ opening' = [opening EXCEPT ![t] = CallFor(page[t])]
    /\ UNCHANGED <<initializing, preferred, page, activeTabId, runtime, errors, busy, tabWork, closedTabs,
                   disk, registryVars, closes, launchVars>>

ServeTab(t) ==
    LET root == opening[t].path
        OpenAnswer(h) == opening' = [opening EXCEPT ![t].stage = "answered", ![t].answer = h] IN
    /\ opening[t].stage = "called"
    /\ \/ root \in disk /\ Register(root) /\ OpenAnswer(Registered(root))
       \/ OpenAnswer(NoHandle) /\ UNCHANGED registryVars
    /\ UNCHANGED <<initializing, preferred, page, activeTabId, runtime, errors, busy, tabWork, closedTabs,
                   disk, closes, launchVars>>

\* The answer of openTabRepository without the tab's error.
TabOpenedUnnoticed(t) ==
    LET h == opening[t].answer IN
    /\ Usable /\ opening[t].stage = "answered"
    /\ IF ~ Present(t) \/ h = NoHandle THEN UNCHANGED <<runtime, errors>>
       ELSE runtime' = [runtime EXCEPT ![t] = h] /\ errors' = errors \ {t}
    /\ opening' = [opening EXCEPT ![t] = NoCall]
    /\ UNCHANGED <<initializing, preferred, page, activeTabId, busy, tabWork, closedTabs,
                   disk, registryVars, closes, launchVars>>

TabOpened(t) ==
    LET h == opening[t].answer IN
    /\ Usable /\ opening[t].stage = "answered"
    /\ IF ~ Present(t) THEN UNCHANGED <<runtime, errors>>
       ELSE /\ runtime' = IF h = NoHandle THEN runtime ELSE [runtime EXCEPT ![t] = h]
            /\ errors' = IF h = NoHandle THEN errors \cup {t} ELSE errors \ {t}
    /\ opening' = [opening EXCEPT ![t] = NoCall]
    /\ UNCHANGED <<initializing, preferred, page, activeTabId, busy, tabWork, closedTabs,
                   disk, registryVars, closes, launchVars>>

(***************************************************************************)
(* The bootstrap: the stored workspace, and every repository of it at once.*)
(***************************************************************************)
\* setPersisted(state) replaces what a launch has opened meanwhile.
LoadState ==
    /\ initializing = "loading"
    /\ page' \in [Tabs -> Roots \cup {"start", "absent"}]
    /\ \A t \in Tabs \ Fresh : page'[t] = "absent"
    /\ Cardinality({t \in Fresh : page'[t] # "absent"}) + (IF busy THEN 1 ELSE 0)
          + (IF slot = "" THEN 0 ELSE 1) <= Cardinality(Fresh)
    /\ \A s, t \in Tabs : page'[s] = page'[t] /\ page'[s] \in Roots => s = t
    /\ activeTabId' \in {NoTab} \cup {t \in Tabs : page'[t] # "absent"}
    /\ opening' = [t \in Tabs |-> IF page'[t] \in Roots THEN CallFor(page'[t]) ELSE NoCall]
    /\ IF \E t \in Tabs : page'[t] \in Roots
       THEN initializing' = "opening" /\ preferred' = activeTabId'
       ELSE initializing' = "no" /\ preferred' = NoTab
    /\ runtime' = [t \in Tabs |-> NoHandle]
    /\ UNCHANGED <<errors, busy, tabWork, closedTabs, disk, registryVars, closes, launchVars>>

\* The file cannot be read: an empty workspace.
CannotLoadState ==
    /\ initializing = "loading"
    /\ initializing' = "no"
    /\ UNCHANGED <<page, activeTabId, preferred, runtime, errors, opening, busy, tabWork, closedTabs,
                   disk, registryVars, closes, launchVars>>

StoredTabsOpened ==
    LET opened == {t \in Tabs : opening[t].answer # NoHandle}
        failed == {t \in Tabs : opening[t].stage = "answered"} \ opened IN
    /\ initializing = "opening"
    /\ \A t \in Tabs : opening[t].stage # "called"
    /\ runtime' = [t \in Tabs |-> opening[t].answer]
    /\ errors' = failed
    /\ IF preferred = NoTab \/ (preferred \notin opened /\ page[preferred] # "start")
       THEN IF opened = {} THEN activeTabId' = NoTab ELSE activeTabId' \in opened
       ELSE UNCHANGED activeTabId
    /\ opening' = [t \in Tabs |-> NoCall]
    /\ initializing' = "no" /\ preferred' = NoTab
    /\ UNCHANGED <<page, busy, tabWork, closedTabs, disk, registryVars, closes, launchVars>>

(***************************************************************************)
(* Folders from outside: the command line, and later launches.             *)
(***************************************************************************)

\* openRepositoryPath returns at once while busy: the folder is dropped.
OpenLaunched(path) ==
    IF busy THEN UNCHANGED <<workspaceVars, disk, registryVars, closes, handedOver>>
    ELSE OpenPath(path, NoTab)

CollectSlot ==
    /\ Usable /\ slot # ""
    /\ OpenLaunched(slot)
    /\ slot' = "" /\ UNCHANGED launches

Launch(path) ==
    /\ launches < MaxLaunches /\ path \notin handedOver /\ Room(1)
    /\ launches' = launches + 1
    /\ \/ /\ busy /\ handedOver' = handedOver \cup {path}
          /\ UNCHANGED <<workspaceVars, disk, registryVars, closes>>
       \/ /\ ~ busy /\ Holding(path) # {} /\ OpenPath(path, NoTab)
       \/ /\ ~ busy /\ Holding(path) = {}
          /\ StartWork("open", path, NoTab) /\ handedOver' = handedOver \cup {path}
          /\ UNCHANGED <<initializing, preferred, page, activeTabId, runtime, errors, opening, closedTabs,
                         disk, registryVars, closes>>
    /\ UNCHANGED slot

-----------------------------------------------------------------------------
Client ==
    \/ \E f \in Folders : ChooseRepository(f) \/ \E kind \in Kinds : CloneOrCreate(kind, f)
    \/ ReopenClosed \/ OpenStartTab
    \/ \E t \in Tabs : Select(t) \/ CloseTab(t) \/ OpenTab(t)

\* What the client and the backend go on with by themselves.
ServeCalls == ServeWork \/ ServeExtras \/ RefuseWork
OpenAnswer == StoredTabsOpened \/ FinishWork
Bootstrap == LoadState \/ CannotLoadState

TabNext ==
    \/ Bootstrap \/ Client \/ ServeCalls \/ OpenAnswer \/ CollectSlot
    \/ \E t \in Tabs : ServeTab(t) \/ TabOpened(t)
    \/ \E h \in closes : ServeClose(h)
    \/ \E f \in Folders : Launch(f)

TabSpec == TabInit /\ [][TabNext]_tabVars

\* Every command of git ends, at its timeout at the latest, and so does every
\* await; the effect opens the active tab unless that has just failed.
TabFairness ==
    /\ WF_tabVars(Bootstrap) /\ WF_tabVars(ServeCalls) /\ WF_tabVars(OpenAnswer) /\ WF_tabVars(CollectSlot)
    /\ \A t \in Tabs : /\ WF_tabVars(ServeTab(t)) /\ WF_tabVars(TabOpened(t))
                       /\ WF_tabVars(t \notin errors /\ OpenTab(t))
FairTabSpec == TabSpec /\ TabFairness

-----------------------------------------------------------------------------
(***************************************************************************)
(* Properties.                                                             *)
(***************************************************************************)

\* A tab never works on another repository than the one it names: whichever open
\* calls of it, of the bootstrap and of other tabs are answered in which order.
TabShowsItsRepository ==
    \A t \in Tabs : page[t] \in Roots /\ runtime[t] # NoHandle => runtime[t].root = page[t]

\* Opening, reopening and launching never list a repository twice, also when the
\* folder is only known to be part of it after the answer: a second tab of one
\* repository comes of a clone or a create into a folder that a tab already names.
OneTabPerRepository ==
    [][\A s, t \in Tabs : s # t /\ page'[s] = page'[t] /\ page'[s] \in Roots =>
          page[s] = page[t] \/ tabWork.kind \in {"clone", "create"}]_tabVars

\* The active tab is one that is there.
ActiveExists == activeTabId # NoTab => Present(activeTabId)

\* The active tab of a repository gets its handle or an error; it does not stay
\* blank, whatever the bootstrap or a close has taken from it.
ActiveTabOpens ==
    \A t \in Tabs : OpensItself(t) ~> ~ OpensItself(t) \/ t \in errors

(***************************************************************************)
(* What the docs and comments say and the code does not keep: each has a   *)
(* counterexample, told in README.md under Disagreements.                  *)
(***************************************************************************)

\* Nothing is on its way.
Quiet == Usable /\ ~ busy /\ closes = {} /\ \A t \in Tabs : opening[t] = NoCall

\* "When the last UI tab closes, close_repository(id) releases the registry entry":
\* with nothing on its way, every entry is held by a tab,
HandlesAreHeld ==
    Quiet => \A r \in Roots : open[r] # 0 =>
        \E t \in Tabs : Present(t) /\ runtime[t] = [root |-> r, number |-> open[r]]

\* and only the last tab's close releases it: a tab's handle is open.
TabsAreUsable ==
    Quiet => \A t \in Tabs : Present(t) /\ runtime[t] # NoHandle =>
        open[runtime[t].root] = runtime[t].number

\* "Opening a folder that way hands it to the window that is already running as a
\* new tab": a folder handed over is opened, or refused with an error.
LaunchesAreAnswered == \A f \in Folders : f \in handedOver ~> f \notin handedOver
=============================================================================
