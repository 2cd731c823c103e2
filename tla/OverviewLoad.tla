---------------------------- MODULE OverviewLoad ----------------------------
(***************************************************************************)
(* What the desktop client shows of the active repository, and how it is   *)
(* kept current: useRepositoryOverview.ts, useAutoRefresh.ts and the       *)
(* optimistic mutations of useWorktreeMutations.ts, over one screen.       *)
(*                                                                         *)
(* JavaScript runs one continuation at a time; between two awaits nothing  *)
(* else runs, so an action is a continuation.  React is taken to have      *)
(* rendered an update before the next event of the model.                  *)
(*                                                                         *)
(* A load or a page compares the sequence number it took with the current  *)
(* one.  The comparison is all the code does with the numbers, so a call   *)
(* in flight carries its outcome instead: `latest` is true until the       *)
(* number is incremented again.                                            *)
(***************************************************************************)
EXTENDS Naturals, Sequences, FiniteSets

CONSTANTS
    Repos, NoRepo,   \* repositories with a tab; no tab, or a start tab
    Clicks, NoClick, \* repository mutations the user asks for, each once
    NoScreen,        \* a null snapshot or history
    Unread,          \* the part of an answer that has not been read yet
    Watched,         \* BOOLEAN: the tauri runtime, with its file watcher
    AutoFetch,       \* BOOLEAN: auto_fetch_interval_minutes is not 0
    Staging,         \* BOOLEAN: mutations may be optimistic ones
    MaxVersion,      \* bound: changes of one repository
    MaxLoads,        \* bound: overview loads that nothing awaits, and pages, in flight
    MaxPages,        \* pages the history of a repository has
    MaxFailures      \* bound: loads that fail

ASSUME NamesAssumption == NoRepo \notin Repos /\ NoClick \notin Clicks
ASSUME SwitchAssumption == {Watched, AutoFetch, Staging} \subseteq BOOLEAN
ASSUME BoundsAssumption == {MaxVersion, MaxLoads, MaxPages, MaxFailures} \subseteq Nat
ASSUME UnreadAssumption == Unread \notin Nat

VARIABLES
    version,         \* per repository: how often it has changed on disk
    notices,         \* repositories with a repository:changed event on its way
    active,          \* activeRepositoryIdRef.current
    snapshot,        \* the snapshot on the screen
    history,         \* the history on the screen: its pages
    overviewLoading,
    historyLoading,
    busy,
    loads,           \* calls of loadOverview in flight
    pages,           \* calls of history() by loadMoreHistory in flight
    queue,           \* the mutation queue: the running click, then the waiting ones
    click,           \* per click: where it is and what its closure captured
    fetching,        \* repositories with an automatic fetch in flight
    failures

screenVars == <<active, snapshot, history, overviewLoading, historyLoading>>
mutationVars == <<queue, click, busy>>
vars == <<version, notices, screenVars, loads, pages, mutationVars, fetching, failures>>

\* What of a repository the client can tell apart: its version, and the hopes
\* that optimisticWorktreeSnapshot added for clicks still at work.
Snapshot == [repo : Repos, version : Nat, hopes : SUBSET Clicks]
Page == [version : Nat, number : Nat \ {0}]
History == [repo : Repos, pages : Seq(Page)]
Load == [repo : Repos, loud : BOOLEAN, latest : BOOLEAN, by : Clicks \cup {NoClick},
         snapshot : Nat \cup {Unread}, history : Nat \cup {Unread}]
PageCall == [repo : Repos, latest : BOOLEAN, cursor : Page,
             answer : {"pending", "page", "stale"}]
Stages == {"new", "queued", "operating", "reloading", "done", "failed", "gave up"}
Click == [stage : Stages, repo : Repos \cup {NoRepo}, optimistic : BOOLEAN,
          captured : Snapshot \cup {NoScreen}]
ASSUME NoScreenAssumption == NoScreen \notin Snapshot \cup History

TypeOK ==
    /\ version \in [Repos -> Nat]
    /\ notices \subseteq Repos
    /\ active \in Repos \cup {NoRepo}
    /\ snapshot \in Snapshot \cup {NoScreen}
    /\ history = NoScreen \/ history \in History
    /\ {overviewLoading, historyLoading, busy} \subseteq BOOLEAN
    /\ loads \subseteq Load
    /\ pages \subseteq PageCall
    /\ queue \in Seq(Clicks)
    /\ click \in [Clicks -> Click]
    /\ fetching \subseteq Repos
    /\ failures \in Nat

Init ==
    /\ version = [r \in Repos |-> 0]
    /\ notices = {}
    /\ active = NoRepo
    /\ snapshot = NoScreen
    /\ history = NoScreen
    /\ overviewLoading = FALSE
    /\ historyLoading = FALSE
    /\ busy = FALSE
    /\ loads = {}
    /\ pages = {}
    /\ queue = <<>>
    /\ click = [c \in Clicks |-> [stage |-> "new", repo |-> NoRepo, optimistic |-> FALSE,
                                  captured |-> NoScreen]]
    /\ fetching = {}
    /\ failures = 0

(***************************************************************************)
(* The repository, and the watcher that follows the active one.            *)
(***************************************************************************)
Notify(r) == notices' = IF Watched /\ active = r THEN notices \cup {r} ELSE notices

Touch(r) ==
    \/ version[r] < MaxVersion /\ version' = [version EXCEPT ![r] = @ + 1] /\ Notify(r)
    \/ UNCHANGED <<version, notices>>

ExternalChange(r) ==
    /\ version[r] < MaxVersion
    /\ version' = [version EXCEPT ![r] = @ + 1]
    /\ Notify(r)
    /\ UNCHANGED <<screenVars, loads, pages, mutationVars, fetching, failures>>

(***************************************************************************)
(* loadOverview(repository, preserveSelection, showLoading)                *)
(***************************************************************************)
Superseded(calls) == {[l EXCEPT !.latest = FALSE] : l \in calls}

NewLoad(r, loud, c) ==
    [repo |-> r, loud |-> loud, latest |-> TRUE, by |-> c, snapshot |-> Unread, history |-> Unread]

\* Up to its await, for the repository that is active.
LoadOverview(r, loud, c) ==
    /\ loads' = Superseded(loads) \cup {NewLoad(r, loud, c)}
    /\ IF loud
       THEN /\ overviewLoading' = TRUE
            /\ historyLoading' = FALSE
            /\ pages' = Superseded(pages)
       ELSE UNCHANGED <<overviewLoading, historyLoading, pages>>
    /\ UNCHANGED <<active, snapshot, history>>

MayLoad == Cardinality({l \in loads : l.by = NoClick}) < MaxLoads

\* The snapshot and the first history page are separate requests, so what they
\* find may belong to different versions.
ReadSnapshot(l) ==
    /\ l.snapshot = Unread
    /\ loads' = (loads \ {l}) \cup {[l EXCEPT !.snapshot = version[l.repo]]}
    /\ UNCHANGED <<version, notices, screenVars, pages, mutationVars, fetching, failures>>

ReadHistory(l) ==
    /\ l.history = Unread
    /\ loads' = (loads \ {l}) \cup {[l EXCEPT !.history = version[l.repo]]}
    /\ UNCHANGED <<version, notices, screenVars, pages, mutationVars, fetching, failures>>

\* Mutant of Current: the sequence numbers are not compared.
CurrentByRepo(l) == active = l.repo

Current(l) == l.latest /\ active = l.repo

\* A click is over: the finally block of runMutation, and the queue moves on.
EndClick(c, stage) ==
    /\ click' = [click EXCEPT ![c].stage = stage]
    /\ queue' = Tail(queue)
    /\ busy' = FALSE

\* The finally block of loadOverview, and of the mutation that awaits it.
Settle(l) ==
    /\ loads' = loads \ {l}
    /\ overviewLoading' = (overviewLoading /\ ~ (l.loud /\ Current(l)))
    /\ IF l.by = NoClick THEN UNCHANGED mutationVars ELSE EndClick(l.by, "done")

Deliver(l) ==
    /\ l.snapshot # Unread /\ l.history # Unread
    /\ IF Current(l)
       THEN /\ snapshot' = [repo |-> l.repo, version |-> l.snapshot, hopes |-> {}]
            /\ history' = [repo |-> l.repo, pages |-> <<[version |-> l.history, number |-> 1]>>]
       ELSE UNCHANGED <<snapshot, history>>
    /\ Settle(l)
    /\ UNCHANGED <<version, notices, active, historyLoading, pages, fetching, failures>>

FailLoad(l) ==
    /\ failures < MaxFailures
    /\ failures' = failures + 1
    /\ Settle(l)
    /\ UNCHANGED <<version, notices, active, snapshot, history, historyLoading, pages, fetching>>

(***************************************************************************)
(* The tab changes: the effect on activeRepository.                        *)
(***************************************************************************)
\* Mutant of Switch: the screen of the tab that is left stays until the load ends.
SwitchKeepingScreen(r) ==
    /\ r # active
    /\ r # NoRepo => MayLoad
    /\ active' = r
    /\ historyLoading' = FALSE
    /\ pages' = Superseded(pages)
    /\ overviewLoading' = (r # NoRepo)
    /\ loads' = Superseded(loads) \cup (IF r = NoRepo THEN {} ELSE {NewLoad(r, TRUE, NoClick)})
    /\ \E dropped \in SUBSET {active} : notices' = notices \ dropped
    /\ UNCHANGED <<version, snapshot, history, mutationVars, fetching, failures>>

\* Mutant of Switch: a start tab does not clear the spinner.
SwitchKeepingSpinner(r) ==
    /\ r # active
    /\ r # NoRepo => MayLoad
    /\ active' = r
    /\ snapshot' = NoScreen
    /\ history' = NoScreen
    /\ historyLoading' = FALSE
    /\ pages' = Superseded(pages)
    /\ overviewLoading' = (r # NoRepo \/ overviewLoading)
    /\ loads' = Superseded(loads) \cup (IF r = NoRepo THEN {} ELSE {NewLoad(r, TRUE, NoClick)})
    /\ \E dropped \in SUBSET {active} : notices' = notices \ dropped
    /\ UNCHANGED <<version, mutationVars, fetching, failures>>

Switch(r) ==
    /\ r # active
    /\ r # NoRepo => MayLoad
    /\ active' = r
    /\ snapshot' = NoScreen
    /\ history' = NoScreen
    /\ historyLoading' = FALSE
    /\ pages' = Superseded(pages)
    /\ overviewLoading' = (r # NoRepo)
    /\ loads' = Superseded(loads) \cup (IF r = NoRepo THEN {} ELSE {NewLoad(r, TRUE, NoClick)})
    /\ \E dropped \in SUBSET {active} : notices' = notices \ dropped
    /\ UNCHANGED <<version, mutationVars, fetching, failures>>

(***************************************************************************)
(* useAutoRefresh: F5, the watcher's event, the fetch timer.               *)
(***************************************************************************)
Free == active # NoRepo /\ ~ busy /\ ~ overviewLoading

Refresh ==
    /\ Free /\ MayLoad
    /\ LoadOverview(active, TRUE, NoClick)
    /\ UNCHANGED <<version, notices, mutationVars, fetching, failures>>

Notice(r) ==
    /\ r \in notices
    /\ notices' = notices \ {r}
    /\ IF r = active /\ Free
       THEN MayLoad /\ LoadOverview(r, FALSE, NoClick)
       ELSE UNCHANGED <<screenVars, loads, pages>>
    /\ UNCHANGED <<version, mutationVars, fetching, failures>>

StartFetch ==
    /\ AutoFetch /\ Free
    /\ snapshot # NoScreen
    /\ active \notin fetching
    /\ fetching' = fetching \cup {active}
    /\ UNCHANGED <<version, notices, screenVars, loads, pages, mutationVars, failures>>

EndFetch(r) ==
    /\ r \in fetching
    /\ fetching' = fetching \ {r}
    /\ Touch(r)
    /\ IF r = active
       THEN MayLoad /\ LoadOverview(r, FALSE, NoClick)
       ELSE UNCHANGED <<screenVars, loads, pages>>
    /\ UNCHANGED <<mutationVars, failures>>

FailFetch(r) ==
    /\ r \in fetching
    /\ fetching' = fetching \ {r}
    /\ Touch(r)
    /\ UNCHANGED <<screenVars, loads, pages, mutationVars, failures>>

(***************************************************************************)
(* loadMoreHistory                                                         *)
(***************************************************************************)
LastPage == history.pages[Len(history.pages)]

LoadMore ==
    /\ Free /\ ~ historyLoading
    /\ Cardinality(pages) < MaxLoads
    /\ history # NoScreen
    /\ LastPage.number < MaxPages
    /\ historyLoading' = TRUE
    /\ pages' = Superseded(pages) \cup
                {[repo |-> active, latest |-> TRUE, cursor |-> LastPage, answer |-> "pending"]}
    /\ UNCHANGED <<version, notices, active, snapshot, history, overviewLoading, loads,
                   mutationVars, fetching, failures>>

\* The backend refuses the cursor of another generation.
ServePage(p) ==
    /\ p.answer = "pending"
    /\ pages' = (pages \ {p}) \cup
          {[p EXCEPT !.answer = IF version[p.repo] = p.cursor.version THEN "page" ELSE "stale"]}
    /\ UNCHANGED <<version, notices, screenVars, loads, mutationVars, fetching, failures>>

NextPage(p) == [p.cursor EXCEPT !.number = @ + 1]

DeliverPage(p) ==
    /\ p.answer # "pending"
    /\ pages' = pages \ {p}
    /\ IF Current(p)
       THEN /\ historyLoading' = FALSE
            /\ history' = CASE p.answer = "stale" -> history
                            [] history = NoScreen -> [repo |-> p.repo, pages |-> <<NextPage(p)>>]
                            [] OTHER -> [history EXCEPT !.pages = Append(@, NextPage(p))]
       ELSE UNCHANGED <<historyLoading, history>>
    /\ UNCHANGED <<version, notices, active, snapshot, overviewLoading, loads, mutationVars,
                   fetching, failures>>

(***************************************************************************)
(* runMutation, behind the mutation queue                                  *)
(***************************************************************************)

\* The closures passed to the queue hold the repository and the snapshot of the
\* render in which the button was pressed.
Press(c, optimistic) ==
    /\ click[c].stage = "new"
    /\ active # NoRepo
    /\ click' = [click EXCEPT ![c] = [stage |-> "queued", repo |-> active,
                                      optimistic |-> optimistic, captured |-> snapshot]]
    /\ queue' = Append(queue, c)
    /\ UNCHANGED <<version, notices, screenVars, loads, pages, busy, fetching, failures>>

Waits(c) == queue # <<>> /\ Head(queue) = c /\ click[c].stage = "queued"
CanHope(c) == click[c].optimistic /\ click[c].captured # NoScreen /\ active = click[c].repo

\* Mutant of Launch: the queue waits for other mutations only.
LaunchWhileLoading(c) ==
    /\ Waits(c)
    /\ ~ busy
    /\ click' = [click EXCEPT ![c].stage = "operating"]
    /\ busy' = TRUE
    /\ loads' = Superseded(loads)
    /\ snapshot' = IF CanHope(c) /\ snapshot # NoScreen
                   THEN [snapshot EXCEPT !.hopes = @ \cup {c}] ELSE snapshot
    /\ UNCHANGED <<version, notices, active, history, overviewLoading, historyLoading, pages,
                   queue, fetching, failures>>

Launch(c) ==
    /\ Waits(c)
    /\ ~ busy /\ ~ overviewLoading
    /\ click' = [click EXCEPT ![c].stage = "operating"]
    /\ busy' = TRUE
    /\ loads' = Superseded(loads)
    /\ snapshot' = IF CanHope(c) /\ snapshot # NoScreen
                   THEN [snapshot EXCEPT !.hopes = @ \cup {c}] ELSE snapshot
    /\ UNCHANGED <<version, notices, active, history, overviewLoading, historyLoading, pages,
                   queue, fetching, failures>>

\* untilFree has waited for its timeout: the task is never run.
GiveUp(c) ==
    /\ Waits(c)
    /\ busy \/ overviewLoading
    /\ click' = [click EXCEPT ![c].stage = "gave up"]
    /\ queue' = Tail(queue)
    /\ UNCHANGED <<version, notices, screenVars, loads, pages, busy, fetching, failures>>

OperationSucceeds(c) ==
    /\ click[c].stage = "operating"
    /\ Touch(click[c].repo)
    /\ IF active = click[c].repo
       THEN /\ LoadOverview(active, TRUE, c)
            /\ click' = [click EXCEPT ![c].stage = "reloading"]
            /\ UNCHANGED <<queue, busy>>
       ELSE /\ EndClick(c, "done")
            /\ UNCHANGED <<screenVars, loads, pages>>
    /\ UNCHANGED <<fetching, failures>>

\* rollbackOptimistic puts back what the closure captured.
OperationFails(c) ==
    /\ click[c].stage = "operating"
    /\ Touch(click[c].repo)
    /\ snapshot' = IF CanHope(c) THEN click[c].captured ELSE snapshot
    /\ EndClick(c, "failed")
    /\ UNCHANGED <<active, history, overviewLoading, historyLoading, loads, pages,
                   fetching, failures>>

-----------------------------------------------------------------------------
User ==
    \/ \E r \in Repos \cup {NoRepo} : Switch(r)
    \/ Refresh \/ LoadMore
    \/ \E c \in Clicks : \E optimistic \in {FALSE, Staging} : Press(c, optimistic)

\* What the event loop and the backend bring about by themselves.
AnswerLoad(l) == ReadSnapshot(l) \/ ReadHistory(l) \/ Deliver(l)
AnswerPage(p) == ServePage(p) \/ DeliverPage(p)
EndOfFetch == \E r \in Repos : EndFetch(r) \/ FailFetch(r)
Advance(c) == Launch(c) \/ GiveUp(c) \/ OperationSucceeds(c) \/ OperationFails(c)

Next ==
    \/ User
    \/ \E l \in loads : AnswerLoad(l) \/ FailLoad(l)
    \/ \E p \in pages : AnswerPage(p)
    \/ \E r \in Repos : ExternalChange(r) \/ Notice(r)
    \/ StartFetch \/ EndOfFetch
    \/ \E c \in Clicks : Advance(c)

Spec == Init /\ [][Next]_vars

\* Requests are answered, events arrive, operations end; nobody has to press
\* anything, the timer need not fire, and nothing has to change.  At most one
\* call of a kind is the latest one, and a mutation awaits at most one.
Fairness ==
    /\ WF_vars(\E l \in loads : l.latest /\ AnswerLoad(l))
    /\ \A c \in Clicks : WF_vars(\E l \in loads : l.by = c /\ AnswerLoad(l))
    /\ WF_vars(\E p \in pages : p.latest /\ AnswerPage(p))
    /\ \A r \in Repos : WF_vars(Notice(r))
    /\ WF_vars(EndOfFetch)
    /\ \A c \in Clicks : WF_vars(Advance(c))
FairSpec == Spec /\ Fairness

-----------------------------------------------------------------------------
(***************************************************************************)
(* Properties.                                                             *)
(***************************************************************************)

\* Whatever was in flight while tabs changed, the screen shows the active
\* repository or nothing.
ScreenIsActive ==
    /\ snapshot # NoScreen => snapshot.repo = active
    /\ history # NoScreen => history.repo = active

\* An answer never replaces a newer one: between two switches, the overviews that
\* arrive show later and later versions, in whatever order the answers come.
NewestAnswerWins ==
    [][\A l \in loads : Deliver(l) /\ snapshot # NoScreen /\ snapshot.repo = l.repo =>
            /\ snapshot'.version >= snapshot.version
            /\ history # NoScreen => history'.pages[1].version >= history.pages[1].version]_vars

\* The page spinner has one call behind it: a call that will clear it, or else
\* loading more would be refused for good.
PageSpinnerHasCall ==
    historyLoading <=> \E p \in pages : Current(p)

\* The overview spinner has one load behind it that will clear it.  Only while
\* automatic fetch is off: see ToolbarIsReleased.
SpinnerHasLoad ==
    overviewLoading <=> \E l \in loads : l.loud /\ Current(l)

\* The toolbar, F5, the fetch timer and the mutation queue all refuse while
\* overviewLoading is set: it never stays set on a tab that stays active.
ToolbarIsReleased ==
    \A r \in Repos : active = r /\ overviewLoading ~> active # r \/ ~ overviewLoading

\* Every click comes to an end, also one that belongs to a tab left meanwhile.
ClicksEnd == \A c \in Clicks : click[c].stage = "queued"
                 ~> click[c].stage \in {"done", "failed", "gave up"}

(***************************************************************************)
(* What the docs and comments say and the code does not keep: each has a   *)
(* counterexample, told in README.md under Disagreements.                  *)
(***************************************************************************)

\* Commits, checkouts and saves made outside gitcat appear without a manual
\* refresh: the screen of a repository that stays active catches up.
ExternalChangesAppear ==
    \A r \in Repos :
        (active = r /\ snapshot # NoScreen /\ version[r] > snapshot.version)
            ~> (active # r \/ (snapshot # NoScreen /\ snapshot.version = version[r]))

\* Optimistic staging is rolled back on failure: the screen shows no file as
\* staged because of a click whose operation has failed.
FailedStagingIsRolledBack ==
    snapshot # NoScreen => \A c \in snapshot.hopes : click[c].stage # "failed"

\* The history on the screen is one listing: its pages follow each other, and are
\* of one generation, as the lanes drawn across them suppose.
HistoryIsOneListing ==
    history # NoScreen =>
        \A i \in 1 .. Len(history.pages) :
            /\ history.pages[i].number = i
            /\ history.pages[i].version = history.pages[1].version
=============================================================================
