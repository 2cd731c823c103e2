# gitcat: specifications, model checking and proofs

gitcat is a desktop Git client: a Rust core that runs `git` as a child process,
a Tauri shell around it, and a React client.  This directory holds TLA+ modules
translated from its source, the TLC instances that check them, and proofs of
their main theorems that TLAPS checks.  Paths below are relative to the
repository; `app/` stands for `apps/desktop/src/app/`.

    tlc -workers 2 -config CoreRegistrySafety.cfg MCCoreRegistry
    tlapm CoreRegistryProofs.tla

## 1. Inventory

### The parts and how they interact

    React client ── invoke ──> Tauri commands ──> CoreApi ──> GitCliBackend ──> git
         ^                          │                registry, locks      processes
         └── events: repository:changed, repository:open-request
                                    └──> ForgeAuth, ForgeService ──> hosting service

| Component | State it keeps | Operations | What is hard |
|---|---|---|---|
| Core facade, `gitcat-core/src/api.rs` | map of handles, `closing` flags, one mutation lock per common Git directory | open, init, clone, close, reads, some forty mutations, guarded mutations | tasks of a thread pool between two awaits; closing against queued mutations; linked worktrees that share refs |
| Mutation queue, `app/mutationQueue.ts` | promise chain, depth, running key, accepted keys | run, untilFree | counters and keys kept beside the chain; a holder that never lets go |
| Overview, `app/useRepositoryOverview.ts`, `useAutoRefresh.ts`, `useWorktreeMutations.ts` | snapshot, history, spinners, sequence numbers | load, page, refresh, fetch timer, watcher event, optimistic mutation | answers out of order, events during a load, rollback |
| Tabs, `app/useRepositoryTabs.ts`, `useWorkspaceBootstrap.ts`, `useLaunchRepository.ts`, `src-tauri/src/launch.rs` | tabs, handles per tab, errors, `busy`, closed tabs, the launch slot | open, clone, create, close, reopen, restore, launch | calls that end after their tab is gone; handles shared by tabs |
| Forge sign-in, `gitcat-forge/src/oauth.rs`, `token.rs`, `app/forgeConnections.ts` | pending login per host, stored credential, the code on the screen | connect, poll, renew, sign out | two renewals at once, lost answers, sign-out during a call |
| Forge answers, `status.rs`, `cache.rs`, `github.rs`, `app/useForgeStatus.ts`, `useAvatars.ts` | caches with a time to live, the rows' badges, the records of who was asked about | list, status, avatar | an answer written after the cache was emptied, or after the screen moved on |
| Persisted state and settings, `gitcat-core/src/state.rs`, `app/workspace.ts`, `components/settings/` | one JSON file, the settings in use, the draft of the dialog | load, normalise, preview, save, import, export | what was read and edited must be what the core accepts; a preview must not outlive its dialog |
| Git process runner, `gitcat-git-cli/src/runner.rs` | a child and its pipes | run | exit, cancellation, timeout and output cap race |
| Git backend, `backend.rs`, `operation.rs`, `validate.rs` | none; the repository on disk | one function per operation | several commands in one operation, of which one may fail, and another program between them |
| Conflicts, `conflict.rs`, `app/useConflictActions.ts`, `lib/mergeConflicts.ts`, `components/conflict/` | expected identities, picks, the text being edited, the trial merge of the toolbar | inspect, resolve, save, continue, abort, skip | an edit nobody has seen; picks that belong to other content |
| Commit graph, `gitcat-core/src/graph.rs`, `components/CommitGraph.tsx`, `graphPresentation.ts` | lanes carried by the history cursor | layout of a page, routes, colours | a page must fit the pages before it |
| Menus and commands, `app/useContextMenuActions.tsx`, `useRepositoryCommands.ts`, `useDialogActions.ts`, `useToasts.ts` | the open menu, prompt, confirmation, toasts | every item, key and button | the tab and the snapshot change while a menu or prompt is open |
| Diff, selection, search, message editor, `app/useDiffPane.ts`, `useCommitSelection.ts`, `useCommitSearch.ts`, `components/commit-details/` | what is selected, what is shown for it, what is on its way | open, stage, select, search, reword | a load, an answer and a click about three different things |
| Working-tree panel, dialogs, trees, columns | drafts per tab, fields, open folders, widths | commit, clone, create, toggle, drag | an end that comes after its tab or frame has gone |
| File watcher, `src-tauri/src/watcher.rs` | one watch and its debouncer | watch, unwatch | replacement while a burst is quieting down |
| Demo backend, `lib/demo.ts` | one snapshot | the calls of the backend, in memory | the same rules as the real one, kept by hand |
| Updates, window state, Tauri commands, parsers, remotes, data types | little or none | forwarding, decoding | — |

`PROJECT.json` lists every component with its status, and every hazard with the
line where it bites.

### What makes each component correct

* **Core facade.** Mutations of one common directory never overlap, run only on
  open handles, and — when guarded — only on a state the caller has seen; a path
  has one handle; a close that has begun always ends and frees the path.
* **Mutation queue.** Accepted tasks run one at a time in order; counter and
  keys agree with the chain; nothing waits for ever.
* **Overview.** The screen is the active tab's; an older answer never replaces a
  newer one; spinners always have a call that will clear them.
* **Tabs.** A tab works on the repository it names; a repository has one tab; the
  active tab opens.
* **Forge.** The store never keeps a spent refresh token; a code on the screen
  leaves it; badges and pictures are of what is on the screen, and who has no
  picture can be asked about again.
* **Backend.** Work given to a stash is somewhere; a discarded path is as in HEAD;
  no commit leaves every ref unless the user confirmed it; what the menu offers is
  not refused by the guard it was computed from.
* **Conflicts.** A save never overwrites what the user has not seen, and consists
  of exactly the sides the user picked.
* **Client.** What is asked for runs in the repository it was asked in; what is
  shown belongs to what is selected; a draft is cleared only by its own commit.
* **Settings.** The settings in use always pass the core's validation; a preview
  ends with its dialog.
* **Graph.** The line of a branch never runs behind another commit; lanes can be
  told apart.

## 2. Modules

| Module | Models |
|---|---|
| `SerialMutations` | what the facade promises (abstract): sessions open and retire, at most one mutation per common directory |
| `CoreRegistry` | `CoreApi`; `ImplementsPromise` is the refinement |
| `MutationQueue` | `createMutationQueue` |
| `OverviewLoad` | one screen of the client |
| `RepositoryTabs` | the window's tabs over the registry `CoreRegistry` promises |
| `ForgeAuth` | sign-in, renewal, sign-out, cached answers of one host |
| `ConflictSession` | inspection, resolution, save, continue, abort, skip |
| `WorktreeOperations` | stage, unstage, discard, stash, ignore, commit |
| `RefOperations` | branches, tags, merge, pick, revert, reset, reword, availability |
| `ClientCommands` | menus, toolbar, keys, prompts, confirmations, toasts |
| `GraphLayout`, `GraphPaint` | lanes of the backend; routes and colours of the client |
| `DiffPane`, `CommitPanel`, `RewordEditor` | the diff, the selection with its panel and search, the message editor |
| `WorktreePane`, `RepositoryForms`, `FileTrees`, `HistoryColumns` | panel and drafts, dialogs, trees, column widths |
| `MergeEditor`, `ConflictPreflight` | the three-way editor, the trial merge of the toolbar |
| `SettingsDraft` | the preferences from file to save |
| `ForgeRows`, `AvatarRounds` | badges and pictures |
| `DemoBackend` | the in-memory backend of the browser preview |
| `…Proofs` | theorems, section 4 (`OperationProofs` has those of `MCOperations`, `SelectionProofs` those of `DiffPane`, `CommitPanel`, `RewordEditor` and the graph, `PaneProofs` those of the other panes and of `MCPanes`) |
| `MC…` | the instances TLC checks |

`MCOperations` and `MCPanes` join modules that do not share state: a variable
`focus` says which one a behaviour runs, and only `RepositoryTabs`, of which
`MCOperations` has a second instance, is also checked elsewhere.  `GraphPaint`
extends `GraphLayout`, since it draws what that lays out.

### CoreRegistry

A call is a task with a program point.  A point ends at an `await` or between two
accesses of shared memory, so tasks interleave wherever two threads of the tokio
pool can.  `repositories` is the map behind the `RwLock`; an entry names its lock
by the handle that allocated the `Arc<Mutex<()>>`, so that "the same lock" can be
told from "a lock of the same directory".  `lockQueue` is the FIFO of a tokio
`Mutex`.  A task keeps the *clone* of the entry it looked up (`entry`), which is
what the second look (`RecheckClosing`, `RereadEntry`) is there for.

`open`, `init` and `clone` end in `RegisterAgain` or `RegisterNew`; a read ends
after `CheckClosing`; a mutation goes lookup → check → enqueue → waiting →
recheck → reread → (validating) → running → unlock; a close goes lookup → swap →
enqueue → waiting → removing.  Which Git command a mutation runs is left to the
backend: it changes the common directory once or not at all.  The generation is
the pair of the number of gitcat's changes and of changes by other programs.

### MutationQueue

`after[t]` is the promise a task is chained to, `tail` the last one.  The books
the code keeps beside the chain (`depth`, `running`, `runningKey`,
`acceptedKeys`) are variables of their own, so that the invariants can compare
them with the chain.  `Poll` is one turn of `untilFree`, whose deadline is
counted in turns.

### OverviewLoad

An action is a continuation of the event loop.  The code compares sequence
numbers only for equality with the newest, so a call in flight carries `latest`
instead of a number.  A load reads the snapshot and the first history page in
separate steps, possibly of different versions.  `Watched`, `AutoFetch` and
`Staging` are the user's settings and give the instances.

### RepositoryTabs

`page` is what a tab names, `runtime` the handle it works with, `opening` the
`openRepository` in flight for it, `tabWork` the one operation that holds `busy`.
The registry is the one `CoreRegistry` promises: an open root answers with its
handle, a new entry has a new handle, a closing one refuses.  Note that `closeTab`
sends its close without waiting, so `ServeClose` may come at any time.

### ForgeAuth

One host.  `code` and `live` are the service (external): what became of a device
code, and which rotation of a refresh token it accepts.  `pending` and `stored`
are the backend's, `signIn`, `tries`, `shown` and `poll` follow `connectForge`
and its loop, `request` an API request that may renew.  Actions of the backend
end where its lock is released or an answer awaited.

### The operations of the backend

A call holds the mutation lock, so gitcat has one at a time; it is a sequence of
Git commands and file accesses, and *another program may act between any two*.
`ConflictSession` keeps a stage as the merge that wrote it and a working file as a
token for its content; `save_conflict_result` compares, writes a temporary file,
compares again and renames (`CompareWithExpected`, `WriteTemporary`, `LastLook`,
`Replace`).  `WorktreeOperations` gives every file a content in HEAD, in the index
and in the working tree, and a stash all three; a path may be read by Git as a
pattern (`PathMatches`).  `RefOperations` makes a commit of its parents, its change
and its message, so that a rewrite is recognised for what it kept; `Enabled` is
`commit_action_availability`, `Guards` what the command itself refuses.

### ClientCommands

What a repository shows is a record, its *shape*: HEAD's branch, local branches
and those with an upstream, rows of the remote, operation under way, stash.  A
wish carries the repository it was made in, and the queue the one it will run in;
`RunsWhereAsked` compares the two.  Menus are sets of items with what greys each
out and what it does (`Effect`), taken from the two places of the code.

### GraphLayout and GraphPaint

A commit is the number of its row, parents are larger numbers.  One step lays out
one row, from `heads` as the last one or the cursor left it; every log of
`RowCount` rows, with stashes and with pages of `PageRows`, is an initial state.
`GraphPaint` has no variables: routes, groups, colours and parked lanes are
functions of the rows delivered.

### The panes

Each module has the requests in flight as a set, each with what it was asked for
and the sequence number the code compares, and answers them in any order.
`DiffPane` takes a diff for the request it answers.  `CommitPanel` takes the
histories a load may bring as a parameter.  `RewordEditor` has two repositories
with their logs, the instance of `CommitDetails` that is mounted (`mount`), and the
selection that waits for the reload.  `WorktreePane` keeps the drafts of each tab
and the commands asked for in order.  `FileTrees` has the four records that decide
whether a folder is open.  `HistoryColumns` separates a move of the pointer from
the frame that applies it.  `MergeEditor` parses lines with markers into regions,
keeps picks by region, and composes; what Git wrote the lines from (`regions`) is
known to the property only.  `RepositoryForms` has the dialogs that bring in a
repository or remote.  `SettingsDraft` takes a key as modifiers and a key, a theme as its
id, its name's length and two paints, and `Junk` for any field not well formed.
`ForgeRows`, `AvatarRounds` and `ConflictPreflight` are effects of React: each asks
when something it depends on changes, and cancels or outnumbers what is in flight.

## 3. Runs

| Run | Instance | Shows |
|---|---|---|
| `registry_safety` | two calls; main worktree, linked worktree, unrelated repository; two handles; two changes | mutual exclusion, unique handles, guarded operations, and the refinement |
| `registry_liveness` | two calls, two worktrees, one external change | every call returns; a begun close frees its path |
| `queue` | four clicks, two keys, limit 2, a deadline of two turns | order, bound, termination |
| `overview_safety` | two tabs, watcher and automatic fetch on, two loads and two pages in flight | whose screen it is; newest answer wins |
| `overview_manual` | one tab, two optimistic clicks, one failure, automatic fetch off | a spinner has its load; the toolbar is released |
| `tabs_liveness` | two tabs, two roots, a launch, every way into a tab | the active tab opens |
| `forge_safety` | two sign-ins, two requests, one lost answer or refusing store | the refresh token stays usable |
| `forge_sign_in` | two sign-ins, two polls each, a failure, a sign-out | every code leaves the screen |
| `operations` | two conflicted paths and two rounds; two files and three contents; four or five commits with three branches; two tabs, two roots and a folder inside one with every operation of `RepositoryTabs`, without a launch | `UnseenEditKept`, `WorkIsKept`, `DiscardedIsHead`, `CommitsSurvive`, `OfferedIsAccepted`, `TabShowsItsRepository`, `OneTabPerRepository` |
| `commands` | two repositories, two shapes, two commands (`push`, `skip`), two of them asked for, one availability call in flight, one change of a repository, one toast kept | `RunsWhereAsked`, `NoDeadItems`, `MenuOwnAnswers` |
| `panes` | fourteen components, one at a time, three to five acts of the user | the properties below |
| `forge_sign_out` | as `forge_safety`, with a sign-out | a statement of the source that the code does not keep (section 5) |

The properties of `panes`:

| Property | Of | Says |
|---|---|---|
| `DiffIsOfSelection` | `DiffPane` | once nothing is on its way, the diff is the one last asked for, of the file and side highlighted |
| `PanelIsOfSelection` | `CommitPanel` | the panel, and the actions offered in it, are of the selected commit of the repository on the screen |
| `SelectionFollowsReword` | `RewordEditor` | the load that ends a reword selects the commit under its new oid |
| `ReturnClearsItsOwn` | `WorktreePane` | the end of a commit touches no draft but that of its own tab |
| `ToggleIsLocal` | `FileTrees` | opening a folder by hand moves nothing that is not below it |
| `SavedIsChosen` | `MergeEditor` | what is saved is the file with exactly the picked sides in place of every region |
| `BranchLineIsClear`, `LanesAreToldApart` | `GraphLayout`, `GraphPaint` | no branch runs behind a foreign commit; colours do not change with pages, parked lanes are marked |
| `SavesAreAccepted`, `PreviewEnds` | `SettingsDraft` | the core never refuses the settings in use; no preview without a dialog |
| `DragEndsUnderPointer` | `HistoryColumns` | the width let go is the one under the pointer, also before its frame came |
| `InitialsAreRetried` | `AvatarRounds` | an author without a picture is not lost from the records that ask again |
| `AnswersAreOfScreen` | `ForgeRows`, `RepositoryForms`, `ConflictPreflight` | badges, repository lists and the conflict indicator are of what is on the screen |
| `HeadIsItsBranch` | `DemoBackend` | the branch marked as head is the one HEAD names |

### Bounds, and why they are enough

* Two calls reach every interleaving the facade's protocol distinguishes: two
  closers, a closer and a mutation, two mutations, two opens.  The proofs remove
  the bound.  Two handles let a path be closed and reopened.
* Four clicks over a limit of two fill the queue and overflow it once.
* Two loads in flight are what "older" and "newer" need; a third would be
  superseded like the second.  `MaxVersion` 1 is one change to miss.
* Two tabs are one that holds a repository and one that asks for it; `MaxHandles`
  1 keeps the instances small, 2 lets `TabsLeak` reopen.  A tab id is left for
  every tab that is on its way.
* Two sign-ins and two requests are one of each in flight while another acts.
  `MaxPolls` is `expires_in / interval`, 1 in the safety run and 2 in the liveness
  run.
* `operations`: one or two moves of another program are what a check and the
  command after it can have between them; `ChunkSize` 1 splits the bulk
  resolution of two paths; a linear and a merged history with a branch beside
  give every answer to "is it reachable", and eight commits are enough for one
  operation on each.  `PathMatches` is literal: with patterns `WorkIsKept` fails
  (section 5).
* `commands`: one command runs while the other waits, which is what a switch of
  tabs in between needs; the shapes are a clone with another branch and a
  repository without a remote, detached in a rebase.
* `panes`: a hazard here is two things in flight and one change of what they are
  about, so three acts reach it; the trees have two levels of folders with a
  file and a folder of one name, the graph every history of four commits with
  pages of three, the merge editor both marker styles, an added and a deleted
  side and a marker torn by hand, the settings a file in which each default is
  taken by the next action.  `RenameTaken` is `FALSE`: with it `HeadIsItsBranch`
  fails (section 5).
* `CHECK_DEADLOCK FALSE` where the instance stops when its bounds are spent: the
  `ForgeAuth` instances (each device code is asked for once) and the three joined
  ones.
* Symmetry is used for tasks, handles, tabs, clicks and codes in the safety runs
  only, never under a liveness property.

### Fairness

* `CoreRegistry`: started calls go on (`WF(Advance(t))`).  A tokio `Mutex` is
  fair, and a local Git command ends at the runner's timeout (30 s for reads,
  120 s for mutations, `runner.rs:150,162`).  Network commands have no timeout
  (`runner.rs:174`): that they end is an assumption.
* `MutationQueue`: timers fire and operations end; the holder may never let go.
* `OverviewLoad`: requests are answered, with success or error, and the watcher
  delivers its event; the fetch timer need never fire.
* `RepositoryTabs`: as above; the close call needs no fairness.
* `ForgeAuth`: the loop's timer fires and each HTTP request ends (the clients have
  timeouts).  The user never has to act.

No action of the user is ever fair.  `ConflictSession`, `WorktreeOperations` and
`RefOperations` state that a started call goes on, but no run asks a liveness
property of them; the other modules state safety only.

## 4. Proofs

All theorems hold for any values of the constants, under the assumptions named in
the modules.  Most say that a special value is outside its set or that a bound is a
natural number.  Those that say more:

* `TasksAssumption`: the queue's tasks are finite, because its counter is compared
  with a cardinality.
* `FoldersAssumption`: the names of a tab's pages that are no repository are not
  roots.
* `RefAssumption`: a graph is a sequence of at least three commits, parents before
  children; "none" is no branch.
* `WorktreeAssumption`: a path matches at least itself.
* `DiffAssumption`, `PanelAssumption`, `RewordAssumption`, `RowAssumption`,
  `TreeAssumption`: lists, logs and paths are sequences, of strings, of records or of
  positive numbers; a path is not empty.
* `MergeAssumption`: a document is the regions Git merged as Git writes them, in either
  marker style, perhaps without the last marker; a line that is itself a marker is in no
  place where it would be read as one, for nobody could tell the two apart; and equal
  digests of one path mean equal text (`conflict.rs:647`, SHA-256 of the bytes).
* `ColumnAssumption`: the widths columns are born with cover every column.
* `DemoAssumption`: the snapshot the demo begins with has one head, and no two of its
  branches have one name.
* `FilesAssumption`: every state file has the settings' fields, which is what
  deserialising into the contract's type gives; its themes and numbers are of their
  shape, with any values.
* `PresetAssumption`, `KeysAssumption`: the themes and shortcuts the application comes
  with (`defaults.ts`, `keybinds.ts`) are well formed and differ from one another.

**CoreRegistryProofs.**  `MutationExclusion` is not inductive.  What carries it:
whoever is past the acquisition of a lock is the head of its queue
(`HolderIsHead`); entries of one directory share a lock (`LocksFollowCommonDirs`),
which needs locks to be named after issued handles (`LocksAreIssued`); and a task's
clone agrees with the map while the map has its handle (`ClonesAreCurrent`).
`CloseFindsEntry` needs `OneCloserPerHandle`: the swap of the flag makes one
closer, and nobody else removes.  `ClosedOnlyWhenClosing` needs
`RemovedAreClosing`.  The conjunction `IInv` is proved inductive action by action,
each safety property is derived from it, and `RegistryImplementsPromise` maps
sessions to handles and `working` to the tasks at `running`: every step is a step
of `SerialMutations` or a stutter.

**MutationQueueProofs.**  `OneAtATime` follows from the chain: seats number the
accepted tasks without a gap (`SeatsNumberTasks`), each is chained to the seat
before it (`ChainFollowsSeats`), and a task starts only after the one before it is
done.  The counter and keys are compared with the set of pending tasks
(`DepthCounts`, `KeysInTheBooks`).

**ForgeAuthProofs.**  `RefreshIsUsable` needs to know who has the live token of a
family: the poll that was given it (`ExchangedOnce`), the store, or the one
request that was granted its successor (`GrantedOnce`), with `NothingAhead` saying
that nobody has one that the service has not issued, and `CodesAreIssued` that a
code is exchanged once.  `ShownHasLoop` needs `LoopsInStep`.  It is proved that two
renewals at once do no harm, with any number of requests; what is assumed is that
the service rotates refresh tokens and that no answer is lost (families with a lost
answer are excepted: their stored token is spent, by design of the protocol).

**OverviewLoadProofs.**  That a newer answer wins cannot be read off the sequence
number: the number says which load is the newest, not what it read.  `ScreenInv`
adds that the newest load read no earlier than what is on the screen
(`AnswersInTime`), nor than the snapshot a failing click would put back, which in
turn was captured from the screen (`CapturedOfItsOwn`); that there is one newest
load (`OneLatest`); and that nothing on the screen is from the future
(`ScreenWasRead`).  `ScreenFollowsTab` and `AnswersComeInOrder` follow.

`SpinnersHaveLoads` has the hypothesis `~AutoFetch`; with the timer on the code
does not keep it (section 5).  Its invariant is that at most one page
call holds the current sequence number (`OnePage`) and that no automatic fetch is
under way, so that no silent load takes the number of one that shows the spinner.
`PageSpinnersHaveCalls` is the same for the spinner under the history
and needs no hypothesis.

**ClientCommandsProofs.**  A menu, a prompt and a confirmation are of the
repository on the screen while they are open (`MenuOfScreen`, `DialogsOfScreen`),
because the change of the tab closes them; what they put into the queue therefore
carries the repository it was asked in.  `MenuOwnAnswers` follows from the call that
may still be heard being of the open menu's commit (`CurrentCallIsOfMenu`), and
`ItemsAreAlive` by going through the items: each that is not greyed out has an effect
on every shape a repository can have.

**OperationProofs.**  One invariant per kind of operation.

* *Conflicts* (`LookInv`): from the last look at the working file to the write, the
  file is what the caller expected or another program has moved it in between.
  `UnseenEditsStay` is the action property that follows.  The same is true of the
  index once the expected state was compared, and what has begun to write is past
  every refusal (`EndingInv`): so a save or a resolution ends only the conflict it was
  called for (`ShownConflictEnds`), and what is refused has changed nothing
  (`RefusalsWriteNothing`).
* *Working tree* (`WorkInv`): which steps a discard has behind it, and what they have
  done to the index and to HEAD's paths, unless another program acted.
  `OnlyDiscardLoses` is the general form, for any names: an operation loses the
  content of no file but those a discard was given, read as Git's patterns.
  `OtherWorkIsKept` is the property the run checks; it assumes that every path matches
  itself only, since a stash of a name with `*`, `?`, `[` or `\` in it does
  take others (section 5).  `NamedStashLeaves` is the same care for the stash list: the
  place a drop or a pop goes by is that of the commit it was given (`StashIsNamed`),
  unless the list was moved after it was read.
* *Refs* (`HistoryInv`): refs point at commits, commits at earlier ones, the
  arguments of a call exist, and a deletion with `-D` was confirmed.
  `CommitsAreNotLost` needs induction along ancestry, which is done by taking the
  least commit that would be lost (`<` on the naturals is well founded).
  `OffersAreAccepted` needs that only a reset and a reword have guards of their own;
  `RewordOffersAgree` is that the two computations of a reword's guards agree, and
  `NoOtherBranchMoves` that an operation moves no branch it is not about.
* *Tabs* (`TabInv`, `TabWorkInv`): the call a tab has in flight was made under the
  name the tab still has, unless the tab is gone (`CallsOfTheirTabs`), and the tab an
  operation will fill is still the start tab it was asked from (`TargetIsStart`,
  which is what `busy` is for).  For `OneTabPerRepository`, the repository a reopening
  is about is shown by no tab until it is done.

**SelectionProofs.**  *Panel*: a call which carries the current number is for the
commit selected now, in the repository on the screen (`CallsOfSelection`): every
change of either runs the effect, which takes a new number.  *Diff* (`DiffInv`): the
request that is open is in the mode chosen, what is shown or on its way is of it, and
it is of the file highlighted unless a staging has just moved that to its other side.
*Reword* (`RewordInv`): while the reload is awaited the place remembered holds the
rewritten commit, or another program has changed the log.  *Graph* (`LanesInv`): a line
that has not come to its first parent waits for it in its own lane, and that lane is
among the visible ones (`LinesWait`), so no row below is given it; what the loop over
the parents, the convergences and the bends do never takes a commit from a lane that
waits for one (`Keeps`).  After n rows no lane right of 2n is taken (`LowLanes`), so
each search for an open lane finds one.  For the line of the working copy: from the
first row on lane 0 waits for HEAD, and no merge reserves another lane for it
(`WipWaits`).  `ListFits` and `RowsFit` say what a log may hold, again by a least
counterexample.  *Colours* (`LanesStayApart`): of the lines that come down to one
commit each ends at or left of those above it (`EdgesJoinLeft`), and the commit is laid
out in the lane a merge reserved for it, where no line comes down, or at or left of
all of them (`LinesSettle`); so only the topmost can come straight down to it
(`StraightOnce`), and no later child takes the commit out of that one's group.  The
groups and the slots are recursive functions over the rows and the groups: that such
a process exists and what every stage of it passes on are two lemmas
(`StagesExist`, `Throughout`), and the rest is one stage: `RowKeepsGroups`,
`StashKeepsGroups`, `NextSlotFits`.

*Merge editor* (`MergeFits`, `SavesAreChosen`): there is one selection for every
conflict of the document on the screen, and a side is selected exactly when the user
asked for it in this content of this file (`SelectionsFit`); an invariant of the
selections alone would not do, since they are kept by number.  The step that needs
more is the save, and there the question is what the reader of markers makes of a
document.  The reading is a recursive function over the lines.  A run of lines without
a marker goes where the reader stands (`PlainRun`, `SideRun`), so a region Git wrote is
read as that region, with or without its base (`ConflictIsRead`, `RegionIsRead`), and
after n regions the reader has their segments and is outside a conflict
(`RegionsAreRead`); without the last marker the same segments come out, because the end
closes a conflict too (`DocumentIsRead`).  Each stage adds as much to the composed text
as Git's resolution has for the region (`ComposeAppends`, `ConflictIsCounted`), and the
rows of the Output pane carry the composed lines when no region is undecided
(`RowsAreComposed`).

**PaneProofs.**  *Avatars*: whoever is on the record of what was asked has a picture
or is on that of what is open, also when out of view (`AvatarInv`).  *Indicator*: the
call with the current number asks what the effect would ask now (`TrialInv`).
*Drag*: a width that waits for its frame is the one under the pointer, and the draft
has it once the frame is drawn (`DragInv`).  *Preview*: without a draft the paint is
that of the settings, and with one the effect that ends it will paint them again.
*Drafts*: a command that runs is the first of those asked for (`CommandInv`).
*Folders*: what a bulk stage holds shut is shut by hand as well, so that nothing
moves when the hold ends (`TreeInv`); the way to a newly selected file stops at the
folder kept shut.  *Repository lists*: the call with the picker's number is of its
host; the numbers in flight have a bound, so the next one is new (`ListInv`).
*Badges*: a call that is still heard is of the screen, a list carries one pull
request per branch (`RowInv`); that `PullsByBranch` has an entry for every branch is
again shown by a least counterexample.  *Demo*: no two branches have one name, so the
entry a call finds by its name is the one it means, and deleting keeps every other
branch once (`HeadInv`); `HeadStaysItsBranch` says so of every demo in which no branch
is renamed to a name that is taken (`~RenameTaken`): with one, section 5 shows that
the code does not keep it.  *Settings*: those in use
are accepted, and what is on disk or in a draft has the shape from which normalising
makes accepted ones (`SavesInv`).  Each look at the clashes gives one more action its
default back, because no two defaults clash, so as many looks as there are actions
settle them; among one more number than there are themes one makes a free id.
`SavesStayAccepted` has the hypothesis `RoomForHosts`: no more hosts can be named than
the core stores, for the dialog has no such bound (section 6).  `LateAnswersAreLost` puts the last two and the
indicator together: the invariants are carried through `PanesSpec`, the
specification the run checks, in which each pane's step leaves the others alone.

**Model-checked only.**

* Liveness (`CallsReturn`, `ClosingIsReleased`, `AcceptedTasksEnd`,
  `ToolbarIsReleased`, `ActiveTabOpens`, `SignInEnds`) is out of the prover's reach.
* The type invariants of the modules (`…TypeOK`, joined in `OperationsTypeOK` and
  `PanesTypeOK`) are stated beside them and hold in the same instances; those of the
  registry and of the sign-in are theorems.

## 5. Disagreements

Places where the code does not do what its own documentation or comments say.
One is a run (the finding of `PROJECT.json`):

* **A sign-out that does not last** (`forge_sign_out`, `SignOutForgets`).  A
  renewal or a poll in flight stores its credential afterwards (`oauth.rs:335`, `:210`).

The others are stated as properties in the modules; adding one to a configuration
of its module ends in a counterexample.  Where an instance of the runs does not
reach it, the constants to change are given, and five have a configuration here.

| Module | Property | Behaviour | What is said |
|---|---|---|---|
| `OverviewLoad` | `ToolbarIsReleased`, `OverviewAutoFetch.cfg` | the silent load after an automatic fetch takes the number of a load that shows the spinner, and then nobody clears it: toolbar, F5 and queue stay blocked until the tab changes (`useAutoRefresh.ts:73`, `useRepositoryOverview.ts:141`) | `README.md:62` "no blocked toolbar" |
| `OverviewLoad` | `ExternalChangesAppear` (one tab, `Watched`) | a change event during a load or a mutation is dropped, the load may have read before the change (`useAutoRefresh.ts:50`) | `README.md:61` "appear without a manual refresh" |
| `OverviewLoad` | `FailedStagingIsRolledBack`, `OverviewRollback.cfg` | two optimistic clicks fail, the second rollback restores the hope of the first (`useWorktreeMutations.ts:80`) | `README.md:54` "optimistic staging with rollback on failure" |
| `OverviewLoad` | `HistoryIsOneListing`, `OverviewPaging.cfg` | a page of the old history is appended to a reloaded one (`useRepositoryOverview.ts:221`) | `docs/CORE_API.md:18` "a ref change invalidates old cursors" |
| `RepositoryTabs` | `HandlesAreHeld`, `TabsLeak.cfg` | a tab closed while it opens itself, or a creation that fails after `init`, leaves its handle open (`useWorkspaceBootstrap.ts:79`, `useRepositoryTabs.ts:211`) | `docs/CORE_API.md:9` "When the last UI tab closes" |
| `RepositoryTabs` | `TabsAreUsable` (three tabs) | an open is answered with the handle that a close on its way then releases (`useRepositoryTabs.ts:263`) | `docs/CORE_API.md:9` |
| `RepositoryTabs` | `OneTabPerRepository` without its exception of `clone` and `create` | creating or cloning adopts without looking for a tab (`useRepositoryTabs.ts:217`) | `useRepositoryTabs.ts:121` "so the repository is not left listed twice" |
| `RepositoryTabs` | `LaunchesAreAnswered` | a folder handed over while `busy` is set is dropped (`useRepositoryTabs.ts:142`) | `README.md:66` "hands it to the window that is already running as a new tab" |
| `ForgeAuth` | `SignOutForgetsAnswers`, `ForgeAuthAnswers.cfg` | an answer in flight is cached after `forget_host` (`status.rs:93`) | `lib.rs:723` "everything the service answered while it was held" |
| `ForgeAuth` | `AnswersFollowCredential` | a second sign-in keeps the first's cached answers (`oauth.rs:210`) | `status.rs:252` "its answers must not outlive one" |
| `ForgeAuth` | `ExpiredMeansExpired` | `poll` says expired when another step removed the pending login (`oauth.rs:122`) | `gitcat-contracts/src/forge.rs:227` "The code timed out" |
| `ForgeAuth` | `OneSignInAtATime` | Connect pressed twice before the code has come (`forgeConnections.ts:94`) | `forgeConnections.ts:89` "Only one runs at a time" |
| `ForgeAuth` | `FollowedToItsEnd` | the failing poll of an abandoned sign-in ends the next one (`forgeConnections.ts:127`) | `forgeConnections.ts:87` "follows it to its end" |
| `WorktreeOperations` | `WorkIsKept` with `PathMatches` of patterns | a stash of one file whose name Git reads as a pattern takes and cleans others | — |
| `WorktreeOperations` | `AllChangesDiscarded` | a staged deletion of a chosen path survives the discard | `InspectorPane.tsx:114` "Discard all changes to ...?" |
| `WorktreeOperations` | `DiscardedWasShown` | an edit between the dialog and the discard is lost with it | `README.md:241` "The core rejects stale dialogs" |
| `WorktreeOperations` | `IgnoreOnlyGrows`, `FailedStashKeepsStaging` | another program's line in `.gitignore` is overwritten; a stash of files that fails takes out of the index what the user had staged of them (`backend.rs:3096`) | — |
| `ClientCommands` | `NeverADeadKey` | a key pressed while its command runs, or one whose queue is full, is dropped | `useGlobalKeybinds.ts:201` "never a dead key" |
| `ClientCommands` | `PullIsOfTheRow` (a third shape, HEAD switched) | an open menu offers the pull of the row it was opened on, which then pulls the new HEAD | `branches.ts:5` |
| `ClientCommands` | `RemoteAddedWhereAsked`, `RecoveryWhereFailed`, `ForceAfterRefusal` | the dialog, a toast's button and the confirmation a refusal opens act on the tab of the moment | — |
| `ClientCommands` | `ActionToastStays` | the fifth toast pushes out one that offers a next step | — |
| `DiffPane` | `DiffSpinnerHasLoad`, `DiffFollowsRollback` | a silent load takes the number of one that shows the spinner; a refused staging leaves the diff on the other side | — |
| `CommitPanel` | `PanelIsLoaded`, `SelectionIsOfRepository` | walking a search with one hit clears the panel and loads nothing; hits outlive a switch of tabs | — |
| `RewordEditor` | `OpensOncePerToken` | a panel that is mounted again opens the editor for an old token | `CommitDetails.tsx:25` "once per token" |
| `RewordEditor` | `PendingIsOfRepository` | the selection a reword left is taken by the load of another repository | — |
| `WorktreePane` | `TypedTextStays`, `StageLeavesConflicts`, `DiscardAllIsShown` | text typed while a commit waits is cleared with it; a menu opened before a conflict stages it; the bin discards what a pending operation hides | — |
| `FileTrees` | `ToggleIsAlwaysLocal` | a tree mounted under a hold opens elsewhere when the hold ends | — |
| `MergeEditor` | `PreviewIsBaseOrBlank` | an anchor that stands twice in the base is taken at its first place | `mergeConflicts.ts:219` "left blank rather than guessed at" |
| `RepositoryForms` | `ClonesWhatIsShown` | the address typed before stays behind the field of a service's page | `ForgeRepositoryPicker.tsx:33` |
| `RepositoryForms` | `RefusalIsOfStored` | a list asked with the old credential marks the new one as refused | `forgeConnections.ts:77` |
| `SettingsDraft` | `PreviewStays`, `SavedIsPreviewed` | a save of the workspace during the dialog repaints the window; normalisation keeps another theme than was shown | `SettingsDialog.tsx:175` "Changes stay in preview until saved" |
| `SettingsDraft` | `UnreadFileStays` | a file the core could not read is replaced by defaults 250 ms after the start | — |
| `HistoryColumns` | `ResetIsSeen` | a reset during a drag is undone by the next frame | `GraphColumnMenu.tsx:60` |
| `ForgeRows` | `PlainWhenUnreachable` | rows keep the old badges when the service fails | `useForgeStatus.ts:99` |
| `ForgeRows` | `NewsIsShown` | a redraw before the answer drops the refreshed one and asks the cache | `useForgeStatus.ts:86` |
| `AvatarRounds` | `ResolvedIsNotSent`, `AnswerIsWaitedFor` | a failed round takes resolved addresses back; a page drops the answer in flight | `lib/avatars.ts:39` |
| `DemoBackend` | `HeadIsItsBranch` with `RenameTaken`, `StashCountIsStashes`, `RewordIsOfHistory`, `HeadLabelOnHead`, `PagesDoNotRepeat` | renaming to a taken name makes two branches of it; a stash of one file is not counted; commits beside the head are offered; the label stays behind; pages shift when a commit is made between them | — |

## 6. What the models leave out

* The generation is a hash of `git status` and the refs; an edit of a file that is
  already listed as modified, or changes that cancel out, leave it as it was.  The
  models give every change a generation of its own, so `GuardedOnExpected` speaks of
  changes the hash can see.
* A React update is taken to be rendered before the next event.
* The watcher reports changes under the worktree root only; a change of the common
  directory of a linked worktree may go unreported.
* `busy` has other owners than the modelled ones; all of them are guarded by `busy`.
* `history()` reads its refs before and after walking and fails when they differ, so
  a page is one step.
* `RepositoryTabs` leaves out groups, order and recents, and a launch event
  that arrives before its listener is registered.  `closedTabs` is not cut at twenty.
  It creates and clones into roots only.
* `ForgeAuth` has one host and no typed tokens; the service is assumed to rotate
  refresh tokens.
* The joined instances run one component at a time.  Where components meet, one of
  them has the other as a parameter or a nondeterministic input: `CommitPanel` takes
  the histories of `OverviewLoad`, `ClientCommands` the queue of `MutationQueue`
  without its bounds, the operations of the backend the lock of `CoreRegistry`.
* `ConflictSession` and `WorktreeOperations` take Git's own commands as external:
  what `checkout`, `stash` and `apply` do to the three contents of a path is a
  definition marked so in the map.  Encodings, modes and submodules are left out.
* `ConflictPreflight` does not see a branch that moves and moves back between the
  question and the reload: the answer is then of the commits on the screen, but not
  of the reading they came from.
* `SettingsDraft` has the settings only.  The instance names as many hosts as the core
  stores (`RoomForHosts`); neither the dialog nor `normalizeForgeOverrides` has the
  core's bound (`state.rs:216`), so with a 129th host every save is refused.  Names
  with control characters are outside the instance.  `validate_settings` leaves
  `reopen_closed_repository` out of its list of bindings (`Unchecked`), which
  `SavesAreAccepted` therefore looks at itself.
* `GraphPaint`: a merge line whose parent was pulled to the left collapses to that
  lane and may run behind a commit, and so may the line of a stash;
  `BranchLineIsClear` speaks of first parents of commits.  `WipLineIsClear` is proved
  and in no run.
* `ForgeRows`: a pull request of a deleted fork has no owner and decorates the branch
  of its name; rows of a second remote get the badges of the first.

Not modelled, with the reason:

* **Git process runner.**  What it decides is whether a command ends, fails or was
  cut short; the modules take all three as outcomes.  Its inner race between exit,
  cancellation, timeout and cap is one of tokio's `select!`, whose arms all kill,
  reap and answer.
* **The steps of saving a file** (`state.rs:90–125`).  One writer under a lock; that
  a rename is atomic is the platform's promise.
* **Token index** (`token.rs:207–245`), **watch replacement** (`watcher.rs:46–112`),
  **avatar cache** and **updates**: small protocols of their own that no other
  modelled component depends on.
* **Network commands, remotes, worktree administration**: one change under the lock
  each, which is how `CoreRegistry` has them.
* Parsers, remote addresses, data types, window state, Tauri commands: no behaviour
  over time.

## 7. Plan

Done, in this order: the facade and its promise with proofs; the mutation queue
with proofs; the overview with proofs; forge sign-in with proofs; the tabs with
proofs; the operations of the backend with proofs; commands and menus with proofs;
the graph, its lanes with proofs; the panes of the client with proofs, the merge editor among them; the
preferences with proofs; the demo backend with proofs.

What would come next:

1. `StateStore` and `TokenStore`: saving with a crash between any two steps, as a
   refinement of a register with atomic writes.
2. `RepositoryWatcher`, composed with `OverviewLoad` instead of its `Notify`.
3. `GitRunner`: every run ends and its child is reaped, also when it never exits.
