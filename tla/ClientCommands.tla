--------------------------- MODULE ClientCommands ---------------------------
(***************************************************************************)
(* How a wish becomes a command in the desktop client: the context menus   *)
(* of commits and branches (useContextMenuActions), the toolbar and the    *)
(* shortcuts (useRepositoryCommands, useGlobalKeybinds), the prompts and   *)
(* confirmations (useDialogActions), the queue they all feed, and the      *)
(* toasts whose buttons start the next command (useToasts).                *)
(*                                                                         *)
(* What is on the screen of a repository is a record (its shape): HEAD's   *)
(* branch or "none", the local branches, those with an upstream, the rows  *)
(* of the only remote, how many remotes there are, the operation under way *)
(* and whether there is a stash.  MutationQueue has the queue in detail.   *)
(***************************************************************************)
EXTENDS Naturals, FiniteSets, Sequences, SequencesExt

CONSTANTS
    Repos, FirstTab,
    Commands,       \* the commands of the toolbar, the banner and the shortcuts
    Shapes,         \* what a snapshot may show
    KeptToasts,     \* useToasts keeps this many (4 in the code)
    MaxAsked,       \* bound: commands asked for
    MaxActionCalls, \* bound: availability calls in flight
    MaxChanges      \* bound: snapshots that differ from the one before

AllCommands ==
    {"fetch", "pull", "push", "stash", "stash_pop", "continue", "abort", "skip", "create_branch"}

ASSUME CommandAssumption ==
    /\ FirstTab \in Repos
    /\ Commands \subseteq AllCommands
    /\ KeptToasts \in Nat \ {0} /\ MaxAsked \in Nat /\ MaxActionCalls \in Nat /\ MaxChanges \in Nat

VARIABLES
    active,         \* the repository of the active tab
    shape,          \* [repository -> its snapshot]
    menu,           \* the context menu, with the row it was opened on
    actionCalls,    \* commit_action_availability calls in flight; current: its
                    \* number is still commitMenuActionSequence
    shownActions,   \* commitMenuActions: the repository and commit they are of
    prompt, confirm,    \* the settings dialog counts as a prompt
    adding,         \* the add-remote dialog, with its repository
    queue,          \* the commands accepted, the running one first
    toasts,
    lastForce,      \* lastForcePush
    refused,        \* history: what was refused for a lease or as not merged
    dropped,        \* history: commands dropped for a key of another repository
    asked, changes

dialogs == <<prompt, confirm, adding>>
ghosts == <<refused, dropped>>
commandVars == <<active, shape, menu, actionCalls, shownActions, dialogs, queue, toasts,
                 lastForce, ghosts, asked, changes>>

Commits == {1, 2}       \* 1 is the commit the details panel shows
Continuable == {"merge", "rebase", "cherry_pick", "revert"}
NoKey == <<"none">>
None == [kind |-> "none"]

---------------------------------------------------------------------------
(* The rows of the sidebar and the graph, and what they offer.             *)

Row(name, scope, isHead, upstream) ==
    [name |-> name, scope |-> scope, isHead |-> isHead, upstream |-> upstream]
Plain == Row("plain", "plain", FALSE, FALSE)
StashRow == Row("stash", "stash", FALSE, FALSE)
Rows(s) == {Row(b, "local", b = s.head, b \in s.up) : b \in s.locals}
              \cup {Row(b, "remote", FALSE, FALSE) : b \in s.rows}

(* branchAcceptsPull                                                       *)
AcceptsPull(s, row) ==
    s.head \in s.up /\ (IF row.scope = "local" THEN row.isHead ELSE s.head = row.name)

(* branchPushTarget: none, or the branch and whether to set its upstream.  *)
PushTargets(s, row) ==
    CASE row.scope = "remote" /\ row.name \in s.locals -> {FALSE}
      [] row.scope = "local" /\ row.upstream -> {FALSE}
      [] row.scope = "local" /\ ~row.upstream /\ s.remotes = 1 -> {TRUE}
      [] OTHER -> {}

(* commitRefContext: the row of this name in the snapshot of now, if any.  *)
RefContext(s, row) == {r \in Rows(s) : r.name = row.name /\ r.scope = row.scope}

If(condition, items) == IF condition THEN items ELSE {}

RemoteItems(s, row) ==
    If(AcceptsPull(s, row), {"pull"}) \cup If(PushTargets(s, row) # {}, {"push", "force_push"})

(* The items a commit's menu offers that can be chosen, given the kinds of *)
(* action the repository allows for the commit.                            *)
CommitItems(s, row, can) ==
    LET info == RefContext(s, row)
        named == row.scope \in {"local", "remote"}
        local == row.scope = "local"
        headRef == local /\ row.name = s.head
        remotely == UNION {RemoteItems(s, r) : r \in info}
        history == (can \ If(headRef /\ info # {}, {"cherry_pick"}))
        copies == {"copy"} \cup If(named, {"copy_branch"}) \cup If(s.remotes > 0, {"open_link"})
    IN  IF row.scope = "stash" THEN {"stash_apply", "stash_pop", "stash_drop", "copy"}
        ELSE history \cup copies \cup
             If(headRef /\ info # {}, remotely \cup {"set_upstream", "rename_ref", "delete_ref"}) \cup
             If(named /\ ~(headRef /\ info # {}),
                If(~local /\ row.name = s.head, remotely) \cup {"checkout_ref"}
                \cup If(s.head # "none", {"merge_ref"})
                \cup If(local /\ info # {}, {"rename_ref", "delete_ref"}))

BranchItemsUnscoped(s, row) == RemoteItems(s, row) \cup {"branch", "copy", "rename_ref", "delete_ref"}

(* The items of a branch's menu in the sidebar.                            *)
BranchItems(s, row) ==
    RemoteItems(s, row) \cup {"branch", "copy"} \cup If(row.scope = "local", {"rename_ref", "delete_ref"})

(* What an answer allows for a commit; nothing before there is one.        *)
Available(answer) ==
    CASE answer.kind = "none" -> {}
      [] answer.kind = "answer" /\ answer.commit = 1 ->
            {"checkout", "branch", "tag", "tag_annotated", "reword", "revert",
             "reset:soft", "reset:mixed", "reset:hard"}
      [] OTHER -> {"checkout", "branch", "tag", "tag_annotated", "cherry_pick"}

MenuItems ==
    LET s == shape[active]
    IN  CASE menu.kind = "commit" -> CommitItems(s, menu.row, Available(shownActions))
          [] menu.kind = "branch" -> BranchItems(s, menu.row)
          [] OTHER -> {}

---------------------------------------------------------------------------
(* What choosing an item does.                                             *)

(* A command that only changes its own repository is an "apply": nothing   *)
(* here tells one of them from another.                                    *)
Do(to, op, name, option) == [to |-> to, op |-> op, name |-> name, option |-> option]
Nothing == Do("nothing", "none", "none", "none")

(* executeCommitAction, the items about a branch; executeBranchAction.     *)
BranchEffect(s, row, id) ==
    CASE id = "pull" -> Do("task", "pull", "none", "keyed")
      [] id = "push" /\ PushTargets(s, row) # {} ->
            Do("task", "push", row.name, IF PushTargets(s, row) = {TRUE} THEN "set_upstream" ELSE "plain")
      [] id = "force_push" /\ PushTargets(s, row) # {} -> Do("confirm", "force_push", row.name, "with_lease")
      [] id = "set_upstream" -> Do("prompt", "set_upstream", "none", "none")
      [] id = "rename_ref" /\ row.scope = "local" -> Do("prompt", "rename_branch", "none", "none")
      [] id = "delete_ref" /\ row.scope = "local" ->
            IF row.isHead THEN Do("toast", "none", row.name, "none")
            ELSE Do("confirm", "delete_branch", row.name, "plain")
      [] id = "branch" -> Do("prompt", "create_branch", "none", "none")
      [] id \in {"copy", "copy_branch", "open_link"} -> Do("clipboard", "none", row.name, "none")
      [] OTHER -> Nothing

CommitEffect(s, row, id) ==
    CASE id \in {"checkout_ref", "merge_ref", "stash_apply", "stash_pop", "checkout", "cherry_pick",
                "revert", "reset:soft", "reset:mixed", "reset:hard"} -> Do("task", "apply", "none", "none")
      [] id = "stash_drop" -> Do("confirm", "delete_stash", "none", "none")
      [] id = "reword" -> Do("editor", "reword", "none", "none")
      [] id \in {"tag", "tag_annotated"} -> Do("prompt", "create_tag", "none", "none")
      [] id \in {"branch", "copy", "copy_branch", "open_link"} -> BranchEffect(s, row, id)
      [] id \in {"pull", "push", "force_push", "set_upstream", "rename_ref", "delete_ref"} ->
            IF RefContext(s, row) = {} THEN Nothing
            ELSE BranchEffect(s, CHOOSE r \in RefContext(s, row) : TRUE, id)
      [] OTHER -> Nothing

Effect(id) ==
    IF menu.kind = "commit" THEN CommitEffect(shape[active], menu.row, id)
    ELSE BranchEffect(shape[active], menu.row, id)

(* The items that ask with window.confirm or window.prompt first.          *)
AsksFirst == {"checkout", "reset:hard", "cherry_pick", "revert"}

---------------------------------------------------------------------------
(* Toasts and the queue.                                                   *)

Report == [actions |-> {}]
Toast(actions, repo) ==
    IF actions = {} THEN Report
    ELSE [actions |-> actions, failed |-> repo, captured |-> active, bare |-> shape[active].remotes = 0]

(* addToast: the newest few are kept, whatever the older ones offer.       *)
NewestToasts(list) == IF Len(list) <= KeptToasts THEN list ELSE SubSeq(list, Len(list) - KeptToasts + 1, Len(list))

AddToast(toast) == toasts' = NewestToasts(Append(toasts, toast))

Task(by, owner, repo, op, name, option, key) ==
    [by |-> by, owner |-> owner, repo |-> repo, op |-> op, name |-> name, option |-> option, key |-> key]

SameKey(task) == \E i \in DOMAIN queue : task.key # NoKey /\ queue[i].key = task.key
SameCommand(task) == \E i \in DOMAIN queue : queue[i].key = task.key /\ queue[i].repo = task.repo

Accept(task) ==
    IF SameKey(task) THEN
        /\ dropped' = IF SameCommand(task) THEN dropped ELSE dropped \cup {[repo |-> task.repo, key |-> task.key]}
        /\ UNCHANGED <<queue, toasts>>
    ELSE
        /\ queue' = Append(queue, task)
        /\ IF queue = <<>> THEN UNCHANGED toasts ELSE AddToast(Report)
        /\ UNCHANGED dropped

(* runMutation: the repository is the one on the screen when it is asked.  *)
AskToRun(by, owner, op, name, option, key) ==
    /\ asked < MaxAsked /\ asked' = asked + 1
    /\ Accept(Task(by, owner, active, op, name, option, key))

Unasked == UNCHANGED <<queue, toasts, dropped, asked>>

---------------------------------------------------------------------------
(* Tabs, menus and the answer a commit's menu waits for.                   *)

(* A shortcut is taken unless one of these is open.  Bound: no more is done*)
(* when no command may be asked for any more.                              *)
Typing == asked < MaxAsked /\ menu.kind \in {"none", "branch"} /\ prompt = None
(* The mouse reaches the panels under no overlay.                          *)
Pointing == asked < MaxAsked /\ menu = None /\ prompt = None /\ adding = {}

Superseded == {[call EXCEPT !.current = FALSE] : call \in actionCalls}

CloseMenusOnly ==
    /\ menu' = None /\ shownActions' = None /\ actionCalls' = Superseded
    /\ UNCHANGED <<prompt, confirm>>

(* useAppChrome, when the active tab changes.                              *)
CloseDialogs ==
    /\ menu' = None /\ shownActions' = None /\ actionCalls' = Superseded
    /\ prompt' = None /\ confirm' = None

Activate(r) ==
    /\ Typing \/ menu.kind = "tab"
    /\ r # active /\ active' = r
    /\ CloseDialogs
    /\ UNCHANGED <<shape, adding, queue, toasts, lastForce, ghosts, asked, changes>>

OpenCommitMenu(row, commit) ==
    /\ Pointing
    /\ row = StashRow => shape[active].stashed
    /\ row # Plain => commit = 1     \* bound: a labelled row is the one in the details panel
    /\ menu' = [kind |-> "commit", repo |-> active, row |-> row, commit |-> commit]
    /\ IF commit = 1
       THEN shownActions' = [kind |-> "answer", repo |-> active, commit |-> 1] /\ actionCalls' = Superseded
       ELSE /\ Cardinality(actionCalls) < MaxActionCalls
            /\ shownActions' = None
            /\ actionCalls' = Superseded \cup {[repo |-> active, commit |-> commit, current |-> TRUE]}
    /\ UNCHANGED <<active, shape, dialogs, queue, toasts, lastForce, ghosts, asked, changes>>

AnswersAnyScreen(call) == menu.kind = "commit"

AnswersScreen(call) == call.current /\ call.repo = active

(* The answer, or a failure that is reported, or neither when it is late.  *)
ActionsAnswered(call, ok) ==
    /\ call \in actionCalls /\ actionCalls' = actionCalls \ {call}
    /\ IF AnswersScreen(call) /\ ok THEN shownActions' = [kind |-> "answer", repo |-> call.repo, commit |-> call.commit]
       ELSE UNCHANGED shownActions
    /\ IF AnswersScreen(call) /\ ~ok THEN AddToast(Report) ELSE UNCHANGED toasts
    /\ UNCHANGED <<active, shape, menu, dialogs, queue, lastForce, ghosts, asked, changes>>

OpenBranchMenu(row) ==
    /\ Pointing
    /\ menu' = [kind |-> "branch", repo |-> active, row |-> row, commit |-> 1]
    /\ UNCHANGED <<active, shape, actionCalls, shownActions, dialogs, queue, toasts, lastForce, ghosts, asked, changes>>

OpenTabMenu ==
    /\ Pointing
    /\ menu' = [kind |-> "tab", repo |-> active, row |-> Plain, commit |-> 1]
    /\ UNCHANGED <<active, shape, actionCalls, shownActions, dialogs, queue, toasts, lastForce, ghosts, asked, changes>>

(* Escape, Tab or a press outside the menu.                                *)
CloseMenu ==
    /\ menu # None
    /\ menu' = None /\ shownActions' = None /\ actionCalls' = Superseded
    /\ UNCHANGED <<active, shape, dialogs, queue, toasts, lastForce, ghosts, asked, changes>>

Dialog(kind, owner, name, option) == [kind |-> kind, owner |-> owner, name |-> name, option |-> option]

(* The menu closes, then the item does what it does; a window.confirm may  *)
(* be answered with no.                                                    *)
Choose(id) ==
    LET e == Effect(id)
    IN  /\ id \in MenuItems
        /\ menu' = None /\ shownActions' = None /\ actionCalls' = Superseded
        /\ prompt' = IF e.to = "prompt" THEN Dialog(e.op, menu.repo, e.name, e.option) ELSE prompt
        /\ confirm' = IF e.to = "confirm" THEN Dialog(e.op, menu.repo, e.name, e.option) ELSE confirm
        /\ \/ /\ e.to = "task"
              /\ AskToRun("user", menu.repo, e.op, e.name, e.option,
                     IF e.option = "keyed" THEN <<e.op>> ELSE NoKey)
           \/ e.to = "toast" /\ AddToast(Report) /\ UNCHANGED <<queue, dropped, asked>>
           \/ e.to \notin {"task", "toast"} /\ Unasked
           \/ id \in AsksFirst /\ Unasked
        /\ UNCHANGED <<active, shape, adding, lastForce, refused, changes>>

(* A row of the sidebar or of the graph that is clicked is checked out; of *)
(* a remote branch, the local branch of its short name.                    *)
CheckoutRow(row) ==
    /\ Pointing
    /\ AskToRun("user", active, "apply", "none", "none", NoKey)
    /\ UNCHANGED <<active, shape, menu, actionCalls, shownActions, dialogs, lastForce, refused, changes>>

---------------------------------------------------------------------------
(* Prompts and confirmations.                                              *)

SubmitPrompt ==
    /\ prompt.kind \notin {"none", "settings"}
    /\ prompt' = None
    /\ AskToRun("user", prompt.owner, "apply", "none", "none", NoKey)
    /\ UNCHANGED <<active, shape, menu, actionCalls, shownActions, confirm, adding, lastForce, refused, changes>>

(* submitConfirm                                                           *)
SubmitConfirm ==
    /\ confirm # None
    /\ confirm' = None
    /\ IF confirm.kind = "add_remote_for_push" THEN adding' = {active} /\ Unasked
       ELSE /\ AskToRun("user", confirm.owner, IF confirm.kind = "delete_stash" THEN "apply" ELSE confirm.kind, confirm.name, confirm.option,
                   IF confirm.kind = "force_push" THEN <<"push", confirm.name>> ELSE NoKey)
            /\ UNCHANGED adding
    /\ lastForce' = IF confirm.kind = "force_push" THEN confirm ELSE lastForce
    /\ UNCHANGED <<active, shape, menu, actionCalls, shownActions, prompt, refused, changes>>

CancelPrompt == prompt # None /\ prompt' = None /\ UNCHANGED <<confirm, adding>>
CancelConfirm == confirm # None /\ confirm' = None /\ UNCHANGED <<prompt, adding>>
CloseAddRemote == adding # {} /\ adding' = {} /\ UNCHANGED <<prompt, confirm>>

CancelDialog ==
    /\ CancelPrompt \/ CancelConfirm \/ CloseAddRemote
    /\ UNCHANGED <<active, shape, menu, actionCalls, shownActions, queue, toasts, lastForce, ghosts, asked, changes>>

OpenSettings ==
    /\ Typing /\ prompt' = Dialog("settings", active, "none", "none")
    /\ UNCHANGED <<active, shape, menu, actionCalls, shownActions, confirm, adding, queue, toasts, lastForce, ghosts, asked, changes>>

(* addRemoteAndPush: the remote of the repository on the screen, and then  *)
(* HEAD's branch, if HEAD is on one.                                       *)
SubmitRemote ==
    /\ adding # {} /\ adding' = {}
    /\ \E owner \in adding :
        AskToRun("remote", owner, "add_remote", shape[active].head, "none", <<"add-remote">>)
    /\ UNCHANGED <<active, shape, menu, actionCalls, shownActions, prompt, confirm, lastForce, refused, changes>>

---------------------------------------------------------------------------
(* The toolbar, the banner and the shortcuts.                              *)

(* What of the snapshot a command needs to do anything.                    *)
Possible(s, op) ==
    CASE op = "stash_pop" -> s.stashed
      [] op \in {"continue", "abort"} -> s.operation \in Continuable
      [] op = "skip" -> s.operation \in Continuable \ {"merge"}
      [] OTHER -> TRUE

(* useRepositoryCommands                                                   *)
Command(op) ==
    /\ Possible(shape[active], op)
    /\ CASE op = "create_branch" ->
                prompt' = Dialog("create_branch", active, "none", "none") /\ Unasked /\ UNCHANGED confirm
         [] op = "push" /\ shape[active].remotes = 0 ->
                confirm' = Dialog("add_remote_for_push", active, "none", "none") /\ Unasked /\ UNCHANGED prompt
         [] OTHER ->
                AskToRun("user", active, op, "none", "plain", <<op>>) /\ UNCHANGED <<prompt, confirm>>
    /\ UNCHANGED <<active, shape, menu, actionCalls, shownActions, adding, lastForce, refused, changes>>

(* A button, disabled while busy; the toolbar gives way to the bar that    *)
(* asks for a confirmation, the operation's banner does not.               *)
Toolbar(op) ==
    /\ Pointing /\ queue = <<>> /\ confirm = None
    /\ op \in {"pull", "push", "create_branch", "stash", "stash_pop"}
    /\ Command(op)

Banner(op) ==
    /\ Pointing /\ queue = <<>>
    /\ op \in {"continue", "abort", "skip"}
    /\ Command(op)

(* A shortcut, without a busy guard but for the branch prompt.             *)
Shortcut(op) ==
    /\ Typing
    /\ op \notin {"stash_pop", "skip"}
    /\ op = "create_branch" => queue = <<>>
    /\ Command(op)

---------------------------------------------------------------------------
(* The end of a command, and the button of a toast.                        *)

Outcomes(task) ==
    {"ok", "failed"}
      \cup If(task.op = "force_push" /\ task.option = "with_lease", {"lease"})
      \cup If(task.op = "push" /\ task.option = "plain", {"behind", "no_upstream"})
      \cup If(task.op = "delete_branch" /\ task.option = "plain", {"unmerged"})

(* The recovery actions of the failure that a handler is registered for;   *)
(* the one that only opens the settings is left out.                       *)
RecoveryActions(outcome) ==
    CASE outcome = "lease" -> {"pull", "push_force"}
      [] outcome = "behind" -> {"pull"}
      [] outcome = "no_upstream" -> {"push_set_upstream"}
      [] OTHER -> {}

(* After a remote was added, its branch is pushed to it.                   *)
Following(task, outcome) ==
    IF outcome = "ok" /\ task.op = "add_remote" /\ task.name # "none"
        /\ ~\E i \in DOMAIN queue : queue[i].key = <<"push", task.name>>
    THEN <<Task("remote", task.owner, task.repo, "push", task.name, "set_upstream", <<"push", task.name>>)>>
    ELSE <<>>

(* The snapshot of the active repository may be another one afterwards.    *)
Snapshot ==
    \/ UNCHANGED <<shape, changes>>
    \/ /\ changes < MaxChanges /\ changes' = changes + 1
       /\ \E s \in Shapes \ {shape[active]} : shape' = [shape EXCEPT ![active] = s]

CommandEnds(outcome) ==
    /\ queue # <<>>
    /\ outcome \in Outcomes(queue[1])
    /\ queue' = Tail(queue) \o Following(queue[1], outcome)
    /\ IF outcome = "unmerged"
       THEN confirm' = Dialog("delete_branch", queue[1].repo, queue[1].name, "force") /\ UNCHANGED toasts
       ELSE AddToast(Toast(RecoveryActions(outcome), queue[1].repo)) /\ UNCHANGED confirm
    /\ refused' = IF outcome \in {"lease", "unmerged"}
                  THEN refused \cup {[why |-> outcome, repo |-> queue[1].repo, name |-> queue[1].name]}
                  ELSE refused
    /\ IF outcome = "ok" /\ queue[1].repo = active THEN Snapshot ELSE UNCHANGED <<shape, changes>>
    /\ UNCHANGED <<active, menu, actionCalls, shownActions, prompt, adding, lastForce, dropped, asked>>

Refreshed ==
    /\ Snapshot
    /\ UNCHANGED <<active, menu, actionCalls, shownActions, dialogs, queue, toasts, lastForce, ghosts, asked>>

(* A pull or a push from a toast is of the repository that was on the      *)
(* screen when the failure was reported; escalateForcePush asks again      *)
(* about the last force push.                                              *)
TakeRecovery(i, action) ==
    /\ i \in DOMAIN toasts /\ action \in toasts[i].actions
    /\ LET toast == toasts[i]
           command(op, option) ==
                /\ asked < MaxAsked /\ asked' = asked + 1
                /\ LET task == Task("toast", toast.failed, toast.captured, op, "none", option, <<op>>)
                   IN  IF SameKey(task) THEN UNCHANGED queue ELSE queue' = Append(queue, task)
       IN  /\ toasts' = RemoveAt(toasts, i)
           /\ \/ action = "pull" /\ command("pull", "plain") /\ UNCHANGED confirm
              \/ action = "push_set_upstream" /\ ~toast.bare /\ command("push", "set_upstream")
                 /\ UNCHANGED confirm
              \/ /\ action = "push_set_upstream" /\ toast.bare
                 /\ confirm' = Dialog("add_remote_for_push", active, "none", "none")
                 /\ UNCHANGED <<queue, asked>>
              \/ /\ action = "push_force"
                 /\ confirm' = Dialog("force_push", lastForce.owner, lastForce.name, "force")
                 /\ UNCHANGED <<queue, asked>>
    /\ UNCHANGED <<active, shape, menu, actionCalls, shownActions, prompt, adding, lastForce, ghosts, changes>>

DismissToast(i) ==
    /\ i \in DOMAIN toasts /\ toasts' = RemoveAt(toasts, i)
    /\ UNCHANGED <<active, shape, menu, actionCalls, shownActions, dialogs, queue, lastForce, ghosts, asked, changes>>

---------------------------------------------------------------------------

CommandInit ==
    /\ active = FirstTab
    /\ \E s \in Shapes : shape = [r \in Repos |-> s]
    /\ menu = None /\ actionCalls = {} /\ shownActions = None
    /\ prompt = None /\ confirm = None /\ adding = {}
    /\ queue = <<>> /\ toasts = <<>> /\ lastForce = None
    /\ refused = {} /\ dropped = {}
    /\ asked = 0 /\ changes = 0

CommandNext ==
    \/ \E r \in Repos : Activate(r)
    \/ \E row \in Rows(shape[active]) \cup {Plain, StashRow}, c \in Commits : OpenCommitMenu(row, c)
    \/ \E row \in Rows(shape[active]) : OpenBranchMenu(row) \/ CheckoutRow(row)
    \/ OpenTabMenu \/ CloseMenu
    \/ \E call \in actionCalls, ok \in BOOLEAN : ActionsAnswered(call, ok)
    \/ \E id \in MenuItems : Choose(id)
    \/ SubmitPrompt \/ SubmitConfirm \/ CancelDialog \/ OpenSettings \/ SubmitRemote
    \/ \E op \in Commands : Toolbar(op) \/ Banner(op) \/ Shortcut(op)
    \/ \E outcome \in {"ok", "failed", "lease", "behind", "no_upstream", "unmerged"} : CommandEnds(outcome)
    \/ \E i \in DOMAIN toasts : DismissToast(i) \/ \E a \in toasts[i].actions : TakeRecovery(i, a)
    \/ Refreshed

CommandSpec == CommandInit /\ [][CommandNext]_commandVars

---------------------------------------------------------------------------
(* Correctness.                                                            *)

(* Every variable keeps its type: a menu has a row of some snapshot, the   *)
(* toasts are bounded, and at most one availability call is the current.   *)
CommandsTypeOK ==
    /\ active \in Repos /\ shape \in [Repos -> Shapes]
    /\ menu = None \/ (menu.kind \in {"commit", "branch", "tab"} /\ menu.repo \in Repos /\ menu.commit \in Commits)
    /\ shownActions = None \/ (shownActions.repo \in Repos /\ shownActions.commit \in Commits)
    /\ \A call \in actionCalls : call.repo \in Repos /\ call.current \in BOOLEAN
    /\ Cardinality({call \in actionCalls : call.current}) <= 1
    /\ prompt.kind \in {"none", "create_branch", "create_tag", "rename_branch", "set_upstream", "settings"}
    /\ confirm.kind \in {"none", "delete_branch", "delete_stash", "force_push", "add_remote_for_push"}
    /\ adding \subseteq Repos /\ Cardinality(adding) <= 1
    /\ Len(toasts) <= KeptToasts
    /\ \A i \in DOMAIN queue : queue[i].repo \in Repos /\ queue[i].owner \in Repos
    /\ Cardinality({queue[i].key : i \in DOMAIN queue} \ {NoKey}) =
            Cardinality({i \in DOMAIN queue : queue[i].key # NoKey})

(* A command chosen in a menu, a prompt or a confirmation runs in the      *)
(* repository that was on the screen when that menu or dialog was opened,  *)
(* however the tabs are switched meanwhile ("The repository is fixed when  *)
(* the operation is asked for, not when it runs").  What a failure opens   *)
(* by itself is not meant: see ForceAfterRefusal.                          *)
RunsWhereAsked ==
    \A i \in DOMAIN queue :
        queue[i].by = "user" /\ queue[i].option # "force"
            => queue[i].repo = queue[i].owner

(* No item that a menu offers does nothing: what greys an item out and     *)
(* what its handler then checks agree, also when the snapshot changes      *)
(* under the open menu.                                                    *)
NoDeadItems == \A id \in MenuItems : Effect(id) # Nothing

(* The items of a commit's menu follow the answer about that commit in the *)
(* repository on the screen, never a late answer about another.            *)
MenuOwnAnswers ==
    shownActions # None => /\ menu.kind = "commit"
                    /\ shownActions.repo = active /\ shownActions.commit = menu.commit

(* "one asked for while another is running is queued behind it rather than *)
(* dropped, so the shortcut is never a dead key": a command is dropped for *)
(* its key only when the same command of the same repository is pending.   *)
NeverADeadKey == dropped = {}

(* A push without a lease or a forced deletion is asked for only about a   *)
(* branch of the repository where the safe one was refused.                *)
ForceAfterRefusal ==
    \A i \in DOMAIN queue : queue[i].option = "force" =>
        \E r \in refused : r.repo = queue[i].repo /\ r.name = queue[i].name

(* A row offers the pull only when it is the checked-out branch's own.     *)
PullIsOfTheRow ==
    menu.kind \in {"commit", "branch"} /\ "pull" \in MenuItems => menu.row.name = shape[active].head

(* A toast that offers a next step stays until it is taken or dismissed.   *)
ActionToastStays ==
    [][(\A i \in DOMAIN toasts : ~DismissToast(i) /\ \A a \in toasts[i].actions : ~TakeRecovery(i, a)) =>
        {toasts[i] : i \in {j \in DOMAIN toasts : toasts[j].actions # {}}} \subseteq ToSet(toasts')]_commandVars

(* A remote is added to the repository for which its dialog was opened,    *)
(* and a recovery runs where its failure happened.                         *)
RemoteAddedWhereAsked == \A i \in DOMAIN queue : queue[i].by = "remote" => queue[i].repo = queue[i].owner
RecoveryWhereFailed == \A i \in DOMAIN queue : queue[i].by = "toast" => queue[i].repo = queue[i].owner

============================================================================
