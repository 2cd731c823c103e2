------------------------ MODULE ClientCommandsProofs ------------------------
(***************************************************************************)
(* Proofs about ClientCommands, for any repositories, snapshots, commands  *)
(* and bounds: what a menu, a prompt or a confirmation asks for runs where *)
(* it was asked, a commit's menu follows its own answer, and no item that  *)
(* a menu offers does nothing.                                             *)
(***************************************************************************)
EXTENDS ClientCommands, TLAPS

-----------------------------------------------------------------------------
(***************************************************************************)
(* Menus and the availability calls.                                       *)
(***************************************************************************)
ActionCall == [repo : Repos, commit : Commits, current : BOOLEAN]

\* A row as the sidebar and the graph have it; a tab's menu has the plain one.
SomeRow(row) == row.scope \in {"local", "remote", "plain", "stash"}

MenuShape ==
    /\ active \in Repos
    /\ \/ menu = None
       \/ /\ menu = [kind |-> menu.kind, repo |-> menu.repo, row |-> menu.row, commit |-> menu.commit]
          /\ menu.kind \in {"commit", "branch", "tab"} /\ SomeRow(menu.row)
    /\ actionCalls \subseteq ActionCall

\* The menu is of the repository on the screen: the tabs are switched without it.
MenuOfScreen == menu # None => menu.repo = active

\* The call that will be heard was made for the commit of the open menu.
CurrentCallIsOfMenu ==
    \A call \in actionCalls : call.current =>
        menu.kind = "commit" /\ call.repo = active /\ call.commit = menu.commit

MenuInv == MenuShape /\ MenuOfScreen /\ CurrentCallIsOfMenu /\ MenuOwnAnswers

LEMMA NoMenu == None.kind = "none"
BY DEF None

LEMMA RowsAreRows ==
    /\ \A s : \A row \in Rows(s) : SomeRow(row)
    /\ SomeRow(Plain) /\ SomeRow(StashRow)
BY DEF Rows, Row, SomeRow, Plain, StashRow

LEMMA SupersededCalls ==
    ASSUME actionCalls \subseteq ActionCall
    PROVE  Superseded \subseteq ActionCall /\ \A call \in Superseded : ~ call.current
BY DEF Superseded, ActionCall

\* Menus and calls stay as they are, and so does the tab.
LEMMA MenuStays ==
    ASSUME MenuInv, UNCHANGED <<active, menu, actionCalls, shownActions>>
    PROVE  MenuInv'
BY DEF MenuInv, MenuShape, MenuOfScreen, CurrentCallIsOfMenu, MenuOwnAnswers

\* The menu closes, and what it waited for is not heard any more.
LEMMA MenuCloses ==
    ASSUME MenuInv, active' \in Repos, menu' = None, shownActions' = None, actionCalls' = Superseded
    PROVE  MenuInv'
BY SupersededCalls DEF MenuInv, MenuShape, MenuOfScreen, CurrentCallIsOfMenu, MenuOwnAnswers

\* Another menu opens where there was none: no call was current, no answer shown.
LEMMA MenuOpens ==
    ASSUME MenuInv, menu = None, NEW kind \in {"branch", "tab"}, NEW row, SomeRow(row), NEW c,
           menu' = [kind |-> kind, repo |-> active, row |-> row, commit |-> c],
           UNCHANGED <<active, actionCalls, shownActions>>
    PROVE  MenuInv'
<1>1. \A call \in actionCalls : ~ call.current
  BY NoMenu DEF MenuInv, CurrentCallIsOfMenu
<1>2. shownActions = None
  BY NoMenu DEF MenuInv, MenuOwnAnswers
<1> QED BY <1>1, <1>2
        DEF MenuInv, MenuShape, MenuOfScreen, CurrentCallIsOfMenu, MenuOwnAnswers

LEMMA CommitMenuOpens ==
    ASSUME MenuInv, NEW row, SomeRow(row), NEW c \in Commits, OpenCommitMenu(row, c)
    PROVE  MenuInv'
<1>1. menu' = [kind |-> "commit", repo |-> active, row |-> row, commit |-> c] /\ active' = active
  BY DEF OpenCommitMenu
<1>2. \/ shownActions' = [kind |-> "answer", repo |-> active, commit |-> 1] /\ actionCalls' = Superseded /\ c = 1
      \/ /\ shownActions' = None
         /\ actionCalls' = Superseded \cup {[repo |-> active, commit |-> c, current |-> TRUE]}
  BY DEF OpenCommitMenu
<1>3. actionCalls' \subseteq ActionCall
  <2>1. Superseded \subseteq ActionCall
    BY SupersededCalls DEF MenuInv, MenuShape
  <2>2. [repo |-> active, commit |-> c, current |-> TRUE] \in ActionCall
    BY DEF MenuInv, MenuShape, ActionCall
  <2> QED BY <1>2, <2>1, <2>2
<1>4. CurrentCallIsOfMenu'
  BY <1>1, <1>2, SupersededCalls DEF MenuInv, MenuShape, CurrentCallIsOfMenu
<1>5. MenuOwnAnswers'
  BY <1>1, <1>2 DEF MenuOwnAnswers
<1> QED BY <1>1, <1>3, <1>4, <1>5 DEF MenuInv, MenuShape, MenuOfScreen

LEMMA AnswerComes ==
    ASSUME MenuInv, NEW call, NEW ok, ActionsAnswered(call, ok)
    PROVE  MenuInv'
<1>1. UNCHANGED <<active, menu>> /\ actionCalls' \subseteq actionCalls /\ call \in actionCalls
  BY DEF ActionsAnswered
<1>2. CASE UNCHANGED shownActions
  BY <1>1, <1>2 DEF MenuInv, MenuShape, MenuOfScreen, CurrentCallIsOfMenu, MenuOwnAnswers
<1>3. CASE /\ AnswersScreen(call)
           /\ shownActions' = [kind |-> "answer", repo |-> call.repo, commit |-> call.commit]
  BY <1>1, <1>3 DEF MenuInv, MenuShape, MenuOfScreen, CurrentCallIsOfMenu, MenuOwnAnswers, AnswersScreen
<1> QED BY <1>2, <1>3 DEF ActionsAnswered

\* The names of everything but the menus, which no other action touches.
LEMMA MenuStepHolds == ASSUME MenuInv, [CommandNext]_commandVars PROVE MenuInv'
<1>1. ASSUME NEW r \in Repos, Activate(r) PROVE MenuInv'
  BY <1>1, MenuCloses DEF Activate, CloseDialogs
<1>2. ASSUME NEW row \in Rows(shape[active]) \cup {Plain, StashRow}, NEW c \in Commits,
             OpenCommitMenu(row, c)
      PROVE  MenuInv'
  BY <1>2, RowsAreRows, CommitMenuOpens
<1>3. ASSUME NEW row \in Rows(shape[active]), OpenBranchMenu(row) PROVE MenuInv'
  BY <1>3, RowsAreRows, MenuOpens DEF OpenBranchMenu, Pointing
<1>4. ASSUME NEW row, CheckoutRow(row) PROVE MenuInv'
  BY <1>4, MenuStays DEF CheckoutRow
<1>5. CASE OpenTabMenu
  BY <1>5, RowsAreRows, MenuOpens DEF OpenTabMenu, Pointing
<1>6. ASSUME CloseMenu \/ \E id : Choose(id) PROVE MenuInv'
  BY <1>6, MenuCloses DEF CloseMenu, Choose, MenuInv, MenuShape
<1>7. ASSUME NEW call, NEW ok, ActionsAnswered(call, ok) PROVE MenuInv'
  BY <1>7, AnswerComes
<1>8. CASE SubmitPrompt \/ SubmitConfirm \/ CancelDialog \/ OpenSettings \/ SubmitRemote
  BY <1>8, MenuStays DEF SubmitPrompt, SubmitConfirm, CancelDialog, OpenSettings, SubmitRemote
<1>9. ASSUME NEW op, Toolbar(op) \/ Banner(op) \/ Shortcut(op) PROVE MenuInv'
  BY <1>9, MenuStays DEF Toolbar, Banner, Shortcut, Command
<1>10. ASSUME NEW outcome, CommandEnds(outcome) PROVE MenuInv'
  BY <1>10, MenuStays DEF CommandEnds
<1>11. ASSUME NEW i, DismissToast(i) \/ \E a : TakeRecovery(i, a) PROVE MenuInv'
  BY <1>11, MenuStays DEF DismissToast, TakeRecovery
<1>12. CASE Refreshed
  BY <1>12, MenuStays DEF Refreshed
<1>13. CASE UNCHANGED commandVars
  BY <1>13, MenuStays DEF commandVars
<1> QED BY <1>1, <1>2, <1>3, <1>4, <1>5, <1>6, <1>7, <1>8, <1>9, <1>10, <1>11, <1>12, <1>13
        DEF CommandNext

LEMMA MenuStarts == CommandInit => MenuInv
BY CommandAssumption, NoMenu
   DEF CommandInit, MenuInv, MenuShape, MenuOfScreen, CurrentCallIsOfMenu, MenuOwnAnswers

-----------------------------------------------------------------------------
(***************************************************************************)
(* Where a command runs.                                                   *)
(***************************************************************************)

\* A prompt, and a confirmation that no failure has opened, are of the repository on
\* the screen.  What a failure opens asks for a forced command.
DialogsOfScreen ==
    /\ prompt # None => prompt.owner = active
    /\ confirm # None => confirm.owner = active \/ confirm.option = "force"

\* The queue is a sequence, of whatever commands.
Sequence(q) == q \in Seq(ToSet(q))

RunsAsAsked(task) == task.by = "user" /\ task.option # "force" => task.repo = task.owner

WishInv == MenuInv /\ DialogsOfScreen /\ Sequence(queue) /\ RunsWhereAsked

LEMMA EmptySequence == Sequence(<< >>) /\ DOMAIN << >> = {}
BY DEF Sequence, ToSet

LEMMA SequenceOf == ASSUME NEW S, NEW q \in Seq(S) PROVE Sequence(q)
<1>1. /\ Len(q) \in Nat /\ DOMAIN q = 1 .. Len(q)
      /\ q = [i \in 1 .. Len(q) |-> q[i]] /\ \A i \in 1 .. Len(q) : q[i] \in ToSet(q)
  BY DEF ToSet
<1>2. q \in [1 .. Len(q) -> ToSet(q)]
  BY <1>1
<1> QED BY <1>1, <1>2 DEF Sequence

LEMMA Appended ==
    ASSUME NEW q, Sequence(q), NEW e
    PROVE  /\ Sequence(Append(q, e))
           /\ \A i \in DOMAIN Append(q, e) : Append(q, e)[i] = e \/ \E j \in DOMAIN q : Append(q, e)[i] = q[j]
<1> DEFINE S == ToSet(q) \cup {e}
<1>1. q \in Seq(S)
  BY DEF Sequence
<1>2. e \in S
  OBVIOUS
<1> HIDE DEF S
<1>3. Append(q, e) \in Seq(S)
  BY <1>1, <1>2
<1>4. \A i \in DOMAIN Append(q, e) : Append(q, e)[i] = e \/ (i \in DOMAIN q /\ Append(q, e)[i] = q[i])
  BY <1>1, <1>2
<1> QED BY <1>3, <1>4, SequenceOf

LEMMA TailOf ==
    ASSUME NEW q, Sequence(q), q # << >>
    PROVE  /\ Sequence(Tail(q))
           /\ \A i \in DOMAIN Tail(q) : \E j \in DOMAIN q : Tail(q)[i] = q[j]
<1>1. /\ Tail(q) \in Seq(ToSet(q)) /\ DOMAIN Tail(q) = 1 .. Len(q) - 1
      /\ \A i \in 1 .. Len(q) - 1 : Tail(q)[i] = q[i + 1]
      /\ DOMAIN q = 1 .. Len(q) /\ Len(q) \in Nat
  BY DEF Sequence
<1>2. \A i \in DOMAIN Tail(q) : i + 1 \in DOMAIN q /\ Tail(q)[i] = q[i + 1]
  BY <1>1
<1> QED BY <1>1, <1>2, SequenceOf

\* A command that runs where it was asked joins the queue, or none does.
LEMMA AllAsAsked ==
    ASSUME NEW q, Sequence(q), \A i \in DOMAIN q : RunsAsAsked(q[i]), NEW task, RunsAsAsked(task)
    PROVE  Sequence(Append(q, task)) /\ \A i \in DOMAIN Append(q, task) : RunsAsAsked(Append(q, task)[i])
<1> DEFINE r == Append(q, task)
<1>1. Sequence(r) /\ \A i \in DOMAIN r : r[i] = task \/ \E j \in DOMAIN q : r[i] = q[j]
  BY Appended
<1> HIDE DEF r
<1>2. \A i \in DOMAIN r : RunsAsAsked(r[i])
  BY <1>1
<1> QED BY <1>1, <1>2 DEF r

LEMMA CommandJoins ==
    ASSUME Sequence(queue), RunsWhereAsked, NEW task, RunsAsAsked(task),
           queue' = queue \/ queue' = Append(queue, task)
    PROVE  Sequence(queue)' /\ RunsWhereAsked'
<1>1. \A i \in DOMAIN queue : RunsAsAsked(queue[i])
  BY DEF RunsWhereAsked, RunsAsAsked
<1>2. Sequence(queue') /\ \A i \in DOMAIN queue' : RunsAsAsked(queue'[i])
  BY <1>1, AllAsAsked
<1> QED BY <1>2 DEF RunsWhereAsked, RunsAsAsked

LEMMA AskedCommandJoins ==
    ASSUME Sequence(queue), RunsWhereAsked, NEW by, NEW owner, NEW op, NEW name, NEW option, NEW key,
           AskToRun(by, owner, op, name, option, key),
           by = "user" /\ option # "force" => owner = active
    PROVE  Sequence(queue)' /\ RunsWhereAsked'
<1> DEFINE task == Task(by, owner, active, op, name, option, key)
<1>1. queue' = queue \/ queue' = Append(queue, task)
  BY DEF AskToRun, Accept
<1>2. RunsAsAsked(task)
  BY DEF Task, RunsAsAsked
<1> HIDE DEF task
<1> QED BY <1>1, <1>2, CommandJoins

LEMMA WishesStay ==
    ASSUME WishInv, MenuInv', UNCHANGED <<active, prompt, confirm, queue>>
    PROVE  WishInv'
BY DEF WishInv, DialogsOfScreen, RunsWhereAsked

\* Dialogs that open, close or stay in front of the same tab.
LEMMA DialogsStay ==
    ASSUME WishInv, UNCHANGED active,
           prompt' \in {prompt, None} \/ prompt'.owner = active,
           confirm' \in {confirm, None} \/ confirm'.owner = active \/ confirm'.option = "force"
    PROVE  DialogsOfScreen'
BY DEF WishInv, DialogsOfScreen

LEMMA DialogFields ==
    ASSUME NEW kind, NEW owner, NEW name, NEW option
    PROVE  Dialog(kind, owner, name, option).owner = owner /\ Dialog(kind, owner, name, option).option = option
BY DEF Dialog

LEMMA ItemIsChosen == ASSUME WishInv, MenuInv', NEW id, Choose(id) PROVE WishInv'
<1>1. menu.repo = active
  <2>1. menu # None
    BY NoMenu DEF Choose, MenuItems
  <2> QED BY <2>1 DEF WishInv, MenuInv, MenuOfScreen
<1>2. DialogsOfScreen'
  BY <1>1, DialogsStay, DialogFields DEF Choose
<1>3. UNCHANGED queue \/ \E op, name, option, key : AskToRun("user", active, op, name, option, key)
  BY <1>1 DEF Choose, Unasked
<1>4. Sequence(queue)' /\ RunsWhereAsked'
  BY <1>3, AskedCommandJoins DEF WishInv, RunsWhereAsked
<1> QED BY <1>2, <1>4 DEF WishInv

LEMMA DialogIsAnswered ==
    ASSUME WishInv, MenuInv', SubmitPrompt \/ SubmitConfirm \/ CancelDialog \/ OpenSettings \/ SubmitRemote
    PROVE  WishInv'
<1>1. DialogsOfScreen'
  BY DialogsStay, DialogFields
     DEF SubmitPrompt, SubmitConfirm, CancelDialog, CancelPrompt, CancelConfirm, CloseAddRemote, OpenSettings, SubmitRemote
<1>2. UNCHANGED queue \/ \E by, owner, op, name, option, key :
          AskToRun(by, owner, op, name, option, key) /\ (by = "user" /\ option # "force" => owner = active)
  <2>1. CASE SubmitPrompt
    <3>1. prompt # None
      BY <2>1, NoMenu DEF SubmitPrompt
    <3> QED BY <2>1, <3>1 DEF SubmitPrompt, WishInv, DialogsOfScreen
  <2>2. CASE SubmitConfirm
    BY <2>2 DEF SubmitConfirm, Unasked, WishInv, DialogsOfScreen
  <2>3. CASE CancelDialog \/ OpenSettings
    BY <2>3 DEF CancelDialog, OpenSettings
  <2>4. CASE SubmitRemote
    BY <2>4 DEF SubmitRemote
  <2> QED BY <2>1, <2>2, <2>3, <2>4
<1>3. Sequence(queue)' /\ RunsWhereAsked'
  BY <1>2, AskedCommandJoins DEF WishInv, RunsWhereAsked
<1> QED BY <1>1, <1>3 DEF WishInv

LEMMA CommandIsAsked ==
    ASSUME WishInv, MenuInv', NEW op, Command(op)
    PROVE  WishInv'
<1>1. DialogsOfScreen'
  BY DialogsStay, DialogFields DEF Command
<1>2. UNCHANGED queue \/ AskToRun("user", active, op, "none", "plain", <<op>>)
  BY DEF Command, Unasked
<1>3. Sequence(queue)' /\ RunsWhereAsked'
  BY <1>2, AskedCommandJoins DEF WishInv, RunsWhereAsked
<1> QED BY <1>1, <1>3 DEF WishInv

LEMMA CommandIsDone == ASSUME WishInv, MenuInv', NEW outcome, CommandEnds(outcome) PROVE WishInv'
<1>1. DialogsOfScreen'
  BY DialogsStay, DialogFields DEF CommandEnds
<1>2. queue # << >> /\ queue' = Tail(queue) \o Following(queue[1], outcome)
  BY DEF CommandEnds
<1>3. Sequence(Tail(queue)) /\ \A i \in DOMAIN Tail(queue) : RunsAsAsked(Tail(queue)[i])
  BY <1>2, TailOf DEF WishInv, RunsWhereAsked, RunsAsAsked
<1>4. \/ Following(queue[1], outcome) = << >>
      \/ \E task : RunsAsAsked(task) /\ Following(queue[1], outcome) = <<task>>
  BY DEF Following, Task, RunsAsAsked
<1>5. \/ queue' = Tail(queue)
      \/ \E task : RunsAsAsked(task) /\ queue' = Append(Tail(queue), task)
  <2>1. Tail(queue) \in Seq(ToSet(Tail(queue)))
    BY <1>3 DEF Sequence
  <2>2. Tail(queue) \o << >> = Tail(queue)
    BY <2>1
  <2>3. ASSUME NEW task PROVE Tail(queue) \o <<task>> = Append(Tail(queue), task)
    <3> DEFINE S == ToSet(Tail(queue)) \cup {task}
    <3>1. Tail(queue) \in Seq(S) /\ task \in S
      BY <2>1
    <3> HIDE DEF S
    <3> QED BY <3>1
  <2> QED BY <1>2, <1>4, <2>2, <2>3
<1>6. Sequence(queue') /\ \A i \in DOMAIN queue' : RunsAsAsked(queue'[i])
  BY <1>3, <1>5, AllAsAsked
<1>7. Sequence(queue)' /\ RunsWhereAsked'
  BY <1>6 DEF RunsWhereAsked, RunsAsAsked
<1> QED BY <1>1, <1>7 DEF WishInv

LEMMA RecoveryIsTaken == ASSUME WishInv, MenuInv', NEW i, NEW a, TakeRecovery(i, a) PROVE WishInv'
<1>1. DialogsOfScreen'
  BY DialogsStay, DialogFields DEF TakeRecovery
<1>2. UNCHANGED queue \/ \E owner, repo, op, option :
          queue' = Append(queue, Task("toast", owner, repo, op, "none", option, <<op>>))
  BY DEF TakeRecovery
<1>3. \A owner, repo, op, option : RunsAsAsked(Task("toast", owner, repo, op, "none", option, <<op>>))
  BY DEF RunsAsAsked, Task
<1>4. Sequence(queue)' /\ RunsWhereAsked'
  BY <1>2, <1>3, CommandJoins DEF WishInv, RunsWhereAsked
<1> QED BY <1>1, <1>4 DEF WishInv

LEMMA WishStepHolds == ASSUME WishInv, [CommandNext]_commandVars PROVE WishInv'
<1>0. MenuInv'
  BY MenuStepHolds DEF WishInv
<1>1. ASSUME NEW r \in Repos, Activate(r) PROVE WishInv'
  BY <1>0, <1>1 DEF Activate, CloseDialogs, WishInv, DialogsOfScreen, RunsWhereAsked
<1>2. ASSUME NEW row, NEW c, OpenCommitMenu(row, c) \/ OpenBranchMenu(row) PROVE WishInv'
  BY <1>0, <1>2, WishesStay DEF OpenCommitMenu, OpenBranchMenu, dialogs
<1>4. ASSUME NEW row, CheckoutRow(row) PROVE WishInv'
  <2>1. Sequence(queue)' /\ RunsWhereAsked'
    BY <1>4, AskedCommandJoins DEF CheckoutRow, WishInv
  <2>2. DialogsOfScreen'
    BY <1>4, DialogsStay DEF CheckoutRow, dialogs
  <2> QED BY <1>0, <2>1, <2>2 DEF WishInv
<1>5. CASE OpenTabMenu \/ CloseMenu
  BY <1>0, <1>5, WishesStay DEF OpenTabMenu, CloseMenu, dialogs
<1>6. ASSUME NEW id, Choose(id) PROVE WishInv'
  BY <1>0, <1>6, ItemIsChosen
<1>7. ASSUME NEW call, NEW ok, ActionsAnswered(call, ok) PROVE WishInv'
  BY <1>0, <1>7, WishesStay DEF ActionsAnswered, dialogs
<1>8. CASE SubmitPrompt \/ SubmitConfirm \/ CancelDialog \/ OpenSettings \/ SubmitRemote
  BY <1>0, <1>8, DialogIsAnswered
<1>9. ASSUME NEW op, Toolbar(op) \/ Banner(op) \/ Shortcut(op) PROVE WishInv'
  BY <1>0, <1>9, CommandIsAsked DEF Toolbar, Banner, Shortcut
<1>10. ASSUME NEW outcome, CommandEnds(outcome) PROVE WishInv'
  BY <1>0, <1>10, CommandIsDone
<1>11. ASSUME NEW i, DismissToast(i) PROVE WishInv'
  BY <1>0, <1>11, WishesStay DEF DismissToast, dialogs
<1>12. ASSUME NEW i, NEW a, TakeRecovery(i, a) PROVE WishInv'
  BY <1>0, <1>12, RecoveryIsTaken
<1>13. CASE Refreshed \/ UNCHANGED commandVars
  BY <1>0, <1>13, WishesStay DEF Refreshed, commandVars, dialogs
<1> QED BY <1>1, <1>2, <1>4, <1>5, <1>6, <1>7, <1>8, <1>9, <1>10, <1>11, <1>12, <1>13
        DEF CommandNext

-----------------------------------------------------------------------------
(***************************************************************************)
(* What an item does.                                                      *)
(***************************************************************************)

\* The actions a commit may allow, whatever its answer is.
HistoryItems == {"checkout", "branch", "tag", "tag_annotated", "reword", "cherry_pick", "revert",
                 "reset:soft", "reset:mixed", "reset:hard"}

LEMMA AnswersAllowItems == \A answer : Available(answer) \subseteq HistoryItems
BY DEF Available, HistoryItems

LEMMA Something ==
    ASSUME NEW to, to # "nothing", NEW op, NEW name, NEW option
    PROVE  Do(to, op, name, option) # Nothing
BY DEF Do, Nothing

\* One row of a name and a scope: the sidebar lists a branch once.
LEMMA OneRowPerName ==
    ASSUME NEW s, NEW row, NEW r \in RefContext(s, row), NEW q \in RefContext(s, row)
    PROVE  r = q
<1> DEFINE Of(b) == IF row.scope = "local" THEN Row(b, "local", b = s.head, b \in s.up)
                    ELSE Row(b, "remote", FALSE, FALSE)
<1>1. ASSUME NEW p \in RefContext(s, row) PROVE p = Of(row.name)
  <2>1. p \in Rows(s) /\ p.name = row.name /\ p.scope = row.scope
    BY DEF RefContext
  <2>2. CASE \E b \in s.locals : p = Row(b, "local", b = s.head, b \in s.up)
    BY <2>1, <2>2 DEF Row
  <2>3. CASE \E b \in s.rows : p = Row(b, "remote", FALSE, FALSE)
    <3>1. PICK b : p = Row(b, "remote", FALSE, FALSE)
      BY <2>3
    <3>2. p.name = b /\ p.scope = "remote"
      BY <3>1 DEF Row
    <3>3. row.scope # "local" /\ row.name = b
      BY <2>1, <3>2
    <3> QED BY <3>1, <3>3
  <2> QED BY <2>1, <2>2, <2>3 DEF Rows
<1> QED BY <1>1

\* The items about the remote of a row, and what executeBranchAction does with them.
LEMMA RemoteItemsDo ==
    ASSUME NEW s, NEW row, NEW id \in RemoteItems(s, row)
    PROVE  BranchEffect(s, row, id) # Nothing
<1>1. id = "pull" \/ (id \in {"push", "force_push"} /\ PushTargets(s, row) # {})
  BY DEF RemoteItems, If
<1> QED BY <1>1, Something DEF BranchEffect

LEMMA BranchItemsDo ==
    ASSUME NEW s, NEW row, NEW id \in BranchItems(s, row)
    PROVE  BranchEffect(s, row, id) # Nothing
<1>1. CASE id \in RemoteItems(s, row)
  BY <1>1, RemoteItemsDo
<1>2. CASE id \in {"branch", "copy"}
  BY <1>2, Something DEF BranchEffect
<1>3. CASE row.scope = "local" /\ id = "rename_ref"
  BY <1>3, Something DEF BranchEffect
<1>4. CASE row.scope = "local" /\ id = "delete_ref"
  BY <1>4, Something DEF BranchEffect
<1> QED BY <1>1, <1>2, <1>3, <1>4 DEF BranchItems, If

\* Of a commit's menu: what is offered about a branch is offered with its row.
LEMMA CommitItemsDo ==
    ASSUME NEW s, NEW row, NEW answer, NEW id \in CommitItems(s, row, Available(answer))
    PROVE  CommitEffect(s, row, id) # Nothing
<1> DEFINE tasks == {"checkout_ref", "merge_ref", "stash_apply", "stash_pop", "checkout", "cherry_pick",
                     "revert", "reset:soft", "reset:mixed", "reset:hard"}
           plain == {"stash_drop", "reword", "tag", "tag_annotated", "branch", "copy", "copy_branch", "open_link"}
           ofRow == {"pull", "push", "force_push", "set_upstream", "rename_ref", "delete_ref"}
<1>1. CASE id \in tasks
  BY <1>1, Something DEF CommitEffect
<1>2. CASE id \in plain
  BY <1>2, Something DEF CommitEffect, BranchEffect
<1>3. ASSUME id \in ofRow
      PROVE  \E r \in RefContext(s, row) : BranchEffect(s, r, id) # Nothing
  <2>1. id \notin HistoryItems
    BY <1>3 DEF HistoryItems
  <2>2. \/ id \in UNION {RemoteItems(s, r) : r \in RefContext(s, row)}
        \/ row.scope = "local" /\ RefContext(s, row) # {} /\ id \in {"set_upstream", "rename_ref", "delete_ref"}
    BY <1>3, <2>1, AnswersAllowItems DEF CommitItems, If
  <2>3. CASE id \in UNION {RemoteItems(s, r) : r \in RefContext(s, row)}
    BY <2>3, RemoteItemsDo
  <2>4. CASE row.scope = "local" /\ RefContext(s, row) # {} /\ id \in {"set_upstream", "rename_ref", "delete_ref"}
    <3>1. PICK r \in RefContext(s, row) : r.scope = "local"
      BY <2>4 DEF RefContext
    <3> QED BY <2>4, <3>1, Something DEF BranchEffect
  <2> QED BY <2>2, <2>3, <2>4
<1>4. CASE id \in ofRow
  <2>1. PICK r \in RefContext(s, row) : BranchEffect(s, r, id) # Nothing
    BY <1>3, <1>4
  <2>2. (CHOOSE q \in RefContext(s, row) : TRUE) = r
    BY OneRowPerName
  <2>3. CommitEffect(s, row, id) = BranchEffect(s, CHOOSE q \in RefContext(s, row) : TRUE, id)
    BY <1>4, <2>1 DEF CommitEffect
  <2> QED BY <2>1, <2>2, <2>3
<1>5. id \in tasks \cup plain \cup ofRow
  <2>1. RemoteItems(s, row) \subseteq ofRow /\ \A r : RemoteItems(s, r) \subseteq ofRow
    BY DEF RemoteItems, If
  <2>2. HistoryItems \subseteq tasks \cup plain
    BY DEF HistoryItems
  <2> QED BY <2>1, <2>2, AnswersAllowItems DEF CommitItems, If
<1> QED BY <1>1, <1>2, <1>4, <1>5

-----------------------------------------------------------------------------
(***************************************************************************)
(* The theorems.                                                           *)
(***************************************************************************)

\* A commit's menu in useContextMenuActions.ts is built from the answer about its own
\* commit in the repository on the screen, however late other answers come and
\* however the tabs are switched meanwhile.
THEOREM MenusFollowTheirAnswers == CommandSpec => []MenuOwnAnswers
<1>1. MenuInv => MenuOwnAnswers
  BY DEF MenuInv
<1> QED BY <1>1, MenuStarts, MenuStepHolds, PTL DEF CommandSpec

\* What a menu, a prompt or a confirmation asks for runs in the repository that was on
\* the screen when it was opened, behind whatever commands it waits, in any order of
\* tab switches, answers and failures.
THEOREM CommandsRunWhereAsked == CommandSpec => []RunsWhereAsked
<1>1. CommandInit => WishInv
  BY MenuStarts, EmptySequence DEF CommandInit, WishInv, DialogsOfScreen, RunsWhereAsked
<1>2. WishInv => RunsWhereAsked
  BY DEF WishInv
<1> QED BY <1>1, <1>2, WishStepHolds, PTL DEF CommandSpec

\* No item of a menu does nothing, whatever snapshot arrives under the open menu: the
\* conditions that enable an item are those its handler checks.
THEOREM ItemsAreAlive == CommandSpec => []NoDeadItems
<1>1. NoDeadItems
  <2>1. CASE menu.kind = "commit"
    BY <2>1, CommitItemsDo DEF NoDeadItems, MenuItems, Effect
  <2>2. CASE menu.kind = "branch"
    BY <2>2, BranchItemsDo DEF NoDeadItems, MenuItems, Effect
  <2>3. CASE menu.kind \notin {"commit", "branch"}
    BY <2>3 DEF NoDeadItems, MenuItems
  <2> QED BY <2>1, <2>2, <2>3
<1> QED BY <1>1, PTL
=============================================================================
