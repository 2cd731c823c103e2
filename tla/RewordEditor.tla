---------------------------- MODULE RewordEditor ----------------------------
\* The message editor of the commit panel (CommitDetails.tsx): the text the user
\* types, the reword it becomes, and the selection that has to find the commit
\* again under the oid the rewrite gave it (useWorktreeMutations.rewordCommit,
\* useRepositoryOverview.loadOverview).  The panel is unmounted whenever there
\* are no details to show, and the editor forgets everything with it.
EXTENDS Naturals, Sequences, SequencesExt, FiniteSets

CONSTANTS Logs,          \* repository -> the subjects of its first history
          Wordings,      \* the messages the user types
          RewordBound    \* bound on the user's acts in a behaviour

\* Two repositories, in two tabs.
ASSUME RewordAssumption ==
    /\ RewordBound \in Nat
    /\ Logs \in Seq(Seq(STRING)) /\ Len(Logs) = 2

VARIABLES repoOn,        \* the repository of the tab on screen
          logs,          \* repository -> its commits, newest first, as Git has them
          shownLog,      \* the history on screen
          chosen,        \* selectedOid
          panel,         \* details, or NoPanel
          mount,         \* which instance of CommitDetails is mounted
          editor,        \* editing and subject of that instance
          typedFor,      \* the commit on the panel when the user last typed
          applied,       \* appliedEditToken of that instance
          request,       \* rewordRequest
          reword,        \* the reword under way, or NoReword
          pendingSelection,
          nextOid, openings, rewordActs

NoOid == 0
NoPanel == [oid |-> NoOid, subject |-> ""]
NoReword == [oid |-> NoOid]
NoSelection == [index |-> 0, subject |-> ""]
Closed0 == [open |-> FALSE, text |-> ""]

rewordPanelVars == <<panel, mount, editor, typedFor, applied, openings>>
rewordVars == <<repoOn, logs, shownLog, chosen, rewordPanelVars, request, reword,
                pendingSelection, nextOid, rewordActs>>

RewordActs == rewordActs < RewordBound /\ rewordActs' = rewordActs + 1
Busy == reword # NoReword
OidsOf(log) == {log[i].oid : i \in DOMAIN log}

\* The first commit of a history with an oid, or with a subject, or 0.
PlaceOf(log, oid) == SelectInSeq(log, LAMBDA c : c.oid = oid)
PlaceOfSubject(log, subject) == SelectInSeq(log, LAMBDA c : c.subject = subject)

-----------------------------------------------------------------------------
\* The effect of CommitDetails: the text becomes the message on the panel, and
\* an edit request for this commit not seen by this instance opens the editor.
Requested(oid, req, seen) == req.oid = oid /\ req.token # 0 /\ req.token # seen

EditorOf(details, req, seen) ==
    [open |-> Requested(details.oid, req, seen), text |-> details.subject]

RunEffect(details, req, seen) ==
    /\ editor' = EditorOf(details, req, seen)
    /\ applied' = IF Requested(details.oid, req, seen) THEN req.token ELSE seen
    /\ openings' = IF Requested(details.oid, req, seen)
                   THEN [openings EXCEPT ![req.token] = @ + 1] ELSE openings

\* Details go: the component is unmounted, and its instance with it.
Unmount ==
    /\ panel' = NoPanel /\ mount' = mount
    /\ editor' = editor /\ UNCHANGED <<typedFor, applied, openings>>

\* Another commit is selected: its details are asked for, the old ones cleared.
SelectOid(oid) ==
    /\ chosen' = oid
    /\ IF oid = chosen THEN UNCHANGED rewordPanelVars ELSE Unmount

PickCommit ==
    /\ RewordActs
    /\ \E oid \in OidsOf(shownLog) : SelectOid(oid)
    /\ UNCHANGED <<repoOn, logs, shownLog, request, reword, pendingSelection, nextOid>>

\* loadCommitPanel answers: a new instance is mounted and its effect runs.
PanelLoads ==
    /\ panel = NoPanel /\ chosen \in OidsOf(logs[repoOn])
    /\ LET i == PlaceOf(logs[repoOn], chosen)
       IN  /\ panel' = logs[repoOn][i]
           /\ mount' = mount + 1
           /\ RunEffect(panel', request, 0)
    /\ UNCHANGED <<repoOn, logs, shownLog, chosen, typedFor, request, reword,
                   pendingSelection, nextOid, rewordActs>>

\* startCommitReword, from the commit's menu: selects it and asks for an editor.
StartReword ==
    /\ RewordActs
    /\ \E oid \in OidsOf(shownLog) :
          LET req == [oid |-> oid, token |-> request.token + 1]
          IN  /\ request' = req
              /\ chosen' = oid
              /\ IF oid = chosen /\ panel # NoPanel
                 THEN RunEffect(panel, req, applied)
                      /\ UNCHANGED <<panel, mount, typedFor>>
                 ELSE Unmount
    /\ UNCHANGED <<repoOn, logs, shownLog, reword, pendingSelection, nextOid>>

ClickMessage ==
    /\ RewordActs
    /\ panel # NoPanel /\ ~editor.open /\ editor' = [editor EXCEPT !.open = TRUE]
    /\ UNCHANGED <<repoOn, logs, shownLog, chosen, panel, mount, typedFor, applied,
                   openings, request, reword, pendingSelection, nextOid>>

\* The fields are disabled while a command runs.
TypeWording ==
    /\ RewordActs
    /\ panel # NoPanel /\ editor.open /\ ~Busy
    /\ \E text \in Wordings : editor' = [editor EXCEPT !.text = text]
    /\ typedFor' = panel.oid
    /\ UNCHANGED <<repoOn, logs, shownLog, chosen, panel, mount, applied, openings,
                   request, reword, pendingSelection, nextOid>>

CancelReword ==
    /\ panel # NoPanel /\ editor.open /\ ~Busy
    /\ editor' = [open |-> FALSE, text |-> panel.subject]
    /\ UNCHANGED <<repoOn, logs, shownLog, chosen, panel, mount, typedFor, applied,
                   openings, request, reword, pendingSelection, nextOid, rewordActs>>

\* submitReword: the commit is the one whose details are on the panel.
CanSaveMessage == editor.open /\ editor.text # "" /\ editor.text # panel.subject /\ ~Busy

SubmitReword ==
    /\ panel # NoPanel /\ CanSaveMessage
    /\ reword' = [oid |-> panel.oid, text |-> editor.text, repo |-> repoOn,
                  index |-> PlaceOf(shownLog, panel.oid),
                  by |-> mount, phase |-> "running"]
    /\ UNCHANGED <<repoOn, logs, shownLog, chosen, rewordPanelVars, request,
                   pendingSelection, nextOid, rewordActs>>

\* The rewrite keeps the order and gives a new oid to the commit and to all above.
Rewrite(log, at, text, from) ==
    [i \in DOMAIN log |->
        IF i > at THEN log[i]
        ELSE [oid |-> from + i - 1,
              subject |-> IF i = at THEN text ELSE log[i].subject]]

\* A mutant: where the reworded commit stood is not remembered.
PendingForgotten(r) == pendingSelection

PendingOf(r) == IF r.index > 0 THEN [index |-> r.index, subject |-> r.text]
                ELSE pendingSelection

RewordDone ==
    /\ Busy /\ reword.phase = "running"
    /\ LET log == logs[reword.repo]
           at == PlaceOf(log, reword.oid)
       IN  /\ at > 0
           /\ logs' = [logs EXCEPT ![reword.repo] = Rewrite(log, at, reword.text, nextOid)]
           /\ nextOid' = nextOid + at
           /\ reword' = [reword EXCEPT !.phase = "reloading", !.oid = nextOid + at - 1]
    /\ pendingSelection' = PendingOf(reword)
    /\ UNCHANGED <<repoOn, shownLog, chosen, rewordPanelVars, request, rewordActs>>

\* Refused (the head moved, the commit is not of its history): the text stays.
RewordFails ==
    /\ Busy /\ reword.phase = "running"
    /\ reword' = NoReword
    /\ UNCHANGED <<repoOn, logs, shownLog, chosen, rewordPanelVars, request,
                   pendingSelection, nextOid, rewordActs>>

\* loadOverview's choice among the commits it brings: the one just reworded, the
\* one selected before, or the first.
Rewritten0(log, pending) ==
    IF pending = NoSelection THEN 0
    ELSE IF pending.index \in DOMAIN log /\ log[pending.index].subject = pending.subject
    THEN pending.index
    ELSE PlaceOfSubject(log, pending.subject)

ChosenIn(log, pending, preserve) ==
    IF Rewritten0(log, pending) > 0 THEN log[Rewritten0(log, pending)].oid
    ELSE IF preserve /\ chosen \in OidsOf(log) THEN chosen
    ELSE log[1].oid

\* A load puts its commits on the screen; details go only with the selection.
SelectLoaded(oid) == SelectOid(oid)

MessageShown(log, preserve) ==
    /\ shownLog' = log
    /\ SelectLoaded(ChosenIn(log, pendingSelection, preserve))
    /\ pendingSelection' = NoSelection

\* The load that ends the command, and then its answer: the editor that asked is
\* closed, if it is still the one mounted.
RewordReloads ==
    /\ Busy /\ reword.phase = "reloading" /\ reword.repo = repoOn
    /\ MessageShown(logs[repoOn], TRUE)
    /\ reword' = [reword EXCEPT !.phase = "answered"]
    /\ UNCHANGED <<repoOn, logs, request, nextOid, rewordActs>>

RewordAnswers ==
    /\ Busy
    /\ \/ reword.phase = "answered"
       \/ reword.phase = "reloading" /\ reword.repo # repoOn
    /\ reword' = NoReword
    /\ editor' = IF panel # NoPanel /\ mount = reword.by
                 THEN [editor EXCEPT !.open = FALSE] ELSE editor
    /\ UNCHANGED <<repoOn, logs, shownLog, chosen, panel, mount, typedFor, applied,
                   openings, request, pendingSelection, nextOid, rewordActs>>

\* A load of the watcher or the timer, which keep away from a running command.
SilentLoad ==
    /\ RewordActs
    /\ ~Busy /\ MessageShown(logs[repoOn], TRUE)
    /\ UNCHANGED <<repoOn, logs, request, reword, nextOid>>

\* Somebody commits in a terminal.
OutsideCommit ==
    /\ RewordActs
    /\ \E repo \in DOMAIN logs :
          logs' = [logs EXCEPT ![repo] =
                     <<[oid |-> nextOid, subject |-> "outside"]>> \o @]
    /\ nextOid' = nextOid + 1
    /\ UNCHANGED <<repoOn, shownLog, chosen, rewordPanelVars, request, reword,
                   pendingSelection>>

\* Another tab: everything on the screen goes and the tab's overview is loaded; a
\* load still on its way is superseded.
SwitchRepository ==
    /\ RewordActs
    /\ \E repo \in DOMAIN logs \ {repoOn} :
          /\ repoOn' = repo
          /\ shownLog' = logs[repo]
          /\ chosen' = ChosenIn(logs[repo], pendingSelection, FALSE)
    /\ pendingSelection' = NoSelection
    /\ Unmount
    /\ reword' = IF Busy /\ reword.phase = "reloading"
                 THEN [reword EXCEPT !.phase = "answered"] ELSE reword
    /\ UNCHANGED <<logs, request, nextOid>>

FirstLogs ==
    [repo \in DOMAIN Logs |->
        [i \in DOMAIN Logs[repo] |->
            [oid |-> i + (IF repo = 1 THEN 0 ELSE Len(Logs[1])),
             subject |-> Logs[repo][i]]]]

RewordInit ==
    /\ repoOn = 1 /\ logs = FirstLogs /\ shownLog = FirstLogs[1]
    /\ chosen = FirstLogs[1][1].oid
    /\ panel = NoPanel /\ mount = 0 /\ editor = Closed0 /\ typedFor = NoOid /\ applied = 0
    /\ request = [oid |-> NoOid, token |-> 0] /\ reword = NoReword
    /\ pendingSelection = NoSelection
    /\ nextOid = Len(Logs[1]) + Len(Logs[2]) + 1
    /\ openings = [t \in 1..RewordBound |-> 0] /\ rewordActs = 0

RewordNext ==
    \/ PickCommit \/ PanelLoads \/ StartReword \/ ClickMessage \/ TypeWording
    \/ CancelReword \/ SubmitReword \/ RewordDone \/ RewordFails \/ RewordReloads
    \/ RewordAnswers \/ SilentLoad \/ OutsideCommit \/ SwitchRepository

RewordSpec == RewordInit /\ [][RewordNext]_rewordVars

-----------------------------------------------------------------------------
\* What is typed is about the commit on the panel, so what is sent names the
\* commit the words were written for, and the request is of the repository shown.
RewordTypeOK ==
    /\ chosen \in 1..(nextOid - 1)
    /\ panel # NoPanel => panel.oid = chosen
    /\ panel # NoPanel /\ editor.open /\ editor.text # panel.subject
          => typedFor = panel.oid

\* The load that ends a reword selects the reworded commit, under its new oid,
\* unless somebody else wrote to the repository meanwhile or the commit was not
\* in the history on screen.
SelectionFollowsReword ==
    [][Busy /\ reword' # NoReword /\ shownLog' # shownLog
          /\ reword.phase = "reloading" /\ reword'.phase = "answered" /\ repoOn' = repoOn
       => \/ chosen' = reword.oid \/ reword.index = 0
          \/ \E i \in DOMAIN shownLog' : shownLog'[i].subject = "outside"]_rewordVars

\* A load that leaves the selection alone leaves the editor alone: what the user
\* is typing outlives the refreshes of the watcher and of the timer.
TypingSurvivesLoads ==
    [][shownLog' # shownLog /\ chosen' = chosen /\ repoOn' = repoOn
         => editor' = editor /\ panel' = panel]_rewordVars

\* Not kept: an edit request opens the editor once (CommitDetails.tsx says so);
\* appliedEditToken dies with the instance, the request does not.
OpensOncePerToken == \A t \in DOMAIN openings : openings[t] <= 1

\* Not kept: the selection a reword left behind is taken by its own repository.
PendingIsOfRepository ==
    [][repoOn' # repoOn => pendingSelection = NoSelection]_rewordVars
=============================================================================
