---- MODULE MCPanes ----
\* The panes, dialogs, trees and the graph of the client, each on its own: a
\* behaviour chooses one component and runs it.
EXTENDS DiffPane, CommitPanel, DemoBackend, RewordEditor, WorktreePane, MergeEditor, RepositoryForms, FileTrees, GraphPaint, SettingsDraft, HistoryColumns, ForgeRows, AvatarRounds, ConflictPreflight

VARIABLE focus  \* the component this behaviour runs

MCFiles == <<"f", "g">>

MCHistories == [r1 |-> {<<"b", "a">>, <<"a">>}, r2 |-> {<<"c">>}]

MCLogs == <<<<"b", "a", "a">>, <<"a">>>>

MCTreePaths == {<<1, 1, 2>>, <<1, 3>>, <<2, 1>>, <<2>>}

MCSeedParents == <<{3}, {3}, {}>>
MCSeedBranches == <<[name |-> "main", oid |-> -1, is_head |-> TRUE, upstream |-> "origin"],
                    [name |-> "topic", oid |-> -2, is_head |-> FALSE, upstream |-> "-"]>>
MCSeedRemotes == <<[name |-> "origin", oid |-> -3]>>
MCSeedEntries == [p \in {"new.ts"} |-> [index |-> "none", worktree |-> "untracked"]]

Same(lines) == [kind |-> "common", lines |-> lines]
Region(ours, base, theirs) ==
    [kind |-> "conflict", ours |-> ours, base |-> base, theirs |-> theirs]

\* What git merge leaves in the working copy, with or without the base section.
GitWrote(regions, style) ==
    FlattenSeq([i \in DOMAIN regions |->
        LET r == regions[i] IN
        IF r.kind = "common" THEN r.lines
        ELSE <<"<">> \o r.ours \o (IF style = "diff3" THEN <<"|">> \o r.base ELSE <<>>)
             \o <<"=">> \o r.theirs \o <<">">>])

BaseOf(regions) ==
    FlattenSeq([i \in DOMAIN regions |->
        IF regions[i].kind = "common" THEN regions[i].lines ELSE regions[i].base])

Document(path, digest, regions, style, ending) ==
    [path |-> path, digest |-> digest, kind |-> "text", ending |-> ending,
     result |-> GitWrote(regions, style), base |-> BaseOf(regions), sides |-> TRUE,
     regions |-> regions]

Two   == <<Same(<<"p", "q">>), Region(<<"a">>, <<"o">>, <<"b">>), Same(<<"r">>),
           Region(<<"c", "d">>, <<"u">>, <<>>)>>
Moved == <<Same(<<"p">>), Region(<<"x">>, <<"o">>, <<"y">>), Same(<<"r">>),
           Region(<<>>, <<>>, <<"z">>), Same(<<"s">>)>>
One   == <<Region(<<"a">>, <<"o">>, <<"b">>)>>
\* The last marker was deleted by hand.
Torn  == LET d == Document("f", "4", One, "merge", "lf")
         IN  [d EXCEPT !.result = SubSeq(@, 1, Len(@) - 1)]
\* The two lines above the region stand twice in the base.
Again == <<Same(<<"p", "q", "A", "p", "q">>), Region(<<"a">>, <<"o">>, <<"b">>),
           Same(<<"s">>)>>
\* A deletion against a change: no markers.
Unmarked == LET d == Document("g", "5", <<Same(<<"t">>)>>, "merge", "lf") IN d
\* A link or a file too large to show.
Opaque == [NoDocument EXCEPT !.path = "g", !.digest = "6", !.kind = "binary"]

MCDocuments == {Document("f", "1", Two, "merge", "lf"), Document("f", "2", Moved, "diff3", "lf"),
                Document("g", "3", One, "diff3", "mixed"), Torn, Unmarked, Opaque}

MCIntegrations == [github |-> <<"github.com">>, enterprise |-> <<"ghe1", "ghe2">>,
                   gitlab |-> <<"gitlab.com">>]
MCListed == [h \in {"github.com", "ghe1", "ghe2"} |-> IF h = "ghe2" THEN {"dots", "own"}
                                                    ELSE {"dots"}]

Ctrl(k) == [held |-> {"Ctrl"}, key |-> k]
Bare(k) == [held |-> {}, key |-> k]
AltF4   == [held |-> {"Alt"}, key |-> "F4"]

MCKeys == [next |-> Ctrl("Tab"), fetch |-> Ctrl("l"), pull |-> Ctrl("p"), reopen |-> Ctrl("t")]

MCPressed == {Ctrl("l"), Bare("F9"), Bare("Escape"), Ctrl("Backspace"), Bare("Tab"),
              Ctrl("Control"), AltF4}

MCPresets == <<[id |-> <<"midnight", 1>>, name |-> 15, preset |-> TRUE, paints |-> <<1, 1>>],
               [id |-> <<"light", 1>>, name |-> 5, preset |-> TRUE, paints |-> <<2, 2>>]>>

Own(id, length, paints) == [id |-> id, name |-> length, preset |-> FALSE, paints |-> paints]
File(s) == [settings |-> s, legacy |-> NoLegacy, ours |-> TRUE]

\* Each default is taken by the next action: three looks until all are apart.
Chained == [next |-> Ctrl("l"), fetch |-> Ctrl("p"), pull |-> Bare("F9"), reopen |-> Bare("F9")]

\* A file the core accepts, one it refuses, an older one, one of another program.
MCStateFiles ==
    {File([DefaultSettings EXCEPT
            !.keys = Chained,
            !.themes = Append(Presets, Own(<<"mine", 1>>, 60, <<2, 1>>)),
            !.active = <<"mine", 1>>, !.hosts = [git |-> "unknown"]]),
     File([DefaultSettings EXCEPT
            !.keys = [Chained EXCEPT !.reopen = AltF4, !.pull = Missing],
            !.numbers.history_page_size = 0,
            !.themes = <<Own(<<"light", 1>>, 3, <<2, 1>>), Own(<<"mine", 1>>, 9, <<2, 1>>),
                         Own(<<"mine", 1>>, 4, <<1, 2>>), Own(<<"torn", 1>>, 4, Junk)>>,
            !.active = <<"torn", 1>>, !.hosts = [junk |-> "github"]]),
     [settings |-> DefaultSettings, legacy |-> <<2, 1>>, ours |-> TRUE],
     [settings |-> DefaultSettings, legacy |-> NoLegacy, ours |-> FALSE]}

MCSystemKeys == {AltF4}

MCColumnOrder == <<"refs", "graph", "message">>
MCColumnFloor == [refs |-> 32, graph |-> 41, message |-> 80]
MCBornWidths  == [refs |-> 118, graph |-> Follow, message |-> 300]
MCTightWidths == [refs |-> 32, graph |-> 41, message |-> 300]

Pull(ref, oid, owner) == [ref |-> ref, oid |-> oid, owner |-> owner]
MCLists == {<<Pull("main", 1, "me"), Pull("main", 2, "me")>>,
            <<Pull("main", 3, "you"), Pull("side", 2, "-"), Pull("main", 2, "me")>>}
MCOwnerOf == [a |-> "me", b |-> "you"]
MCRowScreens == {[repo |-> "a", tips |-> {<<"main", 1>>, <<"side", 2>>}, head |-> "side"],
                 [repo |-> "a", tips |-> {<<"main", 2>>}, head |-> "main"],
                 [repo |-> "b", tips |-> {<<"main", 1>>}, head |-> "-"],
                 [repo |-> "", tips |-> NoTips, head |-> NoHead]}

PanesInit ==
    /\ focus \in {"diff", "panel", "demo", "reword", "worktree", "merge", "forms", "tree", "graph", "settings", "columns", "rows", "avatars", "trial"}
    /\ IF focus = "diff" THEN DiffInit
       ELSE /\ sides = {}
            /\ DiffInit
    /\ PanelInit
    /\ DemoInit
    /\ RewordInit
    /\ IF focus = "worktree" THEN PaneInit
       ELSE /\ tabOn = CHOOSE t \in PaneTabs : TRUE
            /\ status = [f \in PaneFiles |-> CHOOSE s \in Sides : TRUE]
            /\ operation = CHOOSE o \in Operations : TRUE
            /\ PaneInit
    /\ MergeInit
    /\ IF focus = "forms" THEN FormInit
       ELSE /\ stored = [h \in Hosts |-> 0]
            /\ FormInit
    /\ IF focus = "tree" THEN TreeInit
       ELSE /\ items = {}
            /\ TreeInit
    /\ IF focus = "graph" THEN GraphInit
       ELSE /\ log = CHOOSE l \in Histories : TRUE
            /\ GraphInit
    /\ IF focus = "settings" THEN SettingsInit
       ELSE /\ disk = CHOOSE f \in StateFiles : f.ours
            /\ SettingsInit
    /\ IF focus = "columns" THEN ColumnInit
       ELSE /\ pointer = CHOOSE p \in Pointers : TRUE
            /\ laneExtent = CHOOSE e \in LaneExtents : TRUE
            /\ ColumnInit
    /\ IF focus = "rows" THEN RowInit
       ELSE /\ served = [r \in Asked |-> CHOOSE l \in ServiceLists : TRUE]
            /\ RowInit
    /\ AvatarInit
    /\ TrialInit

PanesNext ==
    /\ UNCHANGED focus
    /\ \/ /\ focus = "diff" /\ DiffNext
          /\ UNCHANGED <<panelVars, demoVars, rewordVars, paneVars, mergeVars, formVars, treeVars, graphVars, settingsVars, columnVars, rowVars, avatarVars, trialVars>>
       \/ /\ focus = "panel" /\ PanelNext
          /\ UNCHANGED <<diffVars, demoVars, rewordVars, paneVars, mergeVars, formVars, treeVars, graphVars, settingsVars, columnVars, rowVars, avatarVars, trialVars>>
       \/ /\ focus = "demo" /\ DemoNext
          /\ UNCHANGED <<diffVars, panelVars, rewordVars, paneVars, mergeVars, formVars, treeVars, graphVars, settingsVars, columnVars, rowVars, avatarVars, trialVars>>
       \/ /\ focus = "reword" /\ RewordNext
          /\ UNCHANGED <<diffVars, panelVars, demoVars, paneVars, mergeVars, formVars, treeVars, graphVars, settingsVars, columnVars, rowVars, avatarVars, trialVars>>
       \/ /\ focus = "worktree" /\ PaneNext
          /\ UNCHANGED <<diffVars, panelVars, demoVars, rewordVars, mergeVars, formVars, treeVars, graphVars, settingsVars, columnVars, rowVars, avatarVars, trialVars>>
       \/ /\ focus = "merge" /\ MergeNext
          /\ UNCHANGED <<diffVars, panelVars, demoVars, rewordVars, paneVars, formVars, treeVars, graphVars, settingsVars, columnVars, rowVars, avatarVars, trialVars>>
       \/ /\ focus = "forms" /\ FormNext
          /\ UNCHANGED <<diffVars, panelVars, demoVars, rewordVars, paneVars, mergeVars, treeVars, graphVars, settingsVars, columnVars, rowVars, avatarVars, trialVars>>
       \/ /\ focus = "tree" /\ TreeNext
          /\ UNCHANGED <<diffVars, panelVars, demoVars, rewordVars, paneVars, mergeVars, formVars, graphVars, settingsVars, columnVars, rowVars, avatarVars, trialVars>>
       \/ /\ focus = "graph" /\ GraphNext
          /\ UNCHANGED <<diffVars, panelVars, demoVars, rewordVars, paneVars, mergeVars, formVars, treeVars, settingsVars, columnVars, rowVars, avatarVars, trialVars>>
       \/ /\ focus = "settings" /\ SettingsNext
          /\ UNCHANGED <<diffVars, panelVars, demoVars, rewordVars, paneVars, mergeVars, formVars, treeVars, graphVars, columnVars, rowVars, avatarVars, trialVars>>
       \/ /\ focus = "columns" /\ ColumnNext
          /\ UNCHANGED <<diffVars, panelVars, demoVars, rewordVars, paneVars, mergeVars, formVars, treeVars, graphVars, settingsVars, rowVars, avatarVars, trialVars>>
       \/ /\ focus = "rows" /\ RowNext
          /\ UNCHANGED <<diffVars, panelVars, demoVars, rewordVars, paneVars, mergeVars, formVars, treeVars, graphVars, settingsVars, columnVars, avatarVars, trialVars>>
       \/ /\ focus = "avatars" /\ AvatarNext
          /\ UNCHANGED <<diffVars, panelVars, demoVars, rewordVars, paneVars, mergeVars, formVars, treeVars, graphVars, settingsVars, columnVars, rowVars, trialVars>>
       \/ /\ focus = "trial" /\ TrialNext
          /\ UNCHANGED <<diffVars, panelVars, demoVars, rewordVars, paneVars, mergeVars, formVars, treeVars, graphVars, settingsVars, columnVars, rowVars, avatarVars>>

PanesSpec == PanesInit /\ [][PanesNext]_<<focus, diffVars, panelVars, demoVars, rewordVars, paneVars, mergeVars, formVars, treeVars, graphVars, settingsVars, columnVars, rowVars, avatarVars, trialVars>>

\* Every component of the client keeps its types: the type invariant of each.
PanesTypeOK ==
    /\ DiffTypeOK
    /\ PanelTypeOK
    /\ DemoTypeOK
    /\ RewordTypeOK
    /\ PaneTypeOK
    /\ MergeTypeOK
    /\ FormTypeOK
    /\ GraphTypeOK
    /\ SettingsTypeOK
    /\ ColumnTypeOK
    /\ RowTypeOK
    /\ AvatarTypeOK
    /\ TrialTypeOK

\* An answer that comes late is not shown: a list of repositories is of the host
\* chosen now, the branch rows of the repository on the screen, the conflict
\* indicator of the target and the commits on the screen.
AnswersAreOfScreen ==
    /\ ListIsOfHost
    /\ RowsAreOfRepository
    /\ IndicatorIsOfScreen
====
