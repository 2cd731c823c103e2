------------------------------ MODULE FileTrees ------------------------------
\* The file tree of the working-tree and commit panels (file-tree/tree.ts and
\* FileTree.tsx): how paths become rows, and which folders are open after the
\* user, the selection and a bulk stage have each had their say.  A path is the
\* sequence of its segments; names are numbers in the collator's order.
EXTENDS Naturals, Sequences, SequencesExt, FiniteSets, FiniteSetsExt

CONSTANTS TreePaths,     \* the files there can be
          OpenDepth,     \* folders this deep are open until somebody says otherwise
          TreeBound      \* bound on the acts of a behaviour

\* A path has segments, and its names are numbered from 1.
ASSUME TreeAssumption == \A p \in TreePaths : p \in Seq(Nat \ {0}) /\ p # <<>>

VARIABLES items,         \* the files listed
          treeMode,      \* "tree" or "path"
          picked,        \* selectedId, or NoPath
          expansion,     \* folderExpansion: folder -> open, for those set by hand
          defaultOpen,   \* defaultExpanded: "unset", or a choice for all others
          forced,        \* forcedCollapse: NoPath, or a folder kept shut (Root: all)
          skip,          \* skipSelectionExpandRef
          collapse,      \* the last target a bulk stage sent here, or NoPath
          forcedAtMount, \* forced is what the component was mounted with
          treeActs

NoPath == <<0>>
Root == <<>>
treeVars == <<items, treeMode, picked, expansion, defaultOpen, forced, skip, collapse,
              forcedAtMount, treeActs>>

TreeActs == treeActs < TreeBound /\ treeActs' = treeActs + 1

-----------------------------------------------------------------------------
\* buildTree.  FoldersIn is collectFolderPaths.
Ancestry(path) == {SubSeq(path, 1, n) : n \in 1..(Len(path) - 1)}
FoldersIn(files) == UNION {Ancestry(f) : f \in files}
Parent(path) == SubSeq(path, 1, Len(path) - 1)
InOrder(paths) == SetToSortSeq(paths, LAMBDA a, b : Last(a) < Last(b))

FoldersFirst(folderRows, files) == folderRows \o InOrder(files)

\* finalizeFolder, from the deepest folder up; the root's rows are the list.
TreeRows(files) ==
    LET rows[folder \in FoldersIn(files) \cup {Root}] ==
            LET inner == InOrder({g \in FoldersIn(files) : Parent(g) = folder})
            IN  FoldersFirst(FlattenSeq([i \in DOMAIN inner |-> rows[inner[i]]]),
                             {f \in files : Parent(f) = folder})
    IN  rows[Root]

FolderCount(files) ==
    LET count[folder \in FoldersIn(files) \cup {Root}] ==
            Cardinality({f \in files : Parent(f) = folder})
            + MapThenSumSet(LAMBDA g : count[g],
                            {g \in FoldersIn(files) : Parent(g) = folder})
    IN  count

-----------------------------------------------------------------------------
\* isForcedCollapsed and isFolderExpanded, for the state given.
IsForced(target, path) == target # NoPath /\ IsPrefix(target, path)

Expanded(path, target, byHand, default) ==
    IF IsForced(target, path) THEN FALSE
    ELSE IF path \in DOMAIN byHand THEN byHand[path]
    ELSE IF default # "unset" THEN default = "open"
    ELSE Len(path) <= OpenDepth

IsOpen(folder) == Expanded(folder, forced, expansion, defaultOpen)
VisibleRows(path) == \A folder \in Ancestry(path) : IsOpen(folder)
AllOpen == \A folder \in FoldersIn(items) : IsOpen(folder)
Shut == "shut"

SetFolders(byHand, folders, open) ==
    [f \in DOMAIN byHand \cup folders |-> IF f \in folders THEN open ELSE byHand[f]]

\* A mutant: the folder is held shut, but not shut for when the hold is released.
HeldOnly(target) == IF forced \in {NoPath, Root} THEN {} ELSE {forced}

\* forceCollapse: the folder kept shut so far stays shut, by hand from now on.
ShutByHand(target) ==
    (IF forced \in {NoPath, Root} THEN {} ELSE {forced})
      \cup (IF target = Root THEN {} ELSE {target})

-----------------------------------------------------------------------------
\* A mutant: the folder the file is in is left out of the way to it.
WayToParent(file) == Ancestry(file) \ {Parent(file)}

WayTo(file) == Ancestry(file)

\* The effect of a new selection, list or mode: open the way to the selected
\* file, unless a bulk stage has just shut it.  It runs after the collapse effect
\* of the same render, whose results are its arguments.
Reveal(files, file, mode, target, byHand, skipped) ==
    IF mode # "tree" \/ file \notin files \/ skipped = file
    THEN expansion' = byHand /\ skip' = skipped
    ELSE IF IsForced(target, file)
    THEN expansion' = byHand /\ skip' = file
    ELSE expansion' = SetFolders(byHand, WayTo(file), TRUE) /\ skip' = skipped

PickFile ==
    /\ TreeActs
    /\ \E f \in items :
          /\ treeMode = "tree" => VisibleRows(f)
          /\ f # picked /\ picked' = f
          /\ Reveal(items, f, treeMode, forced, expansion, skip)
    /\ UNCHANGED <<items, treeMode, defaultOpen, forced, collapse, forcedAtMount>>

\* The list changes with the status, and the selection may follow it: the next
\* file of the section, or none.
ItemsChange ==
    /\ TreeActs
    /\ items' \in SUBSET TreePaths /\ items' # items
    /\ picked' \in items' \cup {NoPath, picked}
    /\ Reveal(items', picked', treeMode, forced, expansion, skip)
    /\ UNCHANGED <<treeMode, defaultOpen, forced, collapse, forcedAtMount>>

\* Staging a folder, or all, sends its target to the section the files go to.
BulkArrives ==
    /\ TreeActs
    /\ \E target \in FoldersIn(TreePaths) \cup {Root} :
          /\ items' \in SUBSET TreePaths /\ items \subseteq items'
          /\ \E f \in items' \ items : target \in Ancestry(f) \cup {Root}
          /\ collapse' = target /\ forced' = target /\ forcedAtMount' = FALSE
          /\ IF target = Root
             THEN /\ defaultOpen' = Shut
                  /\ Reveal(items', picked, treeMode, Root, [f \in {} |-> FALSE], picked)
             ELSE /\ UNCHANGED defaultOpen
                  /\ Reveal(items', picked, treeMode, target,
                            SetFolders(expansion, ShutByHand(target), FALSE), skip)
    /\ UNCHANGED <<treeMode, picked>>

ModeChanges ==
    /\ TreeActs
    /\ treeMode' = IF treeMode = "tree" THEN "path" ELSE "tree"
    /\ Reveal(items, picked, treeMode', forced, expansion, skip)
    /\ UNCHANGED <<items, picked, defaultOpen, forced, collapse, forcedAtMount>>

\* toggleFolder: the folder and all below it go the other way.
ToggleFolder ==
    /\ TreeActs
    /\ treeMode = "tree"
    /\ \E folder \in FoldersIn(items) :
          /\ VisibleRows(folder)
          /\ expansion' = SetFolders(expansion,
                                     {g \in FoldersIn(items) : IsPrefix(folder, g)},
                                     ~IsOpen(folder))
    /\ forced' = NoPath /\ forcedAtMount' = FALSE
    /\ UNCHANGED <<items, treeMode, picked, defaultOpen, skip, collapse>>

ToggleAll ==
    /\ TreeActs
    /\ treeMode = "tree" /\ FoldersIn(items) # {}
    /\ defaultOpen' = IF AllOpen THEN Shut ELSE "open"
    /\ expansion' = [f \in {} |-> FALSE]
    /\ forced' = NoPath /\ forcedAtMount' = FALSE
    /\ UNCHANGED <<items, treeMode, picked, skip, collapse>>

\* The section is closed and opened again, or the whole panel: a new component,
\* which starts from the target the last bulk stage left in the application.
Remount ==
    /\ TreeActs
    /\ forced' = collapse /\ forcedAtMount' = (collapse # NoPath)
    /\ defaultOpen' = "unset"
    /\ Reveal(items, picked, treeMode, collapse, [f \in {} |-> FALSE], NoPath)
    /\ UNCHANGED <<items, treeMode, picked, collapse>>

TreeInit ==
    /\ items \in SUBSET TreePaths /\ treeMode = "tree" /\ picked = NoPath
    /\ expansion = [f \in {} |-> FALSE] /\ defaultOpen = "unset"
    /\ forced = NoPath /\ skip = NoPath /\ collapse = NoPath
    /\ forcedAtMount = FALSE /\ treeActs = 0

TreeNext ==
    \/ PickFile \/ ItemsChange \/ BulkArrives \/ ModeChanges \/ ToggleFolder
    \/ ToggleAll \/ Remount

TreeSpec == TreeInit /\ [][TreeNext]_treeVars

-----------------------------------------------------------------------------
\* Where the paths first part, a folder comes before a file and lower names
\* before higher.
RowBefore(a, b) ==
    LET isFile(p, k) == k = Len(p)
        k == CHOOSE n \in 1..(IF Len(a) < Len(b) THEN Len(a) ELSE Len(b)) :
                /\ SubSeq(a, 1, n - 1) = SubSeq(b, 1, n - 1)
                /\ \/ isFile(a, n) \/ isFile(b, n) \/ a[n] # b[n]
    IN  \/ ~isFile(a, k) /\ isFile(b, k)
        \/ isFile(a, k) = isFile(b, k) /\ a[k] < b[k]

\* The tree loses no file and shows none twice, in the order of RowBefore, which
\* is also the order the next file to review is looked for in; every folder
\* counts the files below it.
RowsInOrder ==
    LET rows == TreeRows(items)
    IN  /\ ToSet(rows) = items /\ Len(rows) = Cardinality(items)
        /\ \A i, j \in DOMAIN rows : i < j => RowBefore(rows[i], rows[j])
        /\ \A g \in FoldersIn(items) :
              FolderCount(items)[g] = Cardinality({f \in items : g \in Ancestry(f)})

\* A click on a folder opens or shuts what is below that folder and nothing else:
\* a bulk stage shut others, and they stay shut when its hold is released.
ToggleIsLocal ==
    [][forced' = NoPath /\ forced # NoPath /\ ~forcedAtMount /\ DOMAIN expansion' # {}
         => \E g \in FoldersIn(items) :
               \A f \in items \cup FoldersIn(items) :
                  ~IsPrefix(g, f) => (VisibleRows(f) <=> VisibleRows(f)')]_treeVars

\* A file that is newly selected is on the screen, unless the folder it is in was
\* shut by a bulk stage.
PickedIsVisible ==
    [][picked' # picked /\ picked' \in items' /\ treeMode = "tree"
         => \/ \E f \in items' : f = picked' /\ VisibleRows(f)'
            \/ IsForced(forced, picked') \/ skip = picked']_treeVars

\* Not kept: the same for a tree that was mounted with the hold.
ToggleIsAlwaysLocal ==
    [][forced' = NoPath /\ forced # NoPath /\ DOMAIN expansion' # {}
         => \E g \in FoldersIn(items) :
               \A f \in items \cup FoldersIn(items) :
                  ~IsPrefix(g, f) => (VisibleRows(f) <=> VisibleRows(f)')]_treeVars
=============================================================================
