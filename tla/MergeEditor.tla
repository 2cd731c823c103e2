------------------------------ MODULE MergeEditor ------------------------------
(***************************************************************************)
(* The three-way editor of one conflicted file: the reading and writing of *)
(* conflict markers (lib/mergeConflicts.ts), the picks of the user and the *)
(* text that is saved (components/conflict/MergeEditor.tsx, MergePane.tsx).*)
(*                                                                         *)
(* A line is a model string; the four markers are lines of their own.  A   *)
(* document is what conflictDetails answered: the lines of the working     *)
(* copy, its kind and line endings, the stage 1 text, and the regions Git  *)
(* wrote the lines from, which the program never sees.                     *)
(***************************************************************************)
EXTENDS Integers, Sequences, SequencesExt, FiniteSets

CONSTANTS MergeDocuments, \* the answers of conflictDetails
          MergeBound      \* user actions of a run

VARIABLES
    document,    \* details of the editor, or NoDocument
    opening,     \* the document an openConflictEditor waits for, or NoDocument
    selections,  \* the picked sides of every conflict, by index
    manual,      \* the text being edited by hand, or NoManualText
    lineEnding,
    activeConflict,
    saving,      \* a save is in flight
    askedSides,  \* what the user asked of the regions: <<index, side>> pairs
    lastSave,    \* the last text sent and the state it was sent in, or NoSave
    mergeActs    \* user actions so far (bound)

mergeVars == <<document, opening, selections, manual, lineEnding,
               activeConflict, saving, askedSides, lastSave, mergeActs>>

NoDocument == [path |-> "", digest |-> "", kind |-> "missing", ending |-> "lf",
               result |-> <<>>, base |-> <<>>, sides |-> FALSE, regions |-> <<>>]
NoManualText     == <<"no text">>
NoSave     == [doc |-> NoDocument, text |-> <<>>, rows |-> <<>>, ours |-> {},
               theirs |-> {}, manual |-> FALSE]
MergeSides == {"ours", "theirs"}
NoPick     == [ours |-> FALSE, theirs |-> FALSE]

-----------------------------------------------------------------------------
(* The documents. *)

\* What Git merged: lines both sides have, and the disputed regions.  A side
\* with a line that is a marker cannot be told from the markers, by Git either.
Regions == [kind : {"common"}, lines : Seq(STRING \ {"<"})]
               \cup [kind : {"conflict"}, ours : Seq(STRING \ {"|", "=", ">"}),
                     base : Seq(STRING \ {"|", "=", ">"}),
                     theirs : Seq(STRING \ {"|", "=", ">"})]

\* The lines of a region in the working copy, with or without its base.
Written(r) ==
    IF r.kind = "common" THEN {r.lines}
    ELSE {<<"<">> \o r.ours \o base \o <<"=">> \o r.theirs \o <<">">> :
              base \in {<<>>, <<"|">> \o r.base}}

\* A text is the regions as they were written, but for the last marker, which
\* the user may have deleted.  Of a link or a large file nothing is read.
WrittenByGit(d) ==
    LET n == Len(d.regions) IN
    /\ d.regions \in Seq(Regions)
    /\ IF d.kind # "text" THEN d.result = <<>> /\ d.regions = <<>>
       ELSE \E pieces \in [1 .. n -> UNION {Written(d.regions[i]) : i \in 1 .. n}] :
                /\ \A i \in 1 .. n : pieces[i] \in Written(d.regions[i])
                /\ \/ d.result = FlattenSeq(pieces)
                   \/ /\ n > 0 /\ d.regions[n].kind = "conflict"
                      /\ d.result = Front(FlattenSeq(pieces))

\* The digest is that of the bytes the text was read from.
ASSUME MergeAssumption ==
    /\ MergeBound \in Nat
    /\ \A d \in MergeDocuments : WrittenByGit(d)
    /\ \A d, e \in MergeDocuments :
          d.kind = "text" /\ e.kind = "text" /\ d.path = e.path /\ d.digest = e.digest =>
              d.result = e.result

-----------------------------------------------------------------------------
(* lib/mergeConflicts.ts *)

Common(lines) == [kind |-> "common", lines |-> lines]
NewConflict(n) == [kind |-> "conflict", index |-> n, ours |-> <<>>, base |-> <<>>,
                   theirs |-> <<>>]
NothingRead == [segments |-> <<>>, common |-> <<>>, current |-> NewConflict(0),
                inside |-> FALSE, side |-> "ours", count |-> 0]

FlushCommon(s) ==
    IF s.common = <<>> THEN s
    ELSE [s EXCEPT !.segments = Append(@, Common(s.common)), !.common = <<>>]

CloseConflict(s) ==
    IF ~s.inside THEN s
    ELSE [s EXCEPT !.segments = Append(@, s.current), !.inside = FALSE,
                   !.count = @ + 1]

\* A conflict starts at its opening marker.
OpenConflictAt(s) ==
    [FlushCommon(s) EXCEPT !.inside = TRUE, !.side = "ours",
                           !.current = NewConflict(s.count)]

\* A mutant: a base section is read as part of the side before it.
ReadLineNoBase(s, line) ==
    IF ~s.inside
    THEN IF line = "<" THEN OpenConflictAt(s) ELSE [s EXCEPT !.common = Append(@, line)]
    ELSE CASE line = "=" -> [s EXCEPT !.side = "theirs"]
           [] line = ">" -> CloseConflict(s)
           [] OTHER      -> [s EXCEPT !.current[s.side] = Append(@, line)]

\* The markers are read where they can stand: an opening outside a conflict,
\* the others inside one.
ReadLine(s, line) ==
    IF ~s.inside
    THEN IF line = "<" THEN OpenConflictAt(s) ELSE [s EXCEPT !.common = Append(@, line)]
    ELSE CASE line = "|" -> [s EXCEPT !.side = "base"]
           [] line = "=" -> [s EXCEPT !.side = "theirs"]
           [] line = ">" -> CloseConflict(s)
           [] OTHER      -> [s EXCEPT !.current[s.side] = Append(@, line)]

\* parseConflictMarkers: an unterminated conflict keeps what was collected.
Segments(lines) ==
    LET read[n \in 0 .. Len(lines)] ==
            IF n = 0 THEN NothingRead ELSE ReadLine(read[n - 1], lines[n])
    IN  FlushCommon(CloseConflict(read[Len(lines)])).segments

Conflicts(segments) == {i \in DOMAIN segments : segments[i].kind = "conflict"}

DefaultSelections(segments) == [i \in 1 .. Cardinality(Conflicts(segments)) |-> NoPick]

Picked(segment, picks) == picks[segment.index + 1]

\* conflictLines: ours before theirs.
ConflictLines(segment, pick) ==
    (IF pick.ours THEN segment.ours ELSE <<>>)
        \o (IF pick.theirs THEN segment.theirs ELSE <<>>)

ComposeMergeResult(segments, picks) ==
    FlattenSeq([i \in DOMAIN segments |->
        IF segments[i].kind = "common" THEN segments[i].lines
        ELSE ConflictLines(segments[i], Picked(segments[i], picks))])

UnresolvedConflicts(segments, picks) ==
    {i \in Conflicts(segments) : Picked(segments[i], picks) = NoPick}

\* sideRows: an empty side keeps one blank row for its checkbox.
SideRows(segments, side) ==
    FlattenSeq([i \in DOMAIN segments |->
        LET s == segments[i]
            row(line, n) == [text |-> line, conflict |-> n]
        IN  IF s.kind = "common" THEN [j \in DOMAIN s.lines |-> row(s.lines[j], 0)]
            ELSE IF s[side] = <<>> THEN <<row("", s.index + 1)>>
            ELSE [j \in DOMAIN s[side] |-> row(s[side][j], s.index + 1)]])

\* findRun: the first place at or after from.
FindRun(lines, run, from) ==
    LET places == {i \in from .. Len(lines) - Len(run) :
                       \A j \in DOMAIN run : lines[i + j] = run[j]}
    IN  IF places = {} THEN -1
        ELSE CHOOSE i \in places : \A k \in places : i <= k

\* One step of baseSlices; positions count from 0 as in the code.
SliceOf(segments, lines, s, position) ==
    LET segment == segments[position]
        before == IF position > 1 /\ segments[position - 1].kind = "common"
                  THEN LET l == segments[position - 1].lines
                       IN  SubSeq(l, IF Len(l) > 2 THEN Len(l) - 1 ELSE 1, Len(l))
                  ELSE <<>>
        after  == IF position < Len(segments) /\ segments[position + 1].kind = "common"
                  THEN LET l == segments[position + 1].lines
                       IN  SubSeq(l, 1, IF Len(l) > 2 THEN 2 ELSE Len(l))
                  ELSE <<>>
        start  == IF before = <<>> THEN s.cursor ELSE FindRun(lines, before, s.cursor)
        from   == start + Len(before)
        end    == IF after = <<>> THEN Len(lines) ELSE FindRun(lines, after, from)
    IN  IF segment.kind # "conflict" THEN s
        ELSE IF segment.base # <<>>
             THEN [s EXCEPT !.slices[segment.index + 1] = segment.base]
        ELSE IF lines = <<>> \/ start < 0 \/ end < from THEN s
        ELSE [s EXCEPT !.slices[segment.index + 1] = SubSeq(lines, from + 1, end),
                       !.cursor = end]

\* The preview of the untouched regions; an empty slice is shown blank.
BaseSlices(segments, lines) ==
    FoldLeftDomain(LAMBDA s, position : SliceOf(segments, lines, s, position),
        [slices |-> [i \in 1 .. Cardinality(Conflicts(segments)) |-> <<>>],
         cursor |-> 0], segments).slices

\* outputRows: the text and the origin of every line of the Output pane.
OutputRows(segments, picks, preview) ==
    FlattenSeq([i \in DOMAIN segments |->
        LET s == segments[i]
            rows(lines, side) == [j \in DOMAIN lines |-> [text |-> lines[j], side |-> side]]
            slice == preview[s.index + 1]
        IN  IF s.kind = "common" THEN rows(s.lines, "both")
            ELSE IF Picked(s, picks) = NoPick
                 THEN rows(IF slice = <<>> THEN <<"">> ELSE slice, "unresolved")
            ELSE (IF Picked(s, picks).ours THEN rows(s.ours, "ours") ELSE <<>>)
                 \o (IF Picked(s, picks).theirs THEN rows(s.theirs, "theirs") ELSE <<>>)])

-----------------------------------------------------------------------------
(* What the editor derives on every render. *)

Parsed    == Segments(IF document.kind = "text" THEN document.result ELSE <<>>)
Composed  == IF Conflicts(Parsed) # {} THEN ComposeMergeResult(Parsed, selections)
             ELSE document.result
Editable  == document.kind = "text" \/ document.sides
EditorShown     == document # NoDocument
MergeBusy == saving \/ opening # NoDocument

ResultRows ==
    IF Conflicts(Parsed) # {}
    THEN OutputRows(Parsed, selections, BaseSlices(Parsed, document.base))
    ELSE [j \in DOMAIN Composed |-> [text |-> Composed[j], side |-> "both"]]

CanSave ==
    /\ EditorShown /\ ~MergeBusy /\ Editable
    /\ ~(document.ending = "mixed" /\ lineEnding = "preserve")
    /\ manual # NoManualText \/ UnresolvedConflicts(Parsed, selections) = {}

AllSelected(side) ==
    selections # <<>> /\ \A i \in DOMAIN selections : selections[i][side]

Dirty == manual # NoManualText \/ \E i \in DOMAIN selections : selections[i] # NoPick

Fingerprint(d) == <<d.path, d.digest, Cardinality(Conflicts(Segments(d.result)))>>

-----------------------------------------------------------------------------
(* Opening, leaving and reloading. *)

MergeActs == mergeActs < MergeBound /\ mergeActs' = mergeActs + 1

MergeInit ==
    /\ document = NoDocument /\ opening = NoDocument
    /\ selections = <<>> /\ manual = NoManualText
    /\ lineEnding = "preserve" /\ activeConflict = 0
    /\ saving = FALSE /\ askedSides = {} /\ lastSave = NoSave
    /\ mergeActs = 0

\* The effect on the fingerprint of the details: another file, or other content
\* of this one, starts the composition over.
ComposeAgain(d) ==
    IF Fingerprint(d) = Fingerprint(document)
    THEN UNCHANGED <<selections, manual, lineEnding, activeConflict>>
    ELSE /\ selections' = DefaultSelections(Segments(d.result))
         /\ manual' = NoManualText /\ lineEnding' = "preserve" /\ activeConflict' = 0

\* openConflictEditor asks for the details; the file may have changed on disk.
OpenConflict(d) ==
    /\ MergeActs /\ ~MergeBusy
    /\ opening' = d
    /\ UNCHANGED <<document, selections, manual, lineEnding, activeConflict,
                   saving, askedSides, lastSave>>

ConflictOpens ==
    /\ opening # NoDocument
    /\ document' = opening /\ opening' = NoDocument
    /\ ComposeAgain(opening)
    /\ askedSides' = IF <<opening.path, opening.digest, opening.result>>
                        = <<document.path, document.digest, document.result>>
                     THEN askedSides ELSE {}
    /\ UNCHANGED <<saving, lastSave, mergeActs>>

\* The editor unmounts and its state is gone.
EditorLeaves ==
    /\ document' = NoDocument /\ selections' = <<>> /\ manual' = NoManualText
    /\ lineEnding' = "preserve" /\ activeConflict' = 0 /\ askedSides' = {}

\* The back button, the show-graph shortcut, or a click on a commit.
LeaveEditor ==
    /\ MergeActs /\ EditorShown
    /\ EditorLeaves
    /\ UNCHANGED <<opening, saving, lastSave>>

-----------------------------------------------------------------------------
(* Picking. *)

Flip(i, side) == IF <<i, side>> \in askedSides THEN askedSides \ {<<i, side>>}
                 ELSE askedSides \cup {<<i, side>>}

PickOf(i, side) == [selections EXCEPT ![i][side] = ~@]

\* A click on a line of a side: toggleConflict.
ToggleConflict(i, side) ==
    /\ MergeActs /\ EditorShown /\ ~MergeBusy /\ manual = NoManualText
    /\ \E r \in DOMAIN SideRows(Parsed, side) : SideRows(Parsed, side)[r].conflict = i
    /\ selections' = PickOf(i, side)
    /\ activeConflict' = i - 1
    /\ askedSides' = Flip(i, side)
    /\ UNCHANGED <<document, opening, manual, lineEnding, saving, lastSave>>

\* The checkbox of a pane's header, which is not disabled while busy.
ToggleSide(side) ==
    LET next == ~AllSelected(side)
        all  == {<<i, side>> : i \in DOMAIN selections} IN
    /\ MergeActs /\ EditorShown /\ manual = NoManualText /\ Conflicts(Parsed) # {}
    /\ selections' = [i \in DOMAIN selections |-> [selections[i] EXCEPT ![side] = next]]
    /\ askedSides' = IF next THEN askedSides \cup all ELSE askedSides \ all
    /\ UNCHANGED <<document, opening, manual, lineEnding, activeConflict, saving,
                   lastSave>>

StepConflict(direction) ==
    LET n == Cardinality(Conflicts(Parsed)) IN
    /\ MergeActs /\ EditorShown /\ n > 0
    /\ activeConflict' = (activeConflict + direction + n) % n
    /\ UNCHANGED <<document, opening, selections, manual, lineEnding, saving, askedSides,
                   lastSave>>

ResetPicks ==
    /\ MergeActs /\ EditorShown /\ ~MergeBusy /\ Dirty
    /\ selections' = DefaultSelections(Parsed)
    /\ manual' = NoManualText
    /\ askedSides' = {}
    /\ UNCHANGED <<document, opening, lineEnding, activeConflict, saving, lastSave>>

-----------------------------------------------------------------------------
(* Editing by hand. *)

EditManually ==
    /\ MergeActs /\ EditorShown /\ ~MergeBusy /\ Editable /\ manual = NoManualText
    /\ manual' = Composed
    /\ UNCHANGED <<document, opening, selections, lineEnding, activeConflict, saving,
                   askedSides, lastSave>>

TypeResult(text) ==
    /\ MergeActs /\ EditorShown /\ ~MergeBusy /\ manual # NoManualText
    /\ manual' = text
    /\ UNCHANGED <<document, opening, selections, lineEnding, activeConflict, saving,
                   askedSides, lastSave>>

\* Back to picking; a changed text is dropped only when the user confirms.
BackToPicking ==
    /\ MergeActs /\ EditorShown /\ ~MergeBusy /\ Editable /\ manual # NoManualText
    /\ manual' = NoManualText
    /\ UNCHANGED <<document, opening, selections, lineEnding, activeConflict, saving,
                   askedSides, lastSave>>

ChooseLineEnding(ending) ==
    /\ MergeActs /\ EditorShown /\ ~MergeBusy /\ document.ending = "mixed"
    /\ lineEnding' = ending
    /\ UNCHANGED <<document, opening, selections, manual, activeConflict, saving,
                   askedSides, lastSave>>

-----------------------------------------------------------------------------
(* Saving. *)

\* Save & stage: runMutation holds busy until its answer.
SaveResult ==
    /\ MergeActs /\ CanSave
    /\ saving' = TRUE
    /\ lastSave' = [doc |-> document,
                    text |-> IF manual # NoManualText THEN manual ELSE Composed,
                    rows |-> ResultRows,
                    ours |-> {i \in DOMAIN selections : <<i, "ours">> \in askedSides},
                    theirs |-> {i \in DOMAIN selections : <<i, "theirs">> \in askedSides},
                    manual |-> manual # NoManualText]
    /\ UNCHANGED <<document, opening, selections, manual, lineEnding,
                   activeConflict, askedSides>>

\* A save that succeeds closes the editor, whatever it shows by now.
SaveEnds(ok) ==
    /\ saving
    /\ saving' = FALSE
    /\ IF ok THEN EditorLeaves
       ELSE UNCHANGED <<document, selections, manual, lineEnding, activeConflict, askedSides>>
    /\ UNCHANGED <<opening, lastSave, mergeActs>>

MergeNext ==
    \/ \E d \in MergeDocuments : OpenConflict(d)
    \/ ConflictOpens \/ LeaveEditor \/ ResetPicks \/ EditManually
    \/ \E i \in DOMAIN selections, side \in MergeSides : ToggleConflict(i, side)
    \/ \E side \in MergeSides : ToggleSide(side)
    \/ \E direction \in {-1, 1} : StepConflict(direction)
    \/ \E text \in {<<>>, <<"typed">>} : TypeResult(text)
    \/ BackToPicking
    \/ \E ending \in {"preserve", "lf", "cr_lf"} : ChooseLineEnding(ending)
    \/ SaveResult
    \/ \E ok \in BOOLEAN : SaveEnds(ok)

MergeSpec == MergeInit /\ [][MergeNext]_mergeVars

-----------------------------------------------------------------------------
(* Properties. *)

\* The state of the editor fits the document it shows: one selection for every
\* conflict of the file and an active conflict among them.
MergeTypeOK ==
    /\ document \in MergeDocuments \cup {NoDocument}
    /\ opening \in MergeDocuments \cup {NoDocument}
    /\ selections \in Seq([ours : BOOLEAN, theirs : BOOLEAN])
    /\ lineEnding \in {"preserve", "lf", "cr_lf"}
    /\ saving \in BOOLEAN
    /\ EditorShown => Len(selections) = Cardinality(Conflicts(Parsed))
    /\ activeConflict = 0 \/ activeConflict < Len(selections)

\* What Git wrote, with the chosen sides in place of every region.
Resolution(d, ours, theirs) ==
    LET regions == d.regions
        nth(i) == Cardinality({j \in 1 .. i : regions[j].kind = "conflict"})
    IN  FlattenSeq([i \in DOMAIN regions |->
            IF regions[i].kind = "common" THEN regions[i].lines
            ELSE (IF nth(i) \in ours THEN regions[i].ours ELSE <<>>)
                 \o (IF nth(i) \in theirs THEN regions[i].theirs ELSE <<>>)])

\* A save of the picker sends the file Git wrote with, in place of every
\* disputed region, exactly the sides the user picked in this content of this
\* file, leaves no region undecided, and is what the Output pane shows.
\* Parsing, composition, the rows of the pane, the reset on new content and
\* the guard of the button each have to be right for it
\* (mergeConflicts.ts, MergeEditor.tsx:59-103: "keeping stale picks would
\* silently apply them to different content").
SavedIsChosen ==
    lastSave # NoSave /\ ~lastSave.manual =>
        LET d == lastSave.doc
            n == Cardinality({i \in DOMAIN d.regions : d.regions[i].kind = "conflict"})
        IN  /\ n > 0 => lastSave.text = Resolution(d, lastSave.ours, lastSave.theirs)
            /\ lastSave.ours \cup lastSave.theirs = 1 .. n
            /\ lastSave.text = [j \in DOMAIN lastSave.rows |-> lastSave.rows[j].text]

\* The preview of an untouched region is the base text of that region or blank.
\* mergeConflicts.ts:219-223 says "A region that cannot be located unambiguously
\* is left blank rather than guessed at".
PreviewIsBaseOrBlank ==
    EditorShown => LET slices == BaseSlices(Parsed, document.base)
                 bases  == SelectSeq(document.regions, LAMBDA r : r.kind = "conflict")
             IN  \A i \in DOMAIN slices : slices[i] \in {<<>>, bases[i].base}
===============================================================================
