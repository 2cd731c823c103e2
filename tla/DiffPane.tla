------------------------------- MODULE DiffPane -------------------------------
(***************************************************************************)
(* The diff shown in the centre of the window: useDiffPane.ts, with what   *)
(* staging a file does to it (useWorktreeMutations.ts) and the modes of    *)
(* components/diff/DiffViewer.tsx.  A diff is the request it answers: the  *)
(* target, the path, and whether the whole file was asked for.             *)
(***************************************************************************)
EXTENDS Integers, FiniteSets, Sequences

CONSTANTS Files,     \* paths of the worktree, in tree order
          DiffBound  \* user actions and status changes of a run

ASSUME DiffAssumption == DiffBound \in Nat /\ Files \in Seq(STRING)

VARIABLES
    sides,       \* <<file, side>> pairs the status of the snapshot lists
    selFile,     \* selectedWorktreeFile
    view,        \* centerView
    diff,        \* the request whose answer is shown, or NoRequest
    diffLoading,
    diffSeq,     \* diffLoadSequence
    openReq,     \* openDiffRequestRef: [seq, req]
    diffCalls,   \* loadDiff calls in flight: [seq, req, silent]
    wholeFile,   \* the mode asks for whole files
    staging,     \* a stage or unstage in flight, or NoStaging
    disturbed,   \* since the last file was opened a load or a staging failed,
                 \* or its staging was asked while another command ran
    diffActs     \* actions so far (bound)

diffVars == <<sides, selFile, view, diff, diffLoading, diffSeq, openReq,
              diffCalls, wholeFile, staging, disturbed, diffActs>>

DiffSides  == {"worktree", "staged"}
NoFile     == <<>>
NoRequest  == [target |-> "none", path |-> "", whole |-> FALSE]
NoStaging  == [to |-> "none"]
OtherSide  == [worktree |-> "staged", staged |-> "worktree"]
InTree(a, b) == \E i, j \in DOMAIN Files : i < j /\ Files[i] = a /\ Files[j] = b
FileSet    == {Files[i] : i \in DOMAIN Files}

DiffRequest(target, path) == [target |-> target, path |-> path, whole |-> wholeFile]
DiffActs == diffActs < DiffBound /\ diffActs' = diffActs + 1

-----------------------------------------------------------------------------
(* loadDiff and closeDiff, as what they leave of the pane. *)

Load(req, silent, seq) ==
    /\ diffSeq' = seq
    /\ openReq' = [seq |-> seq, req |-> req]
    /\ diffCalls' = diffCalls \cup {[seq |-> seq, req |-> req, silent |-> silent]}
    /\ IF silent THEN UNCHANGED <<view, diff, diffLoading>>
       ELSE view' = "diff" /\ diff' = NoRequest /\ diffLoading' = TRUE

\* closeDiff; every selection of a commit or of the WIP row does the same.
Closed ==
    /\ diffSeq' = diffSeq + 1
    /\ diff' = NoRequest /\ diffLoading' = FALSE
    /\ selFile' = NoFile /\ view' = "graph"
    /\ UNCHANGED <<openReq, diffCalls>>

OpenIsCurrent == openReq.seq = diffSeq

CloseDiff == DiffActs /\ Closed /\ UNCHANGED <<sides, wholeFile, staging, disturbed>>

\* The show_graph shortcut leaves the diff as it is and shows the graph.
ShowGraph ==
    /\ DiffActs
    /\ view = "diff" /\ view' = "graph"
    /\ UNCHANGED <<sides, selFile, diff, diffLoading, diffSeq, openReq, diffCalls,
                   wholeFile, staging, disturbed>>

OpenWorktreeFileDiff(file, side) ==
    /\ DiffActs
    /\ <<file, side>> \in sides
    /\ selFile' = <<file, side>>
    /\ Load(DiffRequest(side, file), FALSE, diffSeq + 1)
    /\ disturbed' = FALSE
    /\ UNCHANGED <<sides, wholeFile, staging>>

OpenCommitFile(file) ==
    /\ DiffActs
    /\ selFile' = NoFile
    /\ Load(DiffRequest("commit", file), FALSE, diffSeq + 1)
    /\ disturbed' = FALSE
    /\ UNCHANGED <<sides, wholeFile, staging>>

\* reloadOpenWorktreeDiff, after a change event or the window's focus.
ReloadOpenWorktreeDiff ==
    /\ DiffActs
    /\ openReq.req # NoRequest /\ ~diffLoading /\ OpenIsCurrent
    /\ openReq.req.target \in DiffSides
    /\ Load(openReq.req, TRUE, diffSeq + 1)
    /\ UNCHANGED <<sides, selFile, wholeFile, staging, disturbed>>

\* A mode button of the viewer or its shortcut, over a diff only; the effect
\* asks again when whole files are now wanted and were not, or the reverse.
ChangeMode ==
    /\ DiffActs
    /\ diff # NoRequest
    /\ wholeFile' = ~wholeFile
    /\ IF openReq.req # NoRequest /\ OpenIsCurrent /\ openReq.req.whole # wholeFile'
       THEN Load([openReq.req EXCEPT !.whole = wholeFile'], TRUE, diffSeq + 1)
       ELSE UNCHANGED <<diffSeq, openReq, diffCalls, view, diff, diffLoading>>
    /\ UNCHANGED <<sides, selFile, staging, disturbed>>

\* A new snapshot. A selected file its status no longer lists is closed.
DiffStatusArrives ==
    /\ DiffActs
    /\ staging = NoStaging
    /\ \E listed \in SUBSET (FileSet \X DiffSides) :
        /\ sides' = listed
        /\ IF selFile # NoFile /\ selFile \notin listed THEN Closed
           ELSE UNCHANGED <<selFile, view, diff, diffLoading, diffSeq, openReq, diffCalls>>
    /\ UNCHANGED <<wholeFile, staging, disturbed>>

-----------------------------------------------------------------------------
(* Staging. *)

\* nextWorktreeSelection: the file after the one staged, else the one before
\* it, else the same file on the other side.
FollowUp(file, side) ==
    LET others == {f \in FileSet \ {file} : <<f, side>> \in sides}
        after  == {f \in others : InTree(file, f)}
        first(set) == CHOOSE f \in set : \A g \in set : g = f \/ InTree(f, g)
        last(set)  == CHOOSE f \in set : \A g \in set : g = f \/ InTree(g, f)
    IN  IF after # {} THEN <<first(after), side>>
        ELSE IF others # {} THEN <<last(others), side>>
        ELSE <<file, OtherSide[side]>>

\* worktreeDiffFollowUp: only when the diff of the staged file is open and no
\* command or load holds the window.
HasFollowUp(file, side, held) ==
    ~held /\ view = "diff" /\ selFile = <<file, side>>

MovedSides(file, side) == (sides \ {<<file, side>>}) \cup {<<file, OtherSide[side]>>}

\* stagePaths and unstagePaths of one file. The follow-up on the same side is
\* opened at once, a follow-up across the sides when the call has ended; the
\* snapshot and the selection move before the call answers.
Stage(file, side, held) ==
    /\ DiffActs
    /\ staging = NoStaging /\ <<file, side>> \in sides
    /\ LET follows == HasFollowUp(file, side, held)
           next    == FollowUp(file, side)
           crosses == follows /\ next[2] # side
       IN  /\ staging' = [to |-> OtherSide[side], file |-> file,
                          crosses |-> crosses, wasSides |-> sides, wasFile |-> selFile]
           /\ sides' = MovedSides(file, side)
           /\ IF follows /\ ~crosses
              THEN Load(DiffRequest(side, next[1]), FALSE, diffSeq + 1)
              ELSE UNCHANGED <<diffSeq, openReq, diffCalls, view, diff, diffLoading>>
           /\ selFile' = IF follows THEN next
                         ELSE IF selFile # NoFile /\ selFile[1] = file
                         THEN <<file, OtherSide[side]>> ELSE selFile
           /\ disturbed' = (disturbed \/ (~follows /\ selFile' # selFile))
    /\ UNCHANGED wholeFile

\* A mutant: the follow-up across the sides only moves the highlight.
SwapSelectionOnly(file, side) ==
    /\ selFile' = <<file, side>>
    /\ UNCHANGED <<diffSeq, openReq, diffCalls, view, diff, diffLoading>>

\* swapWorktreeDiffSide: only while the diff of that file is still the one open.
SwapSide(file, side) ==
    IF /\ OpenIsCurrent /\ openReq.req.path = file
       /\ openReq.req.target \in DiffSides
    THEN /\ selFile' = <<file, side>>
         /\ Load([openReq.req EXCEPT !.target = side], TRUE, diffSeq + 1)
    ELSE UNCHANGED <<selFile, diffSeq, openReq, diffCalls, view, diff, diffLoading>>

StageDone ==
    /\ staging # NoStaging
    /\ IF staging.crosses THEN SwapSide(staging.file, staging.to)
       ELSE UNCHANGED <<selFile, diffSeq, openReq, diffCalls, view, diff, diffLoading>>
    /\ staging' = NoStaging
    /\ UNCHANGED <<sides, wholeFile, disturbed, diffActs>>

\* The rollback of a refused call puts back the snapshot and the selection of
\* the press; a selection the snapshot does not list is closed.
StageRefused ==
    /\ staging # NoStaging
    /\ sides' = staging.wasSides
    /\ IF staging.wasFile # NoFile /\ staging.wasFile \notin sides' THEN Closed
       ELSE /\ selFile' = staging.wasFile
            /\ UNCHANGED <<diffSeq, openReq, diffCalls, view, diff, diffLoading>>
    /\ staging' = NoStaging /\ disturbed' = TRUE
    /\ UNCHANGED <<wholeFile, diffActs>>

-----------------------------------------------------------------------------
(* Answers. *)

Live(call) == call.seq = diffSeq

DiffArrives(call) ==
    /\ call \in diffCalls
    /\ diffCalls' = diffCalls \ {call}
    /\ diff' = IF Live(call) THEN call.req ELSE diff
    /\ diffLoading' = (diffLoading /\ ~(~call.silent /\ call.seq = diffSeq))
    /\ UNCHANGED <<sides, selFile, view, diffSeq, openReq, wholeFile, staging,
                   disturbed, diffActs>>

DiffFails(call) ==
    /\ call \in diffCalls
    /\ diffCalls' = diffCalls \ {call}
    /\ diffLoading' = (diffLoading /\ ~(~call.silent /\ call.seq = diffSeq))
    /\ disturbed' = TRUE
    /\ UNCHANGED <<sides, selFile, view, diff, diffSeq, openReq, wholeFile,
                   staging, diffActs>>

DiffInit ==
    /\ sides \in SUBSET (FileSet \X DiffSides)
    /\ selFile = NoFile /\ view = "graph"
    /\ diff = NoRequest /\ diffLoading = FALSE
    /\ diffSeq = 1 /\ openReq = [seq |-> 0, req |-> NoRequest]
    /\ diffCalls = {} /\ wholeFile = FALSE
    /\ staging = NoStaging /\ disturbed = FALSE /\ diffActs = 0

DiffNext ==
    \/ CloseDiff \/ ShowGraph \/ ReloadOpenWorktreeDiff \/ ChangeMode \/ DiffStatusArrives
    \/ \E file \in FileSet : OpenCommitFile(file)
    \/ \E file \in FileSet, side \in DiffSides :
          \/ OpenWorktreeFileDiff(file, side)
          \/ \E held \in BOOLEAN : Stage(file, side, held)
    \/ StageDone \/ StageRefused
    \/ \E call \in diffCalls : DiffArrives(call) \/ DiffFails(call)

DiffSpec == DiffInit /\ [][DiffNext]_diffVars

-----------------------------------------------------------------------------
DiffTypeOK ==
    /\ sides \subseteq FileSet \X DiffSides
    /\ selFile \in {NoFile} \cup (FileSet \X DiffSides)
    /\ view \in {"graph", "diff"}
    /\ diffLoading \in BOOLEAN /\ wholeFile \in BOOLEAN
    /\ \A call \in diffCalls : call.seq <= diffSeq

\* Once nothing is on its way, the diff on the screen is the one last asked
\* for, of the file and the side the list highlights, in the mode chosen:
\* whatever was opened, staged, refreshed or answered late in between.
DiffIsOfSelection ==
    /\ view = "diff" /\ diff # NoRequest
    /\ diffCalls = {} /\ staging = NoStaging /\ ~disturbed
    =>
        /\ diff = openReq.req /\ diff.whole = wholeFile
        /\ selFile # NoFile => diff.target = selFile[2] /\ diff.path = selFile[1]
        /\ selFile = NoFile => diff.target = "commit"

\* Not held: while "Loading diff" is shown, a load is on its way that will end
\* it. A silent load (the side a staged file crosses to) supersedes it.
DiffSpinnerHasLoad ==
    diffLoading => \E call \in diffCalls : call.seq = diffSeq /\ ~call.silent

\* Not held: after a refused staging too, the diff is of the highlighted file.
DiffFollowsRollback ==
    diff # NoRequest /\ diffCalls = {} /\ staging = NoStaging
        /\ selFile # NoFile => diff.path = selFile[1]
=============================================================================
