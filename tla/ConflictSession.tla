------------------------- MODULE ConflictSession -------------------------
(***************************************************************************)
(* Conflicts of a stopped merge, rebase, cherry-pick or revert: how they   *)
(* are inspected (conflict_details), resolved one by one or in bulk, saved *)
(* from the editor, and how the operation is continued, aborted or skipped *)
(* (conflict.rs, backend.rs, useConflictActions.ts).                       *)
(*                                                                         *)
(* A call holds the mutation lock of CoreRegistry, so there is one at a    *)
(* time, but it is a sequence of Git commands and file accesses, and the   *)
(* terminal, an editor or another program may act between any two of them. *)
(* conflict_details takes no lock.  A stage is known by the merge that     *)
(* wrote it (round), a working file by a token for its content.            *)
(***************************************************************************)
EXTENDS Naturals, FiniteSets, Sequences, SequencesExt

CONSTANTS
    ConflictPaths,   \* paths, numbered in the order resolve_conflicts sorts them
    ChunkSize,       \* BULK_PATH_CHUNK
    MaxRounds,       \* bound: merges that stop with conflicts
    MaxForeign,      \* bound: moves of other programs
    MaxCalls         \* bound: mutations the client asks for

ASSUME ConflictAssumption ==
    /\ ConflictPaths \subseteq Nat /\ IsFiniteSet(ConflictPaths)
    /\ ChunkSize \in Nat \ {0}
    /\ MaxRounds \in Nat /\ MaxForeign \in Nat /\ MaxCalls \in Nat

VARIABLES
    index,      \* [path -> entry]: unmerged while it has stages
    work,       \* [path -> content of the working file]
    operation,  \* operation_state
    round,      \* the merge that wrote the stages
    editor,     \* the open ConflictFileDetails, or NoEditor
    details,    \* conflict_details of openConflictEditor, under way
    call,       \* the mutation under way
    foreign, calls

conflictVars == <<index, work, operation, round, editor, details, call,
                  foreign, calls>>

Texts == {"markers", "ours", "theirs", "composed", "mine"}
Contents == Texts \cup {"binary", "link", "missing"}
Operations == {"merge", "rebase"}
Resolutions == {"ours", "theirs", "mark_resolved", "delete"}
Refusals == {"stale", "unsupported", "invalid"}
(* Both sides changed a regular file, or something else such as a          *)
(* submodule, or the current side deleted it.                              *)
Both == {1, 2, 3}
ConflictShapes == {Both, {1, 3}}
ConflictKinds == {<<Both, TRUE>>, <<Both, FALSE>>, <<{1, 3}, TRUE>>}

Entries == [round : 0..MaxRounds, stages : {{}} \cup ConflictShapes,
            regular : BOOLEAN, content : Contents]
Identities == [round : 0..MaxRounds, stages : {{}} \cup ConflictShapes, work : Contents]

NoEditor == [path |-> 0, expected |-> [round |-> 0, stages |-> {}, work |-> "missing"]]
NoDetails == [path |-> 0, round |-> 0, stages |-> {}]

IdleCall == [kind |-> "none", what |-> "none", pc |-> "idle", paths |-> <<>>, rest |-> <<>>,
         expected |-> NoEditor.expected, entry |-> NoDetails, answer |-> "none",
         moved |-> FALSE, stagesMoved |-> FALSE, wrote |-> FALSE]

Conflicted(p) == index[p].stages # {}
Side(what) == IF what = "ours" THEN 2 ELSE 3

(* What git add records: the working file, or the deletion when there is   *)
(* none (`git add` of a path stages removals too).                         *)
Resolved(p) == [index[p] EXCEPT !.stages = {}, !.content = work[p]]

(* The working file a stopped merge leaves for each shape of stages.       *)
LeftByMerge(s) == IF s = Both THEN "markers" ELSE "theirs"

Clean == [p \in ConflictPaths |-> [round |-> 0, stages |-> {}, regular |-> TRUE, content |-> "ours"]]

ConflictInit ==
    /\ index = Clean
    /\ work = [p \in ConflictPaths |-> "ours"]
    /\ operation = "none"
    /\ round = 0
    /\ editor = NoEditor /\ details = NoDetails
    /\ call = IdleCall
    /\ foreign = 0 /\ calls = 0

---------------------------------------------------------------------------
(* Other programs.  Every move is recorded in the call under way.          *)

Noticed == IF call = IdleCall THEN call ELSE [call EXCEPT !.moved = TRUE, !.stagesMoved = TRUE]

Foreign ==
    /\ foreign < MaxForeign
    /\ foreign' = foreign + 1
    /\ call' = Noticed
    /\ UNCHANGED <<editor, details, calls>>

ForeignEdit(p) ==
    /\ Foreign
    /\ \E c \in {"mine", "binary", "link", "missing"} \ {work[p]} : work' = [work EXCEPT ![p] = c]
    /\ UNCHANGED <<index, operation, round>>

ForeignAdd(p) ==
    /\ Foreign
    /\ Conflicted(p)
    /\ index' = [index EXCEPT ![p] = Resolved(p)]
    /\ UNCHANGED <<work, operation, round>>

ForeignAbort ==
    /\ Foreign
    /\ operation # "none"
    /\ operation' = "none"
    /\ index' = Clean
    /\ work' = [p \in ConflictPaths |-> "ours"]
    /\ UNCHANGED round

(* A merge, a rebase or a pull stops with conflicts.  (The merges gitcat   *)
(* starts itself are RefOperations'; here they only matter for what they   *)
(* leave.)                                                                 *)
MergeStops ==
    /\ operation = "none" /\ round < MaxRounds
    /\ round' = round + 1
    /\ operation' \in Operations
    /\ \E P \in SUBSET ConflictPaths \ {{}}, kind \in ConflictKinds :
        /\ index' = [p \in ConflictPaths |-> IF p \in P
                        THEN [round |-> round', stages |-> kind[1], regular |-> kind[2], content |-> "ours"]
                        ELSE index[p]]
        /\ work' = [p \in ConflictPaths |-> IF p \in P THEN LeftByMerge(kind[1]) ELSE work[p]]
    /\ call' = Noticed
    /\ UNCHANGED <<editor, details, foreign, calls>>

---------------------------------------------------------------------------
(* The client: the editor, and what follows an answer.                     *)

(* openConflictEditor: conflict_details reads the stages, then the file.   *)
OpenEditor(p) ==
    /\ call = IdleCall /\ details = NoDetails
    /\ p # editor.path /\ Conflicted(p)
    /\ details' = [path |-> p, round |-> index[p].round, stages |-> index[p].stages]
    /\ UNCHANGED <<index, work, operation, round, editor, call, foreign, calls>>

EditorOpened ==
    /\ details # NoDetails
    /\ details' = NoDetails
    /\ editor' = [path |-> details.path,
                  expected |-> [round |-> details.round, stages |-> details.stages,
                                work |-> work[details.path]]]
    /\ UNCHANGED <<index, work, operation, round, call, foreign, calls>>

(* A snapshot arrives in which the path of the editor is not conflicted.   *)
SnapshotClosesEditor ==
    /\ editor # NoEditor /\ ~Conflicted(editor.path)
    /\ editor' = NoEditor
    /\ UNCHANGED <<index, work, operation, round, details, call, foreign, calls>>

StartCall(kind, what, paths, pc, expected) ==
    /\ call = IdleCall /\ details = NoDetails
    /\ calls < MaxCalls /\ calls' = calls + 1
    /\ call' = [IdleCall EXCEPT !.kind = kind, !.what = what, !.paths = paths, !.rest = paths,
                            !.pc = pc, !.expected = expected]
    /\ UNCHANGED <<index, work, operation, round, editor, details, foreign>>

SaveConflictResult == editor # NoEditor /\ StartCall("save", "composed", <<editor.path>>, "status", editor.expected)

(* resolveConflictEntry asks for the details itself, then resolves.        *)
(* The list on the screen may lag, so any path can be asked for.           *)
ResolveConflictEntry(p, what) == StartCall("resolve", what, <<p>>, "detail_stages", IdleCall.expected)

ResolveConflictPaths(P, what) ==
    P # {} /\ StartCall("bulk", what, SetToSortSeq(P, <), "list", IdleCall.expected)

ControlOperation(verb, op) == StartCall(verb, op, <<>>, "operation", IdleCall.expected)

(* The answer reaches runMutation: a saved editor closes.                  *)
Returned ==
    /\ call.pc = "done"
    /\ call' = IdleCall
    /\ editor' = IF call.kind = "save" /\ call.answer = "ok" THEN NoEditor ELSE editor
    /\ UNCHANGED <<index, work, operation, round, details, foreign, calls>>

---------------------------------------------------------------------------
(* The steps of a call.                                                    *)

At(pc) == call.pc = pc
Target == call.paths[1]
Goto(pc) == call' = [call EXCEPT !.pc = pc]
Ended(a) == [call EXCEPT !.pc = "done", !.answer = a, !.rest = <<>>,
                         !.expected = IdleCall.expected, !.entry = IdleCall.entry]
Answer(a) == call' = Ended(a)
KeepClient == UNCHANGED <<round, editor, details, foreign, calls>>
Reading == KeepClient /\ UNCHANGED <<index, work, operation>>

DetailStages ==
    /\ At("detail_stages")
    /\ IF Conflicted(Target)
       THEN call' = [call EXCEPT !.pc = "detail_work", !.expected.round = index[Target].round,
                                 !.expected.stages = index[Target].stages]
       ELSE Answer("invalid")
    /\ Reading

DetailWork ==
    /\ At("detail_work")
    /\ call' = [call EXCEPT !.pc = "status", !.expected.work = work[Target]]
    /\ Reading

(* ensure_conflicted_path, and its error turned into a stale one.          *)
EnsureConflicted ==
    /\ At("status")
    /\ IF Conflicted(Target) THEN Goto("stages") ELSE Answer("stale")
    /\ Reading

UnmergedEntries ==
    /\ At("stages")
    /\ IF Conflicted(Target)
       THEN call' = [call EXCEPT !.pc = "look", !.stagesMoved = FALSE,
                        !.entry = [path |-> Target, round |-> index[Target].round,
                                   stages |-> index[Target].stages]]
       ELSE Answer("stale")
    /\ Reading

\* Mutant of Actual: only the stages are compared, or only the file.
StagesOnly == [round |-> call.entry.round, stages |-> call.entry.stages, work |-> call.expected.work]

Actual == [round |-> call.entry.round, stages |-> call.entry.stages, work |-> work[Target]]

(* The rest of ensure_expected_conflict, then what each resolution needs   *)
(* of the entries it returned.                                             *)
CompareWithExpected ==
    /\ At("look")
    /\ CASE Actual # call.expected -> Answer("stale")
         [] OTHER -> call' = [call EXCEPT !.moved = FALSE, !.pc =
              CASE call.kind = "save" -> "mode"
                [] call.what \in {"ours", "theirs"} -> "side"
                [] call.what = "mark_resolved" -> "add"
                [] call.what = "delete" -> "rm"]
    /\ Reading

EnsureSide ==
    /\ At("side")
    /\ IF Side(call.what) \in call.entry.stages THEN Goto("checkout") ELSE Answer("unsupported")
    /\ Reading

(* save_conflict_result wants a regular stage and a regular or no file;    *)
(* write_conflict_result looks again, and cannot encode over a binary one. *)
EnsureRegular ==
    /\ At("mode")
    /\ IF index[Target].regular /\ call.expected.work # "link" THEN Goto("write") ELSE Answer("unsupported")
    /\ Reading

WriteTemporary ==
    /\ At("write")
    /\ \/ work[Target] # call.expected.work /\ Answer("stale")
       \/ work[Target] = call.expected.work /\ work[Target] = "binary" /\ Answer("unsupported")
       \/ work[Target] = call.expected.work /\ work[Target] # "binary" /\ Goto("last_look")
       \/ Answer("failed")
    /\ Reading

LastLook ==
    /\ At("last_look")
    /\ IF work[Target] # call.expected.work
       THEN Answer("stale")
       ELSE call' = [call EXCEPT !.pc = "replace", !.moved = FALSE]
    /\ Reading

Replace ==
    /\ At("replace")
    /\ \/ /\ work' = [work EXCEPT ![Target] = "composed"]
          /\ call' = [call EXCEPT !.pc = "add", !.wrote = TRUE]
       \/ Answer("failed") /\ UNCHANGED work
    /\ KeepClient /\ UNCHANGED <<index, operation>>

(* mutate: Git refuses and changes nothing, or it is done and the answer   *)
(* still gets lost when the state cannot be read back.                     *)
Mutated(next) ==
    \/ call' = IF next = "done" THEN [Ended("ok") EXCEPT !.wrote = TRUE]
                ELSE [call EXCEPT !.wrote = TRUE, !.pc = next]
    \/ call' = [Ended("failed") EXCEPT !.wrote = TRUE]

CheckoutSide(P) ==
    [p \in ConflictPaths |-> IF p \notin P THEN work[p]
                             ELSE IF Conflicted(p) THEN call.what ELSE index[p].content]

CanCheckout(P) == \A p \in P : Conflicted(p) => Side(call.what) \in index[p].stages

Checkout ==
    /\ At("checkout")
    /\ \/ CanCheckout({Target}) /\ work' = CheckoutSide({Target}) /\ Mutated("add")
       \/ Answer("failed") /\ UNCHANGED work
    /\ KeepClient /\ UNCHANGED <<index, operation>>

StageConflictPath ==
    /\ At("add")
    /\ \/ index' = [index EXCEPT ![Target] = Resolved(Target)] /\ Mutated("done")
       \/ Answer("failed") /\ UNCHANGED index
    /\ KeepClient /\ UNCHANGED <<work, operation>>

RemoveFiles(P) ==
    /\ work' = [p \in ConflictPaths |-> IF p \in P THEN "missing" ELSE work[p]]
    /\ index' = [p \in ConflictPaths |-> IF p \in P
                    THEN [index[p] EXCEPT !.stages = {}, !.content = "missing"] ELSE index[p]]

RemovePath ==
    /\ At("rm")
    /\ \/ RemoveFiles({Target}) /\ Mutated("done")
       \/ Answer("failed") /\ UNCHANGED <<index, work>>
    /\ KeepClient /\ UNCHANGED operation

---------------------------------------------------------------------------
(* Bulk: no expected state; chunk after chunk, stopping at the first that  *)
(* fails.                                                                  *)

BulkList ==
    /\ At("list")
    /\ CASE ~ \A p \in ToSet(call.paths) : Conflicted(p) -> Answer("invalid")
         [] OTHER -> call' = [call EXCEPT !.stagesMoved = FALSE, !.moved = FALSE, !.pc =
                        IF call.what \in {"ours", "theirs"} THEN "bulk_sides" ELSE "bulk_apply"]
    /\ Reading

BulkSides ==
    /\ At("bulk_sides")
    /\ IF \A p \in ToSet(call.paths) : Side(call.what) \in index[p].stages
       THEN Goto("bulk_checkout") ELSE Answer("unsupported")
    /\ Reading

Chunk == ToSet(SubSeq(call.rest, 1, IF Len(call.rest) < ChunkSize THEN Len(call.rest) ELSE ChunkSize))
AfterChunk == SubSeq(call.rest, ChunkSize + 1, Len(call.rest))

ChunkDone(next) ==
    call' = [call EXCEPT !.wrote = TRUE,
                !.rest = IF AfterChunk = <<>> THEN call.paths ELSE AfterChunk,
                !.pc = IF AfterChunk = <<>> THEN next ELSE call.pc]

BulkCheckout ==
    /\ At("bulk_checkout")
    /\ \/ CanCheckout(Chunk) /\ work' = CheckoutSide(Chunk) /\ ChunkDone("bulk_apply")
       \/ Answer("failed") /\ UNCHANGED work
    /\ KeepClient /\ UNCHANGED <<index, operation>>

BulkApply ==
    /\ At("bulk_apply")
    /\ \/ /\ call.what = "delete" /\ RemoveFiles(Chunk) /\ ChunkDone("bulk_result")
       \/ /\ call.what # "delete"
          /\ index' = [p \in ConflictPaths |-> IF p \in Chunk THEN Resolved(p) ELSE index[p]]
          /\ ChunkDone("bulk_result") /\ UNCHANGED work
       \/ Answer("failed") /\ UNCHANGED <<index, work>>
    /\ KeepClient /\ UNCHANGED operation

BulkResult ==
    /\ At("bulk_result")
    /\ Answer("ok") \/ Answer("failed")
    /\ Reading

---------------------------------------------------------------------------
(* ensure_operation, then git merge or rebase --continue, --abort, --skip. *)

EnsureOperation ==
    /\ At("operation")
    /\ CASE operation # call.what -> Answer("invalid")
         [] call.kind = "skip" /\ call.what = "merge" -> Answer("unsupported")
         [] OTHER -> call' = [call EXCEPT !.pc = "control", !.moved = FALSE]
    /\ Reading

(* Git continues only an operation that is still there, with no unmerged   *)
(* path left; a rebase may stop again at its next commit.                  *)
Control ==
    /\ At("control")
    /\ \/ Answer("failed") /\ UNCHANGED <<index, work, operation, round>>
       \/ /\ operation = call.what
          /\ call.kind = "continue" => \A p \in ConflictPaths : ~Conflicted(p)
          /\ Mutated("done")
          /\ \/ /\ operation' = "none"
                /\ index' = Clean
                /\ work' = [p \in ConflictPaths |-> IF call.kind = "continue" THEN work[p] ELSE "ours"]
                /\ UNCHANGED round
             \/ /\ operation = "rebase" /\ call.kind # "abort" /\ round < MaxRounds
                /\ round' = round + 1
                /\ UNCHANGED operation
                /\ \E p \in ConflictPaths :
                    /\ index' = [Clean EXCEPT ![p] = [round |-> round', stages |-> Both,
                                                      regular |-> TRUE, content |-> "ours"]]
                    /\ work' = [work EXCEPT ![p] = "markers"]
    /\ UNCHANGED <<editor, details, foreign, calls>>

(* git rerere resolves what it has seen before, or nothing.                *)
AutoResolveConflicts == StartCall("rerere", "none", <<>>, "rerere", IdleCall.expected)
Rerere ==
    /\ At("rerere")
    /\ \/ Answer("failed") /\ UNCHANGED <<index, work>>
       \/ \E P \in SUBSET {p \in ConflictPaths : work[p] = "markers" /\ Conflicted(p)} :
            /\ work' = [p \in ConflictPaths |-> IF p \in P THEN "composed" ELSE work[p]]
            /\ index' = [p \in ConflictPaths |-> IF p \in P
                            THEN [index[p] EXCEPT !.stages = {}, !.content = "composed"] ELSE index[p]]
            /\ Mutated("done")
    /\ KeepClient /\ UNCHANGED operation

CallStep ==
    \/ DetailStages \/ DetailWork \/ EnsureConflicted \/ UnmergedEntries \/ CompareWithExpected
    \/ EnsureSide \/ EnsureRegular \/ WriteTemporary \/ LastLook \/ Replace
    \/ Checkout \/ StageConflictPath \/ RemovePath
    \/ BulkList \/ BulkSides \/ BulkCheckout \/ BulkApply \/ BulkResult
    \/ EnsureOperation \/ Control \/ Rerere
    \/ Returned

ConflictClient ==
    \/ SaveConflictResult \/ AutoResolveConflicts
    \/ \E p \in ConflictPaths, what \in Resolutions : ResolveConflictEntry(p, what)
    \/ \E P \in SUBSET ConflictPaths, what \in Resolutions : ResolveConflictPaths(P, what)
    \/ \E verb \in {"continue", "abort", "skip"}, op \in Operations : ControlOperation(verb, op)
    \/ \E p \in ConflictPaths : OpenEditor(p)

ConflictNext ==
    \/ CallStep \/ EditorOpened \/ SnapshotClosesEditor \/ ConflictClient
    \/ MergeStops \/ ForeignAbort
    \/ \E p \in ConflictPaths : ForeignEdit(p) \/ ForeignAdd(p)

(* A started call is driven by the runtime, and a snapshot follows every   *)
(* mutation and every change of the directory.                             *)
ConflictFairness == WF_conflictVars(CallStep) /\ WF_conflictVars(SnapshotClosesEditor)

ConflictSpec == ConflictInit /\ [][ConflictNext]_conflictVars /\ ConflictFairness

---------------------------------------------------------------------------
(* Properties.                                                             *)

(* The type invariant.                                                     *)
ConflictTypeOK ==
    /\ index \in [ConflictPaths -> Entries]
    /\ work \in [ConflictPaths -> Contents]
    /\ operation \in Operations \cup {"none"}
    /\ editor.path \in ConflictPaths \cup {0} /\ editor.expected \in Identities
    /\ details.path \in ConflictPaths \cup {0}
    /\ call.expected \in Identities
    /\ call.answer \in Refusals \cup {"none", "ok", "failed"}
    /\ ToSet(call.paths) \subseteq ConflictPaths /\ ToSet(call.rest) \subseteq ToSet(call.paths)

SinglePath == call.kind \in {"save", "resolve"}

(* A save or a resolution replaces or removes only the working file its    *)
(* caller was shown: an edit of another program survives, except one made  *)
(* after the last look.                                                    *)
UnseenEditKept ==
    [][\A p \in ConflictPaths :
        CallStep /\ SinglePath /\ work'[p] # work[p]
          => call.moved \/ call.wrote \/ (p = Target /\ work[p] = call.expected.work)]_conflictVars

(* A save or a resolution ends only the conflict its caller was shown,     *)
(* never one of a later merge on the same path, unless another program has *)
(* moved since the stages were read.                                       *)
EndsItsConflict ==
    [][\A p \in ConflictPaths :
        CallStep /\ SinglePath /\ index'[p] # index[p]
          => call.stagesMoved \/ (p = Target /\ index[p].round = call.expected.round
                                     /\ index[p].stages = call.expected.stages)]_conflictVars

Chosen(p) ==
    CASE call.what \in {"ours", "theirs", "composed"} -> index[p].content = call.what
      [] call.what = "delete" -> index[p].content = "missing"
      [] OTHER -> index[p].content = work[p]

(* When a call ends and nobody else moved, every path it was about is      *)
(* still listed as a conflict or resolved the way that was chosen, and all *)
(* of them are resolved when the answer is a success.                      *)
ResolvedAsChosen ==
    call.pc = "done" /\ call.kind \in {"save", "resolve", "bulk"} /\ ~call.stagesMoved
      => \A p \in ToSet(call.paths) :
            IF Conflicted(p) THEN call.answer # "ok"
            ELSE call.answer \in Refusals \/ Chosen(p)

(* A refusal (stale, unsupported, invalid) is given before the first       *)
(* change: nothing has been written.                                       *)
RefusedUntouched == call.answer \in Refusals => ~call.wrote

(* A bulk choice of a side resolves no path before every one of them has   *)
(* been checked out: one whose checkout fails leaves all of them listed.   *)
SidesBeforeStages ==
    call.kind = "bulk" /\ call.what \in {"ours", "theirs"} /\ ~call.stagesMoved
      /\ call.pc \in {"bulk_checkout", "bulk_apply"}
      /\ (\E p \in ToSet(call.paths) : ~Conflicted(p))
      => \A p \in ToSet(call.paths) : work[p] = call.what

(* continue, abort and skip end only an operation of the kind they were    *)
(* asked for, unless it was replaced after it was looked at.               *)
AskedOperation ==
    [][CallStep /\ operation' # operation
         => call.moved \/ (operation = call.what /\ (call.kind = "skip" => operation # "merge"))]_conflictVars

(* Every call ends.                                                        *)
ConflictCallsEnd == call.pc # "idle" ~> call.pc = "idle"

(* An editor does not stay open over a conflict that is gone.              *)
EditorFollows ==
    \A p \in ConflictPaths : editor.path = p /\ ~Conflicted(p) ~> editor.path # p \/ Conflicted(p)
==========================================================================
