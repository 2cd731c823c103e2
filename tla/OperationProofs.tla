-------------------------- MODULE OperationProofs --------------------------
(***************************************************************************)
(* Proofs about the operations of the Git backend (ConflictSession,        *)
(* WorktreeOperations, RefOperations) and the tabs of the client           *)
(* (RepositoryTabs), for any paths, files, histories, tabs and bounds.     *)
(***************************************************************************)
EXTENDS ConflictSession, WorktreeOperations, RefOperations, RepositoryTabs,
        FiniteSetTheorems, WellFoundedInduction, TLAPS

LEMMA SeqOfItsElements ==
    ASSUME NEW S, NEW q \in Seq(S)
    PROVE  q \in Seq(ToSet(q))
  BY DEF ToSet

-----------------------------------------------------------------------------
(***************************************************************************)
(* ConflictSession: what a call for one path may replace.                  *)
(***************************************************************************)
(* What the call under way is about.                                       *)
SinglePcs == {"detail_stages", "detail_work", "status", "stages", "look", "mode", "side",
              "checkout", "write", "last_look", "replace", "add", "rm", "done"}

ConflictCallShape ==
    call \in [kind : {call.kind}, what : {call.what}, pc : {call.pc}, paths : {call.paths},
              rest : {call.rest}, expected : {call.expected}, entry : {call.entry},
              answer : {call.answer}, moved : {call.moved}, stagesMoved : {call.stagesMoved},
              wrote : {call.wrote}]

(* The steps of a call for one path, and what holds at those which come    *)
(* after the last look at its working file.                                *)
SingleCallInv ==
    /\ SinglePath => call.pc \in SinglePcs
    /\ call.kind = "resolve" => call.what \in Resolutions
    /\ SinglePath /\ call.pc \in {"side", "checkout", "rm", "replace"}
         => call.moved \/ work[Target] = call.expected.work

LookInv ==
    /\ DOMAIN work = ConflictPaths
    /\ ConflictCallShape
    /\ SingleCallInv

LEMMA LookInit == ConflictInit => LookInv
  BY DEF ConflictInit, LookInv, ConflictCallShape, SingleCallInv, SinglePath, IdleCall

LEMMA LookStep == LookInv /\ [ConflictNext]_conflictVars => LookInv'
<1> SUFFICES ASSUME LookInv, [ConflictNext]_conflictVars PROVE LookInv'
  OBVIOUS
<1> USE DEF LookInv, ConflictCallShape, SingleCallInv, SinglePath, SinglePcs, Target, At
<1>0. CASE UNCHANGED conflictVars
  BY <1>0 DEF conflictVars
<1>1. CASE DetailStages
  BY <1>1 DEF DetailStages, Answer, Ended, Reading, KeepClient
<1>2. CASE DetailWork
  BY <1>2 DEF DetailWork, Reading, KeepClient
<1>3. CASE EnsureConflicted
  BY <1>3 DEF EnsureConflicted, Answer, Ended, Goto, Reading, KeepClient
<1>4. CASE UnmergedEntries
  BY <1>4 DEF UnmergedEntries, Answer, Ended, Reading, KeepClient
<1>5. CASE CompareWithExpected
  <2>1. CASE Actual # call.expected
    BY <1>5, <2>1 DEF CompareWithExpected, Answer, Ended, Reading, KeepClient
  <2>2. CASE Actual = call.expected
    <3>1. work[Target] = call.expected.work
      BY <2>2 DEF Actual
    <3>2. UNCHANGED work /\ call'.paths = call.paths /\ call'.kind = call.kind /\ call'.expected = call.expected
            /\ ConflictCallShape' /\ call'.what = call.what
      BY <1>5, <2>2 DEF CompareWithExpected, Reading
    <3>3. call.kind \in {"save", "resolve"} => call'.pc \in SinglePcs
      <4>1. call'.pc = CASE call.kind = "save" -> "mode"
                        [] call.what \in {"ours", "theirs"} -> "side"
                        [] call.what = "mark_resolved" -> "add"
                        [] call.what = "delete" -> "rm"
        BY <1>5, <2>2 DEF CompareWithExpected
      <4>2. CASE call.kind = "save"
        BY <4>1, <4>2
      <4>3. CASE call.kind = "resolve"
        <5>1. call.what \in Resolutions
          BY <4>3
        <5> QED
          BY <4>1, <4>3, <5>1 DEF Resolutions
      <4> QED
        BY <4>2, <4>3
    <3> QED
      BY <3>1, <3>2, <3>3
  <2> QED
    BY <2>1, <2>2
<1>6. CASE EnsureSide
  BY <1>6 DEF EnsureSide, Answer, Ended, Goto, Reading, KeepClient
<1>7. CASE EnsureRegular
  BY <1>7 DEF EnsureRegular, Answer, Ended, Goto, Reading, KeepClient
<1>8. CASE WriteTemporary
  BY <1>8 DEF WriteTemporary, Answer, Ended, Goto, Reading, KeepClient
<1>9. CASE LastLook
  BY <1>9 DEF LastLook, Answer, Ended, Reading, KeepClient
<1>10. CASE Replace
  BY <1>10 DEF Replace, Answer, Ended
<1>11. CASE Checkout
  BY <1>11 DEF Checkout, Answer, Ended, Mutated, CheckoutSide
<1>12. CASE StageConflictPath
  BY <1>12 DEF StageConflictPath, Answer, Ended, Mutated
<1>13. CASE RemovePath
  <2>1. DOMAIN work' = ConflictPaths
    BY <1>13 DEF RemovePath, RemoveFiles
  <2>2. ConflictCallShape' /\ call'.pc = "done" /\ call'.kind = call.kind /\ call'.what = call.what
    BY <1>13 DEF RemovePath, Answer, Ended, Mutated
  <2> QED
    BY <2>1, <2>2
<1>14. CASE BulkList
  BY <1>14 DEF BulkList, Answer, Ended, Reading, KeepClient
<1>15. CASE BulkSides
  BY <1>15 DEF BulkSides, Answer, Ended, Goto, Reading, KeepClient
<1>16. CASE BulkCheckout
  BY <1>16 DEF BulkCheckout, Answer, Ended, CheckoutSide, ChunkDone
<1>17. CASE BulkApply
  BY <1>17 DEF BulkApply, Answer, Ended, RemoveFiles, ChunkDone
<1>18. CASE BulkResult
  BY <1>18 DEF BulkResult, Answer, Ended, Reading, KeepClient
<1>19. CASE EnsureOperation
  BY <1>19 DEF EnsureOperation, Answer, Ended, Reading, KeepClient
<1>20. CASE Control
  BY <1>20 DEF Control, Answer, Ended, Mutated
<1>21. CASE Rerere
  <2>1. DOMAIN work' = ConflictPaths
    BY <1>21 DEF Rerere
  <2>2. ConflictCallShape' /\ call'.pc = "done" /\ call'.kind = call.kind /\ call'.what = call.what
    <3>1. \/ call' = Ended("failed")
          \/ call' = [Ended("ok") EXCEPT !.wrote = TRUE]
          \/ call' = [Ended("failed") EXCEPT !.wrote = TRUE]
      BY <1>21 DEF Rerere, Answer, Mutated
    <3> QED
      BY <3>1 DEF Ended
  <2> QED
    BY <2>1, <2>2
<1>22. CASE Returned
  BY <1>22 DEF Returned, IdleCall
<1>23. CASE EditorOpened \/ SnapshotClosesEditor
  BY <1>23 DEF EditorOpened, SnapshotClosesEditor
<1>24. CASE ConflictClient
  <2>1. CASE UNCHANGED <<work, call>>
    BY <2>1
  <2>2. ASSUME NEW kind, NEW what, NEW paths, NEW pc, NEW expected,
               StartCall(kind, what, paths, pc, expected),
               kind \in {"save", "resolve"} => pc \in {"status", "detail_stages"},
               kind = "resolve" => what \in Resolutions
        PROVE  LookInv'
    <3>1. /\ ConflictCallShape' /\ UNCHANGED work
          /\ call'.kind = kind /\ call'.what = what /\ call'.pc = pc
      BY <2>2 DEF StartCall, IdleCall
    <3> QED
      BY <2>2, <3>1
  <2>3. CASE SaveConflictResult
    BY <2>2, <2>3 DEF SaveConflictResult
  <2>4. CASE AutoResolveConflicts
    BY <2>2, <2>4 DEF AutoResolveConflicts
  <2>5. ASSUME NEW p \in ConflictPaths, NEW what \in Resolutions, ResolveConflictEntry(p, what)
        PROVE  LookInv'
    BY <2>2, <2>5 DEF ResolveConflictEntry
  <2>6. ASSUME NEW P, NEW what \in Resolutions, ResolveConflictPaths(P, what)
        PROVE  LookInv'
    BY <2>2, <2>6 DEF ResolveConflictPaths
  <2>7. ASSUME NEW verb \in {"continue", "abort", "skip"}, NEW op, ControlOperation(verb, op)
        PROVE  LookInv'
    BY <2>2, <2>7 DEF ControlOperation
  <2>8. ASSUME NEW p \in ConflictPaths, OpenEditor(p)
        PROVE  LookInv'
    BY <2>1, <2>8 DEF OpenEditor
  <2> QED
    BY <1>24, <2>3, <2>4, <2>5, <2>6, <2>7, <2>8 DEF ConflictClient
<1>25. ASSUME call' = Noticed, DOMAIN work' = ConflictPaths
       PROVE  LookInv'
  <2>1. CASE call = IdleCall
    BY <1>25, <2>1 DEF Noticed, IdleCall
  <2>2. CASE call # IdleCall
    <3>1. /\ ConflictCallShape' /\ call'.moved
          /\ call'.kind = call.kind /\ call'.what = call.what /\ call'.pc = call.pc
      BY <1>25, <2>2 DEF Noticed
    <3> QED
      BY <1>25, <3>1
  <2> QED
    BY <2>1, <2>2
<1>26. CASE MergeStops
  BY <1>25, <1>26 DEF MergeStops
<1>27. CASE ForeignAbort
  BY <1>25, <1>27 DEF ForeignAbort, Foreign
<1>28. ASSUME NEW p \in ConflictPaths, ForeignEdit(p) \/ ForeignAdd(p)
       PROVE  LookInv'
  <2>1. DOMAIN work' = ConflictPaths
    BY <1>28 DEF ForeignEdit, ForeignAdd
  <2> QED
    BY <1>25, <1>28, <2>1 DEF ForeignEdit, ForeignAdd, Foreign
<1> QED
  BY <1>0, <1>1, <1>2, <1>3, <1>4, <1>5, <1>6, <1>7, <1>8, <1>9, <1>10, <1>11, <1>12, <1>13,
     <1>14, <1>15, <1>16, <1>17, <1>18, <1>19, <1>20, <1>21, <1>22, <1>23, <1>24, <1>25, <1>26,
     <1>27, <1>28 DEF ConflictNext, CallStep

(* A save or a resolution replaces or removes only the working file its    *)
(* caller was shown, unless another program acts after the last look.      *)
THEOREM UnseenEditsStay == ConflictSpec => UnseenEditKept
<1>1. LookInv /\ [ConflictNext]_conflictVars =>
        [\A p \in ConflictPaths :
           CallStep /\ SinglePath /\ work'[p] # work[p]
             => call.moved \/ call.wrote \/ (p = Target /\ work[p] = call.expected.work)]_conflictVars
  <2> SUFFICES ASSUME LookInv, NEW p \in ConflictPaths,
                      CallStep, SinglePath, work'[p] # work[p]
               PROVE  call.moved \/ (p = Target /\ work[p] = call.expected.work)
    OBVIOUS
  <2> USE DEF LookInv, SingleCallInv, SinglePcs, At
  <2>1. CASE Replace
    BY <2>1 DEF Replace
  <2>2. CASE Checkout
    BY <2>2 DEF Checkout, CheckoutSide
  <2>3. CASE RemovePath
    BY <2>3 DEF RemovePath, RemoveFiles
  <2>4. call.pc \in SinglePcs
    OBVIOUS
  <2>5. ~(Replace \/ Checkout \/ RemovePath) => UNCHANGED work
    <3>1. ~BulkCheckout /\ ~BulkApply /\ ~Control /\ ~Rerere
      BY <2>4 DEF BulkCheckout, BulkApply, Control, Rerere
    <3> QED
      BY <3>1 DEF CallStep, DetailStages, DetailWork, EnsureConflicted, UnmergedEntries,
         CompareWithExpected, EnsureSide, EnsureRegular, WriteTemporary, LastLook,
         StageConflictPath, BulkList, BulkSides, BulkResult, EnsureOperation, Returned, Reading
  <2> QED
    BY <2>1, <2>2, <2>3, <2>5
<1> QED
  BY <1>1, LookInit, LookStep, PTL DEF ConflictSpec, UnseenEditKept

(***************************************************************************)
(* Whose conflict is ended, and what a refusal has written.  Once the       *)
(* expected state was compared, the stages are those the caller was shown, *)
(* unless another program has moved; and what has begun to write is never  *)
(* refused.                                                                *)
(***************************************************************************)
StagesAreExpected ==
    /\ index[Target].round = call.expected.round
    /\ index[Target].stages = call.expected.stages

EntryIsRead ==
    /\ index[Target].round = call.entry.round
    /\ index[Target].stages = call.entry.stages

AfterLook == {"mode", "side", "checkout", "write", "last_look", "replace", "add", "rm"}
Writing   == {"add", "bulk_checkout", "bulk_apply", "bulk_result", "done"}

EndingInv ==
    /\ DOMAIN index = ConflictPaths
    /\ SinglePath /\ call.pc = "look" => call.stagesMoved \/ EntryIsRead
    /\ SinglePath /\ call.pc \in AfterLook => call.stagesMoved \/ StagesAreExpected
    /\ call.wrote => call.pc \in Writing
    /\ call.answer \in Refusals => call.pc = "done" /\ ~call.wrote

LEMMA EndingInit == ConflictInit => EndingInv
BY DEF ConflictInit, EndingInv, SinglePath, IdleCall, AfterLook, Writing, Refusals, Clean

LEMMA EndedCall ==
    ASSUME ConflictCallShape, EndingInv, DOMAIN index' = ConflictPaths,
           \/ \E a \in {"ok", "failed"} : call' = Ended(a) \/ call' = [Ended(a) EXCEPT !.wrote = TRUE]
           \/ ~call.wrote /\ \E a \in Refusals : call' = Ended(a)
    PROVE  EndingInv'
<1>1. call'.pc = "done" /\ (call'.answer \in Refusals => ~call'.wrote)
  BY DEF Ended, ConflictCallShape, Refusals
<1> QED BY <1>1 DEF EndingInv, AfterLook, Writing

LEMMA EndingStep == LookInv /\ EndingInv /\ [ConflictNext]_conflictVars => EndingInv'
<1> SUFFICES ASSUME LookInv, EndingInv, [ConflictNext]_conflictVars PROVE EndingInv'
  OBVIOUS
<1> USE DEF At, Refusals
<1>a. ConflictCallShape /\ (SinglePath => call.pc \in SinglePcs) /\ DOMAIN index = ConflictPaths
  BY DEF LookInv, SingleCallInv, EndingInv
<1>b. call.pc \notin Writing => ~call.wrote
  BY DEF EndingInv
<1>c. call.pc # "done" => call.answer \notin Refusals
  BY DEF EndingInv
<1>d. ASSUME UNCHANGED index,
             \/ \E a \in {"ok", "failed"} : Answer(a)
             \/ call.pc \notin Writing /\ \E a \in Refusals : Answer(a)
      PROVE  EndingInv'
  BY <1>a, <1>b, <1>d, EndedCall DEF Answer
\* A step that goes on without writing.
<1>e. ASSUME UNCHANGED index, call.pc \notin Writing, call'.answer = call.answer,
             call'.wrote = call.wrote, call'.kind = call.kind,
             SinglePath /\ call'.pc = "look" => (call.stagesMoved \/ EntryIsRead)',
             SinglePath /\ call'.pc \in AfterLook => (call.stagesMoved \/ StagesAreExpected)'
      PROVE  EndingInv'
  BY <1>a, <1>b, <1>c, <1>e DEF EndingInv, SinglePath, Writing
\* A step between two that come after the comparison.
<1>f. ASSUME UNCHANGED index, call.pc \in AfterLook, call.pc # "add",
             \E pc \in AfterLook : call' = [call EXCEPT !.pc = pc]
                              \/ call' = [call EXCEPT !.pc = pc, !.moved = FALSE]
      PROVE  EndingInv'
  <2>1. /\ call'.answer = call.answer /\ call'.wrote = call.wrote /\ call'.kind = call.kind
        /\ call'.stagesMoved = call.stagesMoved /\ call'.expected = call.expected
        /\ call'.paths = call.paths /\ call'.pc \in AfterLook
    BY <1>a, <1>f DEF ConflictCallShape
  <2>2. call.pc \notin Writing
    BY <1>f DEF AfterLook, Writing
  <2>3. SinglePath => call.stagesMoved \/ StagesAreExpected
    BY <1>f DEF EndingInv
  <2>4. call'.pc # "look"
    BY <2>1 DEF AfterLook
  <2>5. SinglePath => (call.stagesMoved \/ StagesAreExpected)'
    BY <1>f, <2>1, <2>3 DEF StagesAreExpected, Target
  <2> QED BY <1>e, <1>f, <2>1, <2>2, <2>4, <2>5
<1>0. CASE UNCHANGED conflictVars
  BY <1>0 DEF conflictVars, EndingInv, SinglePath, EntryIsRead, StagesAreExpected, Target
<1>1. CASE DetailStages
  <2>1. CASE Conflicted(Target)
    BY <1>a, <1>e, <1>1, <2>1 DEF DetailStages, Reading, ConflictCallShape, Writing, AfterLook
  <2> QED BY <1>d, <1>1, <2>1 DEF DetailStages, Reading, Writing
<1>2. CASE DetailWork
  BY <1>a, <1>e, <1>2 DEF DetailWork, Reading, ConflictCallShape, Writing, AfterLook
<1>3. CASE EnsureConflicted
  <2>1. CASE Conflicted(Target)
    BY <1>a, <1>e, <1>3, <2>1 DEF EnsureConflicted, Goto, Reading, ConflictCallShape, Writing, AfterLook
  <2> QED BY <1>d, <1>3, <2>1 DEF EnsureConflicted, Reading, Writing
<1>4. CASE UnmergedEntries
  <2>1. CASE Conflicted(Target)
    <3>1. /\ call'.answer = call.answer /\ call'.wrote = call.wrote /\ call'.kind = call.kind
          /\ call'.paths = call.paths /\ call'.pc = "look" /\ UNCHANGED index
          /\ call'.entry = [path |-> Target, round |-> index[Target].round,
                            stages |-> index[Target].stages]
      BY <1>a, <1>4, <2>1 DEF UnmergedEntries, Reading, ConflictCallShape
    <3>2. EntryIsRead'
      BY <3>1 DEF EntryIsRead, Target
    <3> QED BY <1>e, <1>4, <3>1, <3>2 DEF UnmergedEntries, Writing, AfterLook
  <2> QED BY <1>d, <1>4, <2>1 DEF UnmergedEntries, Reading, Writing
<1>5. CASE CompareWithExpected
  <2>1. CASE Actual # call.expected
    BY <1>d, <1>5, <2>1 DEF CompareWithExpected, Reading, Writing
  <2>2. CASE Actual = call.expected
    <3>1. /\ call'.answer = call.answer /\ call'.wrote = call.wrote /\ call'.kind = call.kind
          /\ call'.paths = call.paths /\ call'.expected = call.expected /\ UNCHANGED index
          /\ call'.stagesMoved = call.stagesMoved
          /\ call'.pc = CASE call.kind = "save" -> "mode"
                          [] call.what \in {"ours", "theirs"} -> "side"
                          [] call.what = "mark_resolved" -> "add"
                          [] call.what = "delete" -> "rm"
      BY <1>a, <1>5, <2>2 DEF CompareWithExpected, Reading, ConflictCallShape
    <3>2. call.expected.round = call.entry.round /\ call.expected.stages = call.entry.stages
      BY <2>2 DEF Actual
    <3>3. SinglePath => call.stagesMoved \/ StagesAreExpected
      BY <1>5, <3>2 DEF CompareWithExpected, EndingInv, EntryIsRead, StagesAreExpected
    <3>4. SinglePath => (call.stagesMoved \/ StagesAreExpected)'
      BY <3>1, <3>3 DEF StagesAreExpected, Target
    <3>5. SinglePath => call'.pc # "look"
      <4>1. call.kind = "resolve" => call.what \in Resolutions
        BY DEF LookInv, SingleCallInv
      <4> QED BY <3>1, <4>1 DEF SinglePath, Resolutions
    <3> QED BY <1>e, <1>5, <3>1, <3>4, <3>5 DEF CompareWithExpected, Writing
  <2> QED BY <2>1, <2>2
<1>6. CASE EnsureSide
  <2>1. call.pc = "side" /\ UNCHANGED index /\ (Goto("checkout") \/ Answer("unsupported"))
    BY <1>6 DEF EnsureSide, Reading
  <2> QED BY <1>d, <1>f, <2>1 DEF Goto, AfterLook, Writing
<1>7. CASE EnsureRegular
  <2>1. call.pc = "mode" /\ UNCHANGED index /\ (Goto("write") \/ Answer("unsupported"))
    BY <1>7 DEF EnsureRegular, Reading
  <2> QED BY <1>d, <1>f, <2>1 DEF Goto, AfterLook, Writing
<1>8. CASE WriteTemporary
  <2>1. call.pc = "write" /\ UNCHANGED index
        /\ (Goto("last_look") \/ \E a \in {"stale", "unsupported", "failed"} : Answer(a))
    BY <1>8 DEF WriteTemporary, Reading
  <2> QED BY <1>d, <1>f, <2>1 DEF Goto, AfterLook, Writing
<1>9. CASE LastLook
  <2>1. call.pc = "last_look" /\ UNCHANGED index
        /\ (call' = [call EXCEPT !.pc = "replace", !.moved = FALSE] \/ Answer("stale"))
    BY <1>9 DEF LastLook, Reading
  <2> QED BY <1>d, <1>f, <2>1 DEF AfterLook, Writing
\* What writes the working file and goes on to stage it.
<1>g. ASSUME UNCHANGED index, call.pc \in {"replace", "checkout"},
             call' = [call EXCEPT !.pc = "add", !.wrote = TRUE]
      PROVE  EndingInv'
  <2>1. /\ call'.answer = call.answer /\ call'.wrote /\ call'.kind = call.kind
        /\ call'.stagesMoved = call.stagesMoved /\ call'.expected = call.expected
        /\ call'.paths = call.paths /\ call'.pc = "add"
    BY <1>a, <1>g DEF ConflictCallShape
  <2>2. SinglePath => call.stagesMoved \/ StagesAreExpected
    BY <1>g DEF EndingInv, AfterLook
  <2>3. SinglePath => (call.stagesMoved \/ StagesAreExpected)'
    BY <1>g, <2>1, <2>2 DEF StagesAreExpected, Target
  <2>4. call'.answer \notin Refusals
    BY <1>c, <1>g, <2>1
  <2> QED BY <1>a, <1>g, <2>1, <2>3, <2>4 DEF EndingInv, SinglePath, Writing, AfterLook
<1>10. CASE Replace
  <2>1. call.pc = "replace" /\ UNCHANGED index
        /\ (call' = [call EXCEPT !.pc = "add", !.wrote = TRUE] \/ Answer("failed"))
    BY <1>10 DEF Replace
  <2> QED BY <1>d, <1>g, <2>1
<1>h. ASSUME Mutated("done") \/ Answer("failed"), DOMAIN index' = ConflictPaths
      PROVE  EndingInv'
  <2>1. \E a \in {"ok", "failed"} : call' = Ended(a) \/ call' = [Ended(a) EXCEPT !.wrote = TRUE]
    BY <1>h DEF Mutated, Answer
  <2> QED BY <1>a, <1>h, <2>1, EndedCall
<1>11. CASE Checkout
  <2>1. call.pc = "checkout" /\ UNCHANGED index /\ (Mutated("add") \/ Answer("failed"))
    BY <1>11 DEF Checkout
  <2>2. CASE Mutated("add")
    <3>1. \/ call' = [call EXCEPT !.wrote = TRUE, !.pc = "add"]
          \/ call' = [Ended("failed") EXCEPT !.wrote = TRUE]
      BY <2>2 DEF Mutated
    <3>2. CASE call' = [call EXCEPT !.wrote = TRUE, !.pc = "add"]
      <4>1. call' = [call EXCEPT !.pc = "add", !.wrote = TRUE]
        BY <1>a, <3>2 DEF ConflictCallShape
      <4> QED BY <1>g, <2>1, <4>1
    <3> QED BY <1>a, <2>1, <3>1, <3>2, EndedCall
  <2> QED BY <1>d, <2>1, <2>2
<1>12. CASE StageConflictPath
  <2>1. DOMAIN index' = ConflictPaths
    BY <1>a, <1>12 DEF StageConflictPath
  <2> QED BY <1>h, <1>12, <2>1 DEF StageConflictPath
<1>13. CASE RemovePath
  <2>1. DOMAIN index' = ConflictPaths
    BY <1>a, <1>13 DEF RemovePath, RemoveFiles
  <2> QED BY <1>h, <1>13, <2>1 DEF RemovePath
<1>14. CASE BulkList
  <2>1. CASE ~ \A p \in ToSet(call.paths) : Conflicted(p)
    BY <1>d, <1>14, <2>1 DEF BulkList, Reading, Writing
  <2>2. CASE \A p \in ToSet(call.paths) : Conflicted(p)
    <3>1. /\ call'.answer = call.answer /\ call'.wrote = call.wrote /\ call'.kind = call.kind
          /\ call'.pc \in {"bulk_sides", "bulk_apply"} /\ UNCHANGED index
      BY <1>a, <1>14, <2>2 DEF BulkList, Reading, ConflictCallShape
    <3> QED BY <1>e, <1>14, <3>1 DEF BulkList, Writing, AfterLook
  <2> QED BY <2>1, <2>2
<1>15. CASE BulkSides
  <2>1. call.pc = "bulk_sides" /\ UNCHANGED index /\ (Goto("bulk_checkout") \/ Answer("unsupported"))
    BY <1>15 DEF BulkSides, Reading
  <2>2. CASE Goto("bulk_checkout")
    BY <1>a, <1>e, <2>1, <2>2 DEF Goto, ConflictCallShape, Writing, AfterLook
  <2> QED BY <1>d, <2>1, <2>2 DEF Writing
<1>i. ASSUME DOMAIN index' = ConflictPaths, NEW next, ChunkDone(next),
             call.pc \in {"bulk_checkout", "bulk_apply"}, next \in {"bulk_apply", "bulk_result"}
      PROVE  EndingInv'
  <2>1. /\ call'.answer = call.answer /\ call'.wrote
        /\ call'.pc \in {"bulk_checkout", "bulk_apply", "bulk_result"}
    BY <1>a, <1>i DEF ChunkDone, ConflictCallShape
  <2>2. call'.answer \notin Refusals
    BY <1>c, <1>i, <2>1
  <2> QED BY <1>i, <2>1, <2>2 DEF EndingInv, Writing, AfterLook
<1>16. CASE BulkCheckout
  <2>1. UNCHANGED index /\ call.pc = "bulk_checkout" /\ (ChunkDone("bulk_apply") \/ Answer("failed"))
    BY <1>16 DEF BulkCheckout
  <2> QED BY <1>a, <1>d, <1>i, <2>1
<1>17. CASE BulkApply
  <2>1. /\ DOMAIN index' = ConflictPaths /\ call.pc = "bulk_apply"
        /\ ChunkDone("bulk_result") \/ (Answer("failed") /\ UNCHANGED index)
    BY <1>a, <1>17 DEF BulkApply, RemoveFiles
  <2> QED BY <1>d, <1>i, <2>1
<1>18. CASE BulkResult
  <2>1. UNCHANGED index /\ (Answer("ok") \/ Answer("failed"))
    BY <1>18 DEF BulkResult, Reading
  <2> QED BY <1>d, <2>1
<1>19. CASE EnsureOperation
  <2>1. /\ call.pc = "operation" /\ UNCHANGED index
        /\ \/ Answer("invalid") \/ Answer("unsupported")
           \/ call' = [call EXCEPT !.pc = "control", !.moved = FALSE]
    BY <1>19 DEF EnsureOperation, Reading
  <2>2. CASE call' = [call EXCEPT !.pc = "control", !.moved = FALSE]
    BY <1>a, <1>e, <2>1, <2>2 DEF ConflictCallShape, Writing, AfterLook
  <2> QED BY <1>d, <2>1, <2>2 DEF Writing
<1>20. CASE Control
  <2>1. DOMAIN index' = ConflictPaths
    BY <1>a, <1>20 DEF Control, Clean
  <2> QED BY <1>h, <1>20, <2>1 DEF Control
<1>21. CASE Rerere
  <2>1. DOMAIN index' = ConflictPaths
    BY <1>a, <1>21 DEF Rerere
  <2> QED BY <1>h, <1>21, <2>1 DEF Rerere
<1>22. CASE Returned
  BY <1>a, <1>22 DEF Returned, IdleCall, EndingInv, SinglePath, AfterLook, Writing
<1>23. CASE EditorOpened \/ SnapshotClosesEditor
  BY <1>23 DEF EditorOpened, SnapshotClosesEditor, EndingInv, SinglePath, EntryIsRead,
               StagesAreExpected, Target
<1>j. ASSUME NEW kind, NEW what, NEW paths, NEW pc, NEW expected,
             StartCall(kind, what, paths, pc, expected), pc \notin AfterLook \cup {"look"}
      PROVE  EndingInv'
  <2>1. call'.pc = pc /\ ~call'.wrote /\ call'.answer = "none" /\ UNCHANGED index
    BY <1>j DEF StartCall, IdleCall
  <2> QED BY <1>a, <1>j, <2>1 DEF EndingInv
<1>24. CASE ConflictClient
  <2> USE DEF AfterLook
  <2>1. CASE SaveConflictResult
    BY <1>j, <2>1 DEF SaveConflictResult
  <2>2. CASE AutoResolveConflicts
    BY <1>j, <2>2 DEF AutoResolveConflicts
  <2>3. ASSUME NEW p \in ConflictPaths, NEW what \in Resolutions, ResolveConflictEntry(p, what)
        PROVE  EndingInv'
    BY <1>j, <2>3 DEF ResolveConflictEntry
  <2>4. ASSUME NEW P, NEW what \in Resolutions, ResolveConflictPaths(P, what)
        PROVE  EndingInv'
    BY <1>j, <2>4 DEF ResolveConflictPaths
  <2>5. ASSUME NEW verb \in {"continue", "abort", "skip"}, NEW op, ControlOperation(verb, op)
        PROVE  EndingInv'
    BY <1>j, <2>5 DEF ControlOperation
  <2>6. ASSUME NEW p \in ConflictPaths, OpenEditor(p)
        PROVE  EndingInv'
    BY <2>6 DEF OpenEditor, EndingInv, SinglePath, EntryIsRead, StagesAreExpected, Target
  <2> QED BY <1>24, <2>1, <2>2, <2>3, <2>4, <2>5, <2>6 DEF ConflictClient
<1>25. ASSUME call' = Noticed, DOMAIN index' = ConflictPaths
       PROVE  EndingInv'
  <2>1. CASE call = IdleCall
    BY <1>25, <2>1 DEF Noticed, IdleCall, EndingInv, SinglePath, AfterLook
  <2>2. CASE call # IdleCall
    <3>1. /\ call'.stagesMoved /\ call'.kind = call.kind /\ call'.pc = call.pc
          /\ call'.wrote = call.wrote /\ call'.answer = call.answer
      BY <1>a, <1>25, <2>2 DEF Noticed, ConflictCallShape
    <3> QED BY <1>25, <3>1 DEF EndingInv
  <2> QED BY <2>1, <2>2
<1>26. CASE MergeStops
  BY <1>25, <1>26 DEF MergeStops
<1>27. CASE ForeignAbort
  BY <1>25, <1>27 DEF ForeignAbort, Foreign, Clean
<1>28. ASSUME NEW p \in ConflictPaths, ForeignEdit(p) \/ ForeignAdd(p)
       PROVE  EndingInv'
  <2>1. DOMAIN index' = ConflictPaths
    BY <1>a, <1>28 DEF ForeignEdit, ForeignAdd
  <2> QED
    BY <1>25, <1>28, <2>1 DEF ForeignEdit, ForeignAdd, Foreign
<1> QED
  BY <1>0, <1>1, <1>2, <1>3, <1>4, <1>5, <1>6, <1>7, <1>8, <1>9, <1>10, <1>11, <1>12, <1>13,
     <1>14, <1>15, <1>16, <1>17, <1>18, <1>19, <1>20, <1>21, <1>22, <1>23, <1>24, <1>26,
     <1>27, <1>28 DEF ConflictNext, CallStep

LEMMA EndingHolds == ConflictSpec => [](LookInv /\ EndingInv)
BY LookInit, LookStep, EndingInit, EndingStep, PTL DEF ConflictSpec

(* A call that was refused has changed nothing: a refusal is given before  *)
(* the first write, also in bulk.                                          *)
THEOREM RefusalsWriteNothing == ConflictSpec => []RefusedUntouched
<1>1. EndingInv => RefusedUntouched
  BY DEF EndingInv, RefusedUntouched
<1> QED BY <1>1, EndingHolds, PTL

(* A save or a resolution ends only the conflict its caller was shown,     *)
(* never one of a later merge on the same path, unless another program has *)
(* moved since the stages were read.                                       *)
THEOREM ShownConflictEnds == ConflictSpec => EndsItsConflict
<1>1. LookInv /\ EndingInv /\ [ConflictNext]_conflictVars =>
        [\A p \in ConflictPaths :
           CallStep /\ SinglePath /\ index'[p] # index[p]
             => call.stagesMoved \/ (p = Target /\ index[p].round = call.expected.round
                                        /\ index[p].stages = call.expected.stages)]_conflictVars
  <2> SUFFICES ASSUME LookInv, EndingInv, NEW p \in ConflictPaths,
                      CallStep, SinglePath, index'[p] # index[p]
               PROVE  call.stagesMoved \/ (p = Target /\ StagesAreExpected)
    BY DEF StagesAreExpected
  <2>1. call.pc \in SinglePcs /\ DOMAIN index = ConflictPaths
    BY DEF LookInv, SingleCallInv, EndingInv
  <2>2. call.pc \in AfterLook => call.stagesMoved \/ StagesAreExpected
    BY DEF EndingInv
  <2>3. CASE StageConflictPath
    <3>1. call.pc = "add" /\ index' = [index EXCEPT ![Target] = Resolved(Target)]
      BY <2>3 DEF StageConflictPath, At
    <3>2. p = Target
      BY <2>1, <3>1
    <3> QED BY <2>2, <3>1, <3>2 DEF AfterLook
  <2>4. CASE RemovePath
    <3>1. call.pc = "rm" /\ RemoveFiles({Target})
      BY <2>4 DEF RemovePath, At
    <3>2. p = Target
      BY <2>1, <3>1 DEF RemoveFiles
    <3> QED BY <2>2, <3>1, <3>2 DEF AfterLook
  <2>5. ~(StageConflictPath \/ RemovePath) => UNCHANGED index
    <3>1. ~BulkCheckout /\ ~BulkApply /\ ~Control /\ ~Rerere
      BY <2>1 DEF BulkCheckout, BulkApply, Control, Rerere, At, SinglePcs
    <3> QED
      BY <3>1 DEF CallStep, DetailStages, DetailWork, EnsureConflicted, UnmergedEntries,
         CompareWithExpected, EnsureSide, EnsureRegular, WriteTemporary, LastLook, Replace,
         Checkout, BulkList, BulkSides, BulkResult, EnsureOperation, Returned, Reading
  <2> QED BY <2>3, <2>4, <2>5
<1> QED
  BY <1>1, EndingHolds, PTL DEF ConflictSpec, EndsItsConflict

-----------------------------------------------------------------------------
(***************************************************************************)
(* WorktreeOperations: what is lost, and what a discard leaves.            *)
(***************************************************************************)
OfFiles(f) == f = [g \in Files |-> f[g]]

JobShape ==
    job \in [kind : {job.kind}, pc : {job.pc}, paths : SUBSET Files, stash : {job.stash},
             at : {job.at}, known : SUBSET Files, tracked : {job.tracked}, shown : {job.shown},
             index : {job.index}, moved : {job.moved}, answer : {job.answer}]

WorkShapes ==
    /\ OfFiles(head) /\ OfFiles(staged) /\ OfFiles(files) /\ OfFiles(committed)
    /\ stashes \in Seq(ToSet(stashes))
    /\ JobShape

(* A content of HEAD is one of a commit, and without a commit there is     *)
(* none.                                                                   *)
HeadIsCommitted ==
    \A f \in Files : head[f] \in committed[f] /\ (born \/ head[f] = 0)

(* A discard and its steps: what was listed is what is restored, then      *)
(* what is not in the index is removed.                                    *)
DiscardSteps ==
    /\ job.known \subseteq job.paths
    /\ job.pc \in {"list", "restore", "clean"} => job.kind = "discard"
    /\ job.kind = "discard" => job.pc \in {"list", "restore", "clean", "done"}
    /\ job.pc = "restore" /\ ~job.moved =>
         /\ job.tracked = born
         /\ job.known = {f \in job.paths : staged[f] # 0}
    /\ job.pc = "clean" /\ ~job.moved =>
         /\ \A f \in job.paths \ job.known : staged[f] = 0
         /\ \A f \in job.known : staged[f] = head[f] /\ (born => files[f] = head[f])

WorkInv == WorkShapes /\ HeadIsCommitted /\ DiscardSteps /\ DiscardedIsHead

LEMMA WorkInit == WorktreeInit => WorkInv
<1> SUFFICES ASSUME WorktreeInit PROVE WorkInv
  OBVIOUS
<1>1. stashes \in Seq(ToSet(stashes))
  BY SeqOfItsElements DEF WorktreeInit
<1>2. OfFiles(head) /\ OfFiles(staged) /\ OfFiles(files) /\ OfFiles(committed)
  BY DEF WorktreeInit, OfFiles
<1>3. JobShape /\ DiscardSteps /\ DiscardedIsHead
  BY DEF WorktreeInit, JobShape, NoJob, DiscardSteps, DiscardedIsHead, Undisturbed
<1>4. HeadIsCommitted
  BY WorktreeAssumption DEF WorktreeInit, HeadIsCommitted
<1> QED
  BY <1>1, <1>2, <1>3, <1>4 DEF WorkInv, WorkShapes

LEMMA StashAwayShapes ==
    ASSUME WorkShapes, NEW P, StashAway(P)
    PROVE  /\ OfFiles(staged)' /\ OfFiles(files)'
           /\ (stashes \in Seq(ToSet(stashes)))'
<1>1. CASE Dirty(P)
  <2>1. OfFiles(staged)' /\ OfFiles(files)'
    BY <1>1 DEF StashAway, Over, OfFiles
  <2>2. PICK r : stashes' = <<r>> \o stashes
    BY <1>1 DEF StashAway
  <2>3. stashes' \in Seq(ToSet(stashes) \cup {r})
    BY <2>2 DEF WorkShapes
  <2> QED
    BY <2>1, <2>3, SeqOfItsElements
<1>2. CASE ~Dirty(P)
  BY <1>2 DEF StashAway, WorkShapes, OfFiles
<1> QED
  BY <1>1, <1>2

LEMMA RemoveAtIsSeq ==
    ASSUME NEW q, q \in Seq(ToSet(q)), NEW i \in DOMAIN q
    PROVE  RemoveAt(q, i) \in Seq(ToSet(RemoveAt(q, i)))
<1>1. RemoveAt(q, i) \in Seq(ToSet(q))
  BY DEF RemoveAt
<1> QED
  BY <1>1, SeqOfItsElements

(* What the client asks for, and the step it begins with.                  *)
Asked(kind, pc, paths) ==
    /\ paths \subseteq Files
    /\ kind = "discard" => pc = "list"
    /\ pc = "list" => kind = "discard"
    /\ pc \notin {"restore", "clean", "done"}

LEMMA ClientStarts ==
    ASSUME WorktreeClient
    PROVE  \E kind, pc, paths, stash : Start(kind, pc, paths, stash) /\ Asked(kind, pc, paths)
<1> USE DEF Asked
<1>1. ASSUME NEW P \in SUBSET Files, StagePaths(P) \/ UnstagePaths(P) \/ DiscardPaths(P) \/ StashPaths(P)
      PROVE  \E kind, pc, paths, stash : Start(kind, pc, paths, stash) /\ Asked(kind, pc, paths)
  BY <1>1 DEF StagePaths, UnstagePaths, DiscardPaths, StashPaths
<1>2. ASSUME NEW s, StashApply(s) \/ StashPop(s) \/ StashDrop(s)
      PROVE  \E kind, pc, paths, stash : Start(kind, pc, paths, stash) /\ Asked(kind, pc, paths)
  BY <1>2 DEF StashApply, StashPop, StashDrop
<1>3. CASE StashPush \/ AppendGitignore \/ CreateCommit
  BY <1>3 DEF StashPush, AppendGitignore, CreateCommit
<1>4. CASE CreateInitialCommit
  BY <1>4, WorktreeAssumption DEF CreateInitialCommit
<1> QED
  BY <1>1, <1>2, <1>3, <1>4 DEF WorktreeClient

(* The shapes are kept by every step.                                      *)
LEMMA ShapesStep == WorkShapes /\ [WorktreeNext]_worktreeVars => WorkShapes'
<1> SUFFICES ASSUME WorkShapes, [WorktreeNext]_worktreeVars PROVE WorkShapes'
  OBVIOUS
<1>0. CASE UNCHANGED worktreeVars
  BY <1>0 DEF worktreeVars, repoState, WorkShapes, JobShape, OfFiles
<1>1. CASE Stage
  BY <1>1 DEF Stage, DoneOrLost, Done, Add, Over, WorkShapes, JobShape, OfFiles
<1>2. CASE ReadHead
  BY <1>2 DEF ReadHead, Done, Keep, repoState, WorkShapes, JobShape, OfFiles
<1>3. CASE Unstage
  BY <1>3 DEF Unstage, DoneOrLost, Done, RestoreStaged, Over, WorkShapes, JobShape, OfFiles
<1>4. CASE ListTracked
  BY <1>4 DEF ListTracked, Keep, repoState, WorkShapes, JobShape, OfFiles
<1>5. CASE RestoreTracked
  BY <1>5 DEF RestoreTracked, Done, Proceed, Over, WorkShapes, JobShape, OfFiles
<1>6. CASE CleanUntracked
  BY <1>6 DEF CleanUntracked, DoneOrLost, Done, WorkShapes, JobShape, OfFiles
<1>7. CASE AddAll
  BY <1>7 DEF AddAll, Proceed, Done, Add, Over, WorkShapes, JobShape, OfFiles
<1>8. CASE PushStash
  <2>1. JobShape'
    BY <1>8 DEF PushStash, Done, Proceed, WorkShapes, JobShape
  <2>2. OfFiles(staged)' /\ OfFiles(files)' /\ (stashes \in Seq(ToSet(stashes)))'
    <3>1. CASE StashAway(job.paths)
      BY <3>1, StashAwayShapes
    <3>2. CASE UNCHANGED <<stashes, lastStash, files, staged>>
      BY <3>2 DEF WorkShapes, OfFiles
    <3> QED
      BY <1>8, <3>1, <3>2 DEF PushStash
  <2> QED
    BY <1>8, <2>1, <2>2 DEF PushStash, WorkShapes, OfFiles
<1>9. CASE UnstageAgain
  BY <1>9 DEF UnstageAgain, Done, RestoreStaged, Over, WorkShapes, JobShape, OfFiles
<1>10. CASE ResolveStashIndex
  BY <1>10 DEF ResolveStashIndex, Done, Keep, repoState, WorkShapes, JobShape, OfFiles
<1>11. CASE StashCommand
  <2>1. JobShape'
    BY <1>11 DEF StashCommand, DoneOrLost, Done, WorkShapes, JobShape
  <2>2. OfFiles(files)'
    BY <1>11 DEF StashCommand, Taken, WorkShapes, OfFiles
  <2>3. (stashes \in Seq(ToSet(stashes)))'
    BY <1>11, RemoveAtIsSeq DEF StashCommand, WorkShapes
  <2> QED
    BY <1>11, <2>1, <2>2, <2>3 DEF StashCommand, WorkShapes, OfFiles
<1>12. CASE WriteGitignore
  BY <1>12 DEF WriteGitignore, DoneOrLost, Done, WorkShapes, JobShape, OfFiles
<1>13. CASE WriteInitialReadme
  BY <1>13 DEF WriteInitialReadme, Proceed, Done, WorkShapes, JobShape, OfFiles
<1>14. CASE AddReadme
  BY <1>14 DEF AddReadme, Proceed, Done, Add, Over, WorkShapes, JobShape, OfFiles
<1>15. CASE Commit
  BY <1>15 DEF Commit, CommitIndex, DoneOrLost, Done, WorkShapes, JobShape, OfFiles
<1>16. CASE Answered
  BY <1>16 DEF Answered, Keep, repoState, NoJob, WorkShapes, JobShape, OfFiles
<1>17. CASE WorktreeClient
  <2>1. PICK kind, pc, paths, stash : Start(kind, pc, paths, stash) /\ Asked(kind, pc, paths)
    BY <1>17, ClientStarts
  <2>2. JobShape'
    BY <2>1 DEF Start, Asked, JobShape, NoJob
  <2> QED
    BY <2>1, <2>2 DEF Start, repoState, WorkShapes, OfFiles
<1>18. ASSUME Outside PROVE JobShape'
  BY <1>18 DEF Outside, WorkShapes, JobShape
<1>19. ASSUME NEW f \in Files, OutsideEdit(f)
       PROVE  WorkShapes'
  BY <1>18, <1>19 DEF OutsideEdit, WorkShapes, OfFiles
<1>20. CASE OutsideCommit
  BY <1>18, <1>20 DEF OutsideCommit, WorkShapes, OfFiles
<1>21. CASE OutsideStash
  BY <1>18, <1>21, StashAwayShapes DEF OutsideStash, WorkShapes, OfFiles
<1>22. CASE OutsideDrop
  BY <1>18, <1>22, RemoveAtIsSeq DEF OutsideDrop, WorkShapes, OfFiles
<1> QED
  BY <1>0, <1>1, <1>2, <1>3, <1>4, <1>5, <1>6, <1>7, <1>8, <1>9, <1>10, <1>11, <1>12, <1>13,
     <1>14, <1>15, <1>16, <1>17, <1>19, <1>20, <1>21, <1>22 DEF WorktreeNext, JobStep

(* HEAD's contents are of a commit.                                        *)
LEMMA HeadStep ==
    WorkShapes /\ HeadIsCommitted /\ [WorktreeNext]_worktreeVars => HeadIsCommitted'
<1> SUFFICES ASSUME WorkShapes, HeadIsCommitted, [WorktreeNext]_worktreeVars
             PROVE  HeadIsCommitted'
  OBVIOUS
<1> USE DEF HeadIsCommitted
<1>1. CASE UNCHANGED <<head, committed, born>>
  BY <1>1
<1>2. CASE Commit
  BY <1>1, <1>2 DEF Commit, CommitIndex
<1>3. CASE OutsideCommit
  BY <1>3 DEF OutsideCommit, WorkShapes, OfFiles
<1>4. CASE JobStep /\ ~Commit
  BY <1>1, <1>4 DEF JobStep, Stage, ReadHead, Unstage, ListTracked, RestoreTracked, CleanUntracked,
     AddAll, PushStash, UnstageAgain, ResolveStashIndex, StashCommand, WriteGitignore,
     WriteInitialReadme, AddReadme, Answered, Keep, repoState
<1>5. CASE WorktreeClient
  BY <1>1, <1>5, ClientStarts DEF Start, repoState
<1>6. CASE OutsideStash \/ OutsideDrop \/ \E f \in Files : OutsideEdit(f)
  BY <1>1, <1>6 DEF OutsideStash, OutsideDrop, OutsideEdit
<1>7. CASE UNCHANGED worktreeVars
  BY <1>1, <1>7 DEF worktreeVars, repoState
<1> QED
  BY <1>2, <1>3, <1>4, <1>5, <1>6, <1>7 DEF WorktreeNext

(* The steps that are not of a discard leave the kind of the operation     *)
(* and its paths, and lead to no step of one.                              *)
LEMMA OtherSteps ==
    ASSUME WorkShapes, JobStep, ~ListTracked, ~RestoreTracked, ~CleanUntracked, ~Answered
    PROVE  /\ job.pc \notin {"list", "restore", "clean", "done"}
           /\ job'.pc \notin {"list", "restore", "clean"}
           /\ job'.kind = job.kind /\ job'.paths = job.paths /\ job'.known = job.known
<1> USE DEF WorkShapes, JobShape, OnPc, Proceed, Done, DoneOrLost
<1>1. CASE Stage \/ ReadHead \/ Unstage
  BY <1>1 DEF Stage, ReadHead, Unstage
<1>2. CASE AddAll \/ PushStash \/ UnstageAgain
  BY <1>2 DEF AddAll, PushStash, UnstageAgain
<1>3. CASE ResolveStashIndex
  BY <1>3 DEF ResolveStashIndex
<1>4. CASE StashCommand \/ WriteGitignore
  BY <1>4 DEF StashCommand, WriteGitignore
<1>5. CASE WriteInitialReadme \/ AddReadme \/ Commit
  BY <1>5 DEF WriteInitialReadme, AddReadme, Commit
<1> QED
  BY <1>1, <1>2, <1>3, <1>4, <1>5 DEF JobStep

LEMMA DiscardStep ==
    WorkInv /\ [WorktreeNext]_worktreeVars => (DiscardSteps /\ DiscardedIsHead)'
<1> SUFFICES ASSUME WorkInv, [WorktreeNext]_worktreeVars
             PROVE  (DiscardSteps /\ DiscardedIsHead)'
  OBVIOUS
<1> USE DEF WorkInv, DiscardSteps, DiscardedIsHead, Undisturbed, Discarded
<1>0. WorkShapes /\ JobShape /\ HeadIsCommitted
  BY DEF WorkShapes
<1>1. CASE ListTracked
  BY <1>0, <1>1 DEF ListTracked, OnPc, Keep, repoState, JobShape
<1>2. CASE RestoreTracked
  <2>1. CASE Done("failed") /\ UNCHANGED <<staged, files>>
    BY <1>0, <1>2, <2>1 DEF RestoreTracked, OnPc, Done, JobShape
  <2>2. CASE Proceed("clean")
    <3>1. /\ job.pc = "restore" /\ job'.pc = "clean" /\ job'.kind = job.kind /\ job'.known = job.known
          /\ job'.paths = job.paths /\ job'.moved = job.moved /\ job'.tracked = job.tracked
          /\ job.known \subseteq Files
          /\ job.paths \subseteq Files
      BY <1>0, <1>2, <2>2 DEF RestoreTracked, OnPc, Proceed, JobShape
    <3>2. UNCHANGED <<head, born>>
      BY <1>2 DEF RestoreTracked
    <3>3. ASSUME ~job.moved
          PROVE  /\ \A f \in job.paths \ job.known : staged'[f] = 0
                 /\ \A f \in job.known : staged'[f] = head[f] /\ (born => files'[f] = head[f])
      <4>1. \/ ~born /\ staged' = Over(staged, job.known, NothingStaged)
            \/ born /\ staged' = Over(staged, job.known, head) /\ files' = Over(files, job.known, head)
        BY <1>0, <1>2, <2>2, <3>1, <3>3 DEF RestoreTracked, Proceed, Done, JobShape
      <4> QED
        BY <1>0, <3>1, <3>3, <4>1 DEF Over, NothingStaged, HeadIsCommitted
    <3> QED
      BY <3>1, <3>2, <3>3
  <2> QED
    BY <1>2, <2>1, <2>2 DEF RestoreTracked
<1>3. CASE CleanUntracked
  <2>1. /\ job.pc = "clean" /\ job'.pc = "done" /\ job'.kind = job.kind /\ job'.known = job.known
        /\ job'.paths = job.paths /\ job'.moved = job.moved
        /\ job.known \subseteq Files
        /\ job.paths \subseteq Files
        /\ UNCHANGED <<head, staged, born>>
    BY <1>0, <1>3 DEF CleanUntracked, OnPc, Done, DoneOrLost, JobShape
  <2>2. ASSUME job'.answer = "ok", ~job.moved, NEW f \in job.paths, f \in job.known \/ head[f] = 0
        PROVE  Discarded(f)'
    <3>1. files' = [g \in Files |-> IF g \in Matched(job.paths \ job.known) /\ staged[g] = 0
                                    THEN 0 ELSE files[g]]
      BY <1>0, <1>3, <2>2 DEF CleanUntracked, Done, JobShape
    <3>2. f \notin job.known => f \in Matched(job.paths \ job.known)
      BY <2>1, WorktreeAssumption DEF Matched
    <3>3. f \in Files /\ (born \/ head[f] = 0)
      BY <1>0, <2>1 DEF HeadIsCommitted
    <3> QED
      BY <2>1, <2>2, <3>1, <3>2, <3>3
  <2> QED
    BY <2>1, <2>2
<1>4. CASE Answered
  BY <1>4 DEF Answered, NoJob
<1>5. CASE JobStep /\ ~ListTracked /\ ~RestoreTracked /\ ~CleanUntracked /\ ~Answered
  BY <1>0, <1>5, OtherSteps
<1>6. CASE WorktreeClient
  <2>1. PICK kind, pc, paths, stash : Start(kind, pc, paths, stash) /\ Asked(kind, pc, paths)
    BY <1>6, ClientStarts
  <2>2. job'.kind = kind /\ job'.pc = pc /\ job'.known = {}
    BY <2>1 DEF Start, NoJob
  <2> QED
    BY <2>1, <2>2 DEF Asked
<1>7. ASSUME Outside PROVE (DiscardSteps /\ DiscardedIsHead)'
  <2>1. CASE job = NoJob
    BY <1>7, <2>1 DEF Outside, NoJob
  <2>2. CASE job # NoJob
    BY <1>0, <1>7, <2>2 DEF Outside, JobShape
  <2> QED
    BY <2>1, <2>2
<1>8. CASE OutsideCommit \/ OutsideStash \/ OutsideDrop \/ \E f \in Files : OutsideEdit(f)
  BY <1>7, <1>8 DEF OutsideCommit, OutsideStash, OutsideDrop, OutsideEdit
<1>9. CASE UNCHANGED worktreeVars
  BY <1>9 DEF worktreeVars, repoState
<1> QED
  BY <1>1, <1>2, <1>3, <1>4, <1>5, <1>6, <1>8, <1>9 DEF WorktreeNext

LEMMA WorkInvHolds == WorktreeSpec => []WorkInv
<1>1. WorkInv /\ [WorktreeNext]_worktreeVars => WorkInv'
  BY ShapesStep, HeadStep, DiscardStep DEF WorkInv
<1> QED
  BY <1>1, WorkInit, PTL DEF WorktreeSpec

(* A discard that succeeds, with nobody else at work, leaves each chosen   *)
(* path that was in the index or is not in HEAD as it is in HEAD, whatever *)
(* the paths match and whether or not there is a commit.                   *)
THEOREM DiscardedPathsAreHead == WorktreeSpec => []DiscardedIsHead
<1>1. WorkInv => DiscardedIsHead
  BY DEF WorkInv
<1> QED
  BY <1>1, WorkInvHolds, PTL

(* What is in a working file after a step of an operation.                 *)
LEMMA WorkOfStep ==
    ASSUME WorkInv, JobStep, NEW f \in Files, NEW CONSTANT c, files[f] = c
    PROVE  Kept(f, c)' \/ (job.kind = "discard" /\ f \in Matched(job.paths))
<1>0. WorkShapes /\ JobShape /\ HeadIsCommitted /\ DiscardSteps
  BY DEF WorkInv, WorkShapes
<1>1. CASE files'[f] = files[f]
  BY <1>1 DEF Kept
<1>2. CASE RestoreTracked
  <2>1. job.kind = "discard" /\ job.known \subseteq job.paths /\ job.paths \subseteq Files
    BY <1>0, <1>2 DEF RestoreTracked, OnPc, DiscardSteps, JobShape
  <2>2. files'[f] = files[f] \/ f \in job.known
    BY <1>0, <1>2 DEF RestoreTracked, Over, WorkShapes, OfFiles
  <2> QED
    BY <1>1, <2>1, <2>2, WorktreeAssumption DEF Matched
<1>3. CASE CleanUntracked
  <2>1. job.kind = "discard"
    BY <1>0, <1>3 DEF CleanUntracked, OnPc, DiscardSteps
  <2>2. files'[f] = files[f] \/ f \in Matched(job.paths \ job.known)
    BY <1>3 DEF CleanUntracked
  <2> QED
    BY <1>1, <2>1, <2>2 DEF Matched
<1>4. CASE PushStash
  <2>1. CASE UNCHANGED files
    BY <1>1, <2>1
  <2>2. CASE files' # files
    <3>1. StashAway(job.paths) /\ Dirty(job.paths)
      BY <1>4, <2>2 DEF PushStash, StashAway
    <3> DEFINE put == [id |-> lastStash', files |-> [g \in Files |->
                         IF g \in Matched(job.paths) /\ Tracked(g) THEN files[g] ELSE head[g]]]
    <3>2. stashes' = <<put>> \o stashes
      BY <3>1 DEF StashAway
    <3>3. files' = [g \in Files |-> IF g \in Matched(job.paths) /\ Tracked(g) THEN head[g] ELSE files[g]]
      BY <3>1 DEF StashAway
    <3>4. f \in Matched(job.paths) /\ Tracked(f) => put.files[f] = files[f]
      OBVIOUS
    <3> HIDE DEF put
    <3>5. 1 \in DOMAIN stashes' /\ stashes'[1] = put
      BY <1>0, <3>2 DEF WorkShapes
    <3>6. CASE f \in Matched(job.paths) /\ Tracked(f)
      <4>1. stashes'[1].files[f] = files[f]
        BY <3>4, <3>5, <3>6
      <4> QED
        BY <3>5, <4>1 DEF Kept
    <3>7. CASE ~(f \in Matched(job.paths) /\ Tracked(f))
      BY <1>1, <3>3, <3>7
    <3> QED
      BY <3>6, <3>7
  <2> QED
    BY <2>1, <2>2
<1>5. CASE StashCommand
  <2>1. CASE files' # files
    <3>1. /\ files' = Taken(stashes[job.at]) /\ CanTake(stashes[job.at])
          /\ UNCHANGED committed
      BY <1>5, <2>1 DEF StashCommand
    <3>2. files'[f] = files[f] \/ files[f] = head[f]
      BY <3>1 DEF CanTake
    <3> QED
      BY <1>0, <1>1, <3>1, <3>2 DEF Kept, HeadIsCommitted
  <2> QED
    BY <1>1, <2>1
<1>6. CASE WriteInitialReadme
  <2>1. files'[f] = files[f] \/ files[f] = 0
    BY <1>0, <1>6 DEF WriteInitialReadme, WorkShapes, OfFiles
  <2> QED
    BY <1>1, <2>1 DEF Kept
<1>7. CASE UNCHANGED files
  BY <1>1, <1>7
<1> QED
  BY <1>2, <1>3, <1>4, <1>5, <1>6, <1>7 DEF JobStep, Stage, ReadHead, Unstage, ListTracked,
     AddAll, UnstageAgain, ResolveStashIndex, WriteGitignore, AddReadme, Commit, Answered, Keep, repoState

(* Whatever the paths match, only a discard loses the content of a working *)
(* file, and only of a file that the chosen paths stand for.               *)
THEOREM OnlyDiscardLoses ==
    WorktreeSpec =>
      [][\A f \in Files, c \in FileContents : JobStep /\ files[f] = c
           => Kept(f, c)' \/ (job.kind = "discard" /\ f \in Matched(job.paths))]_worktreeVars
<1>1. WorkInv /\ [WorktreeNext]_worktreeVars =>
        [\A f \in Files, c \in FileContents : JobStep /\ files[f] = c
           => Kept(f, c)' \/ (job.kind = "discard" /\ f \in Matched(job.paths))]_worktreeVars
  BY WorkOfStep
<1> QED
  BY <1>1, WorkInvHolds, PTL DEF WorktreeSpec

(* Where a path stands for itself alone, which it does unless its name has *)
(* one of *, ?, [ and \\ in it, a discard loses nothing but what is in the *)
(* chosen files, and every other operation nothing at all.                 *)
THEOREM OtherWorkIsKept ==
    ASSUME \A f \in Files : PathMatches[f] = {f}
    PROVE  WorktreeSpec => WorkIsKept
<1>1. WorkInv /\ [WorktreeNext]_worktreeVars =>
        [\A f \in Files, c \in FileContents : JobStep /\ files[f] = c
           => Kept(f, c)' \/ (job.kind = "discard" /\ f \in job.paths)]_worktreeVars
  <2>1. ASSUME WorkInv, JobStep, NEW f \in Files, NEW c \in FileContents, files[f] = c
        PROVE  Kept(f, c)' \/ (job.kind = "discard" /\ f \in job.paths)
    <3>1. f \in Matched(job.paths) => f \in job.paths
      BY <2>1 DEF Matched, WorkInv, WorkShapes, JobShape
    <3>2. Kept(f, c)' \/ (job.kind = "discard" /\ f \in Matched(job.paths))
      BY <2>1, WorkOfStep
    <3> QED
      BY <3>1, <3>2
  <2> QED
    BY <2>1
<1> QED
  BY <1>1, WorkInvHolds, PTL DEF WorktreeSpec, WorkIsKept

(***************************************************************************)
(* Which stash leaves the list.                                            *)
(***************************************************************************)
LEMMA RemoveAtKeeps ==
    ASSUME NEW S, NEW q \in Seq(S), NEW i \in DOMAIN q, NEW k \in DOMAIN q, k # i
    PROVE  q[k] \in ToSet(RemoveAt(q, i))
<1>1. PICK n \in Nat : n = Len(q) /\ DOMAIN q = 1..n
  OBVIOUS
<1>2. PICK r \in Seq(S) : r = RemoveAt(q, i) /\ Len(r) = n - 1
                          /\ \A j \in 1..(n - 1) : r[j] = IF j < i THEN q[j] ELSE q[j + 1]
  <2>1. PICK a, b : a = SubSeq(q, 1, i - 1) /\ b = SubSeq(q, i + 1, n)
    OBVIOUS
  <2>2. a \in Seq(S) /\ Len(a) = i - 1 /\ \A j \in 1..(i - 1) : a[j] = q[j]
    BY <1>1, <2>1
  <2>3. b \in Seq(S) /\ Len(b) = n - i /\ \A j \in 1..(n - i) : b[j] = q[i + j]
    BY <1>1, <2>1
  <2>4. PICK r : r = a \o b
    OBVIOUS
  <2>5. r \in Seq(S) /\ Len(r) = n - 1
    BY <1>1, <2>2, <2>3, <2>4
  <2>6. ASSUME NEW j \in 1..(n - 1) PROVE r[j] = IF j < i THEN q[j] ELSE q[j + 1]
    <3>1. CASE j < i
      BY <1>1, <2>2, <2>3, <2>4, <3>1
    <3>2. CASE j >= i
      <4>1. PICK l \in 1..(n - i) : l = j - (i - 1) /\ i + l = j + 1
        BY <1>1, <3>2
      <4>2. r[j] = b[l]
        <5>1. j \in 1..(Len(a) + Len(b)) /\ j > Len(a) /\ j - Len(a) = l
          BY <1>1, <2>2, <2>3, <3>2, <4>1
        <5>2. a \in Seq(S) /\ b \in Seq(S)
          BY <2>2, <2>3
        <5>3. (a \o b)[j] = b[j - Len(a)]
          BY <5>1, <5>2
        <5> QED BY <2>4, <5>1, <5>3
      <4> QED BY <2>3, <3>2, <4>1, <4>2
    <3> QED BY <1>1, <3>1, <3>2
  <2>7. r = RemoveAt(q, i)
    BY <1>1, <2>1, <2>4 DEF RemoveAt
  <2> QED BY <2>5, <2>6, <2>7
<1>3. PICK j \in 1..(n - 1) : r[j] = q[k]
  <2>1. CASE k < i
    BY <1>1, <1>2, <2>1
  <2>2. CASE k > i
    <3>1. PICK l \in 1..(n - 1) : l = k - 1 /\ l + 1 = k
      BY <1>1, <2>2
    <3> QED BY <1>1, <1>2, <2>2, <3>1
  <2> QED BY <1>1, <2>1, <2>2
<1> QED BY <1>2, <1>3 DEF ToSet

\* The place of the named stash was looked up in the list, unless that has
\* been moved since.
StashIsNamed ==
    /\ job.pc \in {"resolve", "stash_command"} => job.kind \in {"apply", "pop", "drop"}
    /\ job.pc = "stash_command" =>
         job.moved \/ (job.at \in DOMAIN stashes /\ stashes[job.at].id = job.stash)

LEMMA StashNamedInit == WorktreeInit => StashIsNamed
BY DEF WorktreeInit, StashIsNamed, NoJob

LEMMA StashNamedStep ==
    WorkShapes /\ StashIsNamed /\ [WorktreeNext]_worktreeVars => StashIsNamed'
<1> SUFFICES ASSUME WorkShapes, StashIsNamed, [WorktreeNext]_worktreeVars
             PROVE  StashIsNamed'
  OBVIOUS
<1>a. JobShape
  BY DEF WorkShapes
<1> USE DEF StashIsNamed, OnPc
<1>0. CASE UNCHANGED worktreeVars
  BY <1>0 DEF worktreeVars, repoState
<1>1. CASE JobStep /\ ~ResolveStashIndex
  <2> USE <1>a DEF JobShape, DoneOrLost, Done, Proceed
  <2>1. CASE Stage \/ Unstage \/ ListTracked \/ RestoreTracked \/ CleanUntracked
    <3>1. job'.pc \in {"done", "restore", "clean"}
      BY <2>1 DEF Stage, Unstage, ListTracked, RestoreTracked, CleanUntracked
    <3> QED BY <3>1
  <2>2. CASE ReadHead
    <3>1. job'.pc \in {"done", "readme", "unstage"}
      BY <2>2 DEF ReadHead
    <3> QED BY <3>1
  <2>3. CASE AddAll \/ PushStash \/ UnstageAgain \/ StashCommand \/ WriteGitignore
    <3>1. \/ Proceed("stash") \/ Proceed("unstage_again")
          \/ \E a \in {"ok", "failed", "invalid"} : Done(a)
      BY <2>3 DEF AddAll, PushStash, UnstageAgain, StashCommand, WriteGitignore
    <3>2. job'.pc \in {"done", "stash", "unstage_again"}
      BY <3>1
    <3> QED BY <3>2
  <2>4. CASE WriteInitialReadme \/ AddReadme \/ Commit
    <3>1. \/ Proceed("commit") \/ Proceed("add_readme")
          \/ \E a \in {"ok", "failed", "invalid"} : Done(a)
      BY <2>4 DEF WriteInitialReadme, AddReadme, Commit
    <3>2. job'.pc \in {"done", "commit", "add_readme"}
      BY <3>1
    <3> QED BY <3>2
  <2>5. CASE Answered
    BY <2>5 DEF Answered, NoJob
  <2> QED BY <1>1, <2>1, <2>2, <2>3, <2>4, <2>5 DEF JobStep
<1>2. CASE ResolveStashIndex
  <2>1. UNCHANGED stashes /\ job.kind \in {"apply", "pop", "drop"}
    BY <1>2 DEF ResolveStashIndex, Keep, repoState
  <2>2. CASE \E i \in DOMAIN stashes : stashes[i].id = job.stash
    <3>1. PICK place : place = CHOOSE i \in DOMAIN stashes : stashes[i].id = job.stash
      OBVIOUS
    <3>2. place \in DOMAIN stashes /\ stashes[place].id = job.stash
      BY <2>2, <3>1
    <3>3. job'.pc = "stash_command" /\ job'.at = place /\ job'.kind = job.kind /\ job'.stash = job.stash
      BY <1>a, <1>2, <2>2, <3>1 DEF ResolveStashIndex, JobShape
    <3> QED BY <2>1, <3>2, <3>3
  <2>3. CASE ~ \E i \in DOMAIN stashes : stashes[i].id = job.stash
    <3>1. job'.pc = "done"
      BY <1>a, <1>2, <2>3 DEF ResolveStashIndex, Done, JobShape
    <3> QED BY <3>1
  <2> QED BY <2>2, <2>3
<1>3. CASE WorktreeClient
  <2>1. PICK kind, pc, paths, stash : /\ Start(kind, pc, paths, stash)
                                      /\ pc # "stash_command"
                                      /\ pc = "resolve" => kind \in {"apply", "pop", "drop"}
    BY <1>3 DEF WorktreeClient, StagePaths, UnstagePaths, DiscardPaths, StashPaths, StashPush,
       StashApply, StashPop, StashDrop, AppendGitignore, CreateCommit, CreateInitialCommit
  <2>2. job'.pc = pc /\ job'.kind = kind
    BY <2>1 DEF Start, NoJob
  <2> QED BY <2>1, <2>2
<1>4. ASSUME Outside PROVE StashIsNamed'
  <2>1. CASE job = NoJob
    BY <1>4, <2>1 DEF Outside, NoJob
  <2>2. CASE job # NoJob
    <3>1. job'.moved /\ job'.pc = job.pc /\ job'.kind = job.kind
      BY <1>a, <1>4, <2>2 DEF Outside, JobShape
    <3> QED BY <3>1
  <2> QED BY <2>1, <2>2
<1> QED
  BY <1>0, <1>1, <1>2, <1>3, <1>4 DEF WorktreeNext, OutsideEdit, OutsideCommit, OutsideStash,
     OutsideDrop

(* A stash leaves the list only when a pop or a drop was asked for it by   *)
(* name, unless the list was moved after it was read; and every content of *)
(* a popped one is in the working tree, a commit or another stash then.    *)
THEOREM NamedStashLeaves == WorktreeSpec => NamedStashGoes
<1>1. WorkShapes /\ StashIsNamed /\ [WorktreeNext]_worktreeVars =>
        [\A i \in DOMAIN stashes : JobStep /\ stashes[i] \notin ToSet(stashes')
           => /\ job.kind \in {"pop", "drop"}
              /\ stashes[i].id = job.stash \/ job.moved
              /\ job.kind = "pop" =>
                   \A f \in Files, c \in FileContents :
                      stashes[i].files[f] = c => Kept(f, c)']_worktreeVars
  <2> SUFFICES ASSUME WorkShapes, StashIsNamed, NEW i \in DOMAIN stashes, JobStep,
                      stashes[i] \notin ToSet(stashes')
               PROVE  /\ job.kind \in {"pop", "drop"}
                      /\ stashes[i].id = job.stash \/ job.moved
                      /\ job.kind = "pop" =>
                           \A f \in Files, c \in FileContents :
                              stashes[i].files[f] = c => Kept(f, c)'
    OBVIOUS
  <2>1. PICK S : stashes \in Seq(S)
    BY DEF WorkShapes
  <2>2. stashes[i] \in ToSet(stashes)
    BY DEF ToSet
  <2>3. stashes' # stashes
    BY <2>2
  <2>4. ~PushStash
    <3>1. ASSUME Dirty(job.paths), StashAway(job.paths) PROVE FALSE
      <4>1. PICK r : stashes' = <<r>> \o stashes
        BY <3>1 DEF StashAway
      <4>2. PICK n \in Nat : n = Len(stashes) /\ DOMAIN stashes = 1..n
        BY <2>1
      <4>3. stashes' \in Seq(S \cup {r}) /\ Len(stashes') = n + 1 /\ stashes'[i + 1] = stashes[i]
        BY <2>1, <4>1, <4>2
      <4>4. i + 1 \in DOMAIN stashes'
        BY <4>2, <4>3
      <4>5. stashes[i] \in ToSet(stashes')
        BY <4>3, <4>4 DEF ToSet
      <4> QED BY <4>5
    <3> QED BY <2>3, <3>1 DEF PushStash, StashAway
  <2>5. StashCommand
    BY <2>3, <2>4 DEF JobStep, Stage, ReadHead, Unstage, ListTracked, RestoreTracked,
       CleanUntracked, AddAll, UnstageAgain, ResolveStashIndex, WriteGitignore,
       WriteInitialReadme, AddReadme, Commit, Answered, Keep, repoState
  <2>6. /\ job.at \in DOMAIN stashes /\ job.kind # "apply"
        /\ stashes' = RemoveAt(stashes, job.at)
        /\ files' = IF job.kind = "drop" THEN files ELSE Taken(stashes[job.at])
        /\ committed' = committed
    BY <2>3, <2>5 DEF StashCommand
  <2>7. i = job.at
    BY <2>1, <2>6, RemoveAtKeeps
  <2>8. job.kind \in {"pop", "drop"} /\ (stashes[i].id = job.stash \/ job.moved)
    BY <2>5, <2>6, <2>7 DEF StashCommand, StashIsNamed, OnPc
  <2>9. ASSUME job.kind = "pop", NEW f \in Files, NEW c \in FileContents, stashes[i].files[f] = c
        PROVE  Kept(f, c)'
    <3>1. files'[f] = IF c \notin committed[f] THEN c ELSE files[f]
      BY <2>6, <2>7, <2>9 DEF Taken
    <3> QED BY <2>6, <3>1 DEF Kept
  <2> QED BY <2>8, <2>9
<1>2. WorktreeSpec => [](WorkShapes /\ StashIsNamed)
  <2>1. WorktreeInit => WorkShapes
    BY WorkInit DEF WorkInv
  <2> QED BY <2>1, StashNamedInit, ShapesStep, StashNamedStep, PTL DEF WorktreeSpec
<1> QED BY <1>1, <1>2, PTL DEF WorktreeSpec, NamedStashGoes

-----------------------------------------------------------------------------
(***************************************************************************)
(* RefOperations: what is offered, and the commits that stay reachable.    *)
(***************************************************************************)
-----------------------------------------------------------------------------
(***************************************************************************)
(* The history: what a commit leads to.                                    *)
(***************************************************************************)
(* A parent comes before its children.                                     *)
Ordered(g) ==
    /\ Len(g) \in Nat
    /\ \A i \in 1..Len(g) : ToSet(g[i].parents) \subseteq 1..(i - 1)

(* The commits up to n, each with those it leads to.                       *)
Ancestry(g, n, a) ==
    a = [c \in 1..n |-> {c} \cup UNION {a[p] : p \in ToSet(g[c].parents)}]

LEMMA LeastNatural ==
    ASSUME NEW T, T \subseteq Nat, T # {}
    PROVE  \E x \in T : \A y \in T : x <= y
<1> DEFINE R == OpToRel(<, Nat)
<1>1. IsWellFoundedOn(R, Nat)
  BY NatLessThanWellFounded
<1>2. \A x, y \in Nat : <<y, x>> \in R <=> y < x
  BY DEF OpToRel
<1> HIDE DEF R
<1>3. PICK x \in T : \A y \in T : ~ (<<y, x>> \in R)
  <2>1. \E x \in T : \A y \in T : ~ (<<y, x>> \in R)
    BY <1>1, WFMin
  <2> QED BY <2>1
<1>4. ASSUME NEW y \in T PROVE x <= y
  <2>1. x \in Nat /\ y \in Nat
    OBVIOUS
  <2>2. ~ (<<y, x>> \in R)
    BY <1>3
  <2>3. ~ (y < x)
    BY <1>2, <2>1, <2>2, Zenon
  <2> QED BY <2>1, <2>3
<1> QED BY <1>4

(* The least number of which something is not true, in a range.            *)
LEMMA LeastOf ==
    ASSUME NEW n \in Nat, NEW Bad, Bad \subseteq 1..n, Bad # {}
    PROVE  \E x \in Bad : \A y \in 1..(x - 1) : y \notin Bad
<1>1. PICK x \in Bad : \A y \in Bad : x <= y
  <2>1. Bad \subseteq Nat
    OBVIOUS
  <2> QED
    BY <2>1, LeastNatural
<1> QED
  BY <1>1

LEMMA AncestryExists ==
    ASSUME NEW g, Ordered(g)
    PROVE  \E a : Ancestry(g, Len(g), a)
<1> DEFINE Bad == {n \in 1..Len(g) : ~ \E a : Ancestry(g, n, a)}
<1>1. Len(g) \in Nat /\ Bad \subseteq 1..Len(g)
  BY DEF Ordered
<1>2. Ancestry(g, 0, [c \in 1..0 |-> {}])
  BY DEF Ancestry
<1>3. ASSUME Bad # {} PROVE FALSE
  <2>1. PICK n \in Bad : \A m \in 1..(n - 1) : m \notin Bad
    <3> HIDE DEF Bad
    <3> QED
      BY <1>1, <1>3, LeastOf
  <2>2. n \in 1..Len(g) /\ ~ \E a : Ancestry(g, n, a)
    OBVIOUS
  <2>3. \E a : Ancestry(g, n - 1, a)
    <3>1. CASE n = 1
      BY <1>2, <3>1
    <3>2. CASE n # 1
      <4>1. n - 1 \in 1..Len(g) /\ n - 1 \in 1..(n - 1)
        BY <1>1, <2>2, <3>2
      <4> QED
        BY <2>1, <4>1
    <3> QED
      BY <3>1, <3>2
  <2>4. PICK a : Ancestry(g, n - 1, a)
    BY <2>3
  <2> HIDE DEF Bad
  <2> DEFINE b == [c \in 1..n |-> IF c < n THEN a[c]
                                  ELSE {n} \cup UNION {a[p] : p \in ToSet(g[n].parents)}]
  <2>5. ASSUME NEW c \in 1..n
        PROVE  b[c] = {c} \cup UNION {b[p] : p \in ToSet(g[c].parents)}
    <3>1. ToSet(g[c].parents) \subseteq 1..(c - 1) /\ c \in Nat /\ n \in Nat
      BY <1>1, <2>2 DEF Ordered
    <3>2. \A p \in ToSet(g[c].parents) : b[p] = a[p]
      BY <3>1
    <3>3. {b[p] : p \in ToSet(g[c].parents)} = {a[p] : p \in ToSet(g[c].parents)}
      BY <3>2
    <3>4. CASE c < n
      <4>1. a[c] = {c} \cup UNION {a[p] : p \in ToSet(g[c].parents)}
        <5>1. c \in 1..(n - 1)
          BY <3>1, <3>4
        <5>2. \A k \in 1..(n - 1) : a[k] = {k} \cup UNION {a[p] : p \in ToSet(g[k].parents)}
          <6> HIDE DEF b
          <6> QED
            BY <2>4 DEF Ancestry
        <5> QED
          BY <5>1, <5>2
      <4>2. b[c] = a[c]
        BY <3>4
      <4> QED
        BY <3>3, <4>1, <4>2
    <3>5. CASE c = n
      <4>1. b[c] = {c} \cup UNION {a[p] : p \in ToSet(g[c].parents)}
        BY <3>1, <3>5
      <4> QED
        BY <3>3, <4>1
    <3>6. c < n \/ c = n
      BY <3>1
    <3> HIDE DEF b
    <3> QED
      BY <3>4, <3>5, <3>6
  <2>6. b = [c \in 1..n |-> b[c]]
    OBVIOUS
  <2> HIDE DEF b
  <2>7. Ancestry(g, n, b)
    BY <2>5, <2>6 DEF Ancestry
  <2> QED
    BY <2>2, <2>7
<1>4. CASE Len(g) = 0
  BY <1>2, <1>4
<1>5. CASE Len(g) # 0
  <2>1. Len(g) \in 1..Len(g)
    BY <1>1, <1>5
  <2>2. Len(g) \notin Bad
    BY <1>3
  <2> QED
    BY <2>1, <2>2
<1> QED
  BY <1>4, <1>5

LEMMA AncestorsAreAncestry ==
    ASSUME Ordered(graph)
    PROVE  Ancestry(graph, Len(graph), Ancestors)
<1>1. Ancestors = CHOOSE a : Ancestry(graph, Len(graph), a)
  BY DEF Ancestors, Ancestry, Oids, Parents
<1>2. \E a : Ancestry(graph, Len(graph), a)
  BY AncestryExists
<1> HIDE DEF Ancestors
<1> QED
  BY <1>1, <1>2

(* A commit leads to commits of the same history, itself one of them, and  *)
(* to everything they lead to.                                             *)
LEMMA AncestryOfCommit ==
    ASSUME NEW g, Ordered(g), NEW a, Ancestry(g, Len(g), a), NEW c \in 1..Len(g)
    PROVE  c \in a[c] /\ a[c] \subseteq 1..c /\ \A d \in a[c] : a[d] \subseteq a[c]
<1> DEFINE Good(n) == a[n] \subseteq 1..n /\ \A d \in a[n] : a[d] \subseteq a[n]
<1> DEFINE Bad == {n \in 1..Len(g) : ~Good(n)}
<1>1. Len(g) \in Nat /\ Bad \subseteq 1..Len(g)
  BY DEF Ordered
<1>2. \A n \in 1..Len(g) : a[n] = {n} \cup UNION {a[p] : p \in ToSet(g[n].parents)}
  BY DEF Ancestry
<1>3. ASSUME Bad # {} PROVE FALSE
  <2>1. PICK n \in Bad : \A m \in 1..(n - 1) : m \notin Bad
    <3> HIDE DEF Bad
    <3> QED
      BY <1>1, <1>3, LeastOf
  <2>2. n \in 1..Len(g) /\ ~Good(n) /\ n \in Nat
    BY <1>1
  <2>3. ASSUME NEW p \in ToSet(g[n].parents)
        PROVE  Good(p) /\ p \in 1..(n - 1)
    <3>1. p \in 1..(n - 1)
      BY <2>2 DEF Ordered
    <3>2. p \in 1..Len(g) /\ p \notin Bad
      BY <1>1, <2>1, <2>2, <3>1
    <3> QED
      BY <3>1, <3>2
  <2>4. a[n] \subseteq 1..n
    <3>1. ASSUME NEW d \in a[n] PROVE d \in 1..n
      <4>1. d = n \/ \E p \in ToSet(g[n].parents) : d \in a[p]
        BY <1>2, <2>2
      <4> QED
        BY <2>2, <2>3, <4>1
    <3> QED
      BY <3>1
  <2>5. ASSUME NEW d \in a[n] PROVE a[d] \subseteq a[n]
    <3>1. d = n \/ \E p \in ToSet(g[n].parents) : d \in a[p]
      BY <1>2, <2>2
    <3>2. CASE d # n
      <4>1. PICK p \in ToSet(g[n].parents) : d \in a[p]
        BY <3>1, <3>2
      <4>2. a[d] \subseteq a[p]
        BY <2>3, <4>1
      <4>3. a[p] \subseteq a[n]
        BY <1>2, <2>2
      <4> QED
        BY <4>2, <4>3
    <3> QED
      BY <3>2
  <2> QED
    BY <2>2, <2>4, <2>5
<1>4. c \notin Bad
  BY <1>3
<1> QED
  BY <1>2, <1>4

(* More commits change nothing of what those before them lead to.          *)
LEMMA AncestryOfPrefix ==
    ASSUME NEW g, NEW h, Ordered(g), Ordered(h), Len(g) <= Len(h),
           \A i \in 1..Len(g) : h[i] = g[i],
           NEW a, Ancestry(g, Len(g), a), NEW b, Ancestry(h, Len(h), b), NEW c \in 1..Len(g)
    PROVE  b[c] = a[c]
<1> DEFINE Bad == {n \in 1..Len(g) : b[n] # a[n]}
<1>1. Len(g) \in Nat /\ Len(h) \in Nat /\ Bad \subseteq 1..Len(g)
  BY DEF Ordered
<1>2. ASSUME Bad # {} PROVE FALSE
  <2>1. PICK n \in Bad : \A m \in 1..(n - 1) : m \notin Bad
    <3> HIDE DEF Bad
    <3> QED
      BY <1>1, <1>2, LeastOf
  <2>2. n \in 1..Len(g) /\ b[n] # a[n] /\ n \in 1..Len(h) /\ n \in Nat
    BY <1>1
  <2>3. ASSUME NEW p \in ToSet(g[n].parents) PROVE b[p] = a[p]
    <3>1. p \in 1..(n - 1)
      BY <2>2 DEF Ordered
    <3>2. p \in 1..Len(g) /\ p \notin Bad
      BY <1>1, <2>1, <2>2, <3>1
    <3> QED
      BY <3>2
  <2>4. {b[p] : p \in ToSet(g[n].parents)} = {a[p] : p \in ToSet(g[n].parents)}
    BY <2>3
  <2>5. a[n] = {n} \cup UNION {a[p] : p \in ToSet(g[n].parents)}
    BY <2>2 DEF Ancestry
  <2>6. b[n] = {n} \cup UNION {b[p] : p \in ToSet(h[n].parents)}
    BY <2>2 DEF Ancestry
  <2>7. h[n] = g[n]
    BY <2>2
  <2> QED
    BY <2>2, <2>4, <2>5, <2>6, <2>7
<1>3. c \notin Bad
  BY <1>2
<1> QED
  BY <1>3

-----------------------------------------------------------------------------
RefCallShape ==
    refCall \in [kind : {refCall.kind}, pc : {refCall.pc}, name : {refCall.name}, oid : {refCall.oid},
                 option : {refCall.option}, confirmed : {refCall.confirmed},
                 mainline : {refCall.mainline}, headWas : {refCall.headWas},
                 moved : {refCall.moved}, answer : {refCall.answer}]

(* Before it ends an operation has no answer, and only a reset and a       *)
(* reword have guards of their own.                                        *)
RefCallInv ==
    /\ RefCallShape
    /\ refCall.pc # "done" => refCall.answer = "none"
    /\ refCall.pc = "guards" => refCall.kind \in {"reset", "reword"}

LEMMA RefCallInit == RefInit => RefCallInv
  BY DEF RefInit, RefCallInv, RefCallShape, NoRequest

LEMMA RefCallStep == RefCallInv /\ [RefNext]_refVars => RefCallInv'
<1> SUFFICES ASSUME RefCallInv, [RefNext]_refVars PROVE RefCallInv'
  OBVIOUS
<1> USE DEF RefCallInv, RefCallShape, On
<1>1. ASSUME NEW a, Refuse(a) PROVE RefCallInv'
  BY <1>1 DEF Refuse
<1>2. ASSUME Finished PROVE RefCallInv'
  BY <1>2 DEF Finished
<1>3. ASSUME Run, refCall.answer = "none" PROVE RefCallInv'
  BY <1>3 DEF Run
<1>4. CASE Validate
  BY <1>1, <1>3, <1>4 DEF Validate
<1>5. CASE Guards
  BY <1>1, <1>3, <1>5 DEF Guards
<1>6. CASE CommandFails
  BY <1>1, <1>6 DEF CommandFails
<1>7. CASE BranchCommand \/ TagCommand \/ ResetCommand \/ RewordCommand
  BY <1>2, <1>7 DEF BranchCommand, TagCommand, ResetCommand, RewordCommand
<1>8. CASE CommitCommand
  BY <1>1, <1>2, <1>8 DEF CommitCommand
<1>9. CASE Replied
  BY <1>9 DEF Replied, NoRequest
<1>10. ASSUME NEW kind, NEW name, NEW oid, NEW option, NEW confirmed, NEW mainline,
              RefCall(kind, name, oid, option, confirmed, mainline)
       PROVE  RefCallInv'
  BY <1>10 DEF RefCall, NoRequest
<1>11. CASE RefClient
  <2>1. ASSUME NEW b \in Branches,
               \/ CheckoutBranch(b) \/ SetUpstream(b) \/ MergeBranch(b)
               \/ \E new \in Branches : RenameBranch(b, new)
               \/ \E force, ok \in BOOLEAN : DeleteBranch(b, force, ok)
               \/ \E c \in Oids, option \in {"checkout", "none"} : CreateBranch(b, c, option)
        PROVE  RefCallInv'
    BY <1>10, <2>1 DEF CheckoutBranch, SetUpstream, MergeBranch, RenameBranch, DeleteBranch, CreateBranch
  <2>2. ASSUME NEW c \in Oids,
               \/ CheckoutCommit(c) \/ RewordCommit(c)
               \/ \E t \in Tags : CreateTag(t, c)
               \/ \E m \in 0..2 : CherryPick(c, m) \/ RevertCommit(c, m)
               \/ \E mode \in Modes, ok \in BOOLEAN : ResetToCommit(c, mode, ok)
        PROVE  RefCallInv'
    BY <1>10, <2>2 DEF CheckoutCommit, RewordCommit, CreateTag, CherryPick, RevertCommit, ResetToCommit
  <2> QED
    BY <1>11, <2>1, <2>2 DEF RefClient
<1>12. CASE Aside
  BY <1>12 DEF Aside, NoRequest
<1>13. CASE UNCHANGED refCall
  BY <1>13
<1> QED
  BY <1>4, <1>5, <1>6, <1>7, <1>8, <1>9, <1>11, <1>12, <1>13
  DEF RefNext, RequestStep, AsideSwitch, AsideCommit, OperationEnds, refVars

(* What the menu offers for a commit gitcat does not refuse itself.        *)
THEOREM OffersAreAccepted == RefSpec => OfferedIsAccepted
<1>1. RefCallInv /\ [RefNext]_refVars =>
        [(Validate \/ Guards) /\ refCall.kind \in {"detach", "tag", "pick", "revert", "reset", "reword"}
           /\ Enabled(refCall.kind, refCall.oid) /\ refCall'.answer \in {"unsupported", "in_progress"}
           => FALSE]_refVars
  <2> SUFFICES ASSUME RefCallInv, Enabled(refCall.kind, refCall.oid),
                      refCall'.answer \in {"unsupported", "in_progress"}
               PROVE  ~Validate /\ ~Guards
    OBVIOUS
  <2> USE DEF RefCallInv, RefCallShape, On
  <2>1. ASSUME Run, refCall.answer = "none" PROVE refCall'.answer = "none"
    BY <2>1 DEF Run
  <2>2. ASSUME NEW a, Refuse(a) PROVE refCall'.answer = a
    BY <2>2 DEF Refuse
  <2>3. ~Validate
    BY <2>1, <2>2 DEF Validate
  <2>4. ASSUME Guards PROVE FALSE
    <3>1. refCall.answer = "none" /\ refCall.kind \in {"reset", "reword"} /\ ~underWay
      BY <2>4 DEF Guards, Enabled
    <3>2. CASE refCall.kind = "reset"
      BY <2>1, <2>2, <2>4, <3>1, <3>2 DEF Guards, Enabled
    <3>3. CASE refCall.kind = "reword"
      <4>1. RewordRefusal(refCall.oid) = "none"
        BY <3>1, <3>3 DEF Enabled, RewordRefusal
      <4> QED
        BY <2>1, <2>4, <3>1, <3>3, <4>1 DEF Guards
    <3> QED
      BY <3>1, <3>2, <3>3
  <2> QED
    BY <2>3, <2>4
<1> QED
  BY <1>1, RefCallInit, RefCallStep, PTL DEF RefSpec, OfferedIsAccepted

-----------------------------------------------------------------------------
(***************************************************************************)
(* Refs point at commits, and commits at earlier ones.                     *)
(***************************************************************************)
CommitShape(r) == r \in [parents : {r.parents}, change : {r.change}, message : {r.message}]

GraphInv ==
    /\ Ordered(graph)
    /\ graph \in Seq(ToSet(graph))
    /\ \A i \in Oids : CommitShape(graph[i])

RefsInv ==
    /\ branches \in [Branches -> {0} \cup Oids]
    /\ tracking \in [Branches -> {0} \cup Oids]
    /\ tags \in [Tags -> {0} \cup Oids]
    /\ at \in [branch : Branches \cup {"none"}, oid : {0} \cup Oids]
    /\ at.branch = "none" => at.oid # 0

(* What an operation was given exists, and what has to be confirmed was.   *)
ArgumentsInv ==
    /\ refCall.kind \in {"create", "switch", "rename", "delete", "upstream", "merge"}
         => refCall.name \in Branches
    /\ refCall.kind = "rename" => refCall.option \in Branches
    /\ refCall.kind = "delete" => refCall.option \in {"-d", "-D"}
    /\ refCall.kind \in {"create", "detach", "tag", "pick", "revert", "reset", "reword"}
         => refCall.oid \in Oids
    /\ refCall.pc = "command" =>
         /\ refCall.kind = "merge" => refCall.oid \in Oids
         /\ refCall.kind = "delete" /\ refCall.option = "-D" => refCall.confirmed

HistoryInv == GraphInv /\ RefsInv /\ RefCallInv /\ ArgumentsInv

LEMMA HistoryInit == RefInit => HistoryInv
<1> SUFFICES ASSUME RefInit PROVE HistoryInv
  OBVIOUS
<1> DEFINE Commits == [parents : Seq(Nat), change : Nat, message : Nat]
<1>1. /\ graph \in Seq(Commits) /\ Len(graph) >= 3
      /\ \A i \in 1..Len(graph) : ToSet(graph[i].parents) \subseteq 1..(i - 1)
  BY RefAssumption DEF RefInit
<1>2. GraphInv
  <2>3. \A i \in Oids : CommitShape(graph[i])
    <3>1. ASSUME NEW r \in Commits PROVE CommitShape(r)
      BY DEF CommitShape
    <3> HIDE DEF Commits
    <3>2. \A i \in 1..Len(graph) : graph[i] \in Commits
      BY <1>1
    <3> QED
      BY <3>1, <3>2 DEF Oids
  <2> HIDE DEF Commits
  <2>1. Ordered(graph)
    BY <1>1 DEF Ordered
  <2>2. graph \in Seq(ToSet(graph))
    BY <1>1, SeqOfItsElements
  <2> QED
    BY <2>1, <2>2, <2>3 DEF GraphInv
<1>3. RefsInv
  <2>1. {1, 2, 3, Len(graph)} \subseteq Oids
    BY <1>1 DEF Oids
  <2>2. branches \in [Branches -> {0} \cup Oids]
    BY <2>1 DEF RefInit
  <2>3. tracking \in [Branches -> {0} \cup Oids] /\ tags \in [Tags -> {0} \cup Oids]
    BY <2>1 DEF RefInit
  <2>4. at \in [branch : Branches \cup {"none"}, oid : {0} \cup Oids] /\ (at.branch = "none" => at.oid # 0)
    BY <2>1, RefAssumption DEF RefInit
  <2> QED
    BY <2>2, <2>3, <2>4 DEF RefsInv
<1>4. ArgumentsInv
  BY DEF RefInit, NoRequest, ArgumentsInv
<1> QED
  BY <1>2, <1>3, <1>4, RefCallInit DEF HistoryInv

Grown == Len(graph) <= Len(graph') /\ \A i \in Oids : graph'[i] = graph[i]

LEMMA Extended ==
    ASSUME GraphInv, NEW q, q \in Seq(ToSet(q)), graph' = graph \o q,
           \A i \in 1..Len(q) : CommitShape(q[i]) /\ ToSet(q[i].parents) \subseteq 1..(Len(graph) + i - 1)
    PROVE  GraphInv' /\ Grown /\ Len(graph') = Len(graph) + Len(q)
<1>1. /\ Len(graph) \in Nat /\ Len(q) \in Nat /\ graph \in Seq(ToSet(graph))
      /\ Len(graph') = Len(graph) + Len(q)
  BY DEF GraphInv, Ordered
<1>2. graph' \in Seq(ToSet(graph) \cup ToSet(q))
  <2>1. graph \in Seq(ToSet(graph) \cup ToSet(q)) /\ q \in Seq(ToSet(graph) \cup ToSet(q))
    BY <1>1
  <2> QED
    BY <2>1
<1>3. \A i \in Oids : graph'[i] = graph[i]
  BY <1>1 DEF Oids
<1>4. ASSUME NEW i \in 1..Len(graph')
      PROVE  CommitShape(graph'[i]) /\ ToSet(graph'[i].parents) \subseteq 1..(i - 1)
  <2>1. CASE i <= Len(graph)
    BY <1>1, <1>3, <2>1 DEF GraphInv, Ordered, Oids
  <2>2. CASE i > Len(graph)
    <3>1. i - Len(graph) \in 1..Len(q) /\ graph'[i] = q[i - Len(graph)]
      BY <1>1, <2>2
    <3>2. ToSet(q[i - Len(graph)].parents) \subseteq 1..(Len(graph) + (i - Len(graph)) - 1)
      BY <3>1
    <3>3. Len(graph) + (i - Len(graph)) - 1 = i - 1
      BY <1>1
    <3> QED
      BY <3>1, <3>2, <3>3
  <2> QED
    BY <1>1, <2>1, <2>2
<1>5. graph' \in Seq(ToSet(graph'))
  BY <1>2, SeqOfItsElements
<1>6. Len(graph') \in Nat /\ Len(graph) <= Len(graph')
  BY <1>1
<1>7. Ordered(graph')
  BY <1>4, <1>6 DEF Ordered
<1>8. GraphInv'
  BY <1>4, <1>5, <1>7 DEF GraphInv, Oids
<1> QED
  BY <1>1, <1>3, <1>6, <1>8 DEF Grown

LEMMA HeadIsCommit ==
    ASSUME RefsInv
    PROVE  /\ HeadOid \in {0} \cup Oids
           /\ at.branch # "none" => at.branch \in Branches
  BY DEF RefsInv, HeadOid

LEMMA CommitAdded ==
    ASSUME GraphInv, NEW parents, NEW change, NEW message, NewCommit(parents, change, message),
           ToSet(parents) \subseteq Oids
    PROVE  GraphInv' /\ Grown /\ Len(graph') = Len(graph) + 1 /\ graph'[Len(graph) + 1].parents = parents
<1> DEFINE r == [parents |-> parents, change |-> change, message |-> message]
<1>1. CommitShape(r) /\ r.parents = parents
  BY DEF CommitShape
<1>2. graph' = Append(graph, r)
  BY DEF NewCommit
<1> HIDE DEF r
<1>3. <<r>> \in Seq(ToSet(<<r>>)) /\ Len(<<r>>) = 1 /\ <<r>>[1] = r
  <2>1. <<r>> \in Seq({r})
    OBVIOUS
  <2> QED
    BY <2>1, SeqOfItsElements
<1>4. graph' = graph \o <<r>>
  BY <1>2 DEF GraphInv
<1>5. \A i \in 1..Len(<<r>>) : CommitShape(<<r>>[i]) /\ ToSet(<<r>>[i].parents) \subseteq 1..(Len(graph) + i - 1)
  <2>1. Len(graph) \in Nat
    BY DEF GraphInv, Ordered
  <2> QED
    BY <1>1, <1>3, <2>1 DEF Oids
<1>6. GraphInv' /\ Grown /\ Len(graph') = Len(graph) + 1
  BY <1>3, <1>4, <1>5, Extended
<1>7. graph'[Len(graph) + 1] = r
  BY <1>2 DEF GraphInv, Ordered
<1> QED
  BY <1>1, <1>6, <1>7

(* What a merge, a pick or a revert does to the history and HEAD.          *)
LEMMA Merging ==
    ASSUME RefsInv, NEW c \in Oids, MergeInto(c)
    PROVE  \/ UNCHANGED <<graph, branches, at>>
           \/ MoveHead(c) /\ UNCHANGED graph /\ HeadOid \in Reaches(c) \cup {0}
           \/ /\ HeadOid # 0 /\ HeadOid \in Oids
              /\ NewCommit(<<HeadOid, c>>, Len(graph) + 1, Len(graph) + 1)
<1>1. CASE c \in Reaches(HeadOid)
  BY <1>1 DEF MergeInto
<1>2. CASE c \notin Reaches(HeadOid) /\ HeadOid \in Reaches(c) \cup {0}
  BY <1>2 DEF MergeInto
<1>3. CASE c \notin Reaches(HeadOid) /\ HeadOid \notin Reaches(c) \cup {0}
  <2>1. NewCommit(<<HeadOid, c>>, Len(graph) + 1, Len(graph) + 1)
    BY <1>3 DEF MergeInto
  <2> QED
    BY <1>3, <2>1, HeadIsCommit
<1> QED
  BY <1>1, <1>2, <1>3

LEMMA Committing ==
    ASSUME RefsInv, RefCallInv, ArgumentsInv, CommitCommand
    PROVE  \/ UNCHANGED <<graph, branches, at>>
           \/ /\ MoveHead(refCall.oid) /\ UNCHANGED graph /\ refCall.oid \in Oids
              /\ HeadOid \in Reaches(refCall.oid) \cup {0}
           \/ /\ HeadOid # 0 /\ HeadOid \in Oids
              /\ \E ps : /\ ps \in {<<HeadOid>>, <<HeadOid, refCall.oid>>} /\ refCall.oid \in Oids
                         /\ NewCommit(ps, Len(graph) + 1, Len(graph) + 1)
<1>1. refCall.oid \in Oids
  BY DEF CommitCommand, On, ArgumentsInv
<1>2. CASE refCall.kind = "merge" /\ MergeInto(refCall.oid)
  BY <1>1, <1>2, Merging
<1>3. CASE HeadOid # 0 /\ NewCommit(<<HeadOid>>, Len(graph) + 1, Len(graph) + 1)
  BY <1>1, <1>3, HeadIsCommit
<1> QED
  BY <1>2, <1>3 DEF CommitCommand

LEMMA SetOfParents ==
    ASSUME NEW a, NEW b
    PROVE  ToSet(<<a>>) = {a} /\ ToSet(<<a, b>>) = {a, b}
  BY DEF ToSet

LEMMA CommittingGraph ==
    ASSUME GraphInv, RefsInv, RefCallInv, ArgumentsInv, CommitCommand
    PROVE  GraphInv' /\ Grown
<1>1. CASE UNCHANGED graph
  BY <1>1 DEF GraphInv, Grown, Ordered, Oids
<1>2. ASSUME HeadOid \in Oids, refCall.oid \in Oids,
             NEW ps \in {<<HeadOid>>, <<HeadOid, refCall.oid>>},
             NewCommit(ps, Len(graph) + 1, Len(graph) + 1)
      PROVE  GraphInv' /\ Grown
  <2>1. ToSet(ps) \subseteq Oids
    <3>1. ToSet(<<HeadOid>>) = {HeadOid} /\ ToSet(<<HeadOid, refCall.oid>>) = {HeadOid, refCall.oid}
      BY SetOfParents, Zenon
    <3> QED
      BY <1>2, <3>1
  <2> QED
    BY <1>2, <2>1, CommitAdded
<1> QED
  BY <1>1, <1>2, Committing

LEMMA RewordedGraph ==
    ASSUME GraphInv, RefsInv, ArgumentsInv, RewordCommand
    PROVE  GraphInv' /\ Grown /\ Len(graph') > Len(graph)
<1>0. HeadOid \in Oids /\ refCall.oid \in Oids /\ Len(graph) \in Nat
  BY HeadIsCommit DEF RewordCommand, ArgumentsInv, GraphInv, Ordered
<1>1. CASE refCall.headWas = refCall.oid
  <2> DEFINE r == [graph[HeadOid] EXCEPT !.message = Len(graph) + 1]
  <2>1. CommitShape(r) /\ r.parents = graph[HeadOid].parents
    BY <1>0 DEF GraphInv, CommitShape
  <2>2. graph' = Append(graph, r)
    BY <1>1 DEF RewordCommand
  <2> HIDE DEF r
  <2>3. <<r>> \in Seq(ToSet(<<r>>))
    <3>1. <<r>> \in Seq({r})
      OBVIOUS
    <3> QED
      BY <3>1, SeqOfItsElements
  <2>4. graph' = graph \o <<r>>
    BY <2>2 DEF GraphInv
  <2>5. ToSet(r.parents) \subseteq 1..Len(graph)
    <3>1. ToSet(graph[HeadOid].parents) \subseteq 1..(HeadOid - 1)
      BY <1>0 DEF GraphInv, Ordered, Oids
    <3>2. 1..(HeadOid - 1) \subseteq 1..Len(graph)
      BY <1>0 DEF Oids
    <3> QED
      BY <2>1, <3>1, <3>2
  <2>6. \A i \in 1..Len(<<r>>) : CommitShape(<<r>>[i]) /\ ToSet(<<r>>[i].parents) \subseteq 1..(Len(graph) + i - 1)
    BY <1>0, <2>1, <2>5
  <2>7. GraphInv' /\ Grown /\ Len(graph') = Len(graph) + Len(<<r>>)
    BY <2>3, <2>4, <2>6, Extended
  <2> QED
    BY <1>0, <2>7
<1>2. CASE refCall.headWas # refCall.oid
  <2> DEFINE c == refCall.oid
             picks == <<c>> \o SetToSortSeq(Replayed(c), <)
             n == 1 + Cardinality(Replayed(c))
             copy(i) == [parents |-> IF i = 1 THEN graph[c].parents ELSE <<Len(graph) + i - 1>>,
                         change  |-> graph[picks[i]].change,
                         message |-> IF i = 1 THEN Len(graph) + 1 ELSE graph[picks[i]].message]
             q == [i \in 1..n |-> copy(i)]
  <2>1. n \in Nat /\ n >= 1
    <3>1. Replayed(c) \subseteq Oids
      <4>1. Reaches(HeadOid) \subseteq Oids
        <5>1. Ancestry(graph, Len(graph), Ancestors)
          BY AncestorsAreAncestry DEF GraphInv
        <5>2. Ancestors[HeadOid] \subseteq 1..HeadOid
          BY <1>0, <5>1, AncestryOfCommit DEF GraphInv, Oids
        <5> QED
          BY <1>0, <5>2 DEF Reaches, Oids
      <4> QED
        BY <4>1 DEF Replayed
    <3>2. IsFiniteSet(Replayed(c))
      <4>1. IsFiniteSet(1..Len(graph))
        BY <1>0, FS_Interval
      <4> QED
        BY <3>1, <4>1, FS_Subset DEF Oids
    <3> QED
      BY <3>2, FS_CardinalityType
  <2>2. graph' = graph \o q
    BY <1>2 DEF RewordCommand, Rewritten
  <2>3. \A i \in 1..n : CommitShape(copy(i)) /\ copy(i).parents = IF i = 1 THEN graph[c].parents ELSE <<Len(graph) + i - 1>>
    BY DEF CommitShape
  <2> HIDE DEF copy
  <2> HIDE DEF n
  <2>4. q \in Seq({copy(i) : i \in 1..n}) /\ Len(q) = n /\ \A i \in 1..n : q[i] = copy(i)
    BY <2>1
  <2>5. q \in Seq(ToSet(q))
    BY <2>4, SeqOfItsElements
  <2> HIDE DEF q
  <2>6. ASSUME NEW i \in 1..Len(q)
        PROVE  CommitShape(q[i]) /\ ToSet(q[i].parents) \subseteq 1..(Len(graph) + i - 1)
    <3>1. CASE i = 1
      <4>1. ToSet(graph[c].parents) \subseteq 1..(c - 1)
        BY <1>0 DEF GraphInv, Ordered, Oids
      <4>2. 1..(c - 1) \subseteq 1..(Len(graph) + i - 1)
        BY <1>0, <3>1 DEF Oids
      <4>3. CommitShape(q[i]) /\ q[i].parents = graph[c].parents
        BY <2>1, <2>3, <2>4, <3>1
      <4> QED
        BY <4>1, <4>2, <4>3
    <3>2. CASE i # 1
      <4>1. q[i].parents = <<Len(graph) + i - 1>>
        BY <2>1, <2>3, <2>4, <3>2
      <4>2. Len(graph) + i - 1 \in 1..(Len(graph) + i - 1)
        BY <1>0, <2>1, <2>4, <3>2
      <4>3. ToSet(<<Len(graph) + i - 1>>) = {Len(graph) + i - 1}
        BY SetOfParents, Zenon
      <4>4. CommitShape(q[i])
        BY <2>3, <2>4
      <4> QED
        BY <4>1, <4>2, <4>3, <4>4
    <3> QED
      BY <3>1, <3>2
  <2>7. GraphInv' /\ Grown /\ Len(graph') = Len(graph) + Len(q)
    BY <2>2, <2>5, <2>6, Extended
  <2> QED
    BY <1>0, <2>1, <2>4, <2>7
<1> QED
  BY <1>1, <1>2

LEMMA GraphStep ==
    HistoryInv /\ [RefNext]_refVars => GraphInv' /\ Grown
<1> SUFFICES ASSUME HistoryInv, [RefNext]_refVars PROVE GraphInv' /\ Grown
  OBVIOUS
<1> USE DEF HistoryInv
<1>1. CASE UNCHANGED graph
  BY <1>1 DEF GraphInv, Grown, Ordered, Oids
<1>2. CASE CommitCommand
  BY <1>2, CommittingGraph
<1>3. CASE RewordCommand
  BY <1>3, RewordedGraph
<1>4. CASE AsideCommit
  <2>1. HeadOid \in Oids /\ NewCommit(<<HeadOid>>, Len(graph) + 1, Len(graph) + 1)
    BY <1>4, HeadIsCommit DEF AsideCommit
  <2>2. ToSet(<<HeadOid>>) = {HeadOid}
    BY SetOfParents, Zenon
  <2> QED
    BY <2>1, <2>2, CommitAdded
<1>5. CASE RequestStep /\ ~CommitCommand /\ ~RewordCommand
  BY <1>1, <1>5 DEF RequestStep, Validate, Guards, CommandFails, BranchCommand, TagCommand,
     ResetCommand, Replied, Still, refState
<1>6. CASE RefClient
  BY <1>1, <1>6 DEF RefClient, CheckoutBranch, SetUpstream, MergeBranch, RenameBranch, DeleteBranch,
     CreateBranch, CheckoutCommit, RewordCommit, CreateTag, CherryPick, RevertCommit, ResetToCommit,
     RefCall, refState
<1>7. CASE OperationEnds \/ \E b \in Branches : AsideSwitch(b)
  BY <1>1, <1>7 DEF OperationEnds, AsideSwitch
<1>8. CASE UNCHANGED refVars
  BY <1>1, <1>8 DEF refVars, refState
<1> QED
  BY <1>2, <1>3, <1>4, <1>5, <1>6, <1>7, <1>8 DEF RefNext

LEMMA MoreCommits ==
    ASSUME GraphInv, GraphInv', Grown
    PROVE  Oids \subseteq Oids'
  BY DEF GraphInv, Ordered, Grown, Oids

LEMMA HeadMoves ==
    ASSUME RefsInv, NEW c \in Oids', MoveHead(c), Oids \subseteq Oids',
           UNCHANGED <<tracking, tags>>, 0 \notin Oids'
    PROVE  RefsInv'
<1> DEFINE O == {0} \cup Oids'
<1>1. branches \in [Branches -> O] /\ tracking \in [Branches -> O] /\ tags \in [Tags -> O]
      /\ at \in [branch : Branches \cup {"none"}, oid : O] /\ c \in O
  BY DEF RefsInv
<1> HIDE DEF O
<1>2. branches' \in [Branches -> O]
  BY <1>1 DEF MoveHead
<1>3. at' \in [branch : Branches \cup {"none"}, oid : O]
  BY <1>1 DEF MoveHead
<1>4. at'.branch = "none" => at'.oid # 0
  BY <1>1 DEF MoveHead, RefsInv
<1> QED
  BY <1>1, <1>2, <1>3, <1>4 DEF RefsInv, O

LEMMA RefsStep ==
    HistoryInv /\ GraphInv' /\ Grown /\ [RefNext]_refVars => RefsInv'
<1> SUFFICES ASSUME HistoryInv, GraphInv', Grown, [RefNext]_refVars PROVE RefsInv'
  OBVIOUS
<1> USE DEF HistoryInv
<1> DEFINE O == {0} \cup Oids'
<1>0. /\ Oids \subseteq Oids' /\ 0 \notin Oids'
      /\ Len(graph) \in Nat /\ Len(graph') \in Nat /\ Len(graph) <= Len(graph')
  BY MoreCommits DEF Oids, GraphInv, Ordered, Grown
<1>1. /\ branches \in [Branches -> O] /\ tracking \in [Branches -> O] /\ tags \in [Tags -> O]
      /\ at \in [branch : Branches \cup {"none"}, oid : O] /\ 0 \in O
      /\ at.branch = "none" => at.oid # 0
  BY <1>0 DEF RefsInv
<1> HIDE DEF O
<1>2. CASE UNCHANGED <<branches, tracking, tags, at>>
  BY <1>1, <1>2 DEF RefsInv, O
<1>3. CASE CommitCommand
  <2>1. UNCHANGED <<tracking, tags>>
    BY <1>3 DEF CommitCommand
  <2>2. CASE UNCHANGED <<graph, branches, at>>
    BY <1>2, <2>1, <2>2
  <2>3. CASE MoveHead(refCall.oid) /\ refCall.oid \in Oids
    BY <1>0, <2>1, <2>3, HeadMoves
  <2>4. ASSUME NEW ps, NewCommit(ps, Len(graph) + 1, Len(graph) + 1)
        PROVE  RefsInv'
    <3>1. Len(graph) + 1 \in Oids' /\ MoveHead(Len(graph) + 1)
      BY <1>0, <2>4 DEF NewCommit, GraphInv, Oids
    <3> QED
      BY <1>0, <2>1, <3>1, HeadMoves
  <2> QED
    BY <1>3, <2>2, <2>3, <2>4, Committing
<1>4. CASE ResetCommand
  <2>1. refCall.oid \in Oids /\ MoveHead(refCall.oid) /\ UNCHANGED <<tracking, tags>>
    BY <1>4 DEF ResetCommand, ArgumentsInv
  <2> QED
    BY <1>0, <2>1, HeadMoves
<1>5. CASE RewordCommand
  <2>1. MoveHead(Len(graph')) /\ UNCHANGED <<tracking, tags>>
    BY <1>5 DEF RewordCommand
  <2>2. Len(graph') \in Oids'
    BY <1>0, <1>5, RewordedGraph DEF Oids
  <2> QED
    BY <1>0, <2>1, <2>2, HeadMoves
<1>6. CASE TagCommand
  <2>1. refCall.oid \in O
    BY <1>0, <1>6 DEF TagCommand, ArgumentsInv, O
  <2>2. tags' \in [Tags -> O] /\ UNCHANGED <<branches, tracking, at>>
    BY <1>1, <1>6, <2>1 DEF TagCommand
  <2> QED
    BY <1>1, <2>2 DEF RefsInv, O
<1>7. CASE BranchCommand
  <2>1. UNCHANGED tracking /\ UNCHANGED tags
    BY <1>7 DEF BranchCommand, SwitchTo
  <2>2. refCall.kind \in {"create", "detach"} => refCall.oid \in O /\ refCall.oid # 0
    BY <1>0 DEF ArgumentsInv, O
  <2>3. branches' \in [Branches -> O]
    <3>1. refCall.kind = "create" => branches' = [branches EXCEPT ![refCall.name] = refCall.oid]
      BY <1>7 DEF BranchCommand
    <3>2. refCall.kind = "switch" => branches' = [branches EXCEPT ![refCall.name] = IF @ = 0 THEN tracking[refCall.name] ELSE @]
      BY <1>7 DEF BranchCommand, SwitchTo
    <3>3. refCall.kind = "rename" => branches' = [branches EXCEPT ![refCall.option] = branches[refCall.name], ![refCall.name] = 0]
      BY <1>7 DEF BranchCommand
    <3>4. refCall.kind = "delete" => branches' = [branches EXCEPT ![refCall.name] = 0]
      BY <1>7 DEF BranchCommand
    <3>5. refCall.kind \in {"upstream", "detach"} => UNCHANGED branches
      BY <1>7 DEF BranchCommand
    <3>6. refCall.kind \in {"create", "switch", "rename", "delete", "upstream", "detach"}
      BY <1>7 DEF BranchCommand
    <3>7. refCall.kind \in {"switch", "rename"} => refCall.name \in Branches
      BY DEF ArgumentsInv
    <3>8. refCall.kind \in {"switch", "rename"} =>
            branches[refCall.name] \in O /\ tracking[refCall.name] \in O
      BY <1>1, <3>7
    <3> QED
      BY <1>1, <2>2, <3>1, <3>2, <3>3, <3>4, <3>5, <3>6, <3>8
  <2>4. /\ at' \in [branch : Branches \cup {"none"}, oid : O]
        /\ at'.branch = "none" => at'.oid # 0
    <3>1. CASE refCall.kind = "detach"
      BY <1>1, <1>7, <2>2, <3>1 DEF BranchCommand
    <3>2. CASE refCall.kind \in {"create", "switch", "rename", "delete", "upstream"}
      <4>1. refCall.name \in Branches /\ (refCall.kind = "rename" => refCall.option \in Branches)
        BY <3>2 DEF ArgumentsInv
      <4>2. \/ at' = at
            \/ at' = [branch |-> refCall.name, oid |-> 0]
            \/ at' = [at EXCEPT !.branch = refCall.option] /\ refCall.kind = "rename"
        BY <1>7, <3>2 DEF BranchCommand, SwitchTo
      <4>3. "none" \notin Branches
        BY RefAssumption
      <4> HIDE DEF HistoryInv
      <4>4. CASE at' = [at EXCEPT !.branch = refCall.option] /\ refCall.kind = "rename"
        <5>1. at'.branch = refCall.option /\ at'.oid = at.oid
          BY <1>1, <4>4
        <5>2. at' \in [branch : Branches \cup {"none"}, oid : O]
          BY <1>1, <4>1, <4>4
        <5> QED
          BY <4>1, <4>3, <4>4, <5>1, <5>2
      <4>5. CASE at' = [branch |-> refCall.name, oid |-> 0]
        BY <1>1, <4>1, <4>3, <4>5
      <4> QED
        BY <1>1, <4>2, <4>4, <4>5
    <3> QED
      BY <1>7, <3>1, <3>2 DEF BranchCommand
  <2> QED
    BY <1>1, <2>1, <2>3, <2>4 DEF RefsInv, O
<1>8. CASE Validate \/ Guards \/ CommandFails \/ Replied
  BY <1>2, <1>8 DEF Validate, Guards, CommandFails, Replied, Still, refState
<1>9. CASE RefClient
  BY <1>2, <1>9 DEF RefClient, CheckoutBranch, SetUpstream, MergeBranch, RenameBranch, DeleteBranch,
     CreateBranch, CheckoutCommit, RewordCommit, CreateTag, CherryPick, RevertCommit, ResetToCommit,
     RefCall, refState
<1>10. CASE AsideCommit
  <2>1. MoveHead(Len(graph) + 1) /\ UNCHANGED <<tracking, tags>> /\ Len(graph') = Len(graph) + 1
    BY <1>10 DEF AsideCommit, Aside, NewCommit, GraphInv
  <2>2. Len(graph) + 1 \in Oids'
    BY <1>0, <2>1 DEF Oids
  <2> QED
    BY <1>0, <2>1, <2>2, HeadMoves
<1>11. ASSUME NEW b \in Branches, AsideSwitch(b)
       PROVE  RefsInv'
  <2>1. UNCHANGED <<branches, tracking, tags>> /\ at' = [branch |-> b, oid |-> 0]
    BY <1>11 DEF AsideSwitch, Aside
  <2> QED
    BY <1>1, <2>1, RefAssumption DEF RefsInv, O
<1>12. CASE OperationEnds
  BY <1>2, <1>12 DEF OperationEnds
<1>13. CASE UNCHANGED refVars
  BY <1>2, <1>13 DEF refVars, refState
<1> QED
  BY <1>3, <1>4, <1>5, <1>6, <1>7, <1>8, <1>9, <1>10, <1>11, <1>12, <1>13 DEF RefNext, RequestStep

LEMMA ArgumentsStep ==
    HistoryInv /\ GraphInv' /\ Grown /\ [RefNext]_refVars => ArgumentsInv'
<1> SUFFICES ASSUME HistoryInv, GraphInv', Grown, [RefNext]_refVars PROVE ArgumentsInv'
  OBVIOUS
<1> USE DEF HistoryInv
<1>0. Oids \subseteq Oids'
  BY MoreCommits
<1> USE DEF RefCallInv, RefCallShape
<1>1. ASSUME /\ refCall'.kind = refCall.kind /\ refCall'.name = refCall.name
             /\ refCall'.option = refCall.option /\ refCall'.confirmed = refCall.confirmed
             /\ refCall'.oid = refCall.oid
             /\ refCall'.pc = "command" => refCall.pc = "command"
      PROVE  ArgumentsInv'
  BY <1>0, <1>1 DEF ArgumentsInv
<1>2. ASSUME NEW a, Refuse(a) PROVE ArgumentsInv'
  BY <1>1, <1>2 DEF Refuse
<1>3. ASSUME Finished PROVE ArgumentsInv'
  BY <1>1, <1>3 DEF Finished
<1>4. ASSUME Run, On("validate") \/ On("guards"),
             refCall.kind = "merge" => branches[refCall.name] # 0,
             refCall.kind = "delete" /\ refCall.option = "-D" => refCall.confirmed
      PROVE  ArgumentsInv'
  <2>1. refCall.kind = "merge" => branches[refCall.name] \in Oids
    BY <1>4 DEF RefsInv, ArgumentsInv
  <2>2. /\ refCall'.kind = refCall.kind /\ refCall'.name = refCall.name
        /\ refCall'.option = refCall.option /\ refCall'.confirmed = refCall.confirmed
        /\ refCall'.oid = IF refCall.kind = "merge" THEN branches[refCall.name] ELSE refCall.oid
    BY <1>4 DEF Run
  <2> QED
    BY <1>0, <1>4, <2>1, <2>2 DEF ArgumentsInv
<1>5. CASE Validate
  <2>1. \/ \E a \in {"protected", "invalid"} : Refuse(a)
        \/ refCall' = [refCall EXCEPT !.pc = "guards"]
        \/ /\ Run /\ refCall.kind = "merge" => branches[refCall.name] # 0
           /\ refCall.kind = "delete" /\ refCall.option = "-D" => refCall.confirmed
    BY <1>5 DEF Validate
  <2>2. CASE refCall' = [refCall EXCEPT !.pc = "guards"]
    BY <1>1, <2>2
  <2> QED
    BY <1>2, <1>4, <1>5, <2>1, <2>2 DEF Validate
<1>6. CASE Guards
  <2>1. Run \/ \E a : Refuse(a)
    BY <1>6 DEF Guards
  <2>2. refCall.kind \in {"reset", "reword"}
    BY <1>6 DEF Guards, On
  <2> QED
    BY <1>2, <1>4, <1>6, <2>1, <2>2 DEF Guards
<1>7. CASE CommandFails
  BY <1>2, <1>7 DEF CommandFails
<1>8. CASE BranchCommand \/ TagCommand \/ ResetCommand \/ RewordCommand
  BY <1>3, <1>8 DEF BranchCommand, TagCommand, ResetCommand, RewordCommand
<1>9. CASE CommitCommand
  BY <1>2, <1>3, <1>9 DEF CommitCommand
<1>10. CASE Replied
  BY <1>10 DEF Replied, NoRequest, ArgumentsInv
<1>11. ASSUME NEW kind, NEW name, NEW oid, NEW option, NEW confirmed, NEW mainline,
              RefCall(kind, name, oid, option, confirmed, mainline),
              kind \in {"create", "switch", "rename", "delete", "upstream", "merge"} => name \in Branches,
              kind = "rename" => option \in Branches,
              kind = "delete" => option \in {"-d", "-D"},
              kind \in {"create", "detach", "tag", "pick", "revert", "reset", "reword"} => oid \in Oids
       PROVE  ArgumentsInv'
  <2>1. /\ refCall'.kind = kind /\ refCall'.name = name /\ refCall'.option = option
        /\ refCall'.oid = oid /\ refCall'.pc = "validate"
    BY <1>11 DEF RefCall, NoRequest
  <2> QED
    BY <1>0, <1>11, <2>1 DEF ArgumentsInv
<1>12. CASE RefClient
  <2>1. ASSUME NEW b \in Branches, CheckoutBranch(b) \/ SetUpstream(b) \/ MergeBranch(b)
        PROVE  ArgumentsInv'
    BY <1>11, <2>1 DEF CheckoutBranch, SetUpstream, MergeBranch
  <2>2. ASSUME NEW b \in Branches, NEW new \in Branches, RenameBranch(b, new)
        PROVE  ArgumentsInv'
    BY <1>11, <2>2 DEF RenameBranch
  <2>3. ASSUME NEW b \in Branches, NEW force, NEW ok, DeleteBranch(b, force, ok)
        PROVE  ArgumentsInv'
    BY <1>11, <2>3 DEF DeleteBranch
  <2>4. ASSUME NEW b \in Branches, NEW c \in Oids, NEW option, CreateBranch(b, c, option)
        PROVE  ArgumentsInv'
    BY <1>11, <2>4 DEF CreateBranch
  <2>5. ASSUME NEW c \in Oids, CheckoutCommit(c) \/ RewordCommit(c)
        PROVE  ArgumentsInv'
    BY <1>11, <2>5 DEF CheckoutCommit, RewordCommit
  <2>6. ASSUME NEW c \in Oids, NEW t \in Tags, CreateTag(t, c)
        PROVE  ArgumentsInv'
    BY <1>11, <2>6 DEF CreateTag
  <2>7. ASSUME NEW c \in Oids, NEW m, CherryPick(c, m) \/ RevertCommit(c, m)
        PROVE  ArgumentsInv'
    BY <1>11, <2>7 DEF CherryPick, RevertCommit
  <2>8. ASSUME NEW c \in Oids, NEW mode, NEW ok, ResetToCommit(c, mode, ok)
        PROVE  ArgumentsInv'
    BY <1>11, <2>8 DEF ResetToCommit
  <2> QED
    BY <1>12, <2>1, <2>2, <2>3, <2>4, <2>5, <2>6, <2>7, <2>8 DEF RefClient
<1>13. CASE Aside
  <2>1. CASE refCall = NoRequest
    BY <1>1, <1>13, <2>1 DEF Aside
  <2>2. CASE refCall # NoRequest
    BY <1>1, <1>13, <2>2 DEF Aside
  <2> QED
    BY <2>1, <2>2
<1>14. CASE UNCHANGED refCall
  BY <1>1, <1>14
<1> QED
  BY <1>5, <1>6, <1>7, <1>8, <1>9, <1>10, <1>12, <1>13, <1>14
  DEF RefNext, RequestStep, AsideSwitch, AsideCommit, OperationEnds, refVars

LEMMA HistoryStep == HistoryInv /\ [RefNext]_refVars => HistoryInv'
  BY GraphStep, RefsStep, RefCallStep, ArgumentsStep DEF HistoryInv

-----------------------------------------------------------------------------
(***************************************************************************)
(* No commit is lost.                                                      *)
(***************************************************************************)
LEMMA CommitLeadsToItself == \A x \in Oids : GraphInv => x \in Ancestors[x]
  BY AncestorsAreAncestry, AncestryOfCommit DEF GraphInv, Oids

LEMMA ReachedFromNothing == Reaches(0) = {}
  BY DEF Reaches

(* What a commit leads to is led to by every ref that leads to the commit. *)
LEMMA Covered ==
    ASSUME GraphInv, GraphInv', Grown, NEW c \in Oids, NEW d \in Oids', d \in Refs', c \in Ancestors'[d]
    PROVE  Reaches(c) \subseteq Reachable'
<1>1. /\ Ordered(graph) /\ Ordered(graph') /\ Len(graph) <= Len(graph')
      /\ \A i \in 1..Len(graph) : graph'[i] = graph[i]
  BY DEF GraphInv, Grown, Oids
<1>2. Ancestry(graph, Len(graph), Ancestors)
  BY <1>1, AncestorsAreAncestry
<1>3. Ancestry(graph', Len(graph'), Ancestors')
  <2>1. (Ordered(graph) => Ancestry(graph, Len(graph), Ancestors))'
    BY AncestorsAreAncestry, PTL
  <2> QED
    BY <1>1, <2>1
<1> DEFINE a == Ancestors
           b == Ancestors'
           g == graph
           h == graph'
<1>4. Ordered(g) /\ Ordered(h) /\ Len(g) <= Len(h) /\ (\A i \in 1..Len(g) : h[i] = g[i])
      /\ Ancestry(g, Len(g), a) /\ Ancestry(h, Len(h), b) /\ c \in 1..Len(g) /\ d \in 1..Len(h) /\ c \in b[d]
  BY <1>1, <1>2, <1>3 DEF Oids
<1>5. Reaches(c) = a[c] \/ Reaches(c) = {}
  BY DEF Reaches
<1>6. b[d] \subseteq Reachable'
  <2>1. d # 0
    BY <1>4 DEF Ordered
  <2>2. Reaches(d)' = b[d]
    BY <2>1 DEF Reaches
  <2> QED
    BY <2>2 DEF Reachable
<1> HIDE DEF a, b, g, h
<1>7. b[c] = a[c]
  BY <1>4, AncestryOfPrefix
<1>8. b[c] \subseteq b[d]
  BY <1>4, AncestryOfCommit
<1> QED
  BY <1>5, <1>6, <1>7, <1>8

LEMMA RefsPointAtCommits == RefsInv => Refs \subseteq {0} \cup Oids
  BY HeadIsCommit DEF RefsInv, Refs

LEMMA RefsAreCommits ==
    ASSUME RefsInv, NEW b \in Branches
    PROVE  branches[b] \in {0} \cup Oids /\ tracking[b] \in {0} \cup Oids
  BY DEF RefsInv

(* Only the commit that a detached HEAD is on may be lost.                 *)
LEMMA Survival ==
    ASSUME HistoryInv, HistoryInv', Grown, UNCHANGED tracking,
           \A t \in Tags : tags[t] # 0 => tags'[t] = tags[t],
           \A b \in Branches : branches[b] # 0 => \E d \in Refs' : d # 0 /\ branches[b] \in Ancestors'[d]
    PROVE  \/ Reachable \subseteq Reachable'
           \/ at.branch = "none" /\ Reachable \ Reachable' \subseteq Reaches(at.oid)
<1> USE DEF HistoryInv
<1>0. Oids \subseteq Oids'
  BY MoreCommits
<1>1. Refs' \subseteq {0} \cup Oids'
  <2>1. RefsInv'
    OBVIOUS
  <2>2. (RefsInv => Refs \subseteq {0} \cup Oids)'
    BY RefsPointAtCommits, PTL
  <2> QED
    BY <2>1, <2>2
<1>2. ASSUME NEW c \in Oids, c \in Refs' PROVE Reaches(c) \subseteq Reachable'
  <2>1. (\A x \in Oids : GraphInv => x \in Ancestors[x])'
    BY CommitLeadsToItself, PTL
  <2>2. c \in Oids' /\ c \in Ancestors'[c]
    BY <1>0, <1>2, <2>1
  <2> QED
    BY <1>2, <2>2, Covered
<1>3. ASSUME NEW b \in Branches PROVE Reaches(branches[b]) \subseteq Reachable'
  <2>1. CASE branches[b] = 0
    BY <2>1, ReachedFromNothing
  <2>2. CASE branches[b] # 0
    <3>1. PICK d \in Refs' : d # 0 /\ branches[b] \in Ancestors'[d]
      BY <2>2
    <3>2. d \in Oids' /\ branches[b] \in Oids
      BY <1>1, <2>2, <3>1, RefsAreCommits
    <3> QED
      BY <3>1, <3>2, Covered
  <2> QED
    BY <2>1, <2>2
<1>4. ASSUME NEW b \in Branches PROVE Reaches(tracking[b]) \subseteq Reachable'
  <2>1. CASE tracking[b] = 0
    BY <2>1, ReachedFromNothing
  <2>2. CASE tracking[b] # 0
    <3>1. tracking[b] \in Refs' /\ tracking[b] \in Oids
      BY <2>2, RefsAreCommits DEF Refs
    <3> QED
      BY <1>2, <3>1
  <2> QED
    BY <2>1, <2>2
<1>5. ASSUME NEW t \in Tags PROVE Reaches(tags[t]) \subseteq Reachable'
  <2>1. CASE tags[t] = 0
    BY <2>1, ReachedFromNothing
  <2>2. CASE tags[t] # 0
    <3>1. tags[t] \in Refs' /\ tags[t] \in Oids
      BY <2>2 DEF Refs, RefsInv
    <3> QED
      BY <1>2, <3>1
  <2> QED
    BY <2>1, <2>2
<1>6. ASSUME NEW x \in Reachable, x \notin Reachable'
      PROVE  x \in Reaches(HeadOid)
  BY <1>3, <1>4, <1>5, <1>6 DEF Reachable, Refs
<1>7. CASE at.branch = "none"
  BY <1>6, <1>7 DEF HeadOid
<1>8. CASE at.branch # "none"
  <2>1. Reaches(HeadOid) \subseteq Reachable'
    BY <1>3, <1>8, HeadIsCommit DEF HeadOid
  <2> QED
    BY <1>6, <2>1
<1> QED
  BY <1>7, <1>8

(* Every operation but a reset, a confirmed deletion and a reword leaves   *)
(* each branch's commit under some ref.                                    *)
LEMMA BranchCommits ==
    ASSUME HistoryInv, HistoryInv', Grown, RequestStep,
           refCall.kind \notin {"reset", "reword"},
           ~(refCall.kind = "delete" /\ refCall.option = "-D" /\ refCall.confirmed),
           NEW m \in Branches, branches[m] # 0
    PROVE  \E d \in Refs' : d # 0 /\ branches[m] \in Ancestors'[d]
<1> USE DEF HistoryInv
<1>0. Oids \subseteq Oids' /\ branches[m] \in Oids /\ branches[m] \in Ancestors[branches[m]]
      /\ branches[m] \in Ancestors'[branches[m]]
  <2>1. Oids \subseteq Oids' /\ branches[m] \in Oids
    BY MoreCommits, RefsAreCommits
  <2>2. (\A x \in Oids : GraphInv => x \in Ancestors[x])'
    BY CommitLeadsToItself, PTL
  <2> QED
    BY <2>1, <2>2, CommitLeadsToItself
<1>1. ASSUME NEW x \in Branches, branches'[x] = branches[m] PROVE branches[m] \in Refs'
  <2>1. branches'[x] \in Refs'
    BY DEF Refs
  <2> QED
    BY <1>1, <2>1
<1>2. CASE \E x \in Branches : branches'[x] = branches[m]
  BY <1>0, <1>1, <1>2
<1>3. CASE BranchCommand
  <2>0. UNCHANGED graph /\ UNCHANGED tracking /\ Ancestors' = Ancestors
    BY <1>3 DEF BranchCommand, Ancestors, Oids, Parents
  <2>1. CASE refCall.kind \in {"create", "switch", "upstream", "detach"}
    <3>1. branches'[m] = branches[m]
      BY <1>3, <2>1 DEF BranchCommand, SwitchTo, RefsInv
    <3> QED
      BY <1>2, <3>1
  <2>2. CASE refCall.kind = "rename"
    <3>1. /\ refCall.name \in Branches /\ refCall.option \in Branches
          /\ branches[refCall.name] # 0 /\ branches[refCall.option] = 0
          /\ branches' = [branches EXCEPT ![refCall.option] = branches[refCall.name], ![refCall.name] = 0]
      BY <1>3, <2>2 DEF BranchCommand, ArgumentsInv
    <3>2. m # refCall.name => branches'[m] = branches[m]
      BY <3>1 DEF RefsInv
    <3>3. branches'[refCall.option] = branches[refCall.name]
      BY <3>1 DEF RefsInv
    <3> QED
      BY <1>2, <3>1, <3>2, <3>3
  <2>3. CASE refCall.kind = "delete"
    <3> DEFINE b == refCall.name
               by == IF upstream[b] /\ tracking[b] # 0 THEN tracking[b] ELSE HeadOid
    <3>1. /\ refCall.option = "-d" /\ b \in Branches /\ at.branch # b /\ at' = at
          /\ branches[b] \in Reaches(by)
          /\ branches' = [branches EXCEPT ![b] = 0]
      <4>1. refCall.option = "-d" /\ b \in Branches
        BY <1>3, <2>3 DEF BranchCommand, On, ArgumentsInv
      <4> QED
        BY <1>3, <2>3, <4>1 DEF BranchCommand
    <3>2. CASE m # b
      <4>1. branches'[m] = branches[m]
        BY <3>1, <3>2 DEF RefsInv
      <4> QED
        BY <1>2, <4>1
    <3>3. CASE m = b
      <4>1. by # 0 /\ branches[m] \in Ancestors'[by]
        BY <2>0, <3>1, <3>3 DEF Reaches
      <4>2. HeadOid' = HeadOid
        BY <3>1, HeadIsCommit DEF HeadOid, RefsInv
      <4>3. by \in Refs'
        BY <2>0, <3>1, <4>2 DEF Refs
      <4> QED
        BY <4>1, <4>3
    <3> QED
      BY <3>2, <3>3
  <2> QED
    BY <1>3, <2>1, <2>2, <2>3 DEF BranchCommand
<1>4. CASE CommitCommand
  <2>1. CASE UNCHANGED <<graph, branches, at>>
    BY <1>2, <2>1
  <2>2. ASSUME NEW c, MoveHead(c), c # 0, HeadOid # 0 => HeadOid \in Ancestors'[c]
        PROVE  \E d \in Refs' : d # 0 /\ branches[m] \in Ancestors'[d]
    <3>1. CASE m # at.branch
      <4>1. branches'[m] = branches[m]
        BY <2>2, <3>1 DEF MoveHead, RefsInv
      <4> QED
        BY <1>2, <4>1
    <3>2. CASE m = at.branch
      <4>1. branches'[m] = c /\ HeadOid = branches[m]
        BY <2>2, <3>2, RefAssumption DEF MoveHead, RefsInv, HeadOid
      <4>2. c \in Refs'
        BY <4>1 DEF Refs
      <4> QED
        BY <2>2, <4>1, <4>2
    <3> QED
      BY <3>1, <3>2
  <2>3. CASE /\ MoveHead(refCall.oid) /\ UNCHANGED graph /\ refCall.oid \in Oids
             /\ HeadOid \in Reaches(refCall.oid) \cup {0}
    <3>1. Ancestors' = Ancestors
      BY <2>3 DEF Ancestors, Oids, Parents
    <3>2. refCall.oid # 0
      BY <2>3 DEF Oids, GraphInv, Ordered
    <3>3. HeadOid # 0 => HeadOid \in Ancestors'[refCall.oid]
      BY <2>3, <3>1, <3>2 DEF Reaches
    <3> QED
      BY <2>2, <2>3, <3>2, <3>3
  <2>4. ASSUME HeadOid # 0, HeadOid \in Oids, refCall.oid \in Oids,
               NEW ps \in {<<HeadOid>>, <<HeadOid, refCall.oid>>},
               NewCommit(ps, Len(graph) + 1, Len(graph) + 1)
        PROVE  \E d \in Refs' : d # 0 /\ branches[m] \in Ancestors'[d]
    <3> DEFINE new == Len(graph) + 1
               b == Ancestors'
               h == graph'
    <3>1. ToSet(ps) \subseteq Oids /\ HeadOid \in ToSet(ps)
      <4>1. ToSet(<<HeadOid>>) = {HeadOid} /\ ToSet(<<HeadOid, refCall.oid>>) = {HeadOid, refCall.oid}
        BY SetOfParents, Zenon
      <4> QED
        BY <2>4, <4>1
    <3>2. /\ Len(graph) \in Nat /\ Len(h) = new /\ h[new].parents = ps
      BY <2>4, <3>1, CommitAdded DEF GraphInv, Ordered
    <3>3. Ancestry(h, Len(h), b)
      <4>1. (Ordered(graph) => Ancestry(graph, Len(graph), Ancestors))'
        BY AncestorsAreAncestry, PTL
      <4> QED
        BY <4>1 DEF GraphInv
    <3>4. HeadOid \in b[HeadOid]
      <4>1. (\A x \in Oids : GraphInv => x \in Ancestors[x])'
        BY CommitLeadsToItself, PTL
      <4> QED
        BY <1>0, <2>4, <4>1
    <3> HIDE DEF b, h
    <3>5. b[new] = {new} \cup UNION {b[p] : p \in ToSet(ps)}
      BY <3>2, <3>3 DEF Ancestry
    <3>6. HeadOid \in b[new] /\ new # 0
      BY <3>1, <3>2, <3>4, <3>5
    <3>7. MoveHead(new)
      BY <2>4 DEF NewCommit
    <3> QED
      BY <2>2, <3>6, <3>7 DEF b
  <2> QED
    BY <1>4, <2>1, <2>3, <2>4, Committing
<1>5. CASE UNCHANGED branches
  BY <1>2, <1>5
<1> QED
  BY <1>3, <1>4, <1>5 DEF RequestStep, Validate, Guards, CommandFails, TagCommand, ResetCommand,
     RewordCommand, Replied, Still, refState

(* A commit that a ref leads to is still led to after every step of an     *)
(* operation, except by a reset, a confirmed deletion and a reword, and    *)
(* except what only a detached HEAD that is left led to.                   *)
THEOREM CommitsAreNotLost == RefSpec => CommitsSurvive
<1>1. HistoryInv /\ HistoryInv' /\ [RefNext]_refVars =>
        [RequestStep =>
            \/ Reachable \subseteq Reachable'
            \/ refCall.kind \in {"reset", "reword"}
            \/ refCall.kind = "delete" /\ refCall.option = "-D" /\ refCall.confirmed
            \/ at.branch = "none" /\ Reachable \ Reachable' \subseteq Reaches(at.oid)]_refVars
  <2> SUFFICES ASSUME HistoryInv, HistoryInv', [RefNext]_refVars, RequestStep,
                      refCall.kind \notin {"reset", "reword"},
                      ~(refCall.kind = "delete" /\ refCall.option = "-D" /\ refCall.confirmed)
               PROVE  \/ Reachable \subseteq Reachable'
                      \/ at.branch = "none" /\ Reachable \ Reachable' \subseteq Reaches(at.oid)
    OBVIOUS
  <2>1. Grown
    BY GraphStep
  <2>2. UNCHANGED tracking
    BY DEF RequestStep, Validate, Guards, CommandFails, BranchCommand, TagCommand, CommitCommand,
       ResetCommand, RewordCommand, Replied, Still, refState
  <2>3. ASSUME NEW t \in Tags, tags[t] # 0 PROVE tags'[t] = tags[t]
    BY <2>3 DEF HistoryInv, RefsInv, RequestStep, Validate, Guards, CommandFails, BranchCommand, SwitchTo,
       TagCommand, CommitCommand, ResetCommand, RewordCommand, Replied, Still, refState
  <2> QED
    BY <2>1, <2>2, <2>3, BranchCommits, Survival
<1> QED
  BY <1>1, HistoryInit, HistoryStep, PTL DEF RefSpec, CommitsSurvive

LEMMA HistoryInvHolds == RefSpec => []HistoryInv
  BY HistoryInit, HistoryStep, PTL DEF RefSpec

(* What commit_action_availability says of a reword is what reword_commit  *)
(* decides itself, for any history.                                        *)
THEOREM RewordOffersAgree == RefSpec => []RewordGuardsAgree
<1>1. HistoryInv => RewordGuardsAgree
  <2> SUFFICES ASSUME HistoryInv, NEW c \in Oids
               PROVE  Enabled("reword", c) <=> RewordRefusal(c) = "none"
    BY DEF RewordGuardsAgree
  <2>1. HeadOid = c => InHeadHistory(c)
    <3>1. c \in Ancestors[c] /\ c # 0
      BY CommitLeadsToItself DEF HistoryInv, GraphInv, Ordered, Oids
    <3> QED
      BY <3>1 DEF InHeadHistory, Reaches
  <2>2. CASE underWay
    BY <2>2 DEF Enabled, RewordRefusal
  <2>3. CASE ~underWay /\ HeadOid = 0
    <3>1. c # 0
      BY DEF HistoryInv, GraphInv, Ordered, Oids
    <3>2. RewordRefusal(c) = "invalid"
      BY <2>3, <3>1 DEF RewordRefusal
    <3> QED
      BY <2>3, <3>2 DEF Enabled
  <2>4. CASE ~underWay /\ HeadOid # 0
    BY <2>1, <2>4 DEF Enabled, RewordRefusal
  <2> QED
    BY <2>2, <2>3, <2>4
<1> QED
  BY <1>1, HistoryInvHolds, PTL

(* No operation moves a branch other than those it names and the one HEAD  *)
(* is on.                                                                  *)
THEOREM NoOtherBranchMoves == RefSpec => OtherBranchesStay
<1>1. HistoryInv /\ [RefNext]_refVars =>
        [RequestStep => \A b \in Branches : branches'[b] # branches[b] =>
            \/ b \in {refCall.name, refCall.option} /\ refCall.kind \in {"create", "switch", "rename", "delete"}
            \/ b = at.branch /\ refCall.kind \in {"merge", "pick", "revert", "reset", "reword"}]_refVars
  <2> SUFFICES ASSUME HistoryInv, RequestStep, NEW b \in Branches, branches'[b] # branches[b]
               PROVE  \/ b \in {refCall.name, refCall.option} /\ refCall.kind \in {"create", "switch", "rename", "delete"}
                      \/ b = at.branch /\ refCall.kind \in {"merge", "pick", "revert", "reset", "reword"}
    OBVIOUS
  <2> USE DEF HistoryInv
  <2>1. CASE BranchCommand
    BY <2>1 DEF BranchCommand, SwitchTo, RefsInv
  <2>2. ASSUME NEW c, MoveHead(c) PROVE b = at.branch
    BY <2>2 DEF MoveHead, RefsInv
  <2>3. CASE CommitCommand
    <3>1. refCall.kind \in {"merge", "pick", "revert"}
      BY <2>3 DEF CommitCommand
    <3>2. \E c : MoveHead(c)
      BY <2>3, Committing DEF NewCommit
    <3> QED
      BY <2>2, <3>1, <3>2
  <2>4. CASE ResetCommand \/ RewordCommand
    BY <2>2, <2>4 DEF ResetCommand, RewordCommand
  <2> QED
    BY <2>1, <2>3, <2>4 DEF RequestStep, Validate, Guards, CommandFails, TagCommand, Replied, Still, refState
<1> QED
  BY <1>1, HistoryInvHolds, PTL DEF RefSpec, OtherBranchesStay

-----------------------------------------------------------------------------
(***************************************************************************)
(* RepositoryTabs: a tab works on the repository it names, and shows one   *)
(* that no other tab does.                                                 *)
(***************************************************************************)
-----------------------------------------------------------------------------
(***************************************************************************)
(* The inductive invariant.                                                *)
(***************************************************************************)
OfTabs(f) == f = [t \in Tabs |-> f[t]]
OpenCall(c) == c \in [stage : {c.stage}, path : {c.path}, answer : {c.answer}]
Shapes ==
    /\ OfTabs(page) /\ OfTabs(runtime) /\ OfTabs(opening)
    /\ \A t \in Tabs : OpenCall(opening[t])
    /\ tabWork \in [kind : {tabWork.kind}, stage : {tabWork.stage}, path : {tabWork.path},
                    target : {tabWork.target}, answer : {tabWork.answer}]

\* An open call was made under the path of its tab, which still has it or is gone,
\* and is answered with the handle of that path.
CallsOfTheirTabs ==
    \A t \in Tabs : opening[t] # NoCall =>
        /\ opening[t].path \in Roots /\ page[t] \in {opening[t].path, "absent"}
        /\ opening[t].answer # NoHandle => opening[t].answer.root = opening[t].path

\* The tab an operation will fill is a start tab, as it was when it was asked for.
TargetIsStart ==
    tabWork.target # NoTab =>
        /\ initializing = "no" /\ busy
        /\ tabWork.target \in Tabs /\ page[tabWork.target] = "start"

TabInv ==
    /\ Shapes
    /\ TabShowsItsRepository
    /\ CallsOfTheirTabs
    /\ TargetIsStart

-----------------------------------------------------------------------------
(***************************************************************************)
(* The steps.                                                              *)
(***************************************************************************)
LEMMA NamesOfPages == "start" \notin Roots /\ "absent" \notin Roots
BY FoldersAssumption

LEMMA NoCallShape == OpenCall(NoCall) /\ NoCall.stage = "none" /\ NoCall.answer = NoHandle
BY DEF NoCall, OpenCall

LEMMA AnsweredShape ==
    ASSUME NEW c, OpenCall(c), NEW h
    PROVE  LET d == [c EXCEPT !.stage = "answered", !.answer = h]
           IN  OpenCall(d) /\ d.path = c.path /\ d.answer = h
BY DEF OpenCall

LEMMA CallShape ==
    ASSUME NEW path
    PROVE  /\ OpenCall(CallFor(path)) /\ CallFor(path).path = path
           /\ CallFor(path).answer = NoHandle
BY DEF CallFor, OpenCall

\* Where the tabs, their handles and their calls stay, only the target can change.
LEMMA TabsStay ==
    ASSUME TabInv, UNCHANGED <<page, runtime, opening>>, TargetIsStart',
           tabWork' \in [kind : {tabWork'.kind}, stage : {tabWork'.stage}, path : {tabWork'.path},
                         target : {tabWork'.target}, answer : {tabWork'.answer}]
    PROVE  TabInv'
BY DEF TabInv, Shapes, OfTabs, OpenCall, TabShowsItsRepository, CallsOfTheirTabs

LEMMA WorkStays ==
    ASSUME TabInv, UNCHANGED <<page, runtime, opening, tabWork, busy>>,
           initializing = "no" => initializing' = "no"
    PROVE  TabInv'
<1>1. TargetIsStart'
  BY DEF TabInv, TargetIsStart
<1> QED BY <1>1, TabsStay DEF TabInv, Shapes

LEMMA WorkStarts ==
    ASSUME TabInv, NEW kind, NEW path, NEW target, StartWork(kind, path, target),
           UNCHANGED <<page, runtime, opening, initializing>>,
           target # NoTab => initializing = "no" /\ target \in Tabs /\ page[target] = "start"
    PROVE  TabInv'
<1>1. tabWork' = [kind |-> kind, stage |-> "called", path |-> path, target |-> target,
                  answer |-> NoHandle]
  BY DEF StartWork
<1>2. TargetIsStart'
  BY <1>1 DEF TargetIsStart, StartWork
<1> QED BY <1>1, <1>2, TabsStay

\* A tab comes forward, and the start tab that asked for it goes.
LEMMA RevealHolds ==
    ASSUME TabInv, NEW t, NEW target, Reveal(t, target), UNCHANGED opening,
           tabWork' = NoWork \/ (tabWork' = tabWork /\ tabWork.target = NoTab)
    PROVE  TabInv'
<1>1. tabWork'.target = NoTab
  <2>1. NoWork.target = NoTab
    BY DEF NoWork
  <2> QED BY <2>1
<1>2. Shapes'
  BY DEF TabInv, Shapes, OfTabs, OpenCall, Reveal, NoWork
<1>3. \A s \in Tabs : page'[s] = "absent" \/ page'[s] = page[s]
  BY DEF TabInv, Shapes, OfTabs, Reveal
<1>4. TabShowsItsRepository'
  BY <1>3, FoldersAssumption DEF TabInv, TabShowsItsRepository, Reveal
<1>5. CallsOfTheirTabs'
  BY <1>3 DEF TabInv, CallsOfTheirTabs
<1> QED BY <1>1, <1>2, <1>4, <1>5 DEF TabInv, TargetIsStart

\* A tab without a call of its own is given a handle, and the root of it as its name.
LEMMA FillHolds ==
    ASSUME TabInv, NEW t \in Tabs, NEW h, Fill(t, h), opening[t] = NoCall,
           UNCHANGED opening, tabWork' = NoWork
    PROVE  TabInv'
<1>1. Shapes'
  BY DEF TabInv, Shapes, OfTabs, OpenCall, Fill, NoWork
<1>2. /\ page'[t] = h.root /\ runtime'[t] = h
      /\ \A s \in Tabs \ {t} : page'[s] = page[s] /\ runtime'[s] = runtime[s]
  BY DEF TabInv, Shapes, OfTabs, Fill
<1>3. TabShowsItsRepository'
  BY <1>2 DEF TabInv, TabShowsItsRepository
<1>4. CallsOfTheirTabs'
  BY <1>2 DEF TabInv, CallsOfTheirTabs
<1>5. tabWork'.target = NoTab
  BY DEF NoWork
<1> QED BY <1>1, <1>3, <1>4, <1>5 DEF TabInv, TargetIsStart

\* openRepositoryPath, for a start tab or for none.
LEMMA OpenPathHolds ==
    ASSUME TabInv, NEW path, NEW target, OpenPath(path, target),
           target # NoTab => initializing = "no" /\ target \in Tabs /\ page[target] = "start"
    PROVE  TabInv'
<1>1. CASE Holding(path) # {}
  <2>1. /\ \E t : Reveal(t, target)
        /\ UNCHANGED <<opening, tabWork>> /\ tabWork.target = NoTab
    BY <1>1 DEF OpenPath, TabInv, TargetIsStart
  <2> QED BY <2>1, RevealHolds
<1>2. CASE Holding(path) = {}
  BY <1>2, WorkStarts DEF OpenPath
<1> QED BY <1>1, <1>2

\* One call is answered, or made by a tab of its own path.
LEMMA CallHolds ==
    ASSUME TabInv, NEW t \in Tabs, NEW c,
           opening' = [opening EXCEPT ![t] = c], OpenCall(c),
           UNCHANGED <<page, runtime, tabWork, busy, initializing>>,
           c.path \in Roots, page[t] \in {c.path, "absent"},
           c.answer # NoHandle => c.answer.root = c.path
    PROVE  TabInv'
<1>1. Shapes'
  BY DEF TabInv, Shapes, OfTabs
<1>2. opening'[t] = c /\ \A s \in Tabs \ {t} : opening'[s] = opening[s]
  BY DEF TabInv, Shapes, OfTabs
<1>3. CallsOfTheirTabs'
  BY <1>2 DEF TabInv, CallsOfTheirTabs
<1> QED BY <1>1, <1>3 DEF TabInv, TabShowsItsRepository, TargetIsStart

\* The rest of an operation: reveal, adopt, or nothing.
LEMMA FinishHolds == ASSUME TabInv, FinishWork PROVE TabInv'
<1> DEFINE h == tabWork.answer
           target == tabWork.target
<1>1. tabWork' = NoWork /\ UNCHANGED <<opening, initializing>>
  BY DEF FinishWork
<1>2. CASE UNCHANGED <<page, runtime>>
  <2>1. TargetIsStart'
    BY <1>1 DEF TargetIsStart, NoWork
  <2>2. NoWork \in [kind : {NoWork.kind}, stage : {NoWork.stage}, path : {NoWork.path},
                    target : {NoWork.target}, answer : {NoWork.answer}]
    BY DEF NoWork
  <2> QED BY <1>1, <1>2, <2>1, <2>2, TabsStay
<1>3. ASSUME NEW t, Reveal(t, target) PROVE TabInv'
  BY <1>1, <1>3, RevealHolds
<1>4. CASE Adopt(h, target)
  <2>1. CASE target # NoTab
    <3>1. target \in Tabs /\ opening[target] = NoCall
      BY <2>1, FoldersAssumption DEF TabInv, TargetIsStart, CallsOfTheirTabs
    <3> QED BY <1>1, <1>4, <2>1, <3>1, FillHolds DEF Adopt
  <2>2. CASE target = NoTab
    <3>1. PICK t \in Fresh : Fill(t, h)
      BY <1>4, <2>2 DEF Adopt
    <3> QED BY <1>1, <3>1, FillHolds DEF Fresh
  <2> QED BY <2>1, <2>2
<1> QED BY <1>2, <1>3, <1>4 DEF FinishWork

\* One tab gets another page without a repository to work on.
LEMMA PageChanges ==
    ASSUME TabInv, NEW t \in Tabs, NEW p \in {"start", "absent"},
           page' = [page EXCEPT ![t] = p], OfTabs(runtime'),
           \A s \in Tabs \ {t} : runtime'[s] = runtime[s],
           p = "start" => opening[t] = NoCall,
           UNCHANGED <<opening, tabWork, busy, initializing>>, ~ busy
    PROVE  TabInv'
<1>1. Shapes'
  BY DEF TabInv, Shapes, OfTabs, OpenCall
<1>2. page'[t] = p /\ \A s \in Tabs \ {t} : page'[s] = page[s]
  BY DEF TabInv, Shapes, OfTabs
<1>3. TabShowsItsRepository'
  BY <1>2, NamesOfPages DEF TabInv, TabShowsItsRepository
<1>4. CallsOfTheirTabs'
  BY <1>2 DEF TabInv, CallsOfTheirTabs
<1> QED BY <1>1, <1>3, <1>4 DEF TabInv, TargetIsStart

\* The stored workspace replaces what is there, and calls for its repositories.
LEMMA LoadHolds == ASSUME TabInv, LoadState PROVE TabInv'
<1>1. /\ OfTabs(page') /\ OfTabs(runtime') /\ OfTabs(opening')
      /\ \A t \in Tabs : runtime'[t] = NoHandle
      /\ \A t \in Tabs : opening'[t] = IF page'[t] \in Roots THEN CallFor(page'[t]) ELSE NoCall
  BY DEF LoadState, OfTabs
<1>2. \A t \in Tabs : OpenCall(opening'[t])
  BY <1>1, NoCallShape, CallShape
<1>4. CallsOfTheirTabs'
  BY <1>1, CallShape DEF CallsOfTheirTabs
<1>5. TargetIsStart'
  BY DEF LoadState, TabInv, TargetIsStart
<1> QED BY <1>1, <1>2, <1>4, <1>5 DEF TabInv, Shapes, TabShowsItsRepository, LoadState

\* The stored tabs get their handles.
LEMMA StoredHolds == ASSUME TabInv, StoredTabsOpened PROVE TabInv'
<1>1. /\ OfTabs(runtime') /\ OfTabs(opening')
      /\ \A t \in Tabs : runtime'[t] = opening[t].answer /\ opening'[t] = NoCall
      /\ UNCHANGED <<page, busy, tabWork>>
  BY DEF StoredTabsOpened, OfTabs
<1>3. TabShowsItsRepository'
  BY <1>1, NoCallShape, NamesOfPages DEF TabInv, CallsOfTheirTabs, TabShowsItsRepository
<1>4. CallsOfTheirTabs'
  BY <1>1 DEF CallsOfTheirTabs
<1>5. TargetIsStart'
  BY <1>1 DEF TabInv, TargetIsStart, StoredTabsOpened
<1>6. Shapes'
  BY <1>1, NoCallShape DEF TabInv, Shapes, OfTabs
<1> QED BY <1>3, <1>4, <1>5, <1>6 DEF TabInv

\* An answer comes to the tab that asked, if that is still there.
LEMMA OpenedHolds == ASSUME TabInv, NEW t \in Tabs, TabOpened(t) PROVE TabInv'
<1> DEFINE h == opening[t].answer
<1>1. /\ opening' = [opening EXCEPT ![t] = NoCall]
      /\ UNCHANGED <<page, initializing, busy, tabWork>> /\ opening[t] # NoCall
      /\ runtime' = runtime \/ (h # NoHandle /\ runtime' = [runtime EXCEPT ![t] = h])
  BY NoCallShape DEF TabOpened
<1>2. OfTabs(runtime') /\ OfTabs(opening')
  BY <1>1 DEF TabInv, Shapes, OfTabs
<1>3. /\ opening'[t] = NoCall /\ \A s \in Tabs \ {t} : opening'[s] = opening[s]
      /\ \A s \in Tabs : runtime'[s] = runtime[s] \/ (s = t /\ h # NoHandle /\ runtime'[s] = h)
  BY <1>1 DEF TabInv, Shapes, OfTabs
<1>5. TabShowsItsRepository'
  BY <1>1, <1>3, NamesOfPages DEF TabInv, CallsOfTheirTabs, TabShowsItsRepository
<1>6. CallsOfTheirTabs'
  BY <1>1, <1>3 DEF TabInv, CallsOfTheirTabs
<1>7. Shapes' /\ TargetIsStart'
  BY <1>1, <1>2, <1>3, NoCallShape DEF TabInv, Shapes, OfTabs, TargetIsStart
<1> QED BY <1>5, <1>6, <1>7 DEF TabInv

LEMMA TabStepHolds == ASSUME TabInv, [TabNext]_tabVars PROVE TabInv'
<1> USE DEF workspaceVars
<1>1. CASE Bootstrap
  BY <1>1, LoadHolds, WorkStays DEF Bootstrap, CannotLoadState
<1>2. ASSUME NEW f, ChooseRepository(f) PROVE TabInv'
  <2>1. PICK target \in Targets : OpenPath(f, target)
    BY <1>2 DEF ChooseRepository
  <2>2. target # NoTab => initializing = "no" /\ target \in Tabs /\ page[target] = "start"
    BY <1>2 DEF ChooseRepository, Usable, Targets
  <2> QED BY <2>1, <2>2, OpenPathHolds
<1>3. ASSUME NEW f, NEW kind, CloneOrCreate(kind, f) PROVE TabInv'
  <2>1. PICK target \in Targets : StartWork(kind, f, target)
    BY <1>3 DEF CloneOrCreate
  <2>2. target # NoTab => initializing = "no" /\ target \in Tabs /\ page[target] = "start"
    BY <1>3 DEF CloneOrCreate, Usable, Targets
  <2> QED BY <1>3, <2>1, <2>2, WorkStarts DEF CloneOrCreate
<1>4. CASE ReopenClosed
  <2>1. UNCHANGED <<page, runtime, opening, initializing>>
    BY <1>4 DEF ReopenClosed
  <2>2. \/ UNCHANGED <<busy, tabWork>>
        \/ \E path : StartWork("reopen", path, NoTab)
    BY <1>4 DEF ReopenClosed
  <2> QED BY <2>1, <2>2, WorkStarts, WorkStays
<1>5. CASE OpenStartTab
  <2>1. PICK t \in Fresh : page' = [page EXCEPT ![t] = "start"]
    BY <1>5 DEF OpenStartTab
  <2> QED BY <1>5, <2>1, PageChanges DEF OpenStartTab, Fresh, TabInv, Shapes
<1>6. ASSUME NEW t \in Tabs, Select(t) PROVE TabInv'
  BY <1>6, WorkStays DEF Select
<1>7. ASSUME NEW t \in Tabs, CloseTab(t) PROVE TabInv'
  <2>1. /\ OfTabs(runtime') /\ \A s \in Tabs \ {t} : runtime'[s] = runtime[s]
    BY <1>7 DEF CloseTab, TabInv, Shapes, OfTabs
  <2> QED BY <1>7, <2>1, PageChanges DEF CloseTab
<1>8. ASSUME NEW t \in Tabs, OpenTab(t) PROVE TabInv'
  BY <1>8, CallShape, CallHolds DEF OpenTab, OpensItself
<1>9. CASE ServeCalls
  <2>1. /\ UNCHANGED <<page, runtime, opening, initializing, busy>>
        /\ tabWork'.target = tabWork.target
        /\ tabWork' \in [kind : {tabWork'.kind}, stage : {tabWork'.stage}, path : {tabWork'.path},
                         target : {tabWork'.target}, answer : {tabWork'.answer}]
    BY <1>9 DEF ServeCalls, ServeWork, ServeExtras, RefuseWork, TabInv, Shapes
  <2>2. TargetIsStart'
    BY <2>1 DEF TabInv, TargetIsStart
  <2> QED BY <2>1, <2>2, TabsStay
<1>10. CASE OpenAnswer
  BY <1>10, StoredHolds, FinishHolds DEF OpenAnswer
<1>11. ASSUME NEW f, OpenLaunched(f), UNCHANGED launches PROVE TabInv'
  BY <1>11, OpenPathHolds, WorkStays DEF OpenLaunched
<1>12. ASSUME NEW t \in Tabs, ServeTab(t) PROVE TabInv'
  <2>1. PICK h : /\ opening' = [opening EXCEPT ![t].stage = "answered", ![t].answer = h]
                 /\ h # NoHandle => h.root = opening[t].path
    BY <1>12 DEF ServeTab, Registered
  <2> DEFINE c == [opening[t] EXCEPT !.stage = "answered", !.answer = h]
  <2>2. opening' = [opening EXCEPT ![t] = c]
    BY <2>1 DEF TabInv, Shapes, OfTabs
  <2>3. opening[t] # NoCall
    BY <1>12, NoCallShape DEF ServeTab
  <2>4. OpenCall(c) /\ c.path = opening[t].path /\ c.answer = h
    BY AnsweredShape DEF TabInv, Shapes
  <2> HIDE DEF c
  <2> QED BY <1>12, <2>1, <2>2, <2>3, <2>4, CallHolds DEF ServeTab, TabInv, CallsOfTheirTabs
<1>13. ASSUME NEW h \in closes, ServeClose(h) PROVE TabInv'
  BY <1>13, WorkStays DEF ServeClose
<1>14. ASSUME NEW f, Launch(f) PROVE TabInv'
  BY <1>14, OpenPathHolds, WorkStarts, WorkStays DEF Launch
<1>15. CASE UNCHANGED tabVars
  BY <1>15, WorkStays DEF tabVars
<1> QED BY <1>1, <1>2, <1>3, <1>4, <1>5, <1>6, <1>7, <1>8, <1>9, <1>10, <1>11, <1>12, <1>13,
          <1>14, <1>15, OpenedHolds DEF TabNext, Client, CollectSlot

LEMMA TabsStart == ASSUME TabInit PROVE TabInv
<1>1. /\ tabWork \in [kind : {tabWork.kind}, stage : {tabWork.stage}, path : {tabWork.path},
                     target : {tabWork.target}, answer : {tabWork.answer}]
      /\ tabWork.target = NoTab
  BY DEF TabInit, NoWork
<1>2. OfTabs(page) /\ OfTabs(runtime) /\ OfTabs(opening)
  BY DEF TabInit, OfTabs
<1>3. \A t \in Tabs : opening[t] = NoCall /\ runtime[t] = NoHandle
  BY DEF TabInit
<1> QED BY <1>1, <1>2, <1>3, NoCallShape
        DEF TabInv, Shapes, TabShowsItsRepository, CallsOfTheirTabs, TargetIsStart

-----------------------------------------------------------------------------
(***************************************************************************)
(* One tab per repository.                                                 *)
(***************************************************************************)
TabOperations == {"open", "clone", "create", "reopen"}

\* An operation at work is about a folder, and its answer about a repository; the one
\* that reopens a closed tab is about a repository that no tab shows until it is done.
TabWorkInv ==
    /\ page \in [Tabs -> Roots \cup {"start", "absent"}]
    /\ closedTabs \in Seq(Roots)
    /\ tabWork # NoWork => tabWork.kind \in TabOperations /\ tabWork.path \in Folders /\ busy
    /\ tabWork.answer # NoHandle => tabWork.answer.root \in Roots
    /\ tabWork.kind = "reopen" =>
          /\ initializing = "no" /\ tabWork.path \in Roots /\ Holding(tabWork.path) = {}
          /\ tabWork.answer # NoHandle => tabWork.answer.root = tabWork.path

LEMMA NoWorkIsNone == NoWork.kind = "none" /\ NoWork.stage = "none" /\ NoWork.answer = NoHandle
BY DEF NoWork

LEMMA ClosedRoots ==
    ASSUME NEW paths \in Seq(Roots), NEW root \in Roots
    PROVE  Append(Without(paths, root), root) \in Seq(Roots)
<1>1. CASE {i \in DOMAIN paths : paths[i] = root} = {}
  BY <1>1 DEF Without
<1>2. CASE {i \in DOMAIN paths : paths[i] = root} # {}
  <2> DEFINE places == {i \in DOMAIN paths : paths[i] = root}
             k == CHOOSE i \in places : TRUE
  <2>1. k \in places /\ k \in 1 .. Len(paths)
    BY <1>2
  <2> HIDE DEF k
  <2>2. SubSeq(paths, 1, k - 1) \in Seq(Roots) /\ SubSeq(paths, k + 1, Len(paths)) \in Seq(Roots)
    BY <2>1
  <2>3. Without(paths, root) = SubSeq(paths, 1, k - 1) \o SubSeq(paths, k + 1, Len(paths))
    BY <1>2 DEF Without, k
  <2> QED BY <2>2, <2>3
<1> QED BY <1>1, <1>2

\* Pages that only go, or become start pages, leave a repository as unshown as it was.
LEMMA WorkGoesOn ==
    ASSUME TabWorkInv, page' \in [Tabs -> Roots \cup {"start", "absent"}], closedTabs' \in Seq(Roots),
           \A t \in Tabs : page'[t] \in {page[t], "start", "absent"},
           UNCHANGED <<busy, tabWork>>, initializing = "no" => initializing' = "no"
    PROVE  TabWorkInv'
BY NamesOfPages DEF TabWorkInv, Holding

LEMMA WorkBegins ==
    ASSUME TabWorkInv, NEW kind \in TabOperations, NEW path \in Folders, NEW target,
           StartWork(kind, path, target), UNCHANGED <<page, initializing>>, closedTabs' \in Seq(Roots),
           kind = "reopen" => initializing = "no" /\ path \in Roots /\ Holding(path) = {}
    PROVE  TabWorkInv'
<1>1. tabWork' = [kind |-> kind, stage |-> "called", path |-> path, target |-> target, answer |-> NoHandle]
      /\ busy' = TRUE
  BY DEF StartWork
<1> QED BY <1>1 DEF TabWorkInv, Holding

LEMMA PathOpens ==
    ASSUME TabWorkInv, NEW path \in Folders, NEW target, OpenPath(path, target)
    PROVE  TabWorkInv'
<1>1. ~ busy /\ tabWork = NoWork /\ UNCHANGED <<initializing, closedTabs>>
  BY DEF OpenPath, TabWorkInv
<1>2. CASE \E t \in Holding(path) : Reveal(t, target) /\ UNCHANGED <<busy, tabWork>>
  <2>1. /\ page' \in [Tabs -> Roots \cup {"start", "absent"}]
        /\ \A t \in Tabs : page'[t] \in {page[t], "start", "absent"}
    BY <1>2 DEF Reveal, TabWorkInv
  <2> QED BY <1>1, <1>2, <2>1, WorkGoesOn DEF TabWorkInv
<1>3. CASE StartWork("open", path, target) /\ UNCHANGED page
  BY <1>1, <1>3, WorkBegins DEF TabOperations, TabWorkInv
<1> QED BY <1>2, <1>3 DEF OpenPath

LEMMA WorkIsServed == ASSUME TabWorkInv, Shapes, ServeCalls PROVE TabWorkInv'
<1>1. /\ UNCHANGED <<page, initializing, busy, closedTabs>>
      /\ tabWork # NoWork
      /\ tabWork'.kind = tabWork.kind /\ tabWork'.path = tabWork.path
  BY NoWorkIsNone DEF ServeCalls, ServeWork, ServeExtras, RefuseWork, Shapes
<1>2. tabWork'.answer = tabWork.answer \/ tabWork'.answer = NoHandle \/ tabWork'.answer.root = RootOf[tabWork.path]
  <2>1. CASE ServeWork
    <3>1. tabWork'.answer = Registered(RootOf[tabWork.path])
      BY <2>1 DEF ServeWork, Shapes
    <3> QED BY <3>1 DEF Registered
  <2>2. CASE ServeExtras
    BY <2>2 DEF ServeExtras, Shapes
  <2>3. CASE RefuseWork
    BY <2>3 DEF RefuseWork, Shapes
  <2> QED BY <2>1, <2>2, <2>3 DEF ServeCalls
<1>3. RootOf[tabWork.path] \in Roots /\ (tabWork.path \in Roots => RootOf[tabWork.path] = tabWork.path)
  BY <1>1, FoldersAssumption DEF TabWorkInv
<1> QED BY <1>1, <1>2, <1>3 DEF TabWorkInv, Holding

LEMMA WorkEnds == ASSUME TabWorkInv, FinishWork PROVE TabWorkInv'
<1>1. tabWork' = NoWork /\ UNCHANGED closedTabs
  BY DEF FinishWork
<1>2. page' \in [Tabs -> Roots \cup {"start", "absent"}]
  BY DEF FinishWork, Adopt, Fill, Reveal, TabWorkInv
<1> QED BY <1>1, <1>2, NoWorkIsNone DEF TabWorkInv

SlotInv == slot \in Folders \cup {""}

LEMMA SlotStepHolds == ASSUME SlotInv, [TabNext]_tabVars PROVE SlotInv'
BY DEF SlotInv, TabNext, Bootstrap, LoadState, CannotLoadState, Client, ChooseRepository, CloneOrCreate,
       ReopenClosed, OpenStartTab, Select, CloseTab, OpenTab, ServeCalls, ServeWork, ServeExtras, RefuseWork,
       OpenAnswer, StoredTabsOpened, FinishWork, CollectSlot, ServeTab, TabOpened, ServeClose, Launch,
       tabVars, launchVars

LEMMA WorkStepHolds == ASSUME TabWorkInv, Shapes, SlotInv, [TabNext]_tabVars PROVE TabWorkInv'
<1> USE DEF workspaceVars
<1>1. CASE Bootstrap
  <2>1. tabWork.kind # "reopen"
    BY <1>1 DEF Bootstrap, LoadState, CannotLoadState, TabWorkInv
  <2>2. UNCHANGED <<busy, tabWork, closedTabs>> /\ page' \in [Tabs -> Roots \cup {"start", "absent"}]
    BY <1>1 DEF Bootstrap, LoadState, CannotLoadState, TabWorkInv
  <2> QED BY <2>1, <2>2 DEF TabWorkInv
<1>2. ASSUME NEW f \in Folders, ChooseRepository(f) PROVE TabWorkInv'
  BY <1>2, PathOpens DEF ChooseRepository
<1>3. ASSUME NEW f \in Folders, NEW kind, CloneOrCreate(kind, f) PROVE TabWorkInv'
  BY <1>3, WorkBegins DEF CloneOrCreate, TabOperations, TabWorkInv
<1>4. CASE ReopenClosed
  <2>1. CASE UNCHANGED <<busy, tabWork>> /\ closedTabs' = << >>
    BY <1>4, <2>1, WorkGoesOn DEF ReopenClosed, TabWorkInv
  <2>2. ASSUME NEW last \in DOMAIN closedTabs, Holding(closedTabs[last]) = {},
               closedTabs' = SubSeq(closedTabs, 1, last - 1), StartWork("reopen", closedTabs[last], NoTab)
        PROVE  TabWorkInv'
    <3>1. last \in 1 .. Len(closedTabs) /\ closedTabs[last] \in Roots /\ closedTabs' \in Seq(Roots)
      BY <2>2 DEF TabWorkInv
    <3> QED BY <1>4, <2>2, <3>1, WorkBegins, FoldersAssumption DEF ReopenClosed, Usable, TabOperations
  <2> QED BY <1>4, <2>1, <2>2 DEF ReopenClosed
<1>5. CASE OpenStartTab
  <2>1. /\ page' \in [Tabs -> Roots \cup {"start", "absent"}]
        /\ \A t \in Tabs : page'[t] \in {page[t], "start", "absent"}
    BY <1>5 DEF OpenStartTab, TabWorkInv
  <2> QED BY <1>5, <2>1, WorkGoesOn DEF OpenStartTab, TabWorkInv
<1>6. ASSUME NEW t \in Tabs, Select(t) \/ OpenTab(t) \/ ServeTab(t) \/ TabOpened(t) PROVE TabWorkInv'
  BY <1>6, WorkGoesOn DEF Select, OpenTab, ServeTab, TabOpened, TabWorkInv
<1>7. ASSUME NEW t \in Tabs, CloseTab(t) PROVE TabWorkInv'
  <2>1. /\ page' \in [Tabs -> Roots \cup {"start", "absent"}]
        /\ \A s \in Tabs : page'[s] \in {page[s], "start", "absent"}
    BY <1>7 DEF CloseTab, TabWorkInv
  <2>2. closedTabs' \in Seq(Roots)
    <3>1. page[t] # "start" => page[t] \in Roots
      BY <1>7 DEF CloseTab, Present, TabWorkInv
    <3> QED BY <1>7, <3>1, ClosedRoots DEF CloseTab, TabWorkInv
  <2> QED BY <1>7, <2>1, <2>2, WorkGoesOn DEF CloseTab
<1>8. CASE ServeCalls
  BY <1>8, WorkIsServed
<1>9. CASE OpenAnswer
  <2>1. CASE StoredTabsOpened
    BY <2>1, WorkGoesOn DEF StoredTabsOpened, TabWorkInv, Holding
  <2> QED BY <1>9, <2>1, WorkEnds DEF OpenAnswer
<1>10. ASSUME NEW f \in Folders, OpenLaunched(f) PROVE TabWorkInv'
  BY <1>10, PathOpens, WorkGoesOn DEF OpenLaunched, TabWorkInv
<1>11. CASE CollectSlot
  BY <1>10, <1>11 DEF CollectSlot, SlotInv
<1>12. ASSUME NEW h \in closes, ServeClose(h) PROVE TabWorkInv'
  BY <1>12, WorkGoesOn DEF ServeClose, TabWorkInv
<1>13. ASSUME NEW f \in Folders, Launch(f) PROVE TabWorkInv'
  BY <1>13, PathOpens, WorkBegins, WorkGoesOn DEF Launch, TabWorkInv, TabOperations
<1>14. CASE UNCHANGED tabVars
  BY <1>14, WorkGoesOn DEF tabVars, TabWorkInv
<1> QED BY <1>1, <1>2, <1>3, <1>4, <1>5, <1>6, <1>7, <1>8, <1>9, <1>11, <1>12, <1>13, <1>14
        DEF TabNext, Client

-----------------------------------------------------------------------------
(***************************************************************************)
(* The theorems.                                                           *)
(***************************************************************************)
\* Whichever open calls of the bootstrap, of tabs, of operations and of launches are
\* answered in which order, a tab of useRepositoryTabs.ts works on the repository
\* it names.
THEOREM TabsShowTheirRepositories == TabSpec => []TabShowsItsRepository
<1>1. TabInv => TabShowsItsRepository
  BY DEF TabInv
<1> QED BY <1>1, TabsStart, TabStepHolds, PTL DEF TabSpec

\* Opening, reopening and launching a folder never show a repository in a second tab of
\* useRepositoryTabs.ts, whether the folder is the repository or is found to be part of
\* it by the answer, and whatever the bootstrap has opened meanwhile: only a clone or a
\* create, which do not search the tabs again, can.
THEOREM RepositoriesAreListedOnce == TabSpec => OneTabPerRepository
<1> DEFINE Apart ==
      \A s, t \in Tabs : s # t /\ page'[s] = page'[t] /\ page'[s] \in Roots =>
          page[s] = page[t] \/ tabWork.kind \in {"clone", "create"}
<1>1. TabSpec => [](TabInv /\ TabWorkInv /\ SlotInv)
  <2>1. TabInit => TabInv /\ TabWorkInv /\ SlotInv
    <3> SUFFICES ASSUME TabInit PROVE TabInv /\ TabWorkInv /\ SlotInv
      OBVIOUS
    <3>1. TabWorkInv
      <4>1. page \in [Tabs -> Roots \cup {"start", "absent"}]
        BY DEF TabInit
      <4>2. closedTabs \in Seq(Roots)
        <5>1. closedTabs = << >>
          BY DEF TabInit
        <5> QED BY <5>1
      <4>3. tabWork = NoWork
        BY DEF TabInit
      <4>4. tabWork.kind = "none" /\ tabWork.answer = NoHandle
        BY <4>3, NoWorkIsNone
      <4> QED BY <4>1, <4>2, <4>3, <4>4 DEF TabWorkInv
    <3>2. SlotInv
      BY DEF TabInit, SlotInv
    <3> QED BY <3>1, <3>2, TabsStart
  <2>2. TabInv /\ TabWorkInv /\ SlotInv /\ [TabNext]_tabVars => (TabInv /\ TabWorkInv /\ SlotInv)'
    BY TabStepHolds, WorkStepHolds, SlotStepHolds DEF TabInv
  <2> QED BY <2>1, <2>2, PTL DEF TabSpec
<1>2. ASSUME TabInv, TabWorkInv, TabNext PROVE Apart
  <2> USE DEF workspaceVars
  <2>1. CASE \A t \in Tabs : page'[t] \in {page[t], "start", "absent"}
    BY <2>1, NamesOfPages
  <2>2. CASE LoadState
    BY <2>2 DEF LoadState
  <2>3. ASSUME NEW t, Fill(t, tabWork.answer), tabWork.stage = "answered", tabWork.answer # NoHandle,
               tabWork.kind = "open" => Holding(tabWork.answer.root) = {}
        PROVE  Apart
    <3>1. tabWork.kind \in TabOperations
      BY <1>2, <2>3, NoWorkIsNone DEF TabWorkInv
    <3>2. tabWork.kind \in {"open", "reopen"} => Holding(tabWork.answer.root) = {}
      BY <1>2, <2>3 DEF TabWorkInv
    <3>3. /\ page'[t] = tabWork.answer.root \/ t \notin Tabs
          /\ \A s \in Tabs \ {t} : page'[s] = page[s]
      BY <1>2, <2>3 DEF Fill, TabWorkInv
    <3> QED BY <3>1, <3>2, <3>3 DEF TabOperations, Holding
  <2>4. ASSUME NEW t, NEW target, Reveal(t, target) PROVE Apart
    <3>1. \A s \in Tabs : page'[s] \in {page[s], "start", "absent"}
      BY <2>4 DEF Reveal
    <3> QED BY <2>1, <3>1
  <2>5. CASE FinishWork
    <3>1. CASE UNCHANGED page
      BY <2>1, <3>1
    <3>2. CASE /\ Adopt(tabWork.answer, tabWork.target)
               /\ tabWork.answer # NoHandle /\ (tabWork.kind = "open" => Holding(tabWork.answer.root) = {})
      BY <2>3, <2>5, <3>2 DEF FinishWork, Adopt
    <3> QED BY <2>4, <2>5, <3>1, <3>2 DEF FinishWork
  <2>6. ASSUME NEW path, NEW target, OpenPath(path, target) PROVE Apart
    BY <2>1, <2>4, <2>6 DEF OpenPath
  <2>7. CASE OpenStartTab
    <3>1. \A t \in Tabs : page'[t] \in {page[t], "start", "absent"}
      BY <1>2, <2>7 DEF OpenStartTab, TabWorkInv
    <3> QED BY <2>1, <3>1
  <2>8. ASSUME NEW t \in Tabs, CloseTab(t) PROVE Apart
    <3>1. \A s \in Tabs : page'[s] \in {page[s], "start", "absent"}
      BY <1>2, <2>8 DEF CloseTab, TabWorkInv
    <3> QED BY <2>1, <3>1
  <2>9. CASE UNCHANGED page
    BY <2>1, <2>9
  <2>10. CASE Client
    <3>1. ASSUME NEW f, ChooseRepository(f) \/ \E kind : CloneOrCreate(kind, f) PROVE Apart
      BY <2>6, <2>9, <3>1 DEF ChooseRepository, CloneOrCreate
    <3>2. ASSUME NEW t \in Tabs, Select(t) \/ CloseTab(t) \/ OpenTab(t) PROVE Apart
      BY <2>8, <2>9, <3>2 DEF Select, OpenTab
    <3> QED BY <2>7, <2>9, <2>10, <3>1, <3>2 DEF Client, ReopenClosed
  <2>11. CASE CollectSlot
    BY <2>6, <2>9, <2>11 DEF CollectSlot, OpenLaunched
  <2>12. ASSUME NEW f, Launch(f) PROVE Apart
    BY <2>6, <2>9, <2>12 DEF Launch
  <2>13. CASE OpenAnswer
    BY <2>5, <2>9, <2>13 DEF OpenAnswer, StoredTabsOpened
  <2>14. CASE Bootstrap \/ ServeCalls
    BY <2>2, <2>9, <2>14 DEF Bootstrap, CannotLoadState, ServeCalls, ServeWork, ServeExtras, RefuseWork
  <2>15. ASSUME NEW t, ServeTab(t) \/ TabOpened(t) \/ ServeClose(t) PROVE Apart
    BY <2>9, <2>15 DEF ServeTab, TabOpened, ServeClose
  <2> QED BY <1>2, <2>10, <2>11, <2>12, <2>13, <2>14, <2>15 DEF TabNext
<1>3. TabInv /\ TabWorkInv /\ SlotInv /\ [TabNext]_tabVars => [Apart]_tabVars
  BY <1>2
<1> QED BY <1>1, <1>3, PTL DEF TabSpec, OneTabPerRepository
=============================================================================
