------------------------- MODULE CoreRegistryProofs -------------------------
(***************************************************************************)
(* Proofs about CoreRegistry, for any number of calls, worktrees, common   *)
(* directories and handles.                                                *)
(***************************************************************************)
EXTENDS CoreRegistry, SequenceTheorems, TLAPS

(***************************************************************************)
(* Type correctness.                                                       *)
(***************************************************************************)
LEMMA TypeInit == Init => TypeOK
BY DEF Init, TypeOK, Ops, Points, Outcomes, NoGeneration, Generation

\* The two ways a step can leave a call: at another point, or with a result.
LEMMA TypeReturn ==
    ASSUME TypeOK, NEW t \in Tasks, NEW result \in Outcomes,
           Return(t, result) \/ ReturnUnlocking(t, result)
    PROVE  /\ pc' \in [Tasks -> Points]
           /\ entry' \in [Tasks -> Entry \cup {NoEntry}]
           /\ expected' \in [Tasks -> Generation]
           /\ outcome' \in [Tasks -> Outcomes]
<1>1. CASE Return(t, result)
  BY <1>1 DEF TypeOK, Points, Return, Goto, NoGeneration, Generation
<1>2. CASE ReturnUnlocking(t, result)
  BY <1>2 DEF TypeOK, Points, ReturnUnlocking, Goto
<1> QED BY <1>1, <1>2

LEMMA TypeProceed ==
    ASSUME TypeOK, NEW t \in Tasks, NEW point \in Points, Proceed(t, point)
    PROVE  /\ pc' \in [Tasks -> Points]
           /\ entry' \in [Tasks -> Entry \cup {NoEntry}]
           /\ expected' \in [Tasks -> Generation]
           /\ outcome' \in [Tasks -> Outcomes]
BY DEF TypeOK, Proceed, Goto

LEMMA TypeBegin ==
    ASSUME TypeOK, NEW t \in Tasks, Begin(t)
    PROVE  TypeOK'
<1> USE DEF TypeOK, Ops, Points, Outcomes, Start, Goto, registryVars, repoVars
<1>1. CASE StartOpen(t)
  BY <1>1 DEF StartOpen
<1>2. ASSUME NEW i \in issued, StartRead(t, i) \/ StartClose(t, i) \/ StartMutate(t, i)
      PROVE  TypeOK'
  <2>1. CASE StartRead(t, i)
    BY <2>1 DEF StartRead
  <2>2. CASE StartClose(t, i)
    BY <2>2 DEF StartClose
  <2>3. CASE StartMutate(t, i)
    BY <2>3 DEF StartMutate
  <2> QED BY <1>2, <2>1, <2>2, <2>3
<1>3. ASSUME NEW i \in issued, RefuseUnconfirmed(t, i)
      PROVE  TypeOK'
  BY <1>3 DEF RefuseUnconfirmed, Return, NoGeneration, Generation
<1>4. ASSUME NEW i \in issued, NEW c \in CommonDirs,
             NEW own \in 0 .. changes[c], NEW other \in 0 .. external[c],
             StartGuarded(t, i, c, [own |-> own, other |-> other])
      PROVE  TypeOK'
  <2>1. [own |-> own, other |-> other] \in Generation
    BY DEF Generation
  <2> QED BY <1>4, <2>1 DEF StartGuarded
<1> QED BY <1>1, <1>2, <1>3, <1>4 DEF Begin

LEMMA TypeRegisterNew ==
    ASSUME TypeOK, NEW t \in Tasks, NEW p \in Paths, NEW i \in Ids, RegisterNew(t, p, i)
    PROVE  TypeOK'
<1>1. CommonDirOf[p] \in CommonDirs
  BY CommonDirAssumption
<1>2. PICK l \in LocksFor(CommonDirOf[p], i) :
         Insert(i, [path |-> p, common |-> CommonDirOf[p], lock |-> l])
  BY DEF RegisterNew
<1>3. l \in Ids
  BY DEF LocksFor, Sharing, TypeOK, Entry
<1>4. [path |-> p, common |-> CommonDirOf[p], lock |-> l] \in Entry
  BY <1>1, <1>3 DEF Entry
<1>5. /\ DOMAIN repositories' = DOMAIN repositories \cup {i}
      /\ repositories' \in [DOMAIN repositories' -> Entry]
  BY <1>2, <1>4 DEF Insert, TypeOK
<1> QED
  BY <1>5 DEF RegisterNew, TypeOK, Return, Goto, repoVars, Points, Outcomes,
     NoGeneration, Generation

\* What a task appends to a queue of tasks, or takes off it, leaves one.
LEMMA QueueSteps ==
    ASSUME NEW S, NEW q \in Seq(S), NEW x \in S
    PROVE  /\ Append(q, x) \in Seq(S)
           /\ Append(q, x) # <<>>
           /\ q # <<>> => Head(Append(q, x)) = Head(q)
           /\ q # <<>> => Tail(q) \in Seq(S)
<1>1. CASE q = <<>>
  BY <1>1, AppendProperties
<1>2. CASE q # <<>>
  <2>1. Len(q) \in Nat /\ Len(q) > 0
    BY <1>2, EmptySeq, LenProperties
  <2>2. Append(q, x)[1] = q[1]
    BY <2>1, AppendProperties
  <2> QED BY <1>2, <2>2, AppendProperties, HeadTailProperties
<1> QED BY <1>1, <1>2

LEMMA TypeAdvance ==
    ASSUME TypeOK, ClonesAreCurrent, HolderIsHead, NEW t \in Tasks, Advance(t)
    PROVE  TypeOK'
<1> USE DEF TypeOK, Ops, Points, Outcomes, Goto, registryVars, repoVars
<1>1. CASE OpenFails(t)
  BY <1>1 DEF OpenFails, Return, NoGeneration, Generation
<1>2. ASSUME NEW p \in Paths, RegisterAgain(t, p)
      PROVE  TypeOK'
  <2>1. PICK i \in EntryAt(p) :
          IF i \in closing
          THEN Return(t, "busy") /\ UNCHANGED target
          ELSE Return(t, "ok") /\ target' = [target EXCEPT ![t] = i]
    BY <1>2 DEF RegisterAgain
  <2>2. i \in Ids
    BY DEF EntryAt
  <2>3. target' \in [Tasks -> Ids \cup {NoId}]
    BY <2>1, <2>2
  <2>4. \E result \in {"busy", "ok"} : Return(t, result)
    BY <2>1
  <2> QED BY <1>2, <2>3, <2>4 DEF RegisterAgain, Return, NoGeneration, Generation
<1>3. ASSUME NEW p \in Paths, NEW i \in Ids, RegisterNew(t, p, i)
      PROVE  TypeOK'
  BY <1>3, TypeRegisterNew
<1>4. CASE LookupFound(t)
  BY <1>4 DEF LookupFound
<1>5. CASE LookupMissing(t)
  BY <1>5 DEF LookupMissing, Return, NoGeneration, Generation
<1>6. CASE CheckClosing(t)
  <2>1. \/ \E result \in {"closed", "ok"} : Return(t, result)
        \/ \E point \in {"swap", "enqueue"} : Proceed(t, point)
    BY <1>6 DEF CheckClosing
  <2>2. {"closed", "ok"} \subseteq Outcomes /\ {"swap", "enqueue"} \subseteq Points
    OBVIOUS
  <2> HIDE DEF Outcomes, Points
  <2> QED BY <1>6, <2>1, <2>2, TypeReturn, TypeProceed DEF CheckClosing
<1>7. CASE SwapClosing(t)
  <2>1. closing' \subseteq issued'
    BY <1>7 DEF SwapClosing, ClonesAreCurrent
  <2>2. Return(t, "closed") \/ Proceed(t, "enqueue")
    BY <1>7 DEF SwapClosing
  <2>3. "closed" \in Outcomes /\ "enqueue" \in Points
    OBVIOUS
  <2> HIDE DEF Outcomes, Points
  <2> QED BY <1>7, <2>1, <2>2, <2>3, TypeReturn, TypeProceed DEF SwapClosing
<1>8. CASE Enqueue(t)
  <2>1. entry[t].lock \in Ids
    BY <1>8 DEF Enqueue, ClonesAreCurrent, ClonePoints, Entry
  <2>2. lockQueue' \in [Ids -> Seq(Tasks)]
    BY <1>8, <2>1, QueueSteps DEF Enqueue
  <2> QED BY <1>8, <2>2 DEF Enqueue, Proceed
<1>9. CASE Acquire(t)
  BY <1>9 DEF Acquire, Proceed
<1>10. CASE Unlock(t)
  <2>1. entry[t].lock \in Ids /\ lockQueue[entry[t].lock] # <<>>
    BY <1>10 DEF Unlock, ClonesAreCurrent, ClonePoints, HoldingPoints, Entry, HolderIsHead, Holds
  <2>2. lockQueue' \in [Ids -> Seq(Tasks)]
    BY <1>10, <2>1, QueueSteps DEF Unlock
  <2> QED BY <1>10, <2>2 DEF Unlock, Return, NoGeneration, Generation
<1>11. CASE RemoveEntry(t)
  BY <1>11 DEF RemoveEntry, ReturnUnlocking
<1>12. CASE RecheckClosing(t) \/ RereadEntry(t) \/ ValidateExpected(t)
  BY <1>12 DEF RecheckClosing, RereadEntry, ValidateExpected, ReturnUnlocking, Proceed
<1>13. CASE FinishOperation(t)
  <2>1. entry[t].common \in CommonDirs
    BY <1>13 DEF FinishOperation, ClonesAreCurrent, ClonePoints, HoldingPoints, Entry
  <2>2. \/ changes' = [changes EXCEPT ![entry[t].common] = @ + 1]
        \/ UNCHANGED changes
    BY <1>13 DEF FinishOperation
  <2>3. changes' \in [CommonDirs -> Nat]
    <3>1. changes[entry[t].common] + 1 \in Nat
      BY <2>1
    <3> QED BY <2>1, <2>2, <3>1
  <2> QED BY <1>13, <2>3 DEF FinishOperation, ReturnUnlocking
<1> QED
  BY <1>1, <1>2, <1>3, <1>4, <1>5, <1>6, <1>7, <1>8, <1>9, <1>10, <1>11, <1>12, <1>13
  DEF Advance

LEMMA TypeExternal ==
    ASSUME TypeOK, NEW c \in CommonDirs, ExternalWrite(c)
    PROVE  TypeOK'
BY DEF TypeOK, ExternalWrite, registryVars


(***************************************************************************)
(* The calls: program points, clones and targets.                          *)
(***************************************************************************)

\* A task that begins a call touches nothing but its own locals.
BeginEffect(t) ==
    /\ UNCHANGED <<repositories, issued, closing, lockQueue, changes, external>>
    /\ pc[t] = "idle"
    /\ pc'[t] \in {"idle", "opening", "lookup"}
    /\ pc'[t] = "lookup" => target'[t] \in issued
    /\ outcome'[t] \in {"none", "protected"}

LEMMA BeginFacts == ASSUME TypeOK, NEW t \in Tasks, Begin(t) PROVE BeginEffect(t)
<1> USE DEF BeginEffect
<1> USE DEF TypeOK, Start, Goto, registryVars, repoVars
<1>1. CASE StartOpen(t)
  BY <1>1 DEF StartOpen
<1>2. ASSUME NEW i \in issued, RefuseUnconfirmed(t, i)
      PROVE  BeginEffect(t)
  BY <1>2 DEF RefuseUnconfirmed, Return
<1>3. ASSUME NEW i \in issued, NEW o \in Ops, Start(t, o, i, "lookup")
      PROVE  BeginEffect(t)
  BY <1>3
<1> QED
  BY <1>1, <1>2, <1>3 DEF Begin, StartRead, StartClose, StartMutate, StartGuarded, Ops

\* No step changes the locals of another task.
LEMMA OthersKeep ==
    ASSUME TypeOK, NEW t \in Tasks, Begin(t) \/ Advance(t), NEW u \in Tasks, u # t
    PROVE  /\ pc'[u] = pc[u] /\ op'[u] = op[u] /\ target'[u] = target[u]
           /\ entry'[u] = entry[u] /\ expected'[u] = expected[u] /\ outcome'[u] = outcome[u]
<1> USE DEF TypeOK, Goto, Return, ReturnUnlocking, Proceed, registryVars, repoVars
<1>1. CASE Begin(t)
  BY <1>1 DEF Begin, StartOpen, StartRead, StartClose, StartMutate, StartGuarded, Start,
     RefuseUnconfirmed
<1>2. CASE OpenFails(t) \/ LookupFound(t) \/ LookupMissing(t)
  BY <1>2 DEF OpenFails, LookupFound, LookupMissing
<1>3. CASE \E p \in Paths : RegisterAgain(t, p) \/ \E i \in Ids : RegisterNew(t, p, i)
  BY <1>3 DEF RegisterAgain, RegisterNew
<1>4. CASE CheckClosing(t) \/ SwapClosing(t)
  BY <1>4 DEF CheckClosing, SwapClosing
<1>5. CASE Enqueue(t) \/ Acquire(t) \/ Unlock(t)
  BY <1>5 DEF Enqueue, Acquire, Unlock
<1>6. CASE RemoveEntry(t) \/ RecheckClosing(t) \/ FinishOperation(t)
  BY <1>6 DEF RemoveEntry, RecheckClosing, FinishOperation
<1>7. CASE RereadEntry(t) \/ ValidateExpected(t)
  BY <1>7 DEF RereadEntry, ValidateExpected
<1> QED BY <1>1, <1>2, <1>3, <1>4, <1>5, <1>6, <1>7 DEF Advance

LEMMA PointsStep ==
    ASSUME TypeOK, PointsFitCalls, NEW t \in Tasks, Begin(t) \/ Advance(t)
    PROVE  PointsFitCalls'
<1> USE DEF TypeOK, PointsFitCalls, Goto, Return, ReturnUnlocking, Proceed
<1>1. CASE Begin(t)
  <2>1. pc'[t] \in {"idle", "opening", "lookup"}
    BY <1>1, BeginFacts DEF BeginEffect
  <2>2. \A u \in Tasks \ {t} : pc'[u] = pc[u] /\ op'[u] = op[u]
    BY OthersKeep
  <2> QED BY <2>1, <2>2
<1>2. CASE OpenFails(t) \/ LookupFound(t) \/ LookupMissing(t)
  BY <1>2 DEF OpenFails, LookupFound, LookupMissing
<1>3. CASE \E p \in Paths : RegisterAgain(t, p) \/ \E i \in Ids : RegisterNew(t, p, i)
  BY <1>3 DEF RegisterAgain, RegisterNew
<1>4. CASE CheckClosing(t) \/ SwapClosing(t)
  BY <1>4 DEF CheckClosing, SwapClosing
<1>5. CASE Enqueue(t) \/ Unlock(t)
  BY <1>5 DEF Enqueue, Unlock
<1>8. CASE Acquire(t)
  <2>1. op[t] = "close" \/ op[t] \in {"mutate", "guarded"}
    BY <1>8 DEF Acquire
  <2>2. pc'[t] = IF op[t] = "close" THEN "removing" ELSE "recheck"
    BY <1>8 DEF Acquire
  <2> QED BY <1>8, <2>1, <2>2, OthersKeep DEF Acquire
<1>6. CASE RemoveEntry(t) \/ RecheckClosing(t) \/ FinishOperation(t)
  BY <1>6 DEF RemoveEntry, RecheckClosing, FinishOperation
<1>7. CASE RereadEntry(t) \/ ValidateExpected(t)
  BY <1>7 DEF RereadEntry, ValidateExpected
<1> QED BY <1>1, <1>2, <1>3, <1>4, <1>5, <1>6, <1>7, <1>8 DEF Advance

LEMMA ClonesStep ==
    ASSUME TypeOK, ClonesAreCurrent, NEW t \in Tasks, Begin(t) \/ Advance(t)
    PROVE  ClonesAreCurrent'
<1> USE DEF TypeOK, ClonesAreCurrent, ClonePoints, HoldingPoints, Goto, Return,
    ReturnUnlocking, Proceed, registryVars
<1>1. CASE Begin(t)
  BY <1>1, BeginFacts, OthersKeep DEF BeginEffect
<1>2. CASE OpenFails(t) \/ LookupFound(t) \/ LookupMissing(t)
  BY <1>2 DEF OpenFails, LookupFound, LookupMissing
<1>3. ASSUME NEW p \in Paths, RegisterAgain(t, p)
      PROVE  ClonesAreCurrent'
  <2>1. UNCHANGED <<repositories, issued>> /\ pc'[t] = "idle"
    BY <1>3 DEF RegisterAgain
  <2>2. \A u \in Tasks \ {t} : pc'[u] = pc[u] /\ target'[u] = target[u] /\ entry'[u] = entry[u]
    BY OthersKeep
  <2> QED BY <2>1, <2>2
<1>4. ASSUME NEW p \in Paths, NEW i \in Ids, RegisterNew(t, p, i)
      PROVE  ClonesAreCurrent'
  BY <1>4 DEF RegisterNew, Insert
<1>5. CASE CheckClosing(t) \/ SwapClosing(t)
  BY <1>5 DEF CheckClosing, SwapClosing
<1>6. CASE Enqueue(t) \/ Acquire(t) \/ Unlock(t)
  <2>1. /\ UNCHANGED <<repositories, issued, target>>
        /\ entry'[t] = entry[t] \/ pc'[t] = "idle"
        /\ pc[t] \in ClonePoints
    BY <1>6 DEF Enqueue, Acquire, Unlock
  <2> QED BY <2>1, OthersKeep
<1>7. CASE RemoveEntry(t)
  BY <1>7 DEF RemoveEntry
<1>8. CASE RecheckClosing(t) \/ FinishOperation(t)
  BY <1>8 DEF RecheckClosing, FinishOperation
<1>9. CASE RereadEntry(t) \/ ValidateExpected(t)
  BY <1>9 DEF RereadEntry, ValidateExpected
<1> QED BY <1>1, <1>2, <1>3, <1>4, <1>5, <1>6, <1>7, <1>8, <1>9 DEF Advance

(***************************************************************************)
(* The lock queues.                                                        *)
(***************************************************************************)

LEMMA HolderStep ==
    ASSUME TypeOK, ClonesAreCurrent, HolderIsHead, NEW t \in Tasks, Begin(t) \/ Advance(t)
    PROVE  HolderIsHead'
<1> USE DEF TypeOK, HolderIsHead, Holds, HoldingPoints, Goto, Return,
    ReturnUnlocking, Proceed
<1>1. CASE Begin(t)
  BY <1>1, BeginFacts, OthersKeep DEF BeginEffect
<1>2. CASE OpenFails(t) \/ LookupFound(t) \/ LookupMissing(t)
  BY <1>2 DEF OpenFails, LookupFound, LookupMissing
<1>3. CASE \E p \in Paths : RegisterAgain(t, p) \/ \E i \in Ids : RegisterNew(t, p, i)
  BY <1>3 DEF RegisterAgain, RegisterNew
<1>4. CASE CheckClosing(t) \/ SwapClosing(t)
  BY <1>4 DEF CheckClosing, SwapClosing
<1>5. CASE Enqueue(t)
  <2>1. ASSUME NEW u \in Tasks, Holds(u)'
        PROVE  /\ lockQueue'[entry[u].lock] # <<>>
               /\ Head(lockQueue'[entry[u].lock]) = u
    <3>1. Holds(u) /\ entry[u] \in Entry
      BY <1>5, <2>1 DEF Enqueue, ClonesAreCurrent, ClonePoints
    <3>2. entry[u].lock \in Ids
      BY <3>1 DEF Entry
    <3>3. lockQueue[entry[u].lock] \in Seq(Tasks)
      BY <3>2
    <3>4. lockQueue[entry[u].lock] # <<>> /\ Head(lockQueue[entry[u].lock]) = u
      BY <3>1
    <3>5. CASE entry[u].lock = entry[t].lock
      <4>1. lockQueue'[entry[u].lock] = Append(lockQueue[entry[u].lock], t)
        BY <1>5, <3>2, <3>5 DEF Enqueue
      <4> DEFINE q == lockQueue[entry[u].lock]
      <4>2. Append(q, t) # <<>> /\ Head(Append(q, t)) = Head(q)
        <5>1. q \in Seq(Tasks) /\ q # <<>>
          BY <3>3, <3>4
        <5> HIDE DEF q
        <5> QED BY <5>1, QueueSteps
      <4> QED BY <3>4, <4>1, <4>2
    <3>6. CASE entry[u].lock # entry[t].lock
      BY <1>5, <3>4, <3>6 DEF Enqueue
    <3> QED BY <3>5, <3>6
  <2> QED BY <1>5, <2>1 DEF Enqueue
<1>6. CASE Acquire(t)
  BY <1>6 DEF Acquire
<1>7. CASE Unlock(t)
  <2>1. ASSUME NEW u \in Tasks, Holds(u)'
        PROVE  lockQueue'[entry[u].lock] = lockQueue[entry[u].lock] /\ u # t /\ Holds(u)
    <3>1. u # t /\ Holds(u) /\ Holds(t)
      BY <1>7, <2>1 DEF Unlock
    <3>2. entry[u].lock # entry[t].lock
      BY <3>1
    <3> QED BY <1>7, <3>1, <3>2 DEF Unlock
  <2> QED BY <1>7, <2>1 DEF Unlock
<1>8. CASE RemoveEntry(t) \/ RecheckClosing(t) \/ FinishOperation(t)
  BY <1>8 DEF RemoveEntry, RecheckClosing, FinishOperation
<1>9. CASE RereadEntry(t) \/ ValidateExpected(t)
  BY <1>9 DEF RereadEntry, ValidateExpected
<1> QED BY <1>1, <1>2, <1>3, <1>4, <1>5, <1>6, <1>7, <1>8, <1>9 DEF Advance

(***************************************************************************)
(* The registry: what register inserts and close removes.                  *)
(***************************************************************************)

RegistryInv ==
    /\ LocksAreIssued
    /\ LocksFollowCommonDirs
    /\ OneHandlePerPath
    /\ RemovedAreClosing

\* Every step but register, the swap of the flag and the removal keeps the map.
LEMMA RegistryFrame ==
    ASSUME NEW t \in Tasks,
           \/ OpenFails(t) \/ LookupFound(t) \/ LookupMissing(t) \/ CheckClosing(t)
           \/ \E p \in Paths : RegisterAgain(t, p)
           \/ Enqueue(t) \/ Acquire(t) \/ Unlock(t)
           \/ RecheckClosing(t) \/ RereadEntry(t) \/ ValidateExpected(t) \/ FinishOperation(t)
    PROVE  UNCHANGED registryVars
BY DEF OpenFails, LookupFound, LookupMissing, CheckClosing, RegisterAgain, Enqueue, Acquire,
   Unlock, RecheckClosing, RereadEntry, ValidateExpected, FinishOperation

LEMMA RegisterKeepsRegistry ==
    ASSUME TypeOK, RegistryInv, NEW t \in Tasks, NEW p \in Paths, NEW i \in Ids,
           RegisterNew(t, p, i)
    PROVE  RegistryInv'
<1> DEFINE c == CommonDirOf[p]
<1>1. PICK l \in LocksFor(c, i) : Insert(i, [path |-> p, common |-> c, lock |-> l])
  BY DEF RegisterNew
<1>2. /\ i \notin issued /\ EntryAt(p) = {}
      /\ issued' = issued \cup {i} /\ UNCHANGED closing
  BY DEF RegisterNew
<1>3. /\ DOMAIN repositories' = DOMAIN repositories \cup {i}
      /\ repositories'[i] = [path |-> p, common |-> c, lock |-> l]
      /\ \A j \in DOMAIN repositories : i # j /\ repositories'[j] = repositories[j]
  BY <1>1, <1>2 DEF Insert, TypeOK
<1>4. /\ l \in issued'
      /\ \A j \in DOMAIN repositories : repositories[j].lock = l <=> repositories[j].common = c
  <2>1. CASE Sharing(c) = {}
    <3>1. l = i
      BY <1>1, <2>1 DEF LocksFor
    <3> QED BY <1>2, <2>1, <3>1 DEF Sharing, RegistryInv, LocksAreIssued
  <2>2. CASE Sharing(c) # {}
    <3>1. PICK k \in Sharing(c) : l = repositories[k].lock
      BY <1>1, <2>2 DEF LocksFor
    <3> QED
      BY <1>2, <3>1 DEF Sharing, RegistryInv, LocksAreIssued, LocksFollowCommonDirs
  <2> QED BY <2>1, <2>2
<1>5. LocksAreIssued'
  BY <1>2, <1>3, <1>4 DEF RegistryInv, LocksAreIssued
<1>6. LocksFollowCommonDirs'
  BY <1>3, <1>4 DEF RegistryInv, LocksFollowCommonDirs
<1>7. OneHandlePerPath'
  BY <1>2, <1>3 DEF RegistryInv, OneHandlePerPath, EntryAt
<1>8. RemovedAreClosing'
  BY <1>2, <1>3 DEF RegistryInv, RemovedAreClosing
<1> QED BY <1>5, <1>6, <1>7, <1>8 DEF RegistryInv

LEMMA RegistryStep ==
    ASSUME TypeOK, RegistryInv, PointsFitCalls, OneCloserPerHandle,
           NEW t \in Tasks, Begin(t) \/ Advance(t)
    PROVE  RegistryInv'
<1> USE DEF RegistryInv, LocksAreIssued, LocksFollowCommonDirs, OneHandlePerPath,
    RemovedAreClosing
<1>1. CASE UNCHANGED registryVars
  BY <1>1 DEF registryVars
<1>2. CASE Begin(t)
  BY <1>1, <1>2, BeginFacts DEF BeginEffect, registryVars
<1>3. ASSUME NEW p \in Paths, NEW i \in Ids, RegisterNew(t, p, i)
      PROVE  RegistryInv'
  BY <1>3, RegisterKeepsRegistry
<1>4. CASE SwapClosing(t)
  BY <1>4 DEF SwapClosing
<1>5. CASE RemoveEntry(t)
  <2>1. target[t] \in closing
    BY <1>5 DEF RemoveEntry, PointsFitCalls, OneCloserPerHandle, Closer
  <2>2. /\ repositories' = [i \in DOMAIN repositories \ {target[t]} |-> repositories[i]]
        /\ UNCHANGED <<issued, closing>>
    BY <1>5 DEF RemoveEntry
  <2> QED BY <2>1, <2>2
<1> QED BY <1>1, <1>2, <1>3, <1>4, <1>5, RegistryFrame DEF Advance

(***************************************************************************)
(* close: at most one goes on, and it finds what it came for.              *)
(***************************************************************************)

LEMMA CloserStep ==
    ASSUME TypeOK, ClonesAreCurrent, PointsFitCalls, RegistryInv, OneCloserPerHandle,
           NEW t \in Tasks, Begin(t) \/ Advance(t)
    PROVE  OneCloserPerHandle'
<1>0. \A u \in Tasks \ {t} : pc'[u] = pc[u] /\ op'[u] = op[u] /\ target'[u] = target[u]
  BY OthersKeep
<1>1. CASE Begin(t)
  <2>1. ~ Closer(t)' /\ UNCHANGED <<repositories, closing>>
    BY <1>1, BeginFacts DEF BeginEffect, Closer
  <2> QED BY <1>0, <2>1 DEF OneCloserPerHandle, Closer
<1>2. CASE Advance(t) /\ Closer(t)' /\ ~ Closer(t)
  <2>1. SwapClosing(t) /\ target[t] \notin closing
    BY <1>2 DEF Advance, OpenFails, RegisterAgain, RegisterNew, LookupFound, LookupMissing,
       CheckClosing, Enqueue, Acquire, Unlock, SwapClosing, RemoveEntry, RecheckClosing,
       RereadEntry, ValidateExpected, FinishOperation, Closer, Goto, Return, Proceed,
       ReturnUnlocking, TypeOK, PointsFitCalls
  <2>2. target[t] \in DOMAIN repositories
    BY <2>1 DEF SwapClosing, ClonesAreCurrent, RegistryInv, RemovedAreClosing
  <2>3. /\ closing' = closing \cup {target[t]}
        /\ UNCHANGED <<repositories, target>>
    BY <2>1 DEF SwapClosing
  <2> QED BY <1>0, <2>1, <2>2, <2>3 DEF OneCloserPerHandle, Closer
<1>3. CASE Advance(t) /\ (Closer(t)' => Closer(t) /\ target'[t] = target[t])
  <2>1. CASE RemoveEntry(t)
    <3>1. Closer(t) /\ ~ Closer(t)'
      BY <2>1 DEF RemoveEntry, ReturnUnlocking, Goto, Closer, PointsFitCalls, TypeOK
    <3>2. \A u \in Tasks \ {t} : Closer(u) => target[u] # target[t]
      BY <3>1 DEF OneCloserPerHandle
    <3>3. /\ DOMAIN repositories' = DOMAIN repositories \ {target[t]}
          /\ UNCHANGED closing
      BY <2>1 DEF RemoveEntry
    <3> QED BY <1>0, <3>1, <3>2, <3>3 DEF OneCloserPerHandle, Closer
  <2>2. CASE ~ RemoveEntry(t)
    <3>1. closing \subseteq closing' /\ DOMAIN repositories \subseteq DOMAIN repositories'
      <4>1. ASSUME NEW p \in Paths, NEW i \in Ids, RegisterNew(t, p, i)
            PROVE  UNCHANGED closing /\ DOMAIN repositories \subseteq DOMAIN repositories'
        BY <4>1 DEF RegisterNew, Insert
      <4>2. CASE SwapClosing(t)
        BY <4>2 DEF SwapClosing
      <4> QED BY <1>3, <2>2, <4>1, <4>2, RegistryFrame DEF Advance, registryVars
    <3> QED BY <1>0, <1>3, <3>1 DEF OneCloserPerHandle, Closer
  <2> QED BY <2>1, <2>2
<1>4. Closer(t)' /\ Closer(t) => target'[t] = target[t]
  BY <1>1 DEF Advance, Begin, OpenFails, RegisterAgain, RegisterNew, LookupFound, LookupMissing,
     CheckClosing, Enqueue, Acquire, Unlock, SwapClosing, RemoveEntry, RecheckClosing,
     RereadEntry, ValidateExpected, FinishOperation, Closer, Goto, Return, TypeOK,
     StartOpen, StartRead, StartClose, StartMutate, StartGuarded, Start, RefuseUnconfirmed
<1> QED BY <1>1, <1>2, <1>3, <1>4

(***************************************************************************)
(* Mutual exclusion follows from one lock per common directory, held by    *)
(* the head of its queue.                                                  *)
(***************************************************************************)

LEMMA HoldersOfOneDirectory ==
    ASSUME ClonesAreCurrent, HolderIsHead, LocksFollowCommonDirs,
           NEW t \in Tasks, NEW u \in Tasks, Holds(t), Holds(u),
           target[t] \in DOMAIN repositories, target[u] \in DOMAIN repositories,
           entry[t].common = entry[u].common
    PROVE  t = u
<1>1. entry[t] = repositories[target[t]] /\ entry[u] = repositories[target[u]]
  BY DEF ClonesAreCurrent, ClonePoints, Holds
<1>2. entry[t].lock = entry[u].lock
  BY <1>1 DEF LocksFollowCommonDirs
<1> QED BY <1>2 DEF HolderIsHead

LEMMA ExclusionFromIInv ==
    ASSUME ClonesAreCurrent, HolderIsHead, LocksFollowCommonDirs, WorkIsOnOpenHandle
    PROVE  MutationExclusion
BY HoldersOfOneDirectory
DEF MutationExclusion, Running, Holds, HoldingPoints, WorkIsOnOpenHandle

(***************************************************************************)
(* The work of mutations and the results of calls.                         *)
(***************************************************************************)

\* A task comes to the points of work only by its second look at the map.
LEMMA WorkBegins ==
    ASSUME TypeOK, NEW t \in Tasks, Begin(t) \/ Advance(t),
           pc'[t] \in {"validating", "running"}
    PROVE  /\ pc[t] \in {"reread", "validating"}
           /\ RereadEntry(t) \/ ValidateExpected(t)
           /\ UNCHANGED <<repositories, changes, target, entry, expected, op>>
BY DEF Advance, Begin, OpenFails, RegisterAgain, RegisterNew, LookupFound, LookupMissing,
   CheckClosing, Enqueue, Acquire, Unlock, SwapClosing, RemoveEntry, RecheckClosing,
   RereadEntry, ValidateExpected, FinishOperation, Goto, Return, ReturnUnlocking, Proceed,
   TypeOK, StartOpen, StartRead, StartClose, StartMutate, StartGuarded, Start,
   RefuseUnconfirmed, registryVars, repoVars

LEMMA WorkStep ==
    ASSUME TypeOK, ClonesAreCurrent, HolderIsHead, PointsFitCalls, OneCloserPerHandle,
           WorkIsOnOpenHandle, NEW t \in Tasks, Begin(t) \/ Advance(t)
    PROVE  WorkIsOnOpenHandle'
<1>1. ASSUME NEW u \in Tasks, pc'[u] \in {"validating", "running"}, u # t
      PROVE  target'[u] \in DOMAIN repositories'
  <2>1. target'[u] = target[u] /\ pc'[u] = pc[u]
    BY <1>1, OthersKeep
  <2>2. target[u] \in DOMAIN repositories
    BY <1>1, <2>1 DEF WorkIsOnOpenHandle
  <2>3. CASE RemoveEntry(t)
    <3>1. target[t] \in DOMAIN repositories /\ Holds(t) /\ Holds(u)
      BY <1>1, <2>1, <2>3 DEF RemoveEntry, PointsFitCalls, OneCloserPerHandle, Closer,
         Holds, HoldingPoints
    <3>2. target[t] # target[u]
      BY <1>1, <2>2, <3>1 DEF ClonesAreCurrent, ClonePoints, Holds, HolderIsHead
    <3> QED BY <2>1, <2>2, <2>3, <3>2 DEF RemoveEntry
  <2>4. CASE ~ RemoveEntry(t)
    <3>1. ASSUME NEW p \in Paths, NEW i \in Ids, RegisterNew(t, p, i)
          PROVE  DOMAIN repositories \subseteq DOMAIN repositories'
      BY <3>1 DEF RegisterNew, Insert
    <3>2. CASE SwapClosing(t)
      BY <3>2, <2>1, <2>2 DEF SwapClosing
    <3>3. CASE Begin(t)
      BY <3>3, <2>1, <2>2, BeginFacts DEF BeginEffect
    <3> QED
      BY <2>1, <2>2, <2>4, <3>1, <3>2, <3>3, RegistryFrame DEF Advance, registryVars
  <2> QED BY <2>3, <2>4
<1>2. ASSUME pc'[t] \in {"validating", "running"}
      PROVE  target'[t] \in DOMAIN repositories'
  BY <1>2, WorkBegins DEF RereadEntry, StillOpen, WorkIsOnOpenHandle, ValidateExpected,
     ReturnUnlocking, Goto, TypeOK
<1> QED BY <1>1, <1>2 DEF WorkIsOnOpenHandle

LEMMA GuardStep ==
    ASSUME TypeOK, ClonesAreCurrent, PointsFitCalls, MutationExclusion, GuardedOnExpected,
           NEW t \in Tasks, Begin(t) \/ Advance(t)
    PROVE  GuardedOnExpected'
<1>1. ASSUME NEW u \in Tasks, u # t, Running(u)', op'[u] = "guarded"
      PROVE  expected'[u].own = changes'[entry'[u].common]
  <2>1. /\ Running(u) /\ op[u] = "guarded" /\ entry'[u] = entry[u] /\ expected'[u] = expected[u]
        /\ expected[u].own = changes[entry[u].common]
    BY <1>1, OthersKeep DEF Running, GuardedOnExpected
  <2>2. CASE FinishOperation(t)
    <3>1. entry[t].common # entry[u].common
      BY <1>1, <2>1, <2>2 DEF FinishOperation, MutationExclusion, Running
    <3>2. changes'[entry[u].common] = changes[entry[u].common]
      <4>1. \/ changes' = [changes EXCEPT ![entry[t].common] = @ + 1]
            \/ UNCHANGED changes
        BY <2>2 DEF FinishOperation
      <4>2. entry[u].common \in CommonDirs
        BY <2>1 DEF ClonesAreCurrent, ClonePoints, HoldingPoints, Running, Entry
      <4> QED BY <3>1, <4>1, <4>2 DEF TypeOK
    <3> QED BY <2>1, <3>2
  <2>3. CASE ~ FinishOperation(t)
    <3>1. UNCHANGED changes
      BY <2>3 DEF Advance, Begin, OpenFails, RegisterAgain, RegisterNew, LookupFound,
         LookupMissing, CheckClosing, Enqueue, Acquire, Unlock, SwapClosing, RemoveEntry,
         RecheckClosing, RereadEntry, ValidateExpected, StartOpen, StartRead, StartClose,
         StartMutate, StartGuarded, Start, RefuseUnconfirmed, repoVars
    <3> QED BY <2>1, <3>1
  <2> QED BY <2>2, <2>3
<1>2. ASSUME Running(t)', op'[t] = "guarded"
      PROVE  expected'[t].own = changes'[entry'[t].common]
  <2>1. /\ RereadEntry(t) \/ ValidateExpected(t)
        /\ UNCHANGED <<changes, entry, expected, op>>
    BY <1>2, WorkBegins DEF Running
  <2>2. ~ RereadEntry(t)
    BY <1>2 DEF RereadEntry, ReturnUnlocking, Proceed, Goto, Running, TypeOK
  <2>3. expected[t] = GenerationOf(entry[t].common)
    BY <1>2, <2>1, <2>2 DEF ValidateExpected, ReturnUnlocking, Goto, Running, TypeOK
  <2> QED BY <2>1, <2>3 DEF GenerationOf
<1> QED BY <1>1, <1>2 DEF GuardedOnExpected

LEMMA OutcomeStep ==
    ASSUME TypeOK, ClonesAreCurrent, RegistryInv, PointsFitCalls, OneCloserPerHandle,
           ClosedOnlyWhenClosing, NEW t \in Tasks, Begin(t) \/ Advance(t)
    PROVE  ClosedOnlyWhenClosing'
<1>1. closing \subseteq closing'
  <2>1. CASE Begin(t)
    BY <2>1, BeginFacts DEF BeginEffect
  <2>2. CASE SwapClosing(t) \/ RemoveEntry(t)
    BY <2>2 DEF SwapClosing, RemoveEntry
  <2>3. ASSUME NEW p \in Paths, NEW i \in Ids, RegisterNew(t, p, i)
        PROVE  UNCHANGED closing
    BY <2>3 DEF RegisterNew
  <2> QED BY <2>1, <2>2, <2>3, RegistryFrame DEF Advance, registryVars
<1>2. ASSUME outcome'[t] = "closed"
      PROVE  target'[t] \in closing'
  <2> USE <1>2 DEF TypeOK, Return, ReturnUnlocking, Proceed, Goto
  <2>1. CASE Begin(t)
    BY <2>1, BeginFacts DEF BeginEffect
  <2>2. CASE OpenFails(t) \/ LookupFound(t)
    BY <2>2, <1>1 DEF OpenFails, LookupFound, ClosedOnlyWhenClosing
  <2>3. CASE \E p \in Paths : RegisterAgain(t, p) \/ \E i \in Ids : RegisterNew(t, p, i)
    BY <2>3 DEF RegisterAgain, RegisterNew
  <2>4. CASE LookupMissing(t)
    BY <2>4 DEF LookupMissing, ClonesAreCurrent, RegistryInv, RemovedAreClosing, registryVars
  <2>5. CASE CheckClosing(t) \/ SwapClosing(t)
    BY <2>5, <1>1 DEF CheckClosing, SwapClosing, ClosedOnlyWhenClosing, registryVars
  <2>6. CASE Enqueue(t) \/ Acquire(t) \/ Unlock(t) \/ FinishOperation(t)
    BY <2>6, <1>1 DEF Enqueue, Acquire, Unlock, FinishOperation, ClosedOnlyWhenClosing
  <2>7. CASE RemoveEntry(t)
    BY <2>7 DEF RemoveEntry, PointsFitCalls, OneCloserPerHandle, Closer
  <2>8. CASE RecheckClosing(t) \/ ValidateExpected(t)
    BY <2>8, <1>1 DEF RecheckClosing, ValidateExpected, ClosedOnlyWhenClosing, registryVars
  <2>9. CASE RereadEntry(t)
    <3>1. StillOpen(t) \/ target[t] \in closing
      BY <2>9 DEF RereadEntry, StillOpen, ClonesAreCurrent, ClonePoints, HoldingPoints,
         RegistryInv, RemovedAreClosing
    <3> QED BY <2>9, <3>1, <1>1 DEF RereadEntry, ClosedOnlyWhenClosing
  <2> QED BY <2>1, <2>2, <2>3, <2>4, <2>5, <2>6, <2>7, <2>8, <2>9 DEF Advance
<1> QED BY <1>1, <1>2, OthersKeep DEF ClosedOnlyWhenClosing

(***************************************************************************)
(* The inductive invariant and what follows from it.                       *)
(***************************************************************************)

LEMMA IInvInit == Init => IInv
<1> SUFFICES ASSUME Init PROVE IInv
  OBVIOUS
<1>1. TypeOK
  BY TypeInit
<1>2. /\ ClonesAreCurrent /\ HolderIsHead /\ OneCloserPerHandle /\ PointsFitCalls
      /\ WorkIsOnOpenHandle /\ GuardedOnExpected /\ ClosedOnlyWhenClosing
  BY DEF Init, ClonesAreCurrent, ClonePoints, HoldingPoints, HolderIsHead, Holds,
     OneCloserPerHandle, Closer, PointsFitCalls, WorkIsOnOpenHandle, GuardedOnExpected,
     Running, ClosedOnlyWhenClosing
<1>3. LocksAreIssued /\ LocksFollowCommonDirs /\ OneHandlePerPath /\ RemovedAreClosing
  BY DEF Init, LocksAreIssued, LocksFollowCommonDirs, OneHandlePerPath, RemovedAreClosing
<1> QED BY <1>1, <1>2, <1>3 DEF IInv

LEMMA IInvStep == IInv /\ [Next]_vars => IInv'
<1> SUFFICES ASSUME IInv, [Next]_vars PROVE IInv'
  OBVIOUS
<1>1. ASSUME NEW t \in Tasks, Begin(t) \/ Advance(t)
      PROVE  IInv'
  <2>1. TypeOK'
    BY <1>1, TypeBegin, TypeAdvance DEF IInv
  <2>2. ClonesAreCurrent' /\ HolderIsHead' /\ PointsFitCalls'
    BY <1>1, ClonesStep, HolderStep, PointsStep DEF IInv
  <2>3. RegistryInv' /\ OneCloserPerHandle'
    BY <1>1, RegistryStep, CloserStep DEF IInv, RegistryInv
  <2>4. WorkIsOnOpenHandle'
    BY <1>1, WorkStep DEF IInv
  <2>5. GuardedOnExpected'
    BY <1>1, GuardStep, ExclusionFromIInv DEF IInv
  <2>6. ClosedOnlyWhenClosing'
    BY <1>1, OutcomeStep DEF IInv, RegistryInv
  <2> QED BY <2>1, <2>2, <2>3, <2>4, <2>5, <2>6 DEF IInv, RegistryInv
<1>2. ASSUME NEW c \in CommonDirs, ExternalWrite(c)
      PROVE  IInv'
  <2>1. TypeOK'
    BY <1>2, TypeExternal DEF IInv
  <2>2. UNCHANGED <<repositories, issued, closing, lockQueue, changes,
                    pc, op, target, entry, expected, outcome>>
    BY <1>2 DEF ExternalWrite, registryVars
  <2> QED
    BY <2>1, <2>2 DEF IInv, ClonesAreCurrent, HolderIsHead, Holds, LocksAreIssued,
       LocksFollowCommonDirs, OneHandlePerPath, RemovedAreClosing, OneCloserPerHandle, Closer,
       PointsFitCalls, WorkIsOnOpenHandle, GuardedOnExpected, Running, ClosedOnlyWhenClosing
<1>3. CASE UNCHANGED vars
  BY <1>3 DEF vars, IInv, TypeOK, ClonesAreCurrent, HolderIsHead, Holds, LocksAreIssued,
     LocksFollowCommonDirs, OneHandlePerPath, RemovedAreClosing, OneCloserPerHandle, Closer,
     PointsFitCalls, WorkIsOnOpenHandle, GuardedOnExpected, Running, ClosedOnlyWhenClosing
<1> QED BY <1>1, <1>2, <1>3 DEF Next

\* The strengthening that all the safety theorems below rest on: clones agree
\* with the map, lock holders are heads of their queues, locks follow common
\* directories, one close per handle gets through.
THEOREM InductiveInvariant == Spec => []IInv
BY IInvInit, IInvStep, PTL DEF Spec

\* Every variable keeps its type; in particular every key of the map was issued
\* and every value in it is a complete entry.
THEOREM TypeCorrect == Spec => []TypeOK
<1>1. IInv => TypeOK
  BY DEF IInv
<1> QED BY <1>1, InductiveInvariant, PTL

\* mutate never runs two operations on one common Git directory at a time, for
\* any number of calls, linked worktrees, closes and reopens.
THEOREM MutualExclusion == Spec => []MutationExclusion
<1>1. IInv => MutationExclusion
  BY ExclusionFromIInv DEF IInv
<1> QED BY <1>1, InductiveInvariant, PTL

\* Linked worktrees share one lock and unrelated repositories never do.
THEOREM LocksMatchDirectories == Spec => []LocksFollowCommonDirs
<1>1. IInv => LocksFollowCommonDirs
  BY DEF IInv
<1> QED BY <1>1, InductiveInvariant, PTL

\* register keeps one handle per worktree root.
THEOREM HandlesAreUnique == Spec => []OneHandlePerPath
<1>1. IInv => OneHandlePerPath
  BY DEF IInv
<1> QED BY <1>1, InductiveInvariant, PTL

\* No mutation works for a handle that close has taken out of the map.
THEOREM NoWorkAfterClose == Spec => []RunningOnOpenHandle
<1>1. IInv => RunningOnOpenHandle
  BY DEF IInv, RunningOnOpenHandle, WorkIsOnOpenHandle, Running
<1> QED BY <1>1, InductiveInvariant, PTL

\* Between the check of an ExpectedState and the end of the operation it guards,
\* gitcat makes no other change to that common directory.
THEOREM GuardHolds == Spec => []GuardedOnExpected
<1>1. IInv => GuardedOnExpected
  BY DEF IInv
<1> QED BY <1>1, InductiveInvariant, PTL

\* RepositoryClosed is returned only about handles that were asked to close.
THEOREM NoSpuriousClosed == Spec => []ClosedOnlyWhenClosing
<1>1. IInv => ClosedOnlyWhenClosing
  BY DEF IInv
<1> QED BY <1>1, InductiveInvariant, PTL

\* The one close that set the flag always finds its entry: the error for a
\* missing entry after the removal cannot be returned.
THEOREM CloseFinds == Spec => []CloseFindsEntry
<1>1. IInv => CloseFindsEntry
  BY DEF IInv, CloseFindsEntry, PointsFitCalls, OneCloserPerHandle, Closer
<1> QED BY <1>1, InductiveInvariant, PTL

(***************************************************************************)
(* The registry implements SerialMutations.                                *)
(***************************************************************************)

LEMMA PromiseInit == Init => Promise!Init
<1> SUFFICES ASSUME Init PROVE Promise!Init
  OBVIOUS
<1>1. \A c \in CommonDirs : Working(c) = {}
  BY DEF Init, Working, Running
<1> QED BY <1>1 DEF Init, Promise!Init

\* A step that neither begins nor ends work leaves `working` as it is.
LEMMA WorkingFrame ==
    ASSUME TypeOK, NEW t \in Tasks, Begin(t) \/ Advance(t), ~ Running(t), ~ Running(t)'
    PROVE  \A c \in CommonDirs : Working(c)' = Working(c)
<1>1. \A u \in Tasks \ {t} : pc'[u] = pc[u] /\ target'[u] = target[u] /\ entry'[u] = entry[u]
  BY OthersKeep
<1> QED BY <1>1 DEF Working, Running

\* While a task works on a directory it is the only one to.
LEMMA WorkingAlone ==
    ASSUME IInv, NEW t \in Tasks, Holds(t), target[t] \in DOMAIN repositories,
           NEW u \in Tasks, Running(u), entry[u].common = entry[t].common
    PROVE  u = t
<1>1. Holds(u) /\ target[u] \in DOMAIN repositories
  BY DEF Running, Holds, HoldingPoints, IInv, WorkIsOnOpenHandle
<1> QED BY <1>1, HoldersOfOneDirectory DEF IInv

LEMMA PromiseBegins ==
    ASSUME IInv, NEW t \in Tasks, Begin(t) \/ Advance(t), ~ Running(t), Running(t)'
    PROVE  \E i \in Ids, c \in CommonDirs : Promise!BeginMutation(t, i, c)
<1>1. /\ RereadEntry(t) \/ ValidateExpected(t)
      /\ UNCHANGED <<repositories, changes, target, entry>>
      /\ pc[t] \in {"reread", "validating"}
  BY WorkBegins DEF Running, IInv
<1>2. target[t] \in DOMAIN repositories /\ UNCHANGED issued
  BY <1>1 DEF RereadEntry, StillOpen, ReturnUnlocking, Goto, Running, IInv, TypeOK,
     WorkIsOnOpenHandle, ValidateExpected, registryVars
<1>3. Holds(t) /\ entry[t].common \in CommonDirs /\ target[t] \in Ids
  BY <1>1, <1>2 DEF Holds, HoldingPoints, IInv, ClonesAreCurrent, ClonePoints, Entry, TypeOK
<1>4. PICK c \in CommonDirs, i \in Ids : c = entry[t].common /\ i = target[t]
  BY <1>3
<1>5. Working(c) = {}
  BY <1>2, <1>3, <1>4, WorkingAlone DEF Working
<1>6. \A u \in Tasks \ {t} : pc'[u] = pc[u] /\ target'[u] = target[u] /\ entry'[u] = entry[u]
  BY OthersKeep DEF IInv
<1>7. \A d \in CommonDirs : Working(d)' = IF d = c THEN {<<t, i>>} ELSE Working(d)
  BY <1>1, <1>4, <1>5, <1>6 DEF Working, Running
<1>8. [d \in CommonDirs |-> Working(d)]'
        = [[d \in CommonDirs |-> Working(d)] EXCEPT ![c] = {<<t, i>>}]
  BY <1>7
<1>9. Promise!BeginMutation(t, i, c)
  BY <1>1, <1>2, <1>4, <1>5, <1>8 DEF Promise!BeginMutation
<1> QED BY <1>9

LEMMA PromiseEnds ==
    ASSUME IInv, NEW t \in Tasks, Begin(t) \/ Advance(t), Running(t)
    PROVE  \E i \in Ids, c \in CommonDirs : Promise!EndMutation(t, i, c)
<1>1. FinishOperation(t)
  BY BeginFacts DEF BeginEffect, Running, IInv, Advance, OpenFails, RegisterAgain, RegisterNew,
     LookupFound, LookupMissing, CheckClosing, Enqueue, Acquire, Unlock, SwapClosing,
     RemoveEntry, RecheckClosing, RereadEntry, ValidateExpected
<1>2. target[t] \in DOMAIN repositories /\ Holds(t) /\ entry[t] \in Entry
  BY DEF Running, IInv, WorkIsOnOpenHandle, Holds, HoldingPoints, ClonesAreCurrent, ClonePoints
<1>3. target[t] \in Ids /\ entry[t].common \in CommonDirs
  BY <1>2 DEF IInv, TypeOK, Entry
<1>4. PICK c \in CommonDirs, i \in Ids : c = entry[t].common /\ i = target[t]
  BY <1>3
<1>5. /\ pc' = [pc EXCEPT ![t] = "unlock"]
      /\ UNCHANGED <<repositories, issued, target, entry>>
      /\ \/ changes' = [changes EXCEPT ![c] = @ + 1]
         \/ UNCHANGED changes
  BY <1>1, <1>4 DEF FinishOperation, ReturnUnlocking, Goto, registryVars
<1>6. Working(c) = {<<t, i>>}
  BY <1>2, <1>4, WorkingAlone DEF Working
<1>7. \A d \in CommonDirs : Working(d)' = IF d = c THEN {} ELSE Working(d)
  BY <1>2, <1>4, <1>5, WorkingAlone DEF Working, Running, IInv, TypeOK
<1>8. [d \in CommonDirs |-> Working(d)]'
        = [[d \in CommonDirs |-> Working(d)] EXCEPT ![c] = {}]
  BY <1>7
<1>9. Promise!EndMutation(t, i, c)
  BY <1>5, <1>6, <1>8 DEF Promise!EndMutation
<1> QED BY <1>9

LEMMA PromiseStep ==
    ASSUME IInv, NEW t \in Tasks, Begin(t) \/ Advance(t)
    PROVE  [Promise!Next]_(Promise!vars)
<1>1. CASE Running(t)
  BY <1>1, PromiseEnds DEF Promise!Next
<1>2. CASE ~ Running(t) /\ Running(t)'
  BY <1>2, PromiseBegins DEF Promise!Next
<1>3. CASE ~ Running(t) /\ ~ Running(t)'
  <2>1. [c \in CommonDirs |-> Working(c)]' = [c \in CommonDirs |-> Working(c)]
    BY <1>3, WorkingFrame DEF IInv
  <2>2. UNCHANGED changes
    BY <1>3 DEF Running, Advance, Begin, OpenFails, RegisterAgain, RegisterNew, LookupFound,
       LookupMissing, CheckClosing, Enqueue, Acquire, Unlock, SwapClosing, RemoveEntry,
       RecheckClosing, RereadEntry, ValidateExpected, FinishOperation, StartOpen, StartRead,
       StartClose, StartMutate, StartGuarded, Start, RefuseUnconfirmed, repoVars
  <2>3. CASE UNCHANGED <<repositories, issued>>
    BY <2>1, <2>2, <2>3 DEF Promise!vars
  <2>4. ASSUME NEW p \in Paths, NEW i \in Ids, RegisterNew(t, p, i)
        PROVE  Promise!OpenSession(i)
    <3>1. /\ i \notin issued /\ issued' = issued \cup {i}
          /\ DOMAIN repositories' = DOMAIN repositories \cup {i}
      BY <2>4 DEF RegisterNew, Insert
    <3>2. i \notin DOMAIN repositories
      BY <3>1 DEF IInv, TypeOK
    <3> QED BY <2>1, <2>2, <3>1, <3>2 DEF Promise!OpenSession
  <2>5. CASE RemoveEntry(t)
    <3>1. /\ target[t] \in DOMAIN repositories /\ target[t] \in issued /\ target[t] \in Ids
          /\ Holds(t)
      BY <2>5 DEF RemoveEntry, IInv, PointsFitCalls, OneCloserPerHandle, Closer, TypeOK,
         Holds, HoldingPoints
    <3>2. /\ DOMAIN repositories' = DOMAIN repositories \ {target[t]}
          /\ UNCHANGED issued
      BY <2>5 DEF RemoveEntry
    <3>3. ASSUME NEW u \in Tasks, Running(u)
          PROVE  target[u] # target[t]
      <4>1. Holds(u) /\ u # t
        BY <1>3, <3>3 DEF Running, Holds, HoldingPoints
      <4> QED
        BY <3>1, <4>1 DEF IInv, ClonesAreCurrent, ClonePoints, Holds, HolderIsHead
    <3>4. \A c \in CommonDirs : \A u \in Tasks : <<u, target[t]>> \notin Working(c)
      BY <3>3 DEF Working
    <3>5. Promise!CloseSession(target[t])
      BY <2>1, <2>2, <3>1, <3>2, <3>4 DEF Promise!CloseSession
    <3> QED BY <3>1, <3>5 DEF Promise!Next
  <2>6. CASE SwapClosing(t)
    BY <2>3, <2>6 DEF SwapClosing
  <2>7. CASE Begin(t)
    BY <2>3, <2>7, BeginFacts DEF BeginEffect, IInv
  <2> QED
    BY <2>3, <2>4, <2>5, <2>6, <2>7, RegistryFrame DEF Advance, Promise!Next, registryVars
<1> QED BY <1>1, <1>2, <1>3

\* The registry, its locks and its close protocol implement the serial executor:
\* one mutation per common directory, for open sessions only, sessions retired
\* once and never under a mutation, changes made only by the working mutation.
THEOREM RegistryImplementsPromise == Spec => ImplementsPromise
<1>1. IInv /\ [Next]_vars => [Promise!Next]_(Promise!vars)
  <2> SUFFICES ASSUME IInv, [Next]_vars PROVE [Promise!Next]_(Promise!vars)
    OBVIOUS
  <2>1. ASSUME NEW c \in CommonDirs, ExternalWrite(c)
        PROVE  UNCHANGED Promise!vars
    BY <2>1 DEF ExternalWrite, Promise!vars, Working, Running, registryVars
  <2>2. CASE UNCHANGED vars
    BY <2>2 DEF vars, Promise!vars, Working, Running
  <2> QED BY <2>1, <2>2, PromiseStep DEF Next
<1> QED
  BY <1>1, PromiseInit, InductiveInvariant, PTL DEF Spec, ImplementsPromise, Promise!Spec
=============================================================================
