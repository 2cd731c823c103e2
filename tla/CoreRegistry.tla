---------------------------- MODULE CoreRegistry ----------------------------
(***************************************************************************)
(* CoreApi of crates/gitcat-core/src/api.rs: the registry of open          *)
(* repositories, the mutation lock shared by the worktrees of one common   *)
(* Git directory, and the protocol of open, close, reads, mutations and    *)
(* mutations guarded by an expected state.                                 *)
(*                                                                         *)
(* Every call is a task that moves through the program points of its       *)
(* function.  A point ends where another thread can get in between: at an  *)
(* await, or between two accesses of shared memory.                        *)
(***************************************************************************)
EXTENDS Naturals, Sequences

CONSTANTS
    Tasks,        \* concurrent calls of the facade
    Paths,        \* canonical worktree roots
    CommonDirs,   \* canonical common Git directories
    CommonDirOf,  \* [Paths -> CommonDirs]
    Ids,          \* RepositoryId values: fresh uuids, never reused
    NoId,         \* the handle argument of a task that has none
    NoEntry,      \* the entry clone of a task that has none
    MaxChanges,   \* bound: changes gitcat makes to one common directory
    MaxExternal   \* bound: changes other programs make to one common directory

ASSUME CommonDirAssumption == CommonDirOf \in [Paths -> CommonDirs]
ASSUME BoundAssumption == MaxChanges \in Nat /\ MaxExternal \in Nat
ASSUME NoIdAssumption == NoId \notin Ids

\* An entry as cloned out of the map.  `lock` stands for the identity of the
\* Arc<Mutex<()>>: the handle of the entry that allocated it.
Entry == [path : Paths, common : CommonDirs, lock : Ids]

ASSUME NoEntryAssumption == NoEntry \notin Entry

VARIABLES
    repositories, \* the map: a function from the open handles to entries
    issued,       \* handles handed out so far
    closing,      \* handles whose shared `closing` flag is set
    lockQueue,    \* per mutation lock: its holder, then the waiters, in order
    changes,      \* per common directory: changes made by gitcat
    external,     \* per common directory: changes made by anything else
    pc,           \* per task: the program point
    op,           \* per task: the call it makes
    target,       \* per task: the handle it was called with
    entry,        \* per task: its clone of the entry
    expected,     \* per task: the ExpectedState argument
    outcome       \* per task: what its last call returned

registryVars == <<repositories, issued, closing>>
repoVars == <<changes, external>>
vars == <<repositories, issued, closing, lockQueue, changes, external,
          pc, op, target, entry, expected, outcome>>

Ops == {"open", "read", "close", "mutate", "guarded"}
Points == {"idle", "opening", "lookup", "check", "swap", "enqueue", "waiting",
           "removing", "recheck", "reread", "validating", "running", "unlock"}
Outcomes == {"none", "ok", "failed", "busy", "closed", "stale", "protected"}

\* RepositorySnapshot.generation and its head, as far as validate_expected_state
\* can tell two of them apart: they differ when either count differs.
Generation == [own : Nat, other : Nat]
GenerationOf(c) == [own |-> changes[c], other |-> external[c]]
NoGeneration == [own |-> 0, other |-> 0]

\* The points between taking a mutation lock and dropping its guard.
HoldingPoints == {"removing", "recheck", "reread", "validating", "running", "unlock"}
Holds(t) == pc[t] \in HoldingPoints
Running(t) == pc[t] = "running"

TypeOK ==
    /\ issued \subseteq Ids
    /\ DOMAIN repositories \subseteq issued
    /\ repositories \in [DOMAIN repositories -> Entry]
    /\ closing \subseteq issued
    /\ lockQueue \in [Ids -> Seq(Tasks)]
    /\ changes \in [CommonDirs -> Nat]
    /\ external \in [CommonDirs -> Nat]
    /\ pc \in [Tasks -> Points]
    /\ op \in [Tasks -> Ops]
    /\ target \in [Tasks -> Ids \cup {NoId}]
    /\ entry \in [Tasks -> Entry \cup {NoEntry}]
    /\ expected \in [Tasks -> Generation]
    /\ outcome \in [Tasks -> Outcomes]

Init ==
    /\ repositories = [i \in {} |-> NoEntry]
    /\ issued = {}
    /\ closing = {}
    /\ lockQueue = [i \in Ids |-> <<>>]
    /\ changes = [c \in CommonDirs |-> 0]
    /\ external = [c \in CommonDirs |-> 0]
    /\ pc = [t \in Tasks |-> "idle"]
    /\ op = [t \in Tasks |-> "read"]
    /\ target = [t \in Tasks |-> NoId]
    /\ entry = [t \in Tasks |-> NoEntry]
    /\ expected = [t \in Tasks |-> NoGeneration]
    /\ outcome = [t \in Tasks |-> "none"]

(***************************************************************************)
(* Steps shared by the calls.                                              *)
(***************************************************************************)
Goto(t, point) == pc' = [pc EXCEPT ![t] = point]

\* A call returns: what it held locally is gone.
Return(t, result) ==
    /\ Goto(t, "idle")
    /\ outcome' = [outcome EXCEPT ![t] = result]
    /\ entry' = [entry EXCEPT ![t] = NoEntry]
    /\ expected' = [expected EXCEPT ![t] = NoGeneration]

\* A call that holds the lock has its result and still has to drop the guard.
ReturnUnlocking(t, result) ==
    /\ Goto(t, "unlock")
    /\ outcome' = [outcome EXCEPT ![t] = result]
    /\ UNCHANGED <<entry, expected>>

Proceed(t, point) ==
    /\ Goto(t, point)
    /\ UNCHANGED <<outcome, entry, expected>>

Start(t, o, i, point) ==
    /\ pc[t] = "idle"
    /\ Goto(t, point)
    /\ op' = [op EXCEPT ![t] = o]
    /\ target' = [target EXCEPT ![t] = i]
    /\ outcome' = [outcome EXCEPT ![t] = "none"]
    /\ UNCHANGED <<registryVars, lockQueue, repoVars, entry>>

(***************************************************************************)
(* open, init and clone: the backend works first, then register.           *)
(***************************************************************************)
StartOpen(t) ==
    /\ Start(t, "open", NoId, "opening")
    /\ UNCHANGED expected

OpenFails(t) ==
    /\ pc[t] = "opening"
    /\ Return(t, "failed")
    /\ UNCHANGED <<registryVars, lockQueue, repoVars, op, target>>

EntryAt(p) == {i \in DOMAIN repositories : repositories[i].path = p}
Sharing(c) == {i \in DOMAIN repositories : repositories[i].common = c}

\* register for a worktree root that is in the map already.
RegisterAgain(t, p) ==
    /\ pc[t] = "opening"
    /\ \E i \in EntryAt(p) :
          IF i \in closing
          THEN Return(t, "busy") /\ UNCHANGED target
          ELSE Return(t, "ok") /\ target' = [target EXCEPT ![t] = i]
    /\ UNCHANGED <<registryVars, lockQueue, repoVars, op>>

\* Mutant of LocksFor: every worktree gets a lock of its own.
LockPerWorktree(c, fresh) == {fresh}

\* The lock of an entry with the same common directory, else a new one.
LocksFor(c, fresh) ==
    IF Sharing(c) = {} THEN {fresh} ELSE {repositories[i].lock : i \in Sharing(c)}

Insert(i, e) ==
    repositories' = [j \in DOMAIN repositories \cup {i} |->
                        IF j = i THEN e ELSE repositories[j]]

\* Mutant of RegisterNew: the search by root and the insertion are not one step.
RegisterWithoutSearch(t, p, i) ==
    /\ pc[t] = "opening"
    /\ i \notin issued
    /\ \E l \in LocksFor(CommonDirOf[p], i) :
          Insert(i, [path |-> p, common |-> CommonDirOf[p], lock |-> l])
    /\ issued' = issued \cup {i}
    /\ Return(t, "ok")
    /\ target' = [target EXCEPT ![t] = i]
    /\ UNCHANGED <<closing, lockQueue, repoVars, op>>

RegisterNew(t, p, i) ==
    /\ pc[t] = "opening"
    /\ EntryAt(p) = {}
    /\ i \notin issued
    /\ \E l \in LocksFor(CommonDirOf[p], i) :
          Insert(i, [path |-> p, common |-> CommonDirOf[p], lock |-> l])
    /\ issued' = issued \cup {i}
    /\ Return(t, "ok")
    /\ target' = [target EXCEPT ![t] = i]
    /\ UNCHANGED <<closing, lockQueue, repoVars, op>>

(***************************************************************************)
(* repository_entry: clone the entry out of the map, then look at its flag *)
(* (the read guard is gone by then).                                       *)
(***************************************************************************)
StartRead(t, i) == Start(t, "read", i, "lookup") /\ UNCHANGED expected
StartClose(t, i) == Start(t, "close", i, "lookup") /\ UNCHANGED expected
StartMutate(t, i) == Start(t, "mutate", i, "lookup") /\ UNCHANGED expected

\* The calls that take an ExpectedState: the caller read it from a snapshot, so
\* it is the present generation of that repository or an earlier one.
StartGuarded(t, i, c, g) ==
    /\ i \in DOMAIN repositories => repositories[i].common = c
    /\ g.own <= changes[c] /\ g.other <= external[c]
    /\ Start(t, "guarded", i, "lookup")
    /\ expected' = [expected EXCEPT ![t] = g]

\* delete_branch(force), reset(hard) and stash_drop without `confirmed`.
RefuseUnconfirmed(t, i) ==
    /\ pc[t] = "idle"
    /\ op' = [op EXCEPT ![t] = "guarded"]
    /\ target' = [target EXCEPT ![t] = i]
    /\ Return(t, "protected")
    /\ UNCHANGED <<registryVars, lockQueue, repoVars>>

LookupFound(t) ==
    /\ pc[t] = "lookup"
    /\ target[t] \in DOMAIN repositories
    /\ Goto(t, "check")
    /\ entry' = [entry EXCEPT ![t] = repositories[target[t]]]
    /\ UNCHANGED <<registryVars, lockQueue, repoVars, op, target, expected, outcome>>

LookupMissing(t) ==
    /\ pc[t] = "lookup"
    /\ target[t] \notin DOMAIN repositories
    /\ Return(t, "closed")
    /\ UNCHANGED <<registryVars, lockQueue, repoVars, op, target>>

CheckClosing(t) ==
    /\ pc[t] = "check"
    /\ IF target[t] \in closing THEN Return(t, "closed")
       ELSE \/ op[t] = "read" /\ Return(t, "ok")
            \/ op[t] = "close" /\ Proceed(t, "swap")
            \/ op[t] \in {"mutate", "guarded"} /\ Proceed(t, "enqueue")
    /\ UNCHANGED <<registryVars, lockQueue, repoVars, op, target>>

(***************************************************************************)
(* The mutation lock: a tokio Mutex hands its permit over in arrival order *)
(***************************************************************************)
Enqueue(t) ==
    /\ pc[t] = "enqueue"
    /\ lockQueue' = [lockQueue EXCEPT ![entry[t].lock] = Append(@, t)]
    /\ Proceed(t, "waiting")
    /\ UNCHANGED <<registryVars, repoVars, op, target>>

\* Mutant of Acquire: mutate looks at neither the flag nor the map once it has
\* the lock.
AcquireAndRun(t) ==
    /\ pc[t] = "waiting"
    /\ lockQueue[entry[t].lock] # <<>>
    /\ Head(lockQueue[entry[t].lock]) = t
    /\ Proceed(t, CASE op[t] = "close" -> "removing"
                    [] op[t] = "guarded" -> "validating"
                    [] OTHER -> "running")
    /\ UNCHANGED <<registryVars, lockQueue, repoVars, op, target>>

\* Mutant of Acquire: close goes through mutate, whose second look refuses the
\* flag that close itself has set.
AcquireThenRecheck(t) ==
    /\ pc[t] = "waiting"
    /\ lockQueue[entry[t].lock] # <<>>
    /\ Head(lockQueue[entry[t].lock]) = t
    /\ Proceed(t, "recheck")
    /\ UNCHANGED <<registryVars, lockQueue, repoVars, op, target>>

Acquire(t) ==
    /\ pc[t] = "waiting"
    /\ lockQueue[entry[t].lock] # <<>>
    /\ Head(lockQueue[entry[t].lock]) = t
    /\ Proceed(t, IF op[t] = "close" THEN "removing" ELSE "recheck")
    /\ UNCHANGED <<registryVars, lockQueue, repoVars, op, target>>

\* Mutant of Unlock: the guard is leaked.
ReturnWithLock(t) ==
    /\ pc[t] = "unlock"
    /\ Return(t, outcome[t])
    /\ UNCHANGED <<registryVars, lockQueue, repoVars, op, target>>

Unlock(t) ==
    /\ pc[t] = "unlock"
    /\ lockQueue' = [lockQueue EXCEPT ![entry[t].lock] = Tail(@)]
    /\ Return(t, outcome[t])
    /\ UNCHANGED <<registryVars, repoVars, op, target>>

(***************************************************************************)
(* close: the flag first, so that only one close goes on to wait.          *)
(***************************************************************************)

SwapClosing(t) ==
    /\ pc[t] = "swap"
    /\ closing' = closing \cup {target[t]}
    /\ IF target[t] \in closing THEN Return(t, "closed") ELSE Proceed(t, "enqueue")
    /\ UNCHANGED <<repositories, issued, lockQueue, repoVars, op, target>>

RemoveEntry(t) ==
    /\ pc[t] = "removing"
    /\ repositories' = [i \in DOMAIN repositories \ {target[t]} |-> repositories[i]]
    /\ ReturnUnlocking(t, IF target[t] \in DOMAIN repositories THEN "ok" ELSE "closed")
    /\ UNCHANGED <<issued, closing, lockQueue, repoVars, op, target>>

(***************************************************************************)
(* mutate and mutate_expected, under the lock.                             *)
(***************************************************************************)
RecheckClosing(t) ==
    /\ pc[t] = "recheck"
    /\ IF target[t] \in closing THEN ReturnUnlocking(t, "closed")
       ELSE Proceed(t, "reread")
    /\ UNCHANGED <<registryVars, lockQueue, repoVars, op, target>>

\* The map still has the handle, with the very lock this task holds.
StillOpen(t) ==
    /\ target[t] \in DOMAIN repositories
    /\ repositories[target[t]].lock = entry[t].lock

RereadEntry(t) ==
    /\ pc[t] = "reread"
    /\ IF ~StillOpen(t) THEN ReturnUnlocking(t, "closed")
       ELSE Proceed(t, IF op[t] = "guarded" THEN "validating" ELSE "running")
    /\ UNCHANGED <<registryVars, lockQueue, repoVars, op, target>>

\* Mutant of ValidateExpected: the snapshot is compared with itself as far as
\* gitcat's own changes go.
ValidateExternalOnly(t) ==
    /\ pc[t] = "validating"
    /\ \/ ReturnUnlocking(t, "failed")
       \/ IF expected[t].other = external[entry[t].common]
          THEN Proceed(t, "running")
          ELSE ReturnUnlocking(t, "stale")
    /\ UNCHANGED <<registryVars, lockQueue, repoVars, op, target>>

\* mutate_expected takes a new snapshot under the lock and compares.
ValidateExpected(t) ==
    /\ pc[t] = "validating"
    /\ \/ ReturnUnlocking(t, "failed")
       \/ IF expected[t] = GenerationOf(entry[t].common)
          THEN Proceed(t, "running")
          ELSE ReturnUnlocking(t, "stale")
    /\ UNCHANGED <<registryVars, lockQueue, repoVars, op, target>>

\* The backend's operation ends.  It may have changed the repository or not,
\* and a failing one may have changed it too.
FinishOperation(t) ==
    LET c == entry[t].common IN
    /\ pc[t] = "running"
    /\ \E result \in {"ok", "failed"} : ReturnUnlocking(t, result)
    /\ \/ changes[c] < MaxChanges /\ changes' = [changes EXCEPT ![c] = @ + 1]
       \/ UNCHANGED changes
    /\ UNCHANGED <<registryVars, lockQueue, external, op, target>>

(***************************************************************************)
(* Git run by anything but gitcat: no lock of this process holds it off.   *)
(***************************************************************************)
ExternalWrite(c) ==
    /\ external[c] < MaxExternal
    /\ external' = [external EXCEPT ![c] = @ + 1]
    /\ UNCHANGED <<registryVars, lockQueue, changes, pc, op, target, entry, expected, outcome>>

Begin(t) ==
    \/ StartOpen(t)
    \/ \E i \in issued :
          \/ StartRead(t, i) \/ StartClose(t, i) \/ StartMutate(t, i)
          \/ RefuseUnconfirmed(t, i)
          \/ \E c \in CommonDirs : \E own \in 0 .. changes[c], other \in 0 .. external[c] :
                StartGuarded(t, i, c, [own |-> own, other |-> other])

Advance(t) ==
    \/ OpenFails(t)
    \/ \E p \in Paths : RegisterAgain(t, p) \/ \E i \in Ids : RegisterNew(t, p, i)
    \/ LookupFound(t) \/ LookupMissing(t) \/ CheckClosing(t)
    \/ Enqueue(t) \/ Acquire(t) \/ Unlock(t)
    \/ SwapClosing(t) \/ RemoveEntry(t)
    \/ RecheckClosing(t) \/ RereadEntry(t) \/ ValidateExpected(t) \/ FinishOperation(t)

Next ==
    \/ \E t \in Tasks : Begin(t) \/ Advance(t)
    \/ \E c \in CommonDirs : ExternalWrite(c)

Spec == Init /\ [][Next]_vars

\* A started call is driven to its end by the runtime; nobody has to call.
Fairness == \A t \in Tasks : WF_vars(Advance(t))
FairSpec == Spec /\ Fairness

-----------------------------------------------------------------------------
(***************************************************************************)
(* Properties.                                                             *)
(***************************************************************************)

\* "Mutations in a shared Git directory are serialized": two mutations never
\* work on one common directory at a time, whatever worktree, handle, close or
\* reopen they came through.
MutationExclusion ==
    \A t, u \in Tasks :
        Running(t) /\ Running(u) /\ entry[t].common = entry[u].common => t = u

\* Open handles share a lock exactly when they share a common directory: linked
\* worktrees wait for each other, separate repositories never do.
LocksFollowCommonDirs ==
    \A i, j \in DOMAIN repositories :
        repositories[i].lock = repositories[j].lock
            <=> repositories[i].common = repositories[j].common

\* register never opens a second handle for a worktree root it already has.
OneHandlePerPath ==
    \A i, j \in DOMAIN repositories :
        repositories[i].path = repositories[j].path => i = j

\* A mutation works only for a handle that is still in the map: once close has
\* returned, nothing queued before it can escape through its stale clone.
RunningOnOpenHandle ==
    \A t \in Tasks : Running(t) => target[t] \in DOMAIN repositories

\* While an operation guarded by an ExpectedState works, gitcat itself has made
\* no change since the generation the caller decided on (another program may).
GuardedOnExpected ==
    \A t \in Tasks :
        Running(t) /\ op[t] = "guarded" => expected[t].own = changes[entry[t].common]

\* A call is told "Repository is closed" only about a handle that was asked to
\* close; sharing a lock with a closing worktree is no reason.
ClosedOnlyWhenClosing ==
    \A t \in Tasks : outcome[t] = "closed" => target[t] \in closing

\* close always finds the entry it came to remove: the swap of the flag lets
\* exactly one close of a handle through, so its `removed.is_none()` is dead.
CloseFindsEntry ==
    \A t \in Tasks : pc[t] = "removing" => target[t] \in DOMAIN repositories

\* The registry implements the serial executor of SerialMutations.
Working(c) == {<<t, target[t]>> : t \in {u \in Tasks : Running(u) /\ entry[u].common = c}}

Promise == INSTANCE SerialMutations WITH
    open <- DOMAIN repositories,
    retired <- issued \ DOMAIN repositories,
    working <- [c \in CommonDirs |-> Working(c)],
    changes <- changes

ImplementsPromise == Promise!Spec

\* Every call comes back: no task waits for ever on a lock or on another call.
CallsReturn == \A t \in Tasks : pc[t] # "idle" ~> pc[t] = "idle"

\* A handle whose close was begun leaves the map, so that its path, refused with
\* RepositoryBusy until then, can be opened again.
ClosingIsReleased == \A i \in Ids : i \in closing ~> i \notin DOMAIN repositories

-----------------------------------------------------------------------------
(***************************************************************************)
(* The inductive invariant behind the safety properties.                   *)
(***************************************************************************)

\* The points at which a task has its clone of the entry.
ClonePoints == {"check", "swap", "enqueue", "waiting"} \cup HoldingPoints

\* A call other than open works on a handle that was issued; past the lookup its
\* clone agrees with the map for as long as the map has the handle.
ClonesAreCurrent ==
    \A t \in Tasks :
        /\ pc[t] \notin {"idle", "opening"} => target[t] \in issued
        /\ pc[t] \in ClonePoints =>
              /\ entry[t] \in Entry
              /\ target[t] \in DOMAIN repositories => repositories[target[t]] = entry[t]

\* Whoever is past the acquisition of a lock is at the head of its queue.
HolderIsHead ==
    \A t \in Tasks :
        Holds(t) => /\ lockQueue[entry[t].lock] # <<>>
                    /\ Head(lockQueue[entry[t].lock]) = t

\* Locks are named after handles that exist, so a new one is really new.
LocksAreIssued == \A i \in DOMAIN repositories : repositories[i].lock \in issued

\* Only a close takes a handle out of the map.
RemovedAreClosing == issued \ DOMAIN repositories \subseteq closing

\* The call that set the flag, on its way to the removal.
Closer(t) == op[t] = "close" /\ pc[t] \in {"enqueue", "waiting", "removing"}

OneCloserPerHandle ==
    \A t \in Tasks : Closer(t) =>
        /\ target[t] \in closing \cap DOMAIN repositories
        /\ \A u \in Tasks : Closer(u) /\ target[u] = target[t] => u = t

\* The program points belong to the calls that have them.
PointsFitCalls ==
    \A t \in Tasks :
        /\ pc[t] \in {"swap", "removing"} => op[t] = "close"
        /\ pc[t] \in {"enqueue", "waiting"} => op[t] \in {"close", "mutate", "guarded"}
        /\ pc[t] \in {"recheck", "reread", "running"} => op[t] \in {"mutate", "guarded"}
        /\ pc[t] = "validating" => op[t] = "guarded"

\* A mutation that passed its second look at the map stays inside the map.
WorkIsOnOpenHandle ==
    \A t \in Tasks :
        pc[t] \in {"validating", "running"} => target[t] \in DOMAIN repositories

IInv ==
    /\ TypeOK
    /\ ClonesAreCurrent
    /\ HolderIsHead
    /\ LocksAreIssued
    /\ LocksFollowCommonDirs
    /\ OneHandlePerPath
    /\ RemovedAreClosing
    /\ OneCloserPerHandle
    /\ PointsFitCalls
    /\ WorkIsOnOpenHandle
    /\ GuardedOnExpected
    /\ ClosedOnlyWhenClosing
=============================================================================
