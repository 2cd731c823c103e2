---------------------------- MODULE MutationQueue ----------------------------
(***************************************************************************)
(* createMutationQueue of apps/desktop/src/app/mutationQueue.ts: the queue *)
(* in front of every repository mutation of the desktop client.            *)
(*                                                                         *)
(* JavaScript runs one continuation at a time, so an action ends at an     *)
(* await.  The queue has no list of its tasks: it chains each accepted     *)
(* task to the promise of the one accepted before it, and keeps counters   *)
(* and keys beside the chain, which must agree with it at every await.     *)
(***************************************************************************)
EXTENDS Naturals, FiniteSets

CONSTANTS
    Tasks,     \* calls of run, each made once
    Keys,      \* values of the `key` option
    NoKey,     \* a call without a key, and `runningKey` at rest
    NoTask,    \* the promise `tail` starts from
    Limit,     \* tasks allowed to wait behind the running one
    Timeout    \* polls before untilFree gives up, in units of `interval`

ASSUME TasksAssumption == IsFiniteSet(Tasks) /\ NoTask \notin Tasks
ASSUME KeysAssumption == NoKey \notin Keys
ASSUME LimitAssumption == Limit \in Nat /\ Timeout \in Nat \ {0}

VARIABLES
    status,       \* per task: where its call of run is
    key,          \* per task: its key
    after,        \* per task: the task whose promise its start is chained to
    tail,         \* the task last accepted
    depth,        \* accepted and not finished, the running one included
    running,      \* the `running` flag
    runningKey,   \* the key of the running task
    acceptedKeys, \* keys of the tasks accepted and not started (no key twice)
    elapsed,      \* how long the started task has waited in untilFree
    blocked,      \* what options.blocked() answers
    seat,         \* history: per task, its number in the order of acceptance
    seats         \* history: how many were accepted

vars == <<status, key, after, tail, depth, running, runningKey, acceptedKeys,
          elapsed, blocked, seat, seats>>

\* "polling" and "free" are the two sides of `await untilFree()`.
Statuses == {"new", "refused", "queued", "polling", "free", "working", "done"}

Started(t) == status[t] \in {"polling", "free", "working"}
Accepted(t) == status[t] \notin {"new", "refused"}
Pending == {t \in Tasks : status[t] = "queued" \/ Started(t)}

TypeOK ==
    /\ status \in [Tasks -> Statuses]
    /\ key \in [Tasks -> Keys \cup {NoKey}]
    /\ after \in [Tasks -> Tasks \cup {NoTask}]
    /\ tail \in Tasks \cup {NoTask}
    /\ depth \in Nat
    /\ running \in BOOLEAN
    /\ runningKey \in Keys \cup {NoKey}
    /\ acceptedKeys \subseteq Keys
    /\ elapsed \in 0 .. Timeout
    /\ blocked \in BOOLEAN
    /\ seat \in [Tasks -> Nat]
    /\ seats \in Nat

Init ==
    /\ status = [t \in Tasks |-> "new"]
    /\ key = [t \in Tasks |-> NoKey]
    /\ after = [t \in Tasks |-> NoTask]
    /\ tail = NoTask
    /\ depth = 0
    /\ running = FALSE
    /\ runningKey = NoKey
    /\ acceptedKeys = {}
    /\ elapsed = 0
    /\ blocked = FALSE
    /\ seat = [t \in Tasks |-> 0]
    /\ seats = 0

(***************************************************************************)
(* run(task, { key })                                                      *)
(***************************************************************************)

Duplicate(k) == k # NoKey /\ (runningKey = k \/ k \in acceptedKeys)
\* Mutant of Waiting: the running task is taken off twice.
WaitingTwoLess == IF depth <= 1 THEN 0 ELSE depth - 2

Waiting == IF depth = 0 THEN 0 ELSE depth - 1

Refuse(t, k) ==
    /\ status[t] = "new"
    /\ Duplicate(k) \/ Waiting >= Limit
    /\ status' = [status EXCEPT ![t] = "refused"]
    /\ UNCHANGED <<key, after, tail, depth, running, runningKey, acceptedKeys,
                   elapsed, blocked, seat, seats>>

\* Mutant of Accept: tail stays at the first task of the chain.
AcceptBehindFirst(t, k) ==
    /\ status[t] = "new"
    /\ ~ Duplicate(k)
    /\ Waiting < Limit
    /\ status' = [status EXCEPT ![t] = "queued"]
    /\ key' = [key EXCEPT ![t] = k]
    /\ depth' = depth + 1
    /\ acceptedKeys' = acceptedKeys \cup ({k} \ {NoKey})
    /\ after' = [after EXCEPT ![t] = tail]
    /\ tail' = IF tail = NoTask THEN t ELSE tail
    /\ seats' = seats + 1
    /\ seat' = [seat EXCEPT ![t] = seats + 1]
    /\ UNCHANGED <<running, runningKey, elapsed, blocked>>

Accept(t, k) ==
    /\ status[t] = "new"
    /\ ~ Duplicate(k)
    /\ Waiting < Limit
    /\ status' = [status EXCEPT ![t] = "queued"]
    /\ key' = [key EXCEPT ![t] = k]
    /\ depth' = depth + 1
    /\ acceptedKeys' = acceptedKeys \cup ({k} \ {NoKey})
    /\ after' = [after EXCEPT ![t] = tail]
    /\ tail' = t
    /\ seats' = seats + 1
    /\ seat' = [seat EXCEPT ![t] = seats + 1]
    /\ UNCHANGED <<running, runningKey, elapsed, blocked>>

(***************************************************************************)
(* The chained continuation.                                               *)
(***************************************************************************)

\* The finally block.
Finish(t) ==
    /\ status' = [status EXCEPT ![t] = "done"]
    /\ running' = FALSE
    /\ runningKey' = NoKey
    /\ depth' = depth - 1

\* One turn of the loop in untilFree, `waited` into it.
Look(t, waited) ==
    /\ elapsed' = waited
    /\ \/ ~ blocked /\ status' = [status EXCEPT ![t] = "free"]
       \/ blocked /\ waited < Timeout /\ status' = [status EXCEPT ![t] = "polling"]

\* tail.then: the promise of the task before is settled, however it ended.
Start(t) ==
    /\ status[t] = "queued"
    /\ after[t] # NoTask => status[after[t]] = "done"
    /\ running' = TRUE
    /\ runningKey' = key[t]
    /\ acceptedKeys' = acceptedKeys \ {key[t]}
    /\ Look(t, 0)
    /\ UNCHANGED <<key, after, tail, depth, blocked, seat, seats>>

\* The timer of delay(interval) fires, late perhaps, and the loop looks again.
Poll(t) ==
    /\ status[t] = "polling"
    /\ \E waited \in elapsed + 1 .. Timeout : Look(t, waited)
    /\ UNCHANGED <<key, after, tail, depth, running, runningKey, acceptedKeys,
                   blocked, seat, seats>>

\* Mutant of GiveUp: the wait has no deadline.
WaitForEver(t) == FALSE

GiveUp(t) ==
    /\ status[t] = "polling"
    /\ blocked
    /\ elapsed' = Timeout
    /\ Finish(t)
    /\ UNCHANGED <<key, after, tail, acceptedKeys, blocked, seat, seats>>

Launch(t) ==
    /\ status[t] = "free"
    /\ status' = [status EXCEPT ![t] = "working"]
    /\ UNCHANGED <<key, after, tail, depth, running, runningKey, acceptedKeys,
                   elapsed, blocked, seat, seats>>

\* task() resolves or rejects: the finally block is the same.
Settle(t) ==
    /\ status[t] = "working"
    /\ Finish(t)
    /\ UNCHANGED <<key, after, tail, acceptedKeys, elapsed, blocked, seat, seats>>

\* Whatever else holds the repository: an overview reload, a tab being opened.
Hold ==
    /\ blocked' = ~ blocked
    /\ UNCHANGED <<status, key, after, tail, depth, running, runningKey, acceptedKeys,
                   elapsed, seat, seats>>

Run(t) == \E k \in Keys \cup {NoKey} : Refuse(t, k) \/ Accept(t, k)
Continue(t) == Start(t) \/ Poll(t) \/ GiveUp(t) \/ Launch(t) \/ Settle(t)

Next == Hold \/ \E t \in Tasks : Run(t) \/ Continue(t)

Spec == Init /\ [][Next]_vars

\* Timers fire, continuations run and operations end; nobody has to click, and
\* the holder need never let go.
Fairness == \A t \in Tasks : WF_vars(Continue(t))
FairSpec == Spec /\ Fairness

-----------------------------------------------------------------------------
(***************************************************************************)
(* Properties.                                                             *)
(***************************************************************************)

\* "Runs repository mutations one at a time": no two continuations are between
\* their start and their end, and the flag says whether one is.
RunningFlag == running <=> \E t \in Tasks : Started(t)
OneAtATime ==
    /\ \A t, u \in Tasks : Started(t) /\ Started(u) => t = u
    /\ RunningFlag

\* "in the order they were asked for": a task starts only after every task that
\* was accepted before it has ended, even if that one gave up or threw.
FirstComeFirstServed ==
    \A t, u \in Tasks :
        Started(t) \/ status[t] = "done" =>
            (Accepted(u) /\ seat[u] < seat[t] => status[u] = "done")

\* The counter is the number of unfinished tasks at every await: were it ever
\* too high the queue would refuse for good, too low it would never fill.
DepthCounts == depth = Cardinality(Pending)

\* "a repository-wide command asked for twice is one command": two unfinished
\* tasks never carry the same key, and no key outlives its task in the books, so
\* a command that has ended can be asked for again.
KeysAreExact ==
    /\ \A t, u \in Pending : key[t] = key[u] /\ key[t] # NoKey => t = u
    /\ acceptedKeys \cup ({runningKey} \ {NoKey}) = {key[t] : t \in Pending} \ {NoKey}

\* "Tasks allowed to wait behind the running one.": the task at the front, and
\* never more than Limit behind it.
WaitingIsBounded == Cardinality(Pending) <= Limit + 1

\* "A holder that never releases must not wedge every later mutation forever":
\* every accepted task ends, whether the holder lets go or not.
AcceptedTasksEnd == \A t \in Tasks : status[t] = "queued" ~> status[t] = "done"

-----------------------------------------------------------------------------
(***************************************************************************)
(* The inductive invariant behind the safety properties.                   *)
(***************************************************************************)

\* Seats number the accepted tasks 1 .. seats, without repetition.
SeatsNumberTasks ==
    /\ \A t \in Tasks : IF Accepted(t) THEN seat[t] \in 1 .. seats ELSE seat[t] = 0
    /\ \A t, u \in Tasks : Accepted(t) /\ Accepted(u) /\ seat[t] = seat[u] => t = u

\* The promise chain follows the seats.
ChainFollowsSeats ==
    /\ IF seats = 0 THEN tail = NoTask
       ELSE tail \in Tasks /\ Accepted(tail) /\ seat[tail] = seats
    /\ \A t \in Tasks : Accepted(t) =>
          IF seat[t] = 1 THEN after[t] = NoTask
          ELSE /\ after[t] \in Tasks /\ Accepted(after[t])
               /\ seat[after[t]] = seat[t] - 1

\* Which books have the key of which task.
KeysInTheBooks ==
    /\ \A k \in Keys : k \in acceptedKeys
          <=> \E t \in Tasks : status[t] = "queued" /\ key[t] = k
    /\ \A t \in Tasks : Started(t) => runningKey = key[t]
    /\ ~ running => runningKey = NoKey
    /\ \A t, u \in Pending : key[t] = key[u] /\ key[t] # NoKey => t = u

IInv ==
    /\ TypeOK
    /\ SeatsNumberTasks
    /\ ChainFollowsSeats
    /\ FirstComeFirstServed
    /\ RunningFlag
    /\ KeysInTheBooks
    /\ DepthCounts
    /\ depth <= Limit + 1
=============================================================================
