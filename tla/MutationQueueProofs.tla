------------------------ MODULE MutationQueueProofs ------------------------
(***************************************************************************)
(* Proofs about MutationQueue, for any number of calls, any keys, any      *)
(* limit and any timeout.                                                  *)
(***************************************************************************)
EXTENDS MutationQueue, FiniteSetTheorems, TLAPS

\* Only the finally block and the acceptance move a task in or out of Pending.
LEMMA PendingIsFinite == IsFiniteSet(Pending)
<1>1. Pending \subseteq Tasks
  BY DEF Pending
<1> QED BY <1>1, TasksAssumption, FS_Subset

LEMMA InitHolds == Init => IInv
<1> SUFFICES ASSUME Init PROVE IInv
  OBVIOUS
<1>1. TypeOK
  <2>1. 0 \in 0 .. Timeout
    BY LimitAssumption
  <2>2. /\ status \in [Tasks -> Statuses] /\ seat \in [Tasks -> Nat]
        /\ key \in [Tasks -> Keys \cup {NoKey}] /\ after \in [Tasks -> Tasks \cup {NoTask}]
    BY DEF Init, Statuses
  <2> QED BY <2>1, <2>2 DEF Init, TypeOK
<1>2. Pending = {} /\ \A t \in Tasks : ~ Accepted(t) /\ ~ Started(t) /\ status[t] = "new"
  BY DEF Init, Pending, Accepted, Started
<1>3. SeatsNumberTasks /\ ChainFollowsSeats
  BY <1>2 DEF Init, SeatsNumberTasks, ChainFollowsSeats
<1>4. FirstComeFirstServed /\ RunningFlag
  BY <1>2 DEF Init, FirstComeFirstServed, RunningFlag
<1>5. KeysInTheBooks
  BY <1>2 DEF Init, KeysInTheBooks
<1>6. DepthCounts /\ depth <= Limit + 1
  BY <1>2, FS_EmptySet, LimitAssumption DEF Init, DepthCounts
<1> QED BY <1>1, <1>3, <1>4, <1>5, <1>6 DEF IInv

\* Two started tasks would each have to wait for the other.
LEMMA OneStarted ==
    ASSUME TypeOK, SeatsNumberTasks, FirstComeFirstServed,
           NEW t \in Tasks, NEW u \in Tasks, Started(t), Started(u)
    PROVE  t = u
<1>1. Accepted(t) /\ Accepted(u) /\ seat[t] \in Nat /\ seat[u] \in Nat
  BY DEF Started, Accepted, TypeOK
<1>2. ~ (seat[u] < seat[t]) /\ ~ (seat[t] < seat[u])
  BY <1>1 DEF FirstComeFirstServed, Started
<1> QED BY <1>1, <1>2 DEF SeatsNumberTasks

LEMMA AcceptStep ==
    ASSUME IInv, NEW t \in Tasks, NEW k \in Keys \cup {NoKey}, Accept(t, k)
    PROVE  IInv'
<1>1. /\ status[t] = "new" /\ status' = [status EXCEPT ![t] = "queued"]
      /\ key' = [key EXCEPT ![t] = k] /\ ~ Duplicate(k)
      /\ after' = [after EXCEPT ![t] = tail] /\ tail' = t
      /\ seats' = seats + 1 /\ seat' = [seat EXCEPT ![t] = seats + 1]
      /\ depth' = depth + 1 /\ Waiting < Limit
      /\ acceptedKeys' = acceptedKeys \cup ({k} \ {NoKey})
      /\ UNCHANGED <<running, runningKey, elapsed, blocked>>
  BY DEF Accept
<1> USE DEF IInv
<1>2. TypeOK'
  BY <1>1 DEF TypeOK, Statuses
<1>3. /\ \A u \in Tasks \ {t} : status'[u] = status[u] /\ seat'[u] = seat[u]
                                /\ key'[u] = key[u] /\ after'[u] = after[u]
      /\ status'[t] = "queued" /\ seat'[t] = seats + 1 /\ key'[t] = k /\ after'[t] = tail
  BY <1>1 DEF TypeOK
<1>4. ~ Accepted(t) /\ ~ Started(t) /\ seats \in Nat /\ depth \in Nat
  BY <1>1 DEF Accepted, Started, TypeOK
<1>5. SeatsNumberTasks'
  BY <1>1, <1>3, <1>4 DEF SeatsNumberTasks, Accepted, TypeOK
<1>6. ChainFollowsSeats'
  BY <1>1, <1>3, <1>4 DEF ChainFollowsSeats, SeatsNumberTasks, Accepted, TypeOK
<1>7. FirstComeFirstServed'
  BY <1>1, <1>3, <1>4 DEF FirstComeFirstServed, SeatsNumberTasks, Accepted, Started, TypeOK
<1>8. RunningFlag'
  BY <1>1, <1>3, <1>4 DEF RunningFlag, Started
<1>9. Pending' = Pending \cup {t} /\ t \notin Pending
  BY <1>1, <1>3 DEF Pending, Started
<1>10. KeysInTheBooks'
  <2>1. \A j \in Keys : j \in acceptedKeys'
          <=> \E u \in Tasks : status'[u] = "queued" /\ key'[u] = j
    BY <1>1, <1>3, KeysAssumption DEF KeysInTheBooks
  <2>2. \A u \in Pending : key[u] = k => k = NoKey
    BY <1>1 DEF KeysInTheBooks, Duplicate, Pending, TypeOK
  <2>3. \A u, v \in Pending' : key'[u] = key'[v] /\ key'[u] # NoKey => u = v
    BY <1>3, <1>9, <2>2 DEF KeysInTheBooks, Pending
  <2>4. /\ \A u \in Tasks : Started(u)' => runningKey' = key'[u]
        /\ ~ running' => runningKey' = NoKey
    BY <1>1, <1>3, <1>4 DEF KeysInTheBooks, Started
  <2> QED BY <2>1, <2>3, <2>4 DEF KeysInTheBooks
<1>11. DepthCounts'
  BY <1>1, <1>4, <1>9, PendingIsFinite, FS_AddElement DEF DepthCounts
<1>12. depth' <= Limit + 1
  BY <1>1, <1>4, LimitAssumption DEF Waiting
<1> QED BY <1>2, <1>5, <1>6, <1>7, <1>8, <1>10, <1>11, <1>12

\* A step within the continuation of a started task.
LEMMA WithinStep ==
    ASSUME IInv, NEW t \in Tasks, Started(t), Started(t)',
           \A u \in Tasks \ {t} : status'[u] = status[u],
           TypeOK',
           UNCHANGED <<key, after, tail, depth, running, runningKey, acceptedKeys, seat, seats>>
    PROVE  IInv'
<1>1. \A u \in Tasks : /\ Started(u)' <=> Started(u)
                       /\ Accepted(u)' <=> Accepted(u)
                       /\ status'[u] = "queued" <=> status[u] = "queued"
                       /\ status'[u] = "done" <=> status[u] = "done"
  BY DEF Started, Accepted
<1>2. Pending' = Pending
  BY <1>1 DEF Pending
<1> QED
  BY <1>1, <1>2 DEF IInv, SeatsNumberTasks, ChainFollowsSeats, FirstComeFirstServed, RunningFlag,
     KeysInTheBooks, DepthCounts

LEMMA StartStep ==
    ASSUME IInv, NEW t \in Tasks, Start(t)
    PROVE  IInv'
<1> USE DEF IInv
<1>1. /\ status[t] = "queued"
      /\ after[t] # NoTask => status[after[t]] = "done"
      /\ \E s \in {"polling", "free"} : status' = [status EXCEPT ![t] = s]
      /\ elapsed' = 0 /\ running' = TRUE /\ runningKey' = key[t]
      /\ acceptedKeys' = acceptedKeys \ {key[t]}
      /\ UNCHANGED <<key, after, tail, depth, blocked, seat, seats>>
  BY DEF Start, Look
<1>2. /\ \A u \in Tasks \ {t} : status'[u] = status[u]
      /\ Started(t)' /\ status'[t] # "done" /\ status'[t] # "queued" /\ Accepted(t)'
  BY <1>1 DEF TypeOK, Started, Accepted
<1>3. TypeOK'
  BY <1>1, LimitAssumption DEF TypeOK, Statuses
<1>4. \A u \in Tasks : Accepted(u) /\ seat[u] < seat[t] => status[u] = "done"
  <2> SUFFICES ASSUME NEW u \in Tasks, Accepted(u), seat[u] < seat[t]
               PROVE  status[u] = "done"
    OBVIOUS
  <2>1. Accepted(t) /\ seat[t] \in Nat /\ seat[u] \in Nat /\ seat[u] >= 1
    BY <1>1 DEF Accepted, SeatsNumberTasks, TypeOK
  <2>2. /\ after[t] \in Tasks /\ Accepted(after[t]) /\ seat[after[t]] = seat[t] - 1
        /\ status[after[t]] = "done"
    BY <1>1, <2>1, TasksAssumption DEF ChainFollowsSeats
  <2>3. seat[u] = seat[after[t]] \/ seat[u] < seat[after[t]]
    BY <2>1, <2>2
  <2> QED BY <2>2, <2>3 DEF SeatsNumberTasks, FirstComeFirstServed
<1>5. \A u \in Tasks : ~ Started(u)
  <2> SUFFICES ASSUME NEW u \in Tasks, Started(u) PROVE FALSE
    OBVIOUS
  <2>1. Accepted(u) /\ Accepted(t) /\ u # t /\ seat[u] \in Nat /\ seat[t] \in Nat
    BY <1>1 DEF Started, Accepted, TypeOK
  <2>2. seat[u] # seat[t] /\ ~ (seat[t] < seat[u]) /\ ~ (seat[u] < seat[t])
    BY <1>1, <1>4, <2>1 DEF SeatsNumberTasks, FirstComeFirstServed, Started
  <2> QED BY <2>1, <2>2
<1>6. \A u \in Tasks : Accepted(u)' <=> Accepted(u)
  BY <1>1, <1>2 DEF Accepted
<1>7. SeatsNumberTasks' /\ ChainFollowsSeats'
  BY <1>1, <1>6 DEF SeatsNumberTasks, ChainFollowsSeats
<1>8. FirstComeFirstServed'
  BY <1>1, <1>2, <1>4, <1>6 DEF FirstComeFirstServed, Started
<1>9. RunningFlag'
  BY <1>1, <1>2 DEF RunningFlag
<1>10. Pending' = Pending
  BY <1>1, <1>2 DEF Pending, Started
<1>11. KeysInTheBooks'
  <2>1. \A j \in Keys : j \in acceptedKeys'
          <=> \E u \in Tasks : status'[u] = "queued" /\ key'[u] = j
    <3>1. \A u \in Tasks \ {t} : status[u] = "queued" /\ key[u] = key[t] => key[t] = NoKey
      BY <1>1 DEF KeysInTheBooks, Pending
    <3> QED BY <1>1, <1>2, <3>1, KeysAssumption DEF KeysInTheBooks
  <2>2. \A u \in Tasks : Started(u)' => u = t
    BY <1>2, <1>5 DEF Started
  <2> QED BY <1>1, <1>10, <2>1, <2>2 DEF KeysInTheBooks
<1>12. DepthCounts' /\ depth' <= Limit + 1
  BY <1>1, <1>10 DEF DepthCounts
<1> QED BY <1>3, <1>7, <1>8, <1>9, <1>11, <1>12

LEMMA FinishStep ==
    ASSUME IInv, NEW t \in Tasks, Started(t), Finish(t), elapsed' \in 0 .. Timeout,
           UNCHANGED <<key, after, tail, acceptedKeys, blocked, seat, seats>>
    PROVE  IInv'
<1> USE DEF IInv
<1>1. /\ status' = [status EXCEPT ![t] = "done"]
      /\ running' = FALSE /\ runningKey' = NoKey /\ depth' = depth - 1
  BY DEF Finish
<1>2. /\ \A u \in Tasks \ {t} : status'[u] = status[u] /\ ~ Started(u)
      /\ status'[t] = "done" /\ Accepted(t) /\ status[t] # "queued"
  BY <1>1, OneStarted DEF TypeOK, Started, Accepted
<1>3. Pending' = Pending \ {t} /\ t \in Pending
  BY <1>1, <1>2 DEF Pending, Started
<1>4. DepthCounts' /\ depth' \in Nat /\ depth' <= Limit + 1
  <2>1. Cardinality(Pending \ {t}) = Cardinality(Pending) - 1 /\ Cardinality(Pending \ {t}) \in Nat
    BY <1>3, PendingIsFinite, FS_RemoveElement, FS_CardinalityType
  <2> QED BY <1>1, <1>3, <2>1, LimitAssumption DEF DepthCounts, TypeOK
<1>5. TypeOK'
  BY <1>1, <1>4 DEF TypeOK, Statuses
<1>6. \A u \in Tasks : (Accepted(u)' <=> Accepted(u)) /\ ~ Started(u)'
  BY <1>1, <1>2 DEF Accepted, Started
<1>7. SeatsNumberTasks' /\ ChainFollowsSeats'
  BY <1>6 DEF SeatsNumberTasks, ChainFollowsSeats
<1>8. FirstComeFirstServed'
  BY <1>2, <1>6 DEF FirstComeFirstServed
<1>9. RunningFlag'
  BY <1>1, <1>6 DEF RunningFlag
<1>10. KeysInTheBooks'
  BY <1>1, <1>2, <1>3, <1>6 DEF KeysInTheBooks
<1> QED BY <1>4, <1>5, <1>7, <1>8, <1>9, <1>10

LEMMA IInvStep == IInv /\ [Next]_vars => IInv'
<1> SUFFICES ASSUME IInv, [Next]_vars PROVE IInv'
  OBVIOUS
<1>1. ASSUME NEW t \in Tasks, NEW k \in Keys \cup {NoKey}, Refuse(t, k)
      PROVE  IInv'
  <2>1. \A u \in Tasks : /\ Started(u)' <=> Started(u)
                         /\ Accepted(u)' <=> Accepted(u)
                         /\ status'[u] = "queued" <=> status[u] = "queued"
                         /\ status'[u] = "done" <=> status[u] = "done"
    BY <1>1 DEF Refuse, Started, Accepted, IInv, TypeOK
  <2>2. Pending' = Pending
    BY <2>1 DEF Pending
  <2>3. TypeOK'
    BY <1>1 DEF Refuse, IInv, TypeOK, Statuses
  <2> QED
    BY <1>1, <2>1, <2>2, <2>3 DEF Refuse, IInv, SeatsNumberTasks, ChainFollowsSeats,
       FirstComeFirstServed, RunningFlag, KeysInTheBooks, DepthCounts
<1>2. ASSUME NEW t \in Tasks, NEW k \in Keys \cup {NoKey}, Accept(t, k)
      PROVE  IInv'
  BY <1>2, AcceptStep
<1>3. ASSUME NEW t \in Tasks, Start(t)
      PROVE  IInv'
  BY <1>3, StartStep
<1>4. ASSUME NEW t \in Tasks, Poll(t) \/ Launch(t)
      PROVE  IInv'
  <2>1. \E s \in {"polling", "free", "working"} : status' = [status EXCEPT ![t] = s]
    BY <1>4 DEF Poll, Look, Launch
  <2>2. elapsed' \in 0 .. Timeout
    BY <1>4, LimitAssumption DEF Poll, Look, Launch, IInv, TypeOK
  <2>3. UNCHANGED <<key, after, tail, depth, running, runningKey, acceptedKeys, blocked,
                    seat, seats>>
    BY <1>4 DEF Poll, Launch
  <2>4. TypeOK'
    BY <2>1, <2>2, <2>3 DEF IInv, TypeOK, Statuses
  <2>5. Started(t) /\ Started(t)' /\ \A u \in Tasks \ {t} : status'[u] = status[u]
    BY <1>4, <2>1 DEF Poll, Launch, Started, IInv, TypeOK
  <2> QED BY <2>3, <2>4, <2>5, WithinStep
<1>5. ASSUME NEW t \in Tasks, GiveUp(t) \/ Settle(t)
      PROVE  IInv'
  <2>1. Started(t) /\ Finish(t)
    BY <1>5 DEF GiveUp, Settle, Started
  <2>2. elapsed' \in 0 .. Timeout
    BY <1>5, LimitAssumption DEF GiveUp, Settle, IInv, TypeOK
  <2>3. UNCHANGED <<key, after, tail, acceptedKeys, blocked, seat, seats>>
    BY <1>5 DEF GiveUp, Settle
  <2> QED BY <2>1, <2>2, <2>3, FinishStep
<1>6. CASE Hold
  BY <1>6 DEF Hold, IInv, TypeOK, SeatsNumberTasks, ChainFollowsSeats, FirstComeFirstServed,
     RunningFlag, KeysInTheBooks, DepthCounts, Pending, Started, Accepted
<1>7. CASE UNCHANGED vars
  BY <1>7 DEF vars, IInv, TypeOK, SeatsNumberTasks, ChainFollowsSeats, FirstComeFirstServed,
     RunningFlag, KeysInTheBooks, DepthCounts, Pending, Started, Accepted
<1> QED BY <1>1, <1>2, <1>3, <1>4, <1>5, <1>6, <1>7 DEF Next, Run, Continue

\* The chain of promises numbers the accepted tasks without gaps, and the flag,
\* the counter and the keys agree with the tasks' states.
THEOREM QueueInductiveInvariant == Spec => []IInv
BY InitHolds, IInvStep, PTL DEF Spec

\* Mutations run one at a time, and `running` says whether one does.
THEOREM QueueRunsOneAtATime == Spec => []OneAtATime
<1>1. IInv => OneAtATime
  BY OneStarted DEF IInv, OneAtATime
<1> QED BY <1>1, QueueInductiveInvariant, PTL

\* Mutations run in the order they were asked for.
THEOREM QueueIsFifo == Spec => []FirstComeFirstServed
<1>1. IInv => FirstComeFirstServed
  BY DEF IInv
<1> QED BY <1>1, QueueInductiveInvariant, PTL

\* `depth` counts the unfinished tasks, so the limit neither leaks nor sticks.
THEOREM QueueDepthCounts == Spec => []DepthCounts
<1>1. IInv => DepthCounts
  BY DEF IInv
<1> QED BY <1>1, QueueInductiveInvariant, PTL

\* A command is pending at most once, and can be asked for again once it ended.
THEOREM QueueKeysAreExact == Spec => []KeysAreExact
<1>1. IInv => KeysAreExact
  <2> SUFFICES ASSUME IInv PROVE KeysAreExact
    OBVIOUS
  <2> DEFINE InBooks == acceptedKeys \cup ({runningKey} \ {NoKey})
             OfPending == {key[t] : t \in Pending} \ {NoKey}
  <2>1. ASSUME NEW k \in InBooks PROVE k \in OfPending
    <3>1. CASE k \in acceptedKeys
      BY <3>1, KeysAssumption DEF IInv, KeysInTheBooks, Pending, TypeOK
    <3>2. CASE k = runningKey /\ k # NoKey
      BY <3>2 DEF IInv, KeysInTheBooks, RunningFlag, Pending
    <3> QED BY <2>1, <3>1, <3>2
  <2>2. ASSUME NEW k \in OfPending PROVE k \in InBooks
    <3>1. PICK t \in Pending : k = key[t] /\ k # NoKey
      BY <2>2
    <3>2. CASE status[t] = "queued"
      BY <3>1, <3>2 DEF IInv, KeysInTheBooks, Pending, TypeOK
    <3>3. CASE Started(t)
      BY <3>1, <3>3 DEF IInv, KeysInTheBooks, Pending
    <3> QED BY <3>1, <3>2, <3>3 DEF Pending
  <2>3. InBooks = OfPending
    BY <2>1, <2>2
  <2> QED BY <2>3 DEF KeysAreExact, IInv, KeysInTheBooks
<1> QED BY <1>1, QueueInductiveInvariant, PTL

\* No more than `limit` tasks wait behind the one at the front.
THEOREM QueueIsBounded == Spec => []WaitingIsBounded
<1>1. IInv => WaitingIsBounded
  BY DEF IInv, WaitingIsBounded, DepthCounts
<1> QED BY <1>1, QueueInductiveInvariant, PTL
=============================================================================
