--------------------------- MODULE TaskQueueProofs --------------------------
(***************************************************************************)
(* Proofs about TaskQueue, for any number of workers and any set of tasks. *)
(***************************************************************************)
EXTENDS TaskQueue, SequenceTheorems, FiniteSetTheorems, TLAPS

(* Who is between lock and unlock of TaskQueue::mut holds it.              *)
MutexInv ==
  /\ \A t \in Tasks : tpc[t] \in {"pushed", "posted"} => mut = t
  /\ \A w \in Workers : wpc[w] = "unlock" => mut = w

(* The local t of a worker is set from the dequeue to the end of a turn.   *)
HandInv ==
  \A w \in Workers :
    /\ cur[w] # NULL => wpc[w] \in {"unlock", "got"}
    /\ wpc[w] = "got" => cur[w] # NULL

(* Workers that are past the semaphore and have not locked the mutex yet,  *)
(* and the task that is in the queue but not yet posted.                   *)
Locking == {w \in Workers : wpc[w] = "lock"}
Pending == IF \E t \in Tasks : tpc[t] = "pushed" THEN 1 ELSE 0

(* As long as one worker may run, nobody has called increment_count, and   *)
(* each task in the queue stands for one unit of the semaphore, for one    *)
(* worker past it, or for the post that comes next.                        *)
BalanceInv ==
  (\E v \in Workers : can_run[v]) =>
    /\ posts = 0
    /\ count + Cardinality(Locking) + Pending = Len(queue)
    /\ \A w \in Workers : wpc[w] # "null" /\ (wpc[w] = "unlock" => cur[w] # NULL)

(* The seats that were left through the front of the queue.                *)
Front   == Len(seats) - Len(queue)
Gone    == {seats[i] : i \in 1 .. Front}
RanSet  == {ran[k] : k \in DOMAIN ran}
HeldSet == {cur[w] : w \in Workers} \ {NULL}

(* The queue is the rest of the seats; those that left it are in the hands *)
(* of one worker or were run once.                                         *)
SeatInv ==
  /\ Len(queue) <= Len(seats)
  /\ \A i \in 1 .. Len(queue) : queue[i] = seats[Front + i]
  /\ \A i, j \in DOMAIN seats : seats[i] = seats[j] => i = j
  /\ \A i \in DOMAIN seats : tpc[seats[i]] # "new"
  /\ Gone = RanSet \cup HeldSet
  /\ \A i, j \in DOMAIN ran : ran[i] = ran[j] => i = j
  /\ \A v, w \in Workers : cur[v] = cur[w] /\ cur[v] # NULL => v = w
  /\ RanSet \cap HeldSet = {}

(* What was run had been made ready; it stays so.                          *)
ProcessedFirst == \A i \in DOMAIN ran : tpc[ran[i]] = "ready"

QueueInv == TypeOK /\ MutexInv /\ HandInv /\ BalanceInv /\ SeatInv /\ ProcessedFirst

-----------------------------------------------------------------------------
LEMMA WorkersFinite == Cardinality(Workers) \in Nat
  BY TaskQueueAssumption, FS_CardinalityType

LEMMA TypeInit == Init => TypeOK
  BY WorkersFinite DEF Init, TypeOK

(* Where a step may lead.                                                  *)
LEMMA NextCases ==
  ASSUME [Next]_vars
  PROVE  \/ \E t \in Tasks : EnqueuePush(t) \/ EnqueuePost(t) \/ EnqueueUnlock(t) \/ MakeReady(t)
         \/ \E w \in Workers : \/ TestCanRun(w) \/ SemWait(w) \/ Dequeue(w) \/ DequeueUnlock(w)
                              \/ GotNull(w) \/ Run(w) \/ ClearCanRun(w)
         \/ WakeAll
         \/ UNCHANGED vars
  BY DEF Next, Seat, Work

(* Each step keeps the types: a worker runs a task, never NULL.            *)
LEMMA TypeStep == TypeOK /\ HandInv /\ [Next]_vars => TypeOK'
<1> SUFFICES ASSUME TypeOK, HandInv, [Next]_vars PROVE TypeOK'
  OBVIOUS
<1>1. ASSUME NEW t \in Tasks, EnqueuePush(t) PROVE TypeOK'
  <2>1. Append(queue, t) \in Seq(Tasks) /\ Append(seats, t) \in Seq(Tasks)
    BY AppendProperties DEF TypeOK
  <2> QED BY <1>1, <2>1 DEF TypeOK, EnqueuePush, TaskStep
<1>2. ASSUME NEW t \in Tasks, EnqueuePost(t) PROVE TypeOK'
  BY <1>2 DEF TypeOK, EnqueuePost, TaskStep, queueVars
<1>3. ASSUME NEW t \in Tasks, EnqueueUnlock(t) PROVE TypeOK'
  BY <1>3 DEF TypeOK, EnqueueUnlock, TaskStep, queueVars
<1>4. ASSUME NEW t \in Tasks, MakeReady(t) PROVE TypeOK'
  BY <1>4 DEF TypeOK, MakeReady, TaskStep, queueVars
<1>5. ASSUME NEW w \in Workers, TestCanRun(w) PROVE TypeOK'
  BY <1>5 DEF TypeOK, TestCanRun, WorkerStep, queueVars
<1>6. ASSUME NEW w \in Workers, SemWait(w) PROVE TypeOK'
  BY <1>6 DEF TypeOK, SemWait, WorkerStep, queueVars
<1>7. ASSUME NEW w \in Workers, Dequeue(w) PROVE TypeOK'
  <2>1. CASE queue = <<>>
    BY <1>7, <2>1 DEF TypeOK, Dequeue, WorkerStep
  <2>2. CASE queue # <<>>
    <3>1. Head(queue) \in Tasks /\ Tail(queue) \in Seq(Tasks)
      BY <2>2, HeadTailProperties DEF TypeOK
    <3> QED BY <1>7, <2>2, <3>1 DEF TypeOK, Dequeue, WorkerStep
  <2> QED BY <2>1, <2>2
<1>8. ASSUME NEW w \in Workers, DequeueUnlock(w) PROVE TypeOK'
  BY <1>8 DEF TypeOK, DequeueUnlock, WorkerStep, queueVars
<1>9. ASSUME NEW w \in Workers, GotNull(w) PROVE TypeOK'
  BY <1>9 DEF TypeOK, GotNull, WorkerStep, queueVars
<1>10. ASSUME NEW w \in Workers, Run(w) PROVE TypeOK'
  <2>1. cur[w] \in Tasks
    BY <1>10 DEF TypeOK, HandInv, Run, WorkerStep
  <2>2. Append(ran, cur[w]) \in Seq(Tasks)
    BY <2>1, AppendProperties DEF TypeOK
  <2> QED BY <1>10, <2>2 DEF TypeOK, Run, WorkerStep, queueVars
<1>11. ASSUME NEW w \in Workers, ClearCanRun(w) PROVE TypeOK'
  BY <1>11, WorkersFinite DEF TypeOK, ClearCanRun, queueVars
<1>12. CASE WakeAll
  BY <1>12, WorkersFinite DEF TypeOK, WakeAll, increment_count, queueVars
<1>13. CASE UNCHANGED vars
  BY <1>13 DEF vars, queueVars, TypeOK
<1> QED BY NextCases, <1>1, <1>2, <1>3, <1>4, <1>5, <1>6, <1>7, <1>8, <1>9, <1>10, <1>11, <1>12, <1>13

LEMMA MutexStep == TypeOK /\ MutexInv /\ [Next]_vars => MutexInv'
<1> SUFFICES ASSUME TypeOK, MutexInv, [Next]_vars PROVE MutexInv'
  OBVIOUS
<1>1. ASSUME NEW t \in Tasks, EnqueuePush(t) PROVE MutexInv'
  BY <1>1, TaskQueueAssumption DEF TypeOK, MutexInv, EnqueuePush, TaskStep, queueVars
<1>2. ASSUME NEW t \in Tasks, EnqueuePost(t) PROVE MutexInv'
  BY <1>2, TaskQueueAssumption DEF TypeOK, MutexInv, EnqueuePost, TaskStep, queueVars
<1>3. ASSUME NEW t \in Tasks, EnqueueUnlock(t) PROVE MutexInv'
  BY <1>3, TaskQueueAssumption DEF TypeOK, MutexInv, EnqueueUnlock, TaskStep, queueVars
<1>4. ASSUME NEW t \in Tasks, MakeReady(t) PROVE MutexInv'
  BY <1>4, TaskQueueAssumption DEF TypeOK, MutexInv, MakeReady, TaskStep, queueVars
<1>5. ASSUME NEW w \in Workers, TestCanRun(w) PROVE MutexInv'
  BY <1>5, TaskQueueAssumption DEF TypeOK, MutexInv, TestCanRun, WorkerStep, queueVars
<1>6. ASSUME NEW w \in Workers, SemWait(w) PROVE MutexInv'
  BY <1>6, TaskQueueAssumption DEF TypeOK, MutexInv, SemWait, WorkerStep, queueVars
<1>7. ASSUME NEW w \in Workers, Dequeue(w) PROVE MutexInv'
  BY <1>7, TaskQueueAssumption DEF TypeOK, MutexInv, Dequeue, WorkerStep, queueVars
<1>8. ASSUME NEW w \in Workers, DequeueUnlock(w) PROVE MutexInv'
  BY <1>8, TaskQueueAssumption DEF TypeOK, MutexInv, DequeueUnlock, WorkerStep, queueVars
<1>9. ASSUME NEW w \in Workers, GotNull(w) PROVE MutexInv'
  BY <1>9, TaskQueueAssumption DEF TypeOK, MutexInv, GotNull, WorkerStep, queueVars
<1>10. ASSUME NEW w \in Workers, Run(w) PROVE MutexInv'
  BY <1>10, TaskQueueAssumption DEF TypeOK, MutexInv, Run, WorkerStep, queueVars
<1>11. ASSUME NEW w \in Workers, ClearCanRun(w) PROVE MutexInv'
  BY <1>11, TaskQueueAssumption DEF TypeOK, MutexInv, ClearCanRun, queueVars
<1>12. CASE WakeAll
  BY <1>12, TaskQueueAssumption DEF TypeOK, MutexInv, WakeAll, increment_count, queueVars
<1>13. CASE UNCHANGED vars
  BY <1>13 DEF vars, queueVars, MutexInv
<1> QED BY NextCases, <1>1, <1>2, <1>3, <1>4, <1>5, <1>6, <1>7, <1>8, <1>9, <1>10, <1>11, <1>12, <1>13

LEMMA HandStep == TypeOK /\ HandInv /\ [Next]_vars => HandInv'
<1> SUFFICES ASSUME TypeOK, HandInv, [Next]_vars PROVE HandInv'
  OBVIOUS
<1>1. ASSUME NEW t \in Tasks, EnqueuePush(t) PROVE HandInv'
  BY <1>1 DEF TypeOK, HandInv, EnqueuePush, TaskStep, queueVars
<1>2. ASSUME NEW t \in Tasks, EnqueuePost(t) PROVE HandInv'
  BY <1>2 DEF TypeOK, HandInv, EnqueuePost, TaskStep, queueVars
<1>3. ASSUME NEW t \in Tasks, EnqueueUnlock(t) PROVE HandInv'
  BY <1>3 DEF TypeOK, HandInv, EnqueueUnlock, TaskStep, queueVars
<1>4. ASSUME NEW t \in Tasks, MakeReady(t) PROVE HandInv'
  BY <1>4 DEF TypeOK, HandInv, MakeReady, TaskStep, queueVars
<1>5. ASSUME NEW w \in Workers, TestCanRun(w) PROVE HandInv'
  BY <1>5 DEF TypeOK, HandInv, TestCanRun, WorkerStep, queueVars
<1>6. ASSUME NEW w \in Workers, SemWait(w) PROVE HandInv'
  BY <1>6 DEF TypeOK, HandInv, SemWait, WorkerStep, queueVars
<1>7. ASSUME NEW w \in Workers, Dequeue(w) PROVE HandInv'
  BY <1>7 DEF TypeOK, HandInv, Dequeue, WorkerStep, queueVars
<1>8. ASSUME NEW w \in Workers, DequeueUnlock(w) PROVE HandInv'
  BY <1>8 DEF TypeOK, HandInv, DequeueUnlock, WorkerStep, queueVars
<1>9. ASSUME NEW w \in Workers, GotNull(w) PROVE HandInv'
  BY <1>9 DEF TypeOK, HandInv, GotNull, WorkerStep, queueVars
<1>10. ASSUME NEW w \in Workers, Run(w) PROVE HandInv'
  BY <1>10 DEF TypeOK, HandInv, Run, WorkerStep, queueVars
<1>11. ASSUME NEW w \in Workers, ClearCanRun(w) PROVE HandInv'
  BY <1>11 DEF TypeOK, HandInv, ClearCanRun, queueVars
<1>12. CASE WakeAll
  BY <1>12 DEF TypeOK, HandInv, WakeAll, increment_count, queueVars
<1>13. CASE UNCHANGED vars
  BY <1>13 DEF vars, queueVars, HandInv
<1> QED BY NextCases, <1>1, <1>2, <1>3, <1>4, <1>5, <1>6, <1>7, <1>8, <1>9, <1>10, <1>11, <1>12, <1>13

-----------------------------------------------------------------------------
LEMMA LockingFinite == IsFiniteSet(Locking) /\ Cardinality(Locking) \in Nat
<1>1. Locking \in SUBSET Workers
  BY DEF Locking
<1>2. IsFiniteSet(Locking)
  BY <1>1, TaskQueueAssumption, FS_Subset
<1> QED BY <1>2, FS_CardinalityType

(* A worker that passes the semaphore joins those before the mutex.        *)
LEMMA LockingGrows ==
  ASSUME TypeOK, NEW w \in Workers, WorkerStep(w, "wait", "lock")
  PROVE  Cardinality(Locking') = Cardinality(Locking) + 1
<1>1. wpc[w] = "wait" /\ wpc' = [wpc EXCEPT ![w] = "lock"]
  BY DEF WorkerStep
<1>2. Locking' = Locking \cup {w} /\ w \notin Locking
  BY <1>1 DEF Locking, TypeOK
<1> QED BY <1>2, LockingFinite, FS_AddElement

(* A worker that locks the mutex leaves them.                              *)
LEMMA LockingShrinks ==
  ASSUME TypeOK, NEW w \in Workers, WorkerStep(w, "lock", "unlock")
  PROVE  /\ Cardinality(Locking') = Cardinality(Locking) - 1
         /\ Cardinality(Locking) > 0
<1>1. wpc[w] = "lock" /\ wpc' = [wpc EXCEPT ![w] = "unlock"]
  BY DEF WorkerStep
<1>2. Locking' = Locking \ {w} /\ w \in Locking
  BY <1>1 DEF Locking, TypeOK
<1>3. Cardinality(Locking') = Cardinality(Locking) - 1
  BY <1>2, LockingFinite, FS_RemoveElement
<1>4. Locking # {}
  BY <1>2
<1>5. Cardinality(Locking) # 0
  BY <1>4, LockingFinite, FS_EmptySet
<1> QED BY <1>3, <1>5, LockingFinite

(* While a thread or a worker holds the mutex no task waits for its post,  *)
(* except that of the thread itself.                                       *)
LEMMA PendingByMutex ==
  ASSUME TypeOK, MutexInv
  PROVE  /\ mut \notin Tasks => Pending = 0
         /\ \A t \in Tasks : tpc[t] = "pushed" =>
              Pending = 1 /\ \A u \in Tasks : tpc[u] = "pushed" => u = t
<1>1. mut \notin Tasks => ~ \E t \in Tasks : tpc[t] = "pushed"
  BY DEF MutexInv
<1>2. \A t, u \in Tasks : tpc[t] = "pushed" /\ tpc[u] = "pushed" => u = t
  BY DEF MutexInv
<1> QED BY <1>1, <1>2 DEF Pending

(* Each step keeps semaphore and queue in balance: a task is pushed and    *)
(* then posted, a unit is taken and then a task, each by one thread, so    *)
(* that whoever took a unit finds the queue non-empty.                     *)
LEMMA BalanceStep ==
  TypeOK /\ MutexInv /\ HandInv /\ BalanceInv /\ [Next]_vars => BalanceInv'
<1> SUFFICES ASSUME TypeOK, MutexInv, HandInv, BalanceInv, [Next]_vars PROVE BalanceInv'
  OBVIOUS
<1> DEFINE Goal == /\ posts' = 0
                   /\ count' + Cardinality(Locking') + Pending' = Len(queue')
                   /\ \A w \in Workers :
                        wpc'[w] # "null" /\ (wpc'[w] = "unlock" => cur'[w] # NULL)
<1> SUFFICES ASSUME NEW v \in Workers, can_run'[v] PROVE Goal
  BY DEF BalanceInv
<1> USE DEF Goal
<1>0. can_run[v]
  <2>1. \A w \in Workers : ~can_run[w] => ~can_run'[w]
    BY NextCases DEF TypeOK, EnqueuePush, EnqueuePost, EnqueueUnlock, MakeReady, TaskStep,
       TestCanRun, SemWait, Dequeue, DequeueUnlock, GotNull, Run, WorkerStep,
       ClearCanRun, WakeAll, vars
  <2> QED BY <2>1
<1>a. /\ posts = 0
      /\ count + Cardinality(Locking) + Pending = Len(queue)
      /\ \A w \in Workers : wpc[w] # "null" /\ (wpc[w] = "unlock" => cur[w] # NULL)
  BY <1>0 DEF BalanceInv
<1>b. /\ count \in Nat /\ queue \in Seq(Tasks) /\ Len(queue) \in Nat
      /\ Cardinality(Locking) \in Nat /\ Pending \in {0, 1}
  BY LockingFinite DEF TypeOK, Pending
<1>1. ASSUME NEW t \in Tasks, EnqueuePush(t) PROVE Goal
  <2>1. mut = NULL /\ tpc[t] = "new" /\ tpc' = [tpc EXCEPT ![t] = "pushed"]
        /\ queue' = Append(queue, t) /\ UNCHANGED <<count, wpc, cur, posts>>
    BY <1>1 DEF EnqueuePush, TaskStep
  <2>2. Pending = 0
    BY <2>1, PendingByMutex, TaskQueueAssumption
  <2>3. Pending' = 1
    BY <2>1 DEF Pending, TypeOK
  <2>4. Len(queue') = Len(queue) + 1
    BY <1>b, <2>1
  <2>5. Locking' = Locking
    BY <2>1 DEF Locking
  <2> QED BY <1>a, <1>b, <2>1, <2>2, <2>3, <2>4, <2>5
<1>2. ASSUME NEW t \in Tasks, EnqueuePost(t) PROVE Goal
  <2>1. tpc[t] = "pushed" /\ tpc' = [tpc EXCEPT ![t] = "posted"]
        /\ count' = count + 1 /\ UNCHANGED <<queue, wpc, cur, posts>>
    BY <1>2 DEF EnqueuePost, TaskStep
  <2>2. Pending = 1 /\ \A u \in Tasks : tpc[u] = "pushed" => u = t
    BY <2>1, PendingByMutex
  <2>3. Pending' = 0
    BY <2>1, <2>2 DEF Pending, TypeOK
  <2>4. Locking' = Locking
    BY <2>1 DEF Locking
  <2> QED BY <1>a, <1>b, <2>1, <2>2, <2>3, <2>4
<1>3. ASSUME NEW t \in Tasks, EnqueueUnlock(t) \/ MakeReady(t) PROVE Goal
  <2>1. /\ tpc[t] # "pushed" /\ \E to \in {"seated", "ready"} : tpc' = [tpc EXCEPT ![t] = to]
        /\ UNCHANGED <<count, queue, wpc, cur, posts>>
    BY <1>3 DEF EnqueueUnlock, MakeReady, TaskStep, queueVars
  <2>2. Pending' = Pending
    BY <2>1 DEF Pending, TypeOK
  <2>3. Locking' = Locking
    BY <2>1 DEF Locking
  <2> QED BY <1>a, <2>1, <2>2, <2>3
(* A step of a worker that is neither of the two around the mutex.         *)
<1>4. ASSUME NEW w \in Workers, NEW from, NEW to, WorkerStep(w, from, to),
             from # "lock", to \notin {"lock", "unlock", "null"},
             UNCHANGED <<queue, count>>,
             \A u \in Workers \ {w} : cur'[u] = cur[u]
      PROVE  Goal
  <2>1. wpc[w] = from /\ wpc' = [wpc EXCEPT ![w] = to] /\ UNCHANGED <<tpc, posts>>
    BY <1>4 DEF WorkerStep
  <2>2. Locking' = Locking
    BY <1>4, <2>1 DEF Locking, TypeOK
  <2>3. Pending' = Pending
    BY <2>1 DEF Pending
  <2>4. \A u \in Workers : wpc'[u] # "null" /\ (wpc'[u] = "unlock" => cur'[u] # NULL)
    BY <1>4, <1>a, <2>1 DEF TypeOK
  <2> QED BY <1>4, <1>a, <2>1, <2>2, <2>3, <2>4
<1>5. ASSUME NEW w \in Workers, TestCanRun(w) PROVE Goal
  BY <1>4, <1>5 DEF TestCanRun, queueVars
<1>6. ASSUME NEW w \in Workers, SemWait(w) PROVE Goal
  <2>1. /\ WorkerStep(w, "wait", "lock") /\ count > 0 /\ count' = count - 1
        /\ wpc' = [wpc EXCEPT ![w] = "lock"] /\ UNCHANGED <<queue, cur, tpc, posts>>
    BY <1>6 DEF SemWait, WorkerStep
  <2>2. Cardinality(Locking') = Cardinality(Locking) + 1
    BY <2>1, LockingGrows
  <2>3. Pending' = Pending
    BY <2>1 DEF Pending
  <2>4. count' + Cardinality(Locking') + Pending' = Len(queue')
    BY <1>a, <1>b, <2>1, <2>2, <2>3
  <2> QED BY <1>a, <2>1, <2>4 DEF TypeOK
<1>7. ASSUME NEW w \in Workers, Dequeue(w) PROVE Goal
  <2>1. /\ WorkerStep(w, "lock", "unlock") /\ mut = NULL
        /\ wpc' = [wpc EXCEPT ![w] = "unlock"] /\ UNCHANGED <<count, tpc, posts>>
    BY <1>7 DEF Dequeue, WorkerStep
  <2>2. Cardinality(Locking') = Cardinality(Locking) - 1 /\ Cardinality(Locking) > 0
    BY <2>1, LockingShrinks
  <2>3. Pending = 0 /\ Pending' = Pending
    BY <2>1, PendingByMutex, TaskQueueAssumption DEF Pending
  <2>4. Len(queue) > 0
    BY <1>a, <1>b, <2>2, <2>3
  <2>5. queue # <<>>
    BY <2>4
  <2>6. /\ Head(queue) \in Tasks /\ Len(Tail(queue)) = Len(queue) - 1
    BY <1>b, <2>5, HeadTailProperties
  <2>7. queue' = Tail(queue) /\ cur' = [cur EXCEPT ![w] = Head(queue)]
    BY <1>7, <2>5 DEF Dequeue
  <2>8. cur'[w] # NULL
    BY <2>6, <2>7, TaskQueueAssumption DEF TypeOK
  <2>9. \A u \in Workers : wpc'[u] # "null" /\ (wpc'[u] = "unlock" => cur'[u] # NULL)
    BY <1>a, <2>1, <2>7, <2>8 DEF TypeOK
  <2>10. Len(queue') = Len(queue) - 1
    BY <2>6, <2>7
  <2>11. count' + Cardinality(Locking') + Pending' = Len(queue')
    BY <1>a, <1>b, <2>1, <2>2, <2>3, <2>10
  <2> QED BY <1>a, <2>1, <2>9, <2>11
<1>8. ASSUME NEW w \in Workers, DequeueUnlock(w) PROVE Goal
  <2>1. wpc[w] = "unlock" /\ UNCHANGED <<queue, count, cur>>
    BY <1>8 DEF DequeueUnlock, WorkerStep
  <2>2. WorkerStep(w, "unlock", "got")
    BY <1>8, <1>a, <2>1 DEF DequeueUnlock
  <2> QED BY <1>4, <2>1, <2>2
<1>9. ASSUME NEW w \in Workers, GotNull(w) PROVE Goal
  BY <1>a, <1>9 DEF GotNull, WorkerStep
<1>10. ASSUME NEW w \in Workers, Run(w) PROVE Goal
  BY <1>4, <1>10 DEF Run, queueVars, TypeOK
<1>11. ASSUME NEW w \in Workers, ClearCanRun(w) PROVE Goal
  <2>1. /\ posts' = IF \A u \in Workers \ {w} : ~can_run[u] THEN Cardinality(Workers) ELSE 0
        /\ can_run' = [can_run EXCEPT ![w] = FALSE]
        /\ UNCHANGED <<queue, count, tpc, wpc, cur>>
    BY <1>11 DEF ClearCanRun, queueVars
  <2>2. v # w
    BY <2>1 DEF TypeOK
  <2>3. posts' = 0
    BY <1>0, <2>1, <2>2
  <2>4. Locking' = Locking /\ Pending' = Pending
    BY <2>1 DEF Locking, Pending
  <2> QED BY <1>a, <2>1, <2>3, <2>4
<1>12. CASE WakeAll
  BY <1>12, <1>a DEF WakeAll, increment_count
<1>13. CASE UNCHANGED vars
  BY <1>13, <1>a DEF vars, queueVars, Locking, Pending
<1> QED BY NextCases, <1>1, <1>2, <1>3, <1>5, <1>6, <1>7, <1>8, <1>9, <1>10, <1>11, <1>12, <1>13

-----------------------------------------------------------------------------
(* The seats are only changed by a push, a dequeue and a run.              *)
LEMMA SeatStep ==
  TypeOK /\ MutexInv /\ HandInv /\ SeatInv /\ [Next]_vars => SeatInv'
<1> SUFFICES ASSUME TypeOK, MutexInv, HandInv, SeatInv, [Next]_vars PROVE SeatInv'
  OBVIOUS
<1>a. /\ queue \in Seq(Tasks) /\ seats \in Seq(Tasks) /\ ran \in Seq(Tasks)
      /\ Len(queue) \in Nat /\ Len(seats) \in Nat /\ Len(ran) \in Nat
      /\ DOMAIN queue = 1 .. Len(queue) /\ DOMAIN seats = 1 .. Len(seats)
      /\ DOMAIN ran = 1 .. Len(ran)
      /\ tpc \in [Tasks -> {"new", "pushed", "posted", "seated", "ready"}]
      /\ cur \in [Workers -> Tasks \cup {NULL}]
      /\ \A i \in DOMAIN seats : seats[i] \in Tasks
  BY DEF TypeOK
<1>b. Len(queue) <= Len(seats) /\ Front \in 0 .. Len(seats)
  BY <1>a DEF SeatInv, Front
<1>1. ASSUME NEW t \in Tasks, EnqueuePush(t) PROVE SeatInv'
  <2>1. /\ tpc[t] = "new" /\ tpc' = [tpc EXCEPT ![t] = "pushed"]
        /\ queue' = Append(queue, t) /\ seats' = Append(seats, t)
        /\ UNCHANGED <<cur, ran>>
    BY <1>1 DEF EnqueuePush, TaskStep
  <2>2. /\ Len(queue') = Len(queue) + 1 /\ Len(seats') = Len(seats) + 1
        /\ \A i \in 1 .. Len(queue) : queue'[i] = queue[i]
        /\ \A i \in 1 .. Len(seats) : seats'[i] = seats[i]
        /\ queue'[Len(queue) + 1] = t /\ seats'[Len(seats) + 1] = t
        /\ DOMAIN seats' = 1 .. Len(seats) + 1
    BY <1>a, <2>1, AppendProperties
  <2>3. Front' = Front
    BY <1>a, <2>2 DEF Front
  <2>4. Gone' = Gone
    <3>1. \A i \in 1 .. Front : seats'[i] = seats[i]
      BY <1>a, <1>b, <2>2
    <3> QED BY <2>3, <3>1 DEF Gone
  <2>5. RanSet' = RanSet /\ HeldSet' = HeldSet
    BY <2>1 DEF RanSet, HeldSet
  <2>6. \A i \in DOMAIN seats : seats[i] # t
    BY <2>1 DEF SeatInv
  <2>7. \A i, j \in DOMAIN seats' : seats'[i] = seats'[j] => i = j
    BY <1>a, <2>2, <2>6 DEF SeatInv
  <2>8. \A i \in 1 .. Len(queue') : queue'[i] = seats'[Front' + i]
    <3> SUFFICES ASSUME NEW i \in 1 .. Len(queue') PROVE queue'[i] = seats'[Front' + i]
      OBVIOUS
    <3>1. CASE i \in 1 .. Len(queue)
      <4>1. Front + i \in 1 .. Len(seats)
        BY <1>a, <1>b, <3>1 DEF Front
      <4> QED BY <2>2, <2>3, <3>1, <4>1 DEF SeatInv
    <3>2. CASE i = Len(queue) + 1
      <4>1. Front + i = Len(seats) + 1
        BY <1>a, <3>2 DEF Front
      <4> QED BY <2>2, <2>3, <3>2, <4>1
    <3> QED BY <1>a, <2>2, <3>1, <3>2
  <2>9. \A i \in DOMAIN seats' : tpc'[seats'[i]] # "new"
    BY <1>a, <2>1, <2>2 DEF SeatInv
  <2>10. Len(queue') <= Len(seats')
    BY <1>a, <1>b, <2>2
  <2> QED BY <2>1, <2>4, <2>5, <2>7, <2>8, <2>9, <2>10 DEF SeatInv
<1>2. ASSUME NEW w \in Workers, Dequeue(w), queue # <<>> PROVE SeatInv'
  <2> DEFINE t == Head(queue)
  <2>1. /\ wpc[w] = "lock" /\ cur' = [cur EXCEPT ![w] = t] /\ queue' = Tail(queue)
        /\ UNCHANGED <<tpc, seats, ran>>
    BY <1>2 DEF Dequeue, WorkerStep
  <2>2. /\ Len(queue') = Len(queue) - 1
        /\ \A i \in 1 .. Len(queue') : queue'[i] = queue[i + 1]
        /\ Len(queue) > 0 /\ t \in Tasks
    BY <1>a, <1>2, <2>1, HeadTailProperties
  <2>3. t = queue[1]
    BY <1>2, <1>a
  <2>4. Front' = Front + 1 /\ Front + 1 \in DOMAIN seats
    <3>1. Len(seats') = Len(seats)
      BY <2>1
    <3>2. Front' = Front + 1 /\ Front + 1 \in 1 .. Len(seats)
      BY <1>a, <1>b, <2>2, <3>1 DEF Front
    <3> QED BY <1>a, <3>2
  <2>5. t = seats[Front + 1]
    BY <1>a, <2>2, <2>3 DEF SeatInv
  <2>6. Gone' = Gone \cup {t}
    <3>1. 1 .. Front + 1 = (1 .. Front) \cup {Front + 1}
      BY <1>b
    <3> QED BY <2>1, <2>4, <2>5, <3>1 DEF Gone
  <2>7. t \notin Gone
    <3>1. ASSUME NEW i \in 1 .. Front, t = seats[i] PROVE FALSE
      <4>1. i \in DOMAIN seats /\ i # Front + 1
        BY <1>a, <1>b
      <4> QED BY <2>4, <2>5, <3>1, <4>1 DEF SeatInv
    <3> QED BY <3>1 DEF Gone
  <2>8. t # NULL /\ cur[w] = NULL
    BY <2>1, <2>2, TaskQueueAssumption DEF HandInv
  <2>9. HeldSet' = HeldSet \cup {t}
    BY <1>a, <2>1, <2>8 DEF HeldSet
  <2>10. RanSet' = RanSet
    BY <2>1 DEF RanSet
  <2>11. t \notin HeldSet /\ t \notin RanSet
    BY <2>7 DEF SeatInv
  <2>12. Gone' = RanSet' \cup HeldSet' /\ RanSet' \cap HeldSet' = {}
    BY <2>6, <2>9, <2>10, <2>11 DEF SeatInv
  <2>13. \A u, x \in Workers : cur'[u] = cur'[x] /\ cur'[u] # NULL => u = x
    <3>1. \A u \in Workers : u # w => cur'[u] = cur[u] /\ cur[u] # t
      BY <1>a, <2>1, <2>8, <2>11 DEF HeldSet
    <3>2. cur'[w] = t
      BY <1>a, <2>1
    <3> QED BY <3>1, <3>2 DEF SeatInv
  <2>14. \A i \in 1 .. Len(queue') : queue'[i] = seats'[Front' + i]
    <3> SUFFICES ASSUME NEW i \in 1 .. Len(queue') PROVE queue'[i] = seats[Front + 1 + i]
      BY <2>1, <2>4
    <3>1. i + 1 \in 1 .. Len(queue) /\ Front + (i + 1) = Front + 1 + i
      BY <1>a, <1>b, <2>2
    <3> QED BY <2>2, <3>1 DEF SeatInv
  <2>15. Len(queue') <= Len(seats')
    BY <1>a, <1>b, <2>1, <2>2
  <2> QED BY <2>1, <2>12, <2>13, <2>14, <2>15 DEF SeatInv
<1>3. ASSUME NEW w \in Workers, Run(w) PROVE SeatInv'
  <2> DEFINE t == cur[w]
  <2>1. /\ wpc[w] = "got" /\ ran' = Append(ran, t) /\ cur' = [cur EXCEPT ![w] = NULL]
        /\ UNCHANGED <<tpc, queue, seats>>
    BY <1>3 DEF Run, WorkerStep, queueVars
  <2>2. t \in Tasks /\ t # NULL
    BY <1>a, <2>1 DEF HandInv
  <2>3. /\ Len(ran') = Len(ran) + 1 /\ DOMAIN ran' = 1 .. Len(ran) + 1
        /\ \A i \in 1 .. Len(ran) : ran'[i] = ran[i]
        /\ ran'[Len(ran) + 1] = t
    BY <1>a, <2>1, <2>2, AppendProperties
  <2>4. RanSet' = RanSet \cup {t}
    <3>1. 1 .. Len(ran) + 1 = (1 .. Len(ran)) \cup {Len(ran) + 1}
      BY <1>a
    <3> QED BY <1>a, <2>3, <3>1 DEF RanSet
  <2>5. HeldSet' = HeldSet \ {t} /\ t \in HeldSet
    <3>1. \A u \in Workers : u # w => cur'[u] = cur[u] /\ cur[u] # t
      BY <1>a, <2>1, <2>2 DEF SeatInv
    <3>2. cur'[w] = NULL
      BY <1>a, <2>1
    <3> QED BY <2>2, <3>1, <3>2 DEF HeldSet
  <2>6. Gone' = Gone /\ Front' = Front
    BY <2>1 DEF Gone, Front
  <2>7. Gone' = RanSet' \cup HeldSet' /\ RanSet' \cap HeldSet' = {}
    BY <2>4, <2>5, <2>6 DEF SeatInv
  <2>8. \A i \in DOMAIN ran : ran[i] # t
    BY <2>5 DEF SeatInv, RanSet
  <2>9. \A i, j \in DOMAIN ran' : ran'[i] = ran'[j] => i = j
    BY <1>a, <2>3, <2>8 DEF SeatInv
  <2>10. \A u, x \in Workers : cur'[u] = cur'[x] /\ cur'[u] # NULL => u = x
    BY <1>a, <2>1 DEF SeatInv
  <2> QED BY <2>1, <2>6, <2>7, <2>9, <2>10 DEF SeatInv
<1>4. ASSUME UNCHANGED <<queue, seats, cur, ran>>,
             \A t \in Tasks : tpc[t] # "new" => tpc'[t] # "new"
      PROVE  SeatInv'
  <2>1. Front' = Front /\ Gone' = Gone /\ RanSet' = RanSet /\ HeldSet' = HeldSet
    BY <1>4 DEF Front, Gone, RanSet, HeldSet
  <2>2. \A i \in DOMAIN seats : tpc'[seats[i]] # "new"
    BY <1>a, <1>4 DEF SeatInv
  <2> QED BY <1>4, <2>1, <2>2 DEF SeatInv
<1>5. ASSUME NEW t \in Tasks, EnqueuePost(t) \/ EnqueueUnlock(t) \/ MakeReady(t)
      PROVE  SeatInv'
  BY <1>a, <1>4, <1>5 DEF EnqueuePost, EnqueueUnlock, MakeReady, TaskStep, queueVars
<1>6. ASSUME NEW w \in Workers,
             \/ TestCanRun(w) \/ SemWait(w) \/ DequeueUnlock(w) \/ GotNull(w)
             \/ ClearCanRun(w)
      PROVE  SeatInv'
  BY <1>4, <1>6
  DEF TestCanRun, SemWait, DequeueUnlock, GotNull, ClearCanRun, WorkerStep, queueVars
<1>7. ASSUME NEW w \in Workers, Dequeue(w), queue = <<>> PROVE SeatInv'
  <2>1. wpc[w] = "lock" /\ cur' = [cur EXCEPT ![w] = NULL] /\ UNCHANGED <<queue, seats, ran, tpc>>
    BY <1>7 DEF Dequeue, WorkerStep
  <2>2. cur[w] = NULL
    BY <2>1 DEF HandInv
  <2>3. cur' = cur
    BY <1>a, <2>1, <2>2
  <2> QED BY <1>4, <2>1, <2>3
<1>8. CASE WakeAll \/ UNCHANGED vars
  BY <1>4, <1>8 DEF WakeAll, vars, queueVars
<1> QED BY NextCases, <1>1, <1>2, <1>3, <1>5, <1>6, <1>7, <1>8

(* Only a task that is ready is run, and it stays ready.                   *)
LEMMA ProcessedStep ==
  TypeOK /\ HandInv /\ ProcessedFirst /\ [Next]_vars => ProcessedFirst'
<1> SUFFICES ASSUME TypeOK, HandInv, ProcessedFirst, [Next]_vars PROVE ProcessedFirst'
  OBVIOUS
<1>a. /\ ran \in Seq(Tasks) /\ DOMAIN ran = 1 .. Len(ran) /\ Len(ran) \in Nat
      /\ \A i \in DOMAIN ran : ran[i] \in Tasks
  BY DEF TypeOK
<1>1. ASSUME NEW w \in Workers, Run(w) PROVE ProcessedFirst'
  <2>1. /\ wpc[w] = "got" /\ tpc[cur[w]] = "ready" /\ ran' = Append(ran, cur[w])
        /\ UNCHANGED tpc
    BY <1>1 DEF Run, WorkerStep
  <2>2. cur[w] \in Tasks
    BY <2>1 DEF TypeOK, HandInv
  <2>3. /\ DOMAIN ran' = 1 .. Len(ran) + 1
        /\ \A i \in 1 .. Len(ran) : ran'[i] = ran[i]
        /\ ran'[Len(ran) + 1] = cur[w]
    BY <1>a, <2>1, <2>2, AppendProperties
  <2> QED BY <1>a, <2>1, <2>3 DEF ProcessedFirst
<1>2. ASSUME UNCHANGED ran, \A t \in Tasks : tpc[t] = "ready" => tpc'[t] = "ready"
      PROVE  ProcessedFirst'
  BY <1>a, <1>2 DEF ProcessedFirst
<1>3. ASSUME NEW t \in Tasks,
             EnqueuePush(t) \/ EnqueuePost(t) \/ EnqueueUnlock(t) \/ MakeReady(t)
      PROVE  ProcessedFirst'
  BY <1>2, <1>3
  DEF EnqueuePush, EnqueuePost, EnqueueUnlock, MakeReady, TaskStep, TypeOK
<1>4. ASSUME NEW w \in Workers,
             \/ TestCanRun(w) \/ SemWait(w) \/ Dequeue(w) \/ DequeueUnlock(w)
             \/ GotNull(w) \/ ClearCanRun(w)
      PROVE  ProcessedFirst'
  BY <1>2, <1>4
  DEF TestCanRun, SemWait, Dequeue, DequeueUnlock, GotNull, ClearCanRun, WorkerStep
<1>5. CASE WakeAll \/ UNCHANGED vars
  BY <1>2, <1>5 DEF WakeAll, vars
<1> QED BY NextCases, <1>1, <1>3, <1>4, <1>5

-----------------------------------------------------------------------------
LEMMA QueueInit == Init => QueueInv
<1> SUFFICES ASSUME Init PROVE QueueInv
  OBVIOUS
<1>1. /\ queue = <<>> /\ count = 0 /\ seats = <<>> /\ ran = <<>> /\ posts = 0
      /\ \A t \in Tasks : tpc[t] = "new"
      /\ \A w \in Workers : wpc[w] = "test" /\ cur[w] = NULL
  BY DEF Init
<1>2. MutexInv /\ HandInv /\ ProcessedFirst
  BY <1>1 DEF MutexInv, HandInv, ProcessedFirst
<1>3. BalanceInv
  <2>1. Locking = {} /\ Pending = 0
    BY <1>1 DEF Locking, Pending
  <2>2. Cardinality(Locking) = 0
    BY <2>1, FS_EmptySet
  <2> QED BY <1>1, <2>1, <2>2 DEF BalanceInv
<1>4. SeatInv
  <2>1. Front = 0 /\ Gone = {} /\ RanSet = {} /\ HeldSet = {}
    BY <1>1 DEF Front, Gone, RanSet, HeldSet
  <2> QED BY <1>1, <2>1 DEF SeatInv
<1> QED BY TypeInit, <1>2, <1>3, <1>4 DEF QueueInv

LEMMA QueueInvariance == Spec => []QueueInv
<1>1. QueueInv /\ [Next]_vars => QueueInv'
  BY TypeStep, MutexStep, HandStep, BalanceStep, SeatStep, ProcessedStep DEF QueueInv
<1> QED BY QueueInit, <1>1, PTL DEF Spec

(* The variables of queue, tasks and workers keep their types; sem_wait    *)
(* and sem_post keep the semaphore a natural number.                       *)
THEOREM QueueTyped == Spec => []TypeOK
<1>1. QueueInv => TypeOK
  BY DEF QueueInv
<1> QED BY QueueInvariance, <1>1, PTL

(* dequeue returns NULL to no worker that may run: the unit of the         *)
(* semaphore that it took stands for a task that nobody else can take.     *)
THEOREM NoSpuriousNull == Spec => []NullOnlyWhenStopped
<1>1. QueueInv => NullOnlyWhenStopped
  BY DEF QueueInv, BalanceInv, NullOnlyWhenStopped
<1> QED BY QueueInvariance, <1>1, PTL

-----------------------------------------------------------------------------
(* The workers that have a task in their hands, and their number: it is    *)
(* what lies between the seats that were left and the tasks that were run. *)
Holders  == {w \in Workers : cur[w] # NULL}
CountInv == Front = Len(ran) + Cardinality(Holders)

LEMMA HoldersFinite ==
  /\ IsFiniteSet(Holders) /\ Cardinality(Holders) \in Nat
  /\ Cardinality(Holders) <= Cardinality(Workers)
<1>1. Holders \in SUBSET Workers
  BY DEF Holders
<1>2. IsFiniteSet(Holders) /\ Cardinality(Holders) <= Cardinality(Workers)
  BY <1>1, TaskQueueAssumption, FS_Subset
<1> QED BY <1>2, FS_CardinalityType

(* A worker without a task is one that is not among the holders.           *)
LEMMA HolderMissing ==
  ASSUME NEW w \in Workers, cur[w] = NULL
  PROVE  Cardinality(Holders) < Cardinality(Workers)
<1>1. Holders \in SUBSET Workers /\ w \notin Holders
  BY DEF Holders
<1>2. Holders \cup {w} \in SUBSET Workers
  BY <1>1
<1>3. Cardinality(Holders \cup {w}) <= Cardinality(Workers)
  BY <1>2, TaskQueueAssumption, FS_Subset
<1>4. Cardinality(Holders \cup {w}) = Cardinality(Holders) + 1
  BY <1>1, HoldersFinite, FS_AddElement
<1> QED BY <1>3, <1>4, HoldersFinite, WorkersFinite

(* A dequeue leaves a seat and adds a holder, a run adds to what was run   *)
(* and removes one, and nothing else changes either side.                  *)
LEMMA CountStep ==
  TypeOK /\ HandInv /\ SeatInv /\ CountInv /\ [Next]_vars => CountInv'
<1> SUFFICES ASSUME TypeOK, HandInv, SeatInv, CountInv, [Next]_vars PROVE CountInv'
  OBVIOUS
<1>a. /\ queue \in Seq(Tasks) /\ seats \in Seq(Tasks) /\ ran \in Seq(Tasks)
      /\ Len(queue) \in Nat /\ Len(seats) \in Nat /\ Len(ran) \in Nat
      /\ cur \in [Workers -> Tasks \cup {NULL}]
  BY DEF TypeOK
<1>b. Cardinality(Holders) \in Nat /\ IsFiniteSet(Holders)
  BY HoldersFinite
<1>1. ASSUME NEW t \in Tasks, EnqueuePush(t) PROVE CountInv'
  <2>1. /\ queue' = Append(queue, t) /\ seats' = Append(seats, t) /\ UNCHANGED <<cur, ran>>
    BY <1>1 DEF EnqueuePush, TaskStep
  <2>2. Len(queue') = Len(queue) + 1 /\ Len(seats') = Len(seats) + 1
    BY <1>a, <2>1, AppendProperties
  <2>3. Front' = Front
    BY <1>a, <2>2 DEF Front
  <2>4. Holders' = Holders
    BY <2>1 DEF Holders
  <2> QED BY <2>1, <2>3, <2>4 DEF CountInv
<1>2. ASSUME NEW w \in Workers, Dequeue(w), queue # <<>> PROVE CountInv'
  <2>1. /\ wpc[w] = "lock" /\ cur' = [cur EXCEPT ![w] = Head(queue)] /\ queue' = Tail(queue)
        /\ UNCHANGED <<seats, ran>>
    BY <1>2 DEF Dequeue, WorkerStep
  <2>2. Len(queue') = Len(queue) - 1 /\ Len(queue) > 0 /\ Head(queue) \in Tasks
    BY <1>a, <1>2, <2>1, HeadTailProperties
  <2>3. Front' = Front + 1
    <3>1. Len(seats') = Len(seats)
      BY <2>1
    <3> QED BY <1>a, <2>2, <3>1 DEF Front
  <2>4. Head(queue) # NULL /\ cur[w] = NULL
    BY <2>1, <2>2, TaskQueueAssumption DEF HandInv
  <2>5. Holders' = Holders \cup {w} /\ w \notin Holders
    BY <1>a, <2>1, <2>4 DEF Holders
  <2>6. Cardinality(Holders') = Cardinality(Holders) + 1
    BY <1>b, <2>5, FS_AddElement
  <2>7. Len(ran') = Len(ran)
    BY <2>1
  <2> QED BY <1>a, <1>b, <2>3, <2>6, <2>7 DEF CountInv
<1>3. ASSUME NEW w \in Workers, Run(w) PROVE CountInv'
  <2>1. /\ wpc[w] = "got" /\ ran' = Append(ran, cur[w]) /\ cur' = [cur EXCEPT ![w] = NULL]
        /\ UNCHANGED <<queue, seats>>
    BY <1>3 DEF Run, WorkerStep, queueVars
  <2>2. cur[w] \in Tasks /\ cur[w] # NULL
    BY <1>a, <2>1 DEF HandInv
  <2>3. Len(ran') = Len(ran) + 1
    BY <1>a, <2>1, <2>2, AppendProperties
  <2>4. Front' = Front
    BY <2>1 DEF Front
  <2>5. Holders' = Holders \ {w} /\ w \in Holders
    BY <1>a, <2>1, <2>2 DEF Holders
  <2>6. Cardinality(Holders') = Cardinality(Holders) - 1
    BY <1>b, <2>5, FS_RemoveElement
  <2> QED BY <1>a, <1>b, <2>3, <2>4, <2>6 DEF CountInv
<1>4. ASSUME UNCHANGED <<queue, seats, cur, ran>> PROVE CountInv'
  BY <1>4 DEF CountInv, Front, Holders
<1>5. ASSUME NEW t \in Tasks, EnqueuePost(t) \/ EnqueueUnlock(t) \/ MakeReady(t)
      PROVE  CountInv'
  BY <1>4, <1>5 DEF EnqueuePost, EnqueueUnlock, MakeReady, TaskStep, queueVars
<1>6. ASSUME NEW w \in Workers,
             \/ TestCanRun(w) \/ SemWait(w) \/ DequeueUnlock(w) \/ GotNull(w)
             \/ ClearCanRun(w)
      PROVE  CountInv'
  BY <1>4, <1>6
  DEF TestCanRun, SemWait, DequeueUnlock, GotNull, ClearCanRun, WorkerStep, queueVars
<1>7. ASSUME NEW w \in Workers, Dequeue(w), queue = <<>> PROVE CountInv'
  <2>1. wpc[w] = "lock" /\ cur' = [cur EXCEPT ![w] = NULL] /\ UNCHANGED <<queue, seats, ran>>
    BY <1>7 DEF Dequeue, WorkerStep
  <2>2. cur' = cur
    BY <1>a, <2>1 DEF HandInv
  <2> QED BY <1>4, <2>1, <2>2
<1>8. CASE WakeAll \/ UNCHANGED vars
  BY <1>4, <1>8 DEF WakeAll, vars, queueVars
<1> QED BY NextCases, <1>1, <1>2, <1>3, <1>5, <1>6, <1>7, <1>8

LEMMA CountInit == Init => CountInv
<1> SUFFICES ASSUME Init PROVE CountInv
  OBVIOUS
<1>1. Front = 0 /\ Len(ran) = 0
  BY DEF Init, Front
<1>2. Holders = {}
  BY DEF Init, Holders
<1>3. Cardinality(Holders) = 0
  BY <1>2, FS_EmptySet
<1> QED BY <1>1, <1>3 DEF CountInv

LEMMA CountInvariance == Spec => [](QueueInv /\ CountInv)
<1>1. QueueInv /\ CountInv /\ [Next]_vars => CountInv'
  BY CountStep DEF QueueInv
<1> QED BY QueueInvariance, CountInit, <1>1, PTL DEF Spec

(* The task that a worker runs has the seat i, which was left; it has not  *)
(* been run before.                                                        *)
LEMMA SeatOfRun ==
  ASSUME QueueInv, CountInv, NEW w \in Workers, Run(w)
  PROVE  /\ cur[w] \in Tasks /\ cur[w] \notin RanSet /\ tpc[cur[w]] = "ready"
         /\ \E i \in DOMAIN seats : i <= Front /\ seats[i] = cur[w]
         /\ ran' = Append(ran, cur[w])
         /\ Front <= Len(ran) + Cardinality(Workers)
         /\ Front \in 0 .. Len(seats)
<1>1. /\ wpc[w] = "got" /\ ran' = Append(ran, cur[w]) /\ tpc[cur[w]] = "ready"
  BY DEF Run, WorkerStep
<1>2. cur[w] \in Tasks /\ cur[w] # NULL
  BY <1>1 DEF QueueInv, TypeOK, HandInv
<1>3. cur[w] \in HeldSet
  BY <1>2 DEF HeldSet
<1>4. cur[w] \in Gone /\ cur[w] \notin RanSet
  BY <1>3 DEF QueueInv, SeatInv
<1>5. /\ Front \in 0 .. Len(seats) /\ DOMAIN seats = 1 .. Len(seats) /\ Len(seats) \in Nat
  BY DEF QueueInv, TypeOK, SeatInv, Front
<1>6. \E i \in DOMAIN seats : i <= Front /\ seats[i] = cur[w]
  BY <1>4, <1>5 DEF Gone
<1>7. Front <= Len(ran) + Cardinality(Workers)
  <2>1. Len(ran) \in Nat
    BY DEF QueueInv, TypeOK
  <2> QED BY <2>1, HoldersFinite, WorkersFinite DEF CountInv
<1> QED BY <1>1, <1>2, <1>4, <1>5, <1>6, <1>7

(* The k-th task that is run has one of the first k - 1 + n seats, with n  *)
(* workers: no more than n tasks are ever between seat and delivery.       *)
THEOREM Overtaking == Spec => []OvertakingBounded
<1>1. Init => OvertakingBounded
  BY DEF Init, OvertakingBounded
<1>2. QueueInv /\ CountInv /\ OvertakingBounded /\ [Next]_vars => OvertakingBounded'
  <2> SUFFICES ASSUME QueueInv, CountInv, OvertakingBounded, [Next]_vars
               PROVE  OvertakingBounded'
    OBVIOUS
  <2>a. /\ ran \in Seq(Tasks) /\ seats \in Seq(Tasks)
        /\ DOMAIN ran = 1 .. Len(ran) /\ DOMAIN seats = 1 .. Len(seats)
        /\ Len(ran) \in Nat /\ Len(seats) \in Nat
        /\ \A i, j \in DOMAIN seats : seats[i] = seats[j] => i = j
    BY DEF QueueInv, TypeOK, SeatInv
  <2>1. ASSUME NEW w \in Workers, Run(w) PROVE OvertakingBounded'
    <3>1. UNCHANGED seats
      BY <2>1 DEF Run, WorkerStep
    <3>2. PICK i \in DOMAIN seats : i <= Front /\ seats[i] = cur[w]
      BY <2>1, SeatOfRun
    <3>3. /\ DOMAIN ran' = 1 .. Len(ran) + 1
          /\ \A k \in 1 .. Len(ran) : ran'[k] = ran[k]
          /\ ran'[Len(ran) + 1] = cur[w]
      BY <2>1, <2>a, SeatOfRun, AppendProperties
    <3>4. i < (Len(ran) + 1) + Cardinality(Workers)
      BY <2>1, <2>a, <3>2, SeatOfRun, WorkersFinite
    <3>5. ASSUME NEW k \in DOMAIN ran', NEW j \in DOMAIN seats, ran'[k] = seats[j]
          PROVE  j < k + Cardinality(Workers)
      <4>1. CASE k \in DOMAIN ran
        BY <2>a, <3>3, <3>5, <4>1 DEF OvertakingBounded
      <4>2. CASE k = Len(ran) + 1
        BY <2>a, <3>2, <3>3, <3>4, <3>5, <4>2
      <4> QED BY <2>a, <3>3, <4>1, <4>2
    <3> QED BY <3>1, <3>5 DEF OvertakingBounded
  <2>2. ASSUME NEW t \in Tasks, EnqueuePush(t) PROVE OvertakingBounded'
    <3>1. /\ seats' = Append(seats, t) /\ UNCHANGED ran /\ tpc[t] = "new"
      BY <2>2 DEF EnqueuePush, TaskStep
    <3>2. /\ DOMAIN seats' = 1 .. Len(seats) + 1
          /\ \A i \in 1 .. Len(seats) : seats'[i] = seats[i]
          /\ seats'[Len(seats) + 1] = t
      BY <2>a, <3>1, AppendProperties
    <3>3. \A k \in DOMAIN ran : ran[k] # t
      BY <3>1 DEF QueueInv, ProcessedFirst
    <3> QED BY <2>a, <3>1, <3>2, <3>3 DEF OvertakingBounded
  <2>3. CASE UNCHANGED <<seats, ran>>
    BY <2>3 DEF OvertakingBounded
  <2>4. ASSUME NEW t \in Tasks, EnqueuePost(t) \/ EnqueueUnlock(t) \/ MakeReady(t)
        PROVE  UNCHANGED <<seats, ran>>
    BY <2>4 DEF EnqueuePost, EnqueueUnlock, MakeReady, TaskStep
  <2>5. ASSUME NEW w \in Workers,
               \/ TestCanRun(w) \/ SemWait(w) \/ Dequeue(w) \/ DequeueUnlock(w)
               \/ GotNull(w) \/ ClearCanRun(w)
        PROVE  UNCHANGED <<seats, ran>>
    BY <2>5
    DEF TestCanRun, SemWait, Dequeue, DequeueUnlock, GotNull, ClearCanRun, WorkerStep
  <2>6. CASE WakeAll \/ UNCHANGED vars
    BY <2>3, <2>6 DEF WakeAll, vars
  <2> QED BY NextCases, <2>1, <2>2, <2>3, <2>4, <2>5, <2>6
<1> QED BY CountInvariance, <1>1, <1>2, PTL DEF Spec

-----------------------------------------------------------------------------
(* A task whose thread has begun to enqueue it has a seat.                 *)
TakenInv == \A t \in Tasks : tpc[t] # "new" => \E i \in DOMAIN seats : seats[i] = t

LEMMA TakenInvariance == Spec => []TakenInv
<1>1. Init => TakenInv
  BY DEF Init, TakenInv
<1>2. QueueInv /\ TakenInv /\ [Next]_vars => TakenInv'
  <2> SUFFICES ASSUME QueueInv, TakenInv, [Next]_vars PROVE TakenInv'
    OBVIOUS
  <2>a. /\ seats \in Seq(Tasks) /\ DOMAIN seats = 1 .. Len(seats) /\ Len(seats) \in Nat
        /\ tpc \in [Tasks -> {"new", "pushed", "posted", "seated", "ready"}]
    BY DEF QueueInv, TypeOK
  <2>1. ASSUME NEW t \in Tasks, EnqueuePush(t) PROVE TakenInv'
    <3>1. seats' = Append(seats, t) /\ tpc' = [tpc EXCEPT ![t] = "pushed"]
      BY <2>1 DEF EnqueuePush, TaskStep
    <3>2. /\ DOMAIN seats' = 1 .. Len(seats) + 1
          /\ \A i \in 1 .. Len(seats) : seats'[i] = seats[i]
          /\ seats'[Len(seats) + 1] = t
      BY <2>a, <3>1, AppendProperties
    <3> QED BY <2>a, <3>1, <3>2 DEF TakenInv
  <2>2. ASSUME UNCHANGED seats, \A t \in Tasks : tpc[t] = "new" => tpc'[t] = "new"
        PROVE  TakenInv'
    BY <2>2 DEF TakenInv
  <2>3. ASSUME NEW t \in Tasks, EnqueuePost(t) \/ EnqueueUnlock(t) \/ MakeReady(t)
        PROVE  TakenInv'
    BY <2>a, <2>2, <2>3 DEF EnqueuePost, EnqueueUnlock, MakeReady, TaskStep
  <2>4. ASSUME NEW w \in Workers,
               \/ TestCanRun(w) \/ SemWait(w) \/ Dequeue(w) \/ DequeueUnlock(w)
               \/ GotNull(w) \/ Run(w) \/ ClearCanRun(w)
        PROVE  TakenInv'
    BY <2>2, <2>4
    DEF TestCanRun, SemWait, Dequeue, DequeueUnlock, GotNull, Run, ClearCanRun, WorkerStep
  <2>5. CASE WakeAll \/ UNCHANGED vars
    BY <2>2, <2>5 DEF WakeAll, vars
  <2> QED BY NextCases, <2>1, <2>3, <2>4, <2>5
<1> QED BY QueueInvariance, <1>1, <1>2, PTL DEF Spec

(* The steps of the line: a push takes a seat, a dequeue that finds a task *)
(* leaves one, the unlock of `ready' finishes a task and a run delivers    *)
(* it; semaphore, mutex and the end of the workers are invisible.          *)
LEMMA LineStep ==
  QueueInv /\ CountInv /\ TakenInv /\ [Next]_vars => [Line!Next]_Line!vars
<1> SUFFICES ASSUME QueueInv, CountInv, TakenInv, [Next]_vars PROVE [Line!Next]_Line!vars
  OBVIOUS
<1> DEFINE Ready == {t \in Tasks : tpc[t] = "ready"}
<1>a. /\ queue \in Seq(Tasks) /\ seats \in Seq(Tasks) /\ ran \in Seq(Tasks)
      /\ Len(queue) \in Nat /\ Len(seats) \in Nat /\ Len(ran) \in Nat
      /\ Len(queue) <= Len(seats)
      /\ tpc \in [Tasks -> {"new", "pushed", "posted", "seated", "ready"}]
  BY DEF QueueInv, TypeOK, SeatInv
<1>1. ASSUME NEW t \in Tasks, EnqueuePush(t) PROVE Line!TakeSeat(t)
  <2>1. /\ queue' = Append(queue, t) /\ seats' = Append(seats, t) /\ UNCHANGED ran
        /\ tpc[t] = "new" /\ tpc' = [tpc EXCEPT ![t] = "pushed"]
    BY <1>1 DEF EnqueuePush, TaskStep
  <2>2. Len(queue') = Len(queue) + 1 /\ Len(seats') = Len(seats) + 1
    BY <1>a, <2>1, AppendProperties
  <2>3. (Len(seats) - Len(queue))' = Len(seats) - Len(queue)
    BY <1>a, <2>2
  <2>4. Ready' = Ready
    BY <1>a, <2>1
  <2>5. t \notin Line!Places(seats)
    BY <2>1 DEF QueueInv, SeatInv, Line!Places
  <2> QED BY <2>1, <2>3, <2>4, <2>5 DEF Line!TakeSeat
<1>2. ASSUME NEW w \in Workers, Dequeue(w), queue # <<>> PROVE Line!LeaveSeat
  <2>1. /\ wpc[w] = "lock" /\ queue' = Tail(queue) /\ UNCHANGED <<seats, ran, tpc>>
    BY <1>2 DEF Dequeue, WorkerStep
  <2>2. Len(queue') = Len(queue) - 1 /\ Len(queue) > 0
    BY <1>a, <1>2, <2>1, HeadTailProperties
  <2>3. Len(seats') = Len(seats)
    BY <2>1
  <2>4. (Len(seats) - Len(queue))' = (Len(seats) - Len(queue)) + 1
    BY <1>a, <2>2, <2>3
  <2>5. cur[w] = NULL
    BY <2>1 DEF QueueInv, HandInv
  <2>6. Len(seats) - Len(queue) < Len(ran) + Cardinality(Workers)
    BY <1>a, <2>5, HolderMissing, HoldersFinite, WorkersFinite DEF CountInv, Front
  <2>7. Len(seats) - Len(queue) < Len(seats)
    BY <1>a, <2>2
  <2> QED BY <2>1, <2>4, <2>6, <2>7 DEF Line!LeaveSeat
<1>3. ASSUME NEW t \in Tasks, MakeReady(t) PROVE Line!Finish(t)
  <2>1. /\ tpc[t] = "seated" /\ tpc' = [tpc EXCEPT ![t] = "ready"]
        /\ UNCHANGED <<queue, seats, ran>>
    BY <1>3 DEF MakeReady, TaskStep, queueVars
  <2>2. Ready' = Ready \cup {t}
    BY <1>a, <2>1
  <2>3. t \in Line!Places(seats)
    BY <2>1 DEF TakenInv, Line!Places
  <2> QED BY <2>1, <2>2, <2>3 DEF Line!Finish
<1>4. ASSUME NEW w \in Workers, Run(w) PROVE \E i \in DOMAIN seats : Line!Deliver(i)
  <2>1. UNCHANGED <<queue, seats, tpc>>
    BY <1>4 DEF Run, WorkerStep, queueVars
  <2>2. PICK i \in DOMAIN seats : i <= Front /\ seats[i] = cur[w]
    BY <1>4, SeatOfRun
  <2>3. seats[i] \in Ready
    BY <1>4, <2>2, SeatOfRun
  <2>4. seats[i] \notin Line!Places(ran)
    BY <1>4, <2>2, SeatOfRun DEF RanSet, Line!Places
  <2>5. Ready' = Ready
    BY <2>1
  <2>6. ran' = Append(ran, seats[i])
    BY <1>4, <2>2, SeatOfRun
  <2> QED BY <2>1, <2>2, <2>3, <2>4, <2>5, <2>6 DEF Line!Deliver, Front
<1>5. ASSUME UNCHANGED <<queue, seats, ran>>, Ready' = Ready PROVE UNCHANGED Line!vars
  BY <1>5 DEF Line!vars
<1>6. ASSUME NEW t \in Tasks, EnqueuePost(t) \/ EnqueueUnlock(t) PROVE UNCHANGED Line!vars
  <2>1. UNCHANGED <<queue, seats, ran>>
    BY <1>6 DEF EnqueuePost, EnqueueUnlock, TaskStep
  <2>2. Ready' = Ready
    BY <1>a, <1>6 DEF EnqueuePost, EnqueueUnlock, TaskStep
  <2> QED BY <1>5, <2>1, <2>2
<1>7. ASSUME NEW w \in Workers,
             \/ TestCanRun(w) \/ SemWait(w) \/ DequeueUnlock(w)
             \/ GotNull(w) \/ ClearCanRun(w)
      PROVE  UNCHANGED Line!vars
  BY <1>5, <1>7
  DEF TestCanRun, SemWait, DequeueUnlock, GotNull, ClearCanRun, WorkerStep, queueVars
<1>8. ASSUME NEW w \in Workers, Dequeue(w), queue = <<>> PROVE UNCHANGED Line!vars
  BY <1>5, <1>8 DEF Dequeue, WorkerStep
<1>9. CASE WakeAll \/ UNCHANGED vars
  BY <1>5, <1>9 DEF WakeAll, vars, queueVars
<1> QED BY NextCases, <1>1, <1>2, <1>3, <1>4, <1>6, <1>7, <1>8, <1>9 DEF Line!Next

LEMMA LineInit == Init => Line!Init
<1> SUFFICES ASSUME Init PROVE Line!Init
  OBVIOUS
<1>1. Len(seats) - Len(queue) = 0
  BY DEF Init
<1>2. {t \in Tasks : tpc[t] = "ready"} = {}
  BY DEF Init
<1> QED BY <1>1, <1>2 DEF Init, Line!Init

(* The queue implements the line of seats, for any number of workers and   *)
(* tasks: whatever semaphore, mutex and the end of the workers do, seats   *)
(* are left at the front, a message is delivered once, when it is ready,   *)
(* and at most one per worker is waited for at a time.                     *)
THEOREM ImplementsLine == Spec => LineSpec
<1>1. QueueInv /\ CountInv /\ TakenInv /\ [Next]_vars => [Line!Next]_Line!vars
  BY LineStep
<1> QED BY CountInvariance, TakenInvariance, LineInit, <1>1, PTL DEF Spec, LineSpec, Line!Spec
=============================================================================
