----------------------------- MODULE TaskQueue ------------------------------
(***************************************************************************)
(* The task queue and its workers (useless/task.cpp, useless/worker.cpp).  *)
(*                                                                         *)
(* A thread that must keep the order of messages takes a seat: it locks    *)
(* the mutex `ready' of a new task and enqueues it, processes the message, *)
(* and unlocks `ready'.  Workers dequeue tasks, wait for `ready' and run   *)
(* them.  The threads that take seats, and the thread that stops the       *)
(* workers, are not in the repository: they are modelled from the README   *)
(* and from what the classes offer them.                                   *)
(*                                                                         *)
(* A definition marked "mutant" is a slip that one of the properties must  *)
(* notice; it stands before the definition it would replace and is not     *)
(* used by the specification.                                              *)
(***************************************************************************)
EXTENDS Naturals, Sequences, FiniteSets

CONSTANTS
  Tasks,      \* the tasks, each enqueued once
  Workers,    \* the workers
  NULL        \* the null pointer; also: nobody holds the mutex

ASSUME TaskQueueAssumption ==
  /\ IsFiniteSet(Workers)
  /\ Tasks \cap Workers = {}
  /\ NULL \notin Tasks \cup Workers

VARIABLES
  queue,      \* TaskQueue::queue
  count,      \* TaskQueue::count, the semaphore
  mut,        \* who holds TaskQueue::mut
  tpc,        \* where the thread behind a task is
  wpc,        \* where a worker is
  cur,        \* its local t
  can_run,    \* Worker::can_run
  posts,      \* what is left of the loop of increment_count
  seats,      \* history: the tasks in the order in which they were enqueued
  ran         \* history: the tasks in the order in which they were run

queueVars == <<queue, count, mut>>
vars == <<queueVars, tpc, wpc, cur, can_run, posts, seats, ran>>

Init ==
  /\ queue = <<>> /\ count = 0 /\ mut = NULL
  /\ tpc = [t \in Tasks |-> "new"]
  /\ wpc = [w \in Workers |-> "test"]
  /\ cur = [w \in Workers |-> NULL]
  /\ can_run = [w \in Workers |-> TRUE]
  /\ posts = 0
  /\ seats = <<>> /\ ran = <<>>

-----------------------------------------------------------------------------
(***************************************************************************)
(* A thread that takes a seat.                                             *)
(***************************************************************************)
TaskStep(t, from, to) ==
  /\ tpc[t] = from
  /\ tpc' = [tpc EXCEPT ![t] = to]
  /\ UNCHANGED <<wpc, cur, can_run, posts, ran>>

(* TaskQueue::enqueue: lock and push_back, sem_post, unlock.               *)
EnqueuePush(t) ==
  /\ TaskStep(t, "new", "pushed")
  /\ mut = NULL
  /\ mut' = t
  /\ queue' = Append(queue, t)
  /\ seats' = Append(seats, t)
  /\ UNCHANGED count

EnqueuePostTwice(t) ==                                    \* mutant
  TaskStep(t, "pushed", "posted") /\ count' = count + 2 /\ UNCHANGED <<queue, mut, seats>>

EnqueuePostIfFirst(t) ==                                  \* mutant
  /\ TaskStep(t, "pushed", "posted")
  /\ count' = IF Len(queue) = 1 THEN count + 1 ELSE count
  /\ UNCHANGED <<queue, mut, seats>>

EnqueuePost(t) ==
  TaskStep(t, "pushed", "posted") /\ count' = count + 1 /\ UNCHANGED <<queue, mut, seats>>

EnqueueUnlock(t) ==
  TaskStep(t, "posted", "seated") /\ mut' = NULL /\ UNCHANGED <<queue, count, seats>>

(* The message is processed: ready.unlock().                               *)
MakeReady(t) == TaskStep(t, "seated", "ready") /\ UNCHANGED <<queueVars, seats>>

(***************************************************************************)
(* Worker::run with TaskQueue::dequeue.                                    *)
(***************************************************************************)
WorkerStep(w, from, to) ==
  /\ wpc[w] = from
  /\ wpc' = [wpc EXCEPT ![w] = to]
  /\ UNCHANGED <<tpc, can_run, posts, seats>>

(* The condition of the loop.                                              *)
TestCanRun(w) ==
  /\ WorkerStep(w, "test", IF can_run[w] THEN "wait" ELSE "done")
  /\ UNCHANGED <<queueVars, cur, ran>>

SemWaitUnguarded(w) ==                                    \* mutant
  WorkerStep(w, "wait", "lock") /\ count' = count - 1 /\ UNCHANGED <<queue, mut, cur, ran>>

SemWait(w) ==
  /\ WorkerStep(w, "wait", "lock")
  /\ count > 0
  /\ count' = count - 1
  /\ UNCHANGED <<queue, mut, cur, ran>>

DequeueLast(w) ==                                         \* mutant
  /\ WorkerStep(w, "lock", "unlock")
  /\ mut = NULL
  /\ mut' = w
  /\ cur' = [cur EXCEPT ![w] = IF queue = <<>> THEN NULL ELSE queue[Len(queue)]]
  /\ queue' = IF queue = <<>> THEN queue ELSE SubSeq(queue, 1, Len(queue) - 1)
  /\ UNCHANGED <<count, ran>>

(* With the mutex held: the front of the queue, or NULL if there is none.  *)
Dequeue(w) ==
  /\ WorkerStep(w, "lock", "unlock")
  /\ mut = NULL
  /\ mut' = w
  /\ cur' = [cur EXCEPT ![w] = IF queue = <<>> THEN NULL ELSE Head(queue)]
  /\ queue' = IF queue = <<>> THEN queue ELSE Tail(queue)
  /\ UNCHANGED <<count, ran>>

DequeueUnlock(w) ==
  /\ WorkerStep(w, "unlock", IF cur[w] = NULL THEN "null" ELSE "got")
  /\ mut' = NULL
  /\ UNCHANGED <<queue, count, cur, ran>>

(* dequeue returned NULL: the loop is left if it may not run any more.     *)
GotNull(w) ==
  /\ WorkerStep(w, "null", IF can_run[w] THEN "test" ELSE "done")
  /\ UNCHANGED <<queueVars, cur, ran>>

RunUnready(w) ==                                          \* mutant
  /\ WorkerStep(w, "got", "test")
  /\ ran' = Append(ran, cur[w])
  /\ cur' = [cur EXCEPT ![w] = NULL]
  /\ UNCHANGED queueVars

(* t->ready.lock(), the action, delete t.                                  *)
Run(w) ==
  /\ WorkerStep(w, "got", "test")
  /\ tpc[cur[w]] = "ready"
  /\ ran' = Append(ran, cur[w])
  /\ cur' = [cur EXCEPT ![w] = NULL]
  /\ UNCHANGED queueVars

(***************************************************************************)
(* Stopping: can_run of every worker is cleared, one after the other, then *)
(* increment_count is called with the number of workers.                   *)
(***************************************************************************)
ClearCanRun(w) ==
  /\ can_run[w]
  /\ can_run' = [can_run EXCEPT ![w] = FALSE]
  /\ posts' = IF \A v \in Workers \ {w} : ~can_run[v] THEN Cardinality(Workers) ELSE 0
  /\ UNCHANGED <<queueVars, tpc, wpc, cur, seats, ran>>

increment_countShort ==                                   \* mutant
  posts > 1 /\ posts' = posts - 1 /\ count' = count + 1

(* One turn of the loop of increment_count.                                *)
increment_count == posts > 0 /\ posts' = posts - 1 /\ count' = count + 1

WakeAll == increment_count /\ UNCHANGED <<queue, mut, tpc, wpc, cur, can_run, seats, ran>>

-----------------------------------------------------------------------------
Seat(t) == EnqueuePush(t) \/ EnqueuePost(t) \/ EnqueueUnlock(t) \/ MakeReady(t)

Work(w) ==
  \/ TestCanRun(w) \/ SemWait(w) \/ Dequeue(w) \/ DequeueUnlock(w)
  \/ GotNull(w) \/ Run(w)

Next ==
  \/ \E t \in Tasks : Seat(t)
  \/ \E w \in Workers : Work(w) \/ ClearCanRun(w)
  \/ WakeAll

Spec == Init /\ [][Next]_vars

(* Workers keep running, a thread that has taken a seat gets its message   *)
(* processed, and increment_count ends once it was called; new messages    *)
(* and the wish to stop may or may not come.  sem_wait and lock serve a    *)
(* thread that keeps waiting.                                              *)
Fairness ==
  /\ \A t \in Tasks : WF_vars(EnqueuePost(t) \/ EnqueueUnlock(t) \/ MakeReady(t))
  /\ \A w \in Workers : WF_vars(Work(w)) /\ SF_vars(Dequeue(w))
  /\ WF_vars(WakeAll)

FairSpec == Spec /\ Fairness

-----------------------------------------------------------------------------
(* Every variable has its type; the semaphore is never negative.           *)
TypeOK ==
  /\ queue \in Seq(Tasks) /\ count \in Nat
  /\ mut \in Tasks \cup Workers \cup {NULL}
  /\ tpc \in [Tasks -> {"new", "pushed", "posted", "seated", "ready"}]
  /\ wpc \in [Workers -> {"test", "wait", "lock", "unlock", "null", "got", "done"}]
  /\ cur \in [Workers -> Tasks \cup {NULL}]
  /\ can_run \in [Workers -> BOOLEAN]
  /\ posts \in 0 .. Cardinality(Workers)
  /\ seats \in Seq(Tasks) /\ ran \in Seq(Tasks)

(* The semaphore is waited for outside the mutex and posted inside it; a   *)
(* worker that got past it still finds a task for it, however the others   *)
(* interleave: dequeue returns NULL to no worker that may run ("Umm...     *)
(* Worker can run but got NULL task.").                                    *)
NullOnlyWhenStopped == \A w \in Workers : wpc[w] = "null" => ~can_run[w]

(* The order the repository claims (README.md:90 "deliver messages in       *)
(* order", worker.cpp:3 "tasks whose order is essential"): the k-th         *)
(* message that is delivered is the one of the k-th seat.  It fails with   *)
(* the NUM_OF_WORKERS (2) of global.h: tasks leave the queue in order, but *)
(* each worker waits for `ready' of its own one, outside the mutex.        *)
SeatOrder == \A k \in DOMAIN ran : ran[k] = seats[k]

(* What is left of that order with n workers: a message is delivered early *)
(* by fewer than n places; the k-th message delivered had one of the first *)
(* k - 1 + n seats (the first k + 1, with NUM_OF_WORKERS).  How late one   *)
(* is delivered has no such bound: a worker may wait for `ready' of the    *)
(* first seat while the other delivers all the rest.                       *)
OvertakingBounded ==
  \A k \in DOMAIN ran, j \in DOMAIN seats :
    ran[k] = seats[j] => j < k + Cardinality(Workers)

(* What the queue keeps to, whatever becomes of semaphore and mutex: seats *)
(* are left at the front, by at most one message per worker at a time, and *)
(* a message is delivered once, after its thread has made it ready.        *)
Line == INSTANCE SeatLine WITH
          Hands <- Cardinality(Workers),
          left  <- Len(seats) - Len(queue),
          ready <- {t \in Tasks : tpc[t] = "ready"}

LineSpec == Line!Spec

(* A seat that was taken is served, unless the workers are being stopped.  *)
SeatIsServed ==
  \A t \in Tasks :
    tpc[t] # "new" ~> (\E i \in DOMAIN ran : ran[i] = t) \/ \E w \in Workers : ~can_run[w]

(* Once can_run is cleared and increment_count has posted once for every   *)
(* worker, all of them leave their loops, those that wait in dequeue too,  *)
(* also when the queue is empty or tasks are left in it.                   *)
WorkersEnd ==
  (\A w \in Workers : ~can_run[w]) ~> \A w \in Workers : wpc[w] = "done"
=============================================================================
