------------------------- MODULE WorkerManagerProofs -------------------------
(***************************************************************************)
(* Theorems about WorkerManager for every number of workers, jobs, queues  *)
(* and starts.  Types and slots first: a queue never has more workers than *)
(* it may.  Then its jobs: a claim is always in somebody's hands, crashed  *)
(* jobs rest, and the manager implements JobLifecycle.  And how it shuts   *)
(* down: the API stops last.                                               *)
(***************************************************************************)
EXTENDS WorkerManager, JobQueueProofs, FiniteSetTheorems

-----------------------------------------------------------------------------
(* Type correctness                                                        *)

\* A thread that does not run has the type of a thread, and "no request" that
\* of a request.
LEMMA IdleType == NoJob \in Handle /\ Idle \in Thread /\ NoRequest \in Request
  <1>1. Api \in Job /\ 0 \in 0 .. AttemptCap
    BY WorkerManagerAssumption, JobQueueAssumption
  <1>2. NoJob \in Handle
    BY <1>1 DEF NoJob, Handle
  <1>3. QED
    BY <1>2 DEF Idle, Thread, ThreadState, None, NoRequest, Request

\* One worker's state, interrupt flag or job may change within its type.
LEMMA ThreadType ==
    ASSUME TypeOK, NEW w \in Worker
    PROVE  /\ thread[w] \in Thread
           /\ thread[w].job \in Handle
           /\ \A s \in ThreadState :
                 [thread EXCEPT ![w].state = s] \in [Worker -> Thread]
           /\ \A i \in {None, Retry, Cancel} :
                 [thread EXCEPT ![w].interrupted = i] \in [Worker -> Thread]
  BY DEF TypeOK, Thread

\* The initial state is well-typed.
LEMMA TypeInit == Init => TypeOK
  <1> SUFFICES ASSUME Init PROVE TypeOK
    OBVIOUS
  <1>1. jobs \in Table
    BY NoRowType DEF Init, Table
  <1>2. thread \in [Worker -> Thread] /\ web \in Request
    BY IdleType DEF Init
  <1>3. starts \in 0 .. MaxStarts /\ asked \in 0 .. MaxRequests
    BY WorkerManagerAssumption DEF Init
  <1>4. /\ main \in MainState
        /\ pool \in [QueueId -> SUBSET Worker]
        /\ nextId \in Nat \ {0}
    BY DEF Init, MainState
  <1>5. /\ {datasets, ensuring, snapshot, starting, toStop, call} = {{}}
        /\ looping = FALSE
    BY DEF Init
  <1>6. QED
    BY <1>1, <1>2, <1>3, <1>4, <1>5 DEF TypeOK

\* Starting up keeps the types.
LEMMA TypeStart ==
    ASSUME TypeOK, Start
    PROVE  TypeOK'
  <1>1. CASE Boot
    <2>1. jobs' \in Table
      BY <1>1, ReleaseAllType DEF Boot, TypeOK
    <2>2. starts' \in 0 .. MaxStarts
      BY <1>1, WorkerManagerAssumption DEF Boot, TypeOK
    <2>3. QED
      BY <1>1, <2>1, <2>2 DEF Boot, TypeOK, MainState
  <1>2. ASSUME NEW j \in Job, BootEnsure(j) PROVE TypeOK'
    <2>1. jobs' \in Table
      BY <1>2, AddJobType DEF BootEnsure, TypeOK
    <2>2. nextId' \in Nat \ {0}
      BY <1>2 DEF BootEnsure, TypeOK
    <2>3. QED
      BY <1>2, <2>1, <2>2 DEF BootEnsure, TypeOK, outside, bounds
  <1>3. CASE BootDone
    BY <1>3 DEF BootDone, NextPass, TypeOK, MainState, Delegating, Stopping,
                table, outside, bounds
  <1>4. QED
    BY <1>1, <1>2, <1>3 DEF Start

\* Delegating keeps the types.
LEMMA TypeDelegate ==
    ASSUME TypeOK, Delegate
    PROVE  TypeOK'
  <1> USE DEF table, outside, bounds, MainState, Delegating, Stopping
  <1>1. CASE TakeSnapshot
    <2>1. snapshot' \subseteq Handle
      BY <1>1, GetJobType DEF TakeSnapshot, TypeOK, Claimable
    <2>2. QED
      BY <1>1, <2>1 DEF TakeSnapshot, TypeOK
  <1>2. CASE Reap
    <2>1. thread' \in [Worker -> Thread]
      BY <1>2, IdleType DEF Reap, TypeOK
    <2>2. pool' \in [QueueId -> SUBSET Worker]
      BY <1>2 DEF Reap, TypeOK
    <2>3. QED
      BY <1>2, <2>1, <2>2 DEF Reap, TypeOK
  <1>3. CASE EndPass
    <2>1. toStop' \subseteq Worker
      BY <1>3 DEF EndPass, TypeOK, Pooled
    <2>2. QED
      BY <1>3, <2>1 DEF EndPass, NextPass, TypeOK
  <1>4. ASSUME NEW h \in snapshot, SkipJob(h) PROVE TypeOK'
    BY <1>4 DEF SkipJob, TypeOK
  <1>5. ASSUME NEW h \in snapshot, NEW w \in Worker, ClaimJob(h, w)
        PROVE  TypeOK'
    <2>1. h \in Handle
      BY DEF TypeOK
    <2>2. jobs' \in Table
      BY <1>5, <2>1, ClaimType DEF ClaimJob, TypeOK
    <2>3. [Idle EXCEPT !.state = "new", !.job = h] \in Thread
      BY <2>1, IdleType DEF Thread, ThreadState
    <2>4. thread' \in [Worker -> Thread]
      BY <1>5, <2>3 DEF ClaimJob, TypeOK
    <2>5. QED
      BY <1>5, <2>2, <2>4 DEF ClaimJob, TypeOK
  <1>6. ASSUME NEW w \in Worker, StartWorker(w) PROVE TypeOK'
    BY <1>6, ThreadType DEF StartWorker, TypeOK, ThreadState
  <1>7. ASSUME NEW w \in Worker, AppendWorker(w) PROVE TypeOK'
    <2>1. pool' \in [QueueId -> SUBSET Worker]
      BY <1>7 DEF AppendWorker, TypeOK
    <2>2. QED
      BY <1>7, <2>1 DEF AppendWorker, TypeOK
  <1>8. QED
    BY <1>1, <1>2, <1>3, <1>4, <1>5, <1>6, <1>7 DEF Delegate

\* The end of the process keeps the types.
LEMMA TypeEnds ==
    ASSUME TypeOK, ProcessEnds
    PROVE  TypeOK'
  <1>1. thread' \in [Worker -> Thread] /\ pool' \in [QueueId -> SUBSET Worker]
    BY IdleType DEF ProcessEnds
  <1>2. QED
    BY <1>1 DEF ProcessEnds, TypeOK, MainState, table, bounds

\* Shutting down keeps the types.
LEMMA TypeShutDown ==
    ASSUME TypeOK, ShutDown
    PROVE  TypeOK'
  <1> USE DEF table, outside, bounds, MainState, Delegating, Stopping
  <1>1. ASSUME NEW w \in Worker, InterruptWorker(w) PROVE TypeOK'
    <2>1. thread' \in [Worker -> Thread]
      BY <1>1, ThreadType DEF InterruptWorker, Interrupt
    <2>2. QED
      BY <1>1, <2>1 DEF InterruptWorker, TypeOK
  <1>2. CASE AllInterrupted
    BY <1>2 DEF AllInterrupted, TypeOK
  <1>3. CASE JoinWorkers
    BY <1>3 DEF JoinWorkers, TypeOK
  <1>4. CASE StopApi
    <2>1. \A w \in Worker : [thread[w] EXCEPT !.interrupted = Retry] \in Thread
      BY ThreadType DEF Thread
    <2>2. thread' \in [Worker -> Thread]
      BY <1>4, <2>1, ThreadType DEF StopApi
    <2>3. QED
      BY <1>4, <2>2 DEF StopApi, TypeOK
  <1>5. CASE JoinApi
    BY <1>5 DEF JoinApi, TypeOK
  <1>6. CASE Exit
    BY <1>6, TypeEnds DEF Exit
  <1>7. QED
    BY <1>1, <1>2, <1>3, <1>4, <1>5, <1>6 DEF ShutDown

\* SIGTERM, Ctrl-C and SIGKILL keep the types.
LEMMA TypeStop ==
    ASSUME TypeOK, Stop
    PROVE  TypeOK'
  <1> USE DEF table, outside, bounds, MainState, Delegating, Stopping
  <1>1. CASE Sigterm
    BY <1>1 DEF Sigterm, TypeOK
  <1>2. CASE KeyboardInterrupt
    <2>1. thread' \in [Worker -> Thread]
      BY <1>2, IdleType DEF KeyboardInterrupt, TypeOK
    <2>2. toStop' \subseteq Worker
      BY <1>2 DEF KeyboardInterrupt, Pooled, TypeOK
    <2>3. QED
      BY <1>2, <2>1, <2>2 DEF KeyboardInterrupt, TypeOK
  <1>3. CASE Kill
    BY <1>3, TypeEnds DEF Kill
  <1>4. QED
    BY <1>1, <1>2, <1>3 DEF Stop

\* A worker's thread keeps the types.
LEMMA TypeWorker ==
    ASSUME TypeOK, NEW w \in Worker, WorkerStep(w)
    PROVE  TypeOK'
  <1> USE DEF table, manager, outside, bounds
  <1>1. thread[w].job \in Handle /\ jobs \in Table
    BY ThreadType DEF TypeOK
  <1>2. ASSUME NEW s \in ThreadState, FinishJob(w, s)
        PROVE  jobs' \in Table /\ thread' \in [Worker -> Thread]
    <2>1. jobs' \in Table
      BY <1>1, <1>2, FinishType DEF FinishJob
    <2>2. [thread[w] EXCEPT !.state = s, !.job.finished = TRUE] \in Thread
      BY ThreadType DEF Thread, Handle
    <2>3. thread' = [thread EXCEPT ![w] =
                        [@ EXCEPT !.state = s, !.job.finished = TRUE]]
      BY <1>2 DEF FinishJob, TypeOK
    <2>4. QED
      BY <2>1, <2>2, <2>3 DEF TypeOK
  <1>3. ASSUME NEW s \in ThreadState, SetThread(w, s)
        PROVE  thread' \in [Worker -> Thread]
    BY <1>3, ThreadType DEF SetThread
  <1>4. ASSUME NEW s \in ThreadState, ReleaseJob(w, s)
        PROVE  jobs' \in Table /\ thread' \in [Worker -> Thread]
    BY <1>1, <1>3, <1>4, ReleaseType DEF ReleaseJob
  <1>5. {"returned", "cleanup", "dead"} \subseteq ThreadState
    BY DEF ThreadState
  <1>6. CASE WorkFinishes(w)
    BY <1>2, <1>5, <1>6 DEF WorkFinishes, TypeOK
  <1>7. CASE WorkReturns(w)
    BY <1>3, <1>5, <1>7 DEF WorkReturns, TypeOK
  <1>8. CASE WorkReleases(w)
    BY <1>4, <1>5, <1>8 DEF WorkReleases, TypeOK
  <1>9. CASE WorkInterrupted(w)
    BY <1>2, <1>4, <1>5, <1>9 DEF WorkInterrupted, TypeOK
  <1>10. CASE WorkCrashes(w)
    <2>1. jobs' \in Table
      BY <1>1, <1>10, ParkType DEF WorkCrashes
    <2>2. QED
      BY <1>3, <1>5, <1>10, <2>1 DEF WorkCrashes, TypeOK
  <1>11. CASE RunFinishes(w)
    BY <1>2, <1>3, <1>5, <1>11 DEF RunFinishes, TypeOK
  <1>12. CASE CleanUp(w)
    BY <1>3, <1>5, <1>12 DEF CleanUp, TypeOK
  <1>13. QED
    BY <1>6, <1>7, <1>8, <1>9, <1>10, <1>11, <1>12 DEF WorkerStep

\* The step of a request moves it along within its type.
LEMMA RequestType ==
    ASSUME TypeOK
    PROVE  /\ web.job \in Handle
           /\ WebDone \in Request
           /\ [web EXCEPT !.step = "wait"] \in Request
  BY IdleType DEF TypeOK, Request, WebDone

\* The API's answer keeps the types.
LEMMA TypeApi ==
    ASSUME TypeOK, NEW j \in Job, ApiCancels(j)
    PROVE  TypeOK'
  <1>1. web' \in Request
    BY RequestType DEF ApiCancels, TypeOK
  <1>2. thread' \in [Worker -> Thread]
    <2>1. ASSUME NEW w \in Pooled, Interrupt(w, Cancel)
          PROVE  thread' \in [Worker -> Thread]
      <3>1. w \in Worker
        BY DEF Pooled, TypeOK
      <3>2. QED
        BY <2>1, <3>1, ThreadType DEF Interrupt
    <2>2. QED
      BY <2>1 DEF ApiCancels, TypeOK
  <1>3. QED
    BY <1>1, <1>2 DEF ApiCancels, TypeOK, table, manager, bounds

\* The front-end keeps the types.
LEMMA TypeWeb ==
    ASSUME TypeOK, Web
    PROVE  TypeOK'
  <1> USE DEF table, manager, outside, bounds
  <1>1. ASSUME NEW j \in Job, Submit(j) PROVE TypeOK'
    <2>1. jobs' \in Table
      BY <1>1, AddJobType DEF Submit, TypeOK
    <2>2. nextId' \in Nat \ {0} /\ datasets' \subseteq Processor
      BY <1>1 DEF Submit, TypeOK
    <2>3. QED
      BY <1>1, <2>1, <2>2 DEF Submit, TypeOK
  <1>2. ASSUME NEW j \in Job, RequestRetry(j) PROVE TypeOK'
    <2>1. web' \in Request
      BY <1>2, GetJobType DEF RequestRetry, Request, TypeOK
    <2>2. asked' \in 0 .. MaxRequests
      BY <1>2, WorkerManagerAssumption DEF RequestRetry, TypeOK
    <2>3. QED
      BY <1>2, <2>1, <2>2 DEF RequestRetry, TypeOK
  <1>3. ASSUME NEW j \in Job, NEW op \in {"delete", "nuke"},
               RequestDelete(j, op)
        PROVE  TypeOK'
    <2>1. web' \in Request
      BY <1>3, GetJobType DEF RequestDelete, Request, TypeOK
    <2>2. asked' \in 0 .. MaxRequests
      BY <1>3, WorkerManagerAssumption DEF RequestDelete, TypeOK
    <2>3. QED
      BY <1>3, <2>1, <2>2 DEF RequestDelete, TypeOK
  <1>4. CASE SendCall
    <2>1. web' \in Request /\ web.job.key \in Job
      BY <1>4, RequestType DEF SendCall, Handle
    <2>2. QED
      BY <1>4, <2>1 DEF SendCall, TypeOK
  <1>5. CASE CallTimesOut
    BY <1>5, RequestType DEF CallTimesOut, TypeOK
  <1>6. CASE DeleteJob
    <2>1. jobs' \in Table
      BY <1>6, RequestType, FinishType DEF DeleteJob, TypeOK
    <2>2. QED
      BY <1>6, <2>1, IdleType DEF DeleteJob, TypeOK
  <1>7. CASE RetryJob
    <2>1. jobs' \in Table
      BY <1>7, RequestType, ReleaseType DEF RetryJob, TypeOK
    <2>2. QED
      BY <1>7, <2>1, IdleType DEF RetryJob, TypeOK
  <1>8. QED
    BY <1>1, <1>2, <1>3, <1>4, <1>5, <1>6, <1>7 DEF Web

\* Every step keeps the types.
LEMMA TypeNext ==
    ASSUME TypeOK, [Next]_vars
    PROVE  TypeOK'
  <1>1. ASSUME NEW j \in Job, TimePasses(j) PROVE TypeOK'
    <2>1. jobs' \in Table
      BY <1>1, TimeType DEF TimePasses, TypeOK
    <2>2. QED
      BY <1>1, <2>1
         DEF TimePasses, TypeOK, manager, outside, bounds
  <1>2. CASE UNCHANGED vars
    BY <1>2 DEF vars, TypeOK
  <1>3. QED
    BY <1>1, <1>2, TypeStart, TypeDelegate, TypeShutDown, TypeStop, TypeWorker,
       TypeApi, TypeWeb DEF Next

\* The state of the queue, the manager, its threads and the front-end is
\* well-formed in every reachable state.
THEOREM TypeCorrect == Spec => []TypeOK
  BY TypeInit, TypeNext, PTL DEF Spec

-----------------------------------------------------------------------------
(* One worker per queue                                                    *)

\* No thread comes to life or takes another job in this step.
CalmStep ==
    \A w \in Worker : /\ Alive(w)' => Alive(w)
                      /\ Alive(w)' => JobOf(w)' = JobOf(w)

\* A pool, and the live threads of a queue, are finite sets of workers.
LEMMA FiniteThreads ==
    ASSUME TypeOK, NEW q \in QueueId
    PROVE  /\ IsFiniteSet(AliveIn(q)) /\ Cardinality(AliveIn(q)) \in Nat
           /\ IsFiniteSet(pool[q]) /\ Cardinality(pool[q]) \in Nat
  <1>1. AliveIn(q) \subseteq Worker /\ pool[q] \subseteq Worker
    BY DEF AliveIn, TypeOK
  <1>2. IsFiniteSet(AliveIn(q)) /\ IsFiniteSet(pool[q])
    BY <1>1, FS_Subset, WorkerManagerAssumption
  <1>3. QED
    BY <1>2, FS_CardinalityType

\* Where no thread comes to life, no queue gains a live thread.
LEMMA CalmOneWorker ==
    ASSUME TypeOK, OneWorkerPerQueue, CalmStep
    PROVE  OneWorkerPerQueue'
  <1> SUFFICES ASSUME NEW q \in QueueId
               PROVE  Cardinality(AliveIn(q)') <= MaxJobsPerQueue
    BY DEF OneWorkerPerQueue
  <1>1. AliveIn(q)' \subseteq AliveIn(q)
    BY DEF AliveIn, CalmStep, QueueOfWorker
  <1>2. IsFiniteSet(AliveIn(q)) /\ Cardinality(AliveIn(q)) \in Nat
    BY FiniteThreads
  <1>3. /\ IsFiniteSet(AliveIn(q)')
        /\ Cardinality(AliveIn(q)') <= Cardinality(AliveIn(q))
    BY <1>1, <1>2, FS_Subset
  <1>4. Cardinality(AliveIn(q)') \in Nat
    BY <1>3, FS_CardinalityType
  <1>5. Cardinality(AliveIn(q)) <= MaxJobsPerQueue
    BY DEF OneWorkerPerQueue
  <1>6. QED
    BY <1>2, <1>3, <1>4, <1>5, WorkerManagerAssumption

\* A step in which the main thread does nothing and no thread comes to life
\* keeps the invariant.
LEMMA QuietStep ==
    ASSUME SlotInv, TypeOK', CalmStep, UNCHANGED <<main, pool, starting>>,
           \A w \in starting : JobOf(w)' = JobOf(w),
           \A w \in starting : thread[w].state = "new" =>
                                  thread'[w].state = "new"
    PROVE  SlotInv'
  <1>1. OneWorkerPerQueue'
    BY CalmOneWorker DEF SlotInv
  <1>2. PoolBounded' /\ NoThreadBeforeLoop'
    BY DEF SlotInv, PoolBounded, NoThreadBeforeLoop, CalmStep
  <1>3. SlotIsFree'
    BY DEF SlotInv, SlotIsFree, QueueOfWorker
  <1>4. LiveThreadsKnown'
    BY DEF SlotInv, LiveThreadsKnown, CalmStep, QueueOfWorker
  <1>5. QED
    BY <1>1, <1>2, <1>3, <1>4 DEF SlotInv

\* The invariant holds initially.
LEMMA SlotInit == Init => SlotInv
  <1> SUFFICES ASSUME Init PROVE SlotInv
    OBVIOUS
  <1>1. TypeOK
    BY TypeInit
  <1>2. \A w \in Worker : ~Alive(w)
    BY DEF Init, Alive, Idle
  <1>3. \A q \in QueueId : AliveIn(q) = {} /\ pool[q] = {}
    BY <1>2 DEF AliveIn, Init
  <1>4. PoolBounded /\ OneWorkerPerQueue
    BY <1>3, FS_EmptySet, WorkerManagerAssumption
       DEF PoolBounded, OneWorkerPerQueue
  <1>5. SlotIsFree /\ NoThreadBeforeLoop /\ LiveThreadsKnown
    BY <1>2 DEF Init, SlotIsFree, NoThreadBeforeLoop, LiveThreadsKnown
  <1>6. QED
    BY <1>1, <1>4, <1>5 DEF SlotInv

\* Where the threads, the pool and the worker being started stay as they are,
\* what remains is what the invariant says of the new place of the main thread.
LEMMA MainStep ==
    ASSUME SlotInv, TypeOK', UNCHANGED <<thread, pool, starting>>,
           starting = {},
           NoThreadBeforeLoop', LiveThreadsKnown'
    PROVE  SlotInv'
  <1>1. CalmStep
    BY DEF CalmStep, Alive, JobOf
  <1>2. OneWorkerPerQueue'
    BY <1>1, CalmOneWorker DEF SlotInv
  <1>3. PoolBounded' /\ SlotIsFree'
    BY DEF SlotInv, PoolBounded, SlotIsFree, QueueOfWorker, JobOf
  <1>4. QED
    BY <1>2, <1>3 DEF SlotInv

\* Start-up finds no live threads and leaves none.
LEMMA SlotStart ==
    ASSUME SlotInv, TypeOK', Start
    PROVE  SlotInv'
  <1>1. main \in {"down", "boot"} /\ UNCHANGED <<thread, pool, starting>>
    BY DEF Start, Boot, BootEnsure, BootDone, outside, bounds, table
  <1>2. \A w \in Worker : ~Alive(w) /\ ~Alive(w)'
    BY <1>1 DEF SlotInv, NoThreadBeforeLoop, Alive
  <1>3. NoThreadBeforeLoop' /\ LiveThreadsKnown'
    BY <1>2 DEF NoThreadBeforeLoop, LiveThreadsKnown
  <1>4. starting = {}
    BY <1>1 DEF SlotInv, SlotIsFree
  <1>5. QED
    BY <1>1, <1>3, <1>4, MainStep

\* The heart of the argument: a thread is only created for a queue whose pool
\* has a free slot, and at that moment the pool holds every live thread.
LEMMA SlotClaim ==
    ASSUME SlotInv, TypeOK', NEW h \in snapshot, NEW v \in Worker,
           ClaimJob(h, v)
    PROVE  SlotInv'
  <1>1. h \in Handle /\ h.key \in Job /\ QueueOf[h.key] \in QueueId
    BY JobQueueAssumption DEF SlotInv, TypeOK, Handle
  <1>2. starting = {} /\ starting' = {v} /\ UNCHANGED pool /\ main' = "start"
    BY DEF ClaimJob, SlotInv, SlotIsFree
  <1>3. /\ JobOf(v)' = h.key
        /\ QueueOfWorker(v)' = QueueOf[h.key]
        /\ Alive(v)'
        /\ ~Alive(v)
    BY DEF ClaimJob, SlotInv, TypeOK, JobOf, QueueOfWorker, Alive, Idle
  <1>4. \A w \in Worker \ {v} : thread'[w] = thread[w]
    BY DEF ClaimJob, SlotInv, TypeOK
  <1>5. \A w \in Worker \ {v} : /\ Alive(w)' <=> Alive(w)
                                /\ QueueOfWorker(w)' = QueueOfWorker(w)
    BY <1>4 DEF Alive, QueueOfWorker, JobOf
  <1>6. PoolBounded' /\ NoThreadBeforeLoop'
    BY <1>2 DEF SlotInv, PoolBounded, NoThreadBeforeLoop
  <1>7. SlotIsFree'
    <2>1. thread'[v].state = "new"
      BY DEF ClaimJob, SlotInv, TypeOK, Idle
    <2>2. QED
      BY <1>2, <1>3, <2>1 DEF SlotIsFree, ClaimJob, HasSlot
  <1>8. LiveThreadsKnown'
    BY <1>2, <1>3, <1>5 DEF LiveThreadsKnown, SlotInv, ClaimJob, Delegating
  <1>9. OneWorkerPerQueue'
    <2> SUFFICES ASSUME NEW q \in QueueId
                 PROVE  Cardinality(AliveIn(q)') <= MaxJobsPerQueue
      BY DEF OneWorkerPerQueue
    <2>1. CASE q = QueueOf[h.key]
      <3>1. AliveIn(q) \subseteq pool[q]
        BY <1>2 DEF SlotInv, LiveThreadsKnown, ClaimJob, Delegating, AliveIn
      <3>2. Cardinality(AliveIn(q)) <= Cardinality(pool[q])
        BY <3>1, FiniteThreads, FS_Subset DEF SlotInv
      <3>3. Cardinality(AliveIn(q)) < MaxJobsPerQueue
        BY <2>1, <3>2, FiniteThreads, WorkerManagerAssumption
           DEF ClaimJob, HasSlot, SlotInv
      <3>4. AliveIn(q)' = AliveIn(q) \cup {v} /\ v \notin AliveIn(q)
        BY <1>3, <1>5, <2>1 DEF AliveIn
      <3>5. Cardinality(AliveIn(q)') = Cardinality(AliveIn(q)) + 1
        BY <3>4, FiniteThreads, FS_AddElement DEF SlotInv
      <3>6. QED
        BY <3>3, <3>5, FiniteThreads, WorkerManagerAssumption DEF SlotInv
    <2>2. CASE q # QueueOf[h.key]
      <3>1. AliveIn(q)' = AliveIn(q)
        BY <1>3, <1>5, <2>2 DEF AliveIn
      <3>2. QED
        BY <3>1 DEF SlotInv, OneWorkerPerQueue
    <2>3. QED
      BY <2>1, <2>2
  <1>10. QED
    BY <1>6, <1>7, <1>8, <1>9 DEF SlotInv

\* The worker that was started takes the slot that was free.
LEMMA SlotAppend ==
    ASSUME SlotInv, TypeOK', NEW v \in Worker, AppendWorker(v)
    PROVE  SlotInv'
  <1>1. /\ main = "append" /\ main' = "assign"
        /\ starting = {v} /\ starting' = {}
        /\ UNCHANGED thread
    BY DEF AppendWorker, SlotInv, SlotIsFree
  <1>2. CalmStep /\ \A w \in Worker : QueueOfWorker(w)' = QueueOfWorker(w)
    BY <1>1 DEF CalmStep, Alive, JobOf, QueueOfWorker
  <1>3. OneWorkerPerQueue'
    BY <1>2, CalmOneWorker DEF SlotInv
  <1>4. QueueOfWorker(v) \in QueueId
    BY ThreadType, JobQueueAssumption
       DEF SlotInv, QueueOfWorker, JobOf, Handle
  <1>5. \A q \in QueueId :
           pool'[q] = IF q = QueueOfWorker(v) THEN pool[q] \cup {v} ELSE pool[q]
    BY <1>4 DEF AppendWorker, SlotInv, TypeOK
  <1>6. PoolBounded'
    <2> SUFFICES ASSUME NEW q \in QueueId
                 PROVE  Cardinality(pool'[q]) <= MaxJobsPerQueue
      BY DEF PoolBounded
    <2>1. CASE q = QueueOfWorker(v)
      <3>1. Cardinality(pool[q]) < MaxJobsPerQueue
        BY <1>1, <2>1 DEF SlotInv, SlotIsFree
      <3>2. IsFiniteSet(pool[q]) /\ Cardinality(pool[q]) \in Nat
        BY FiniteThreads DEF SlotInv
      <3>3. Cardinality(pool[q] \cup {v}) = IF v \in pool[q]
                                            THEN Cardinality(pool[q])
                                            ELSE Cardinality(pool[q]) + 1
        BY <3>2, FS_AddElement
      <3>4. QED
        BY <1>5, <2>1, <3>1, <3>2, <3>3, WorkerManagerAssumption
    <2>2. CASE q # QueueOfWorker(v)
      BY <1>5, <2>2 DEF SlotInv, PoolBounded
    <2>3. QED
      BY <2>1, <2>2
  <1>7. SlotIsFree' /\ NoThreadBeforeLoop'
    BY <1>1 DEF SlotIsFree, NoThreadBeforeLoop
  <1>8. LiveThreadsKnown'
    <2> SUFFICES ASSUME NEW w \in Worker, Alive(w)'
                 PROVE  w \in pool'[QueueOfWorker(w)]
      BY <1>2 DEF LiveThreadsKnown
    <2>1. Alive(w)
      BY <1>2 DEF CalmStep
    <2>2. w = v \/ w \in pool[QueueOfWorker(w)]
      BY <1>1, <2>1 DEF SlotInv, LiveThreadsKnown, Delegating
    <2>3. QueueOfWorker(w) \in QueueId
      BY ThreadType, JobQueueAssumption
         DEF SlotInv, QueueOfWorker, JobOf, Handle
    <2>4. QED
      BY <1>5, <2>2, <2>3
  <1>9. QED
    BY <1>3, <1>6, <1>7, <1>8 DEF SlotInv

\* Reaping takes dead threads out of the pool, and no others.
LEMMA SlotReap ==
    ASSUME SlotInv, TypeOK', Reap
    PROVE  SlotInv'
  <1> DEFINE gone == {w \in Pooled : thread[w].state = "dead"}
  <1>1. /\ main = "reap" /\ main' = "assign" /\ UNCHANGED starting
        /\ pool' = [q \in QueueId |-> pool[q] \ gone]
        /\ thread' = [w \in Worker |-> IF w \in gone THEN Idle ELSE thread[w]]
    BY DEF Reap
  <1>2. starting = {}
    BY <1>1 DEF SlotInv, SlotIsFree
  <1>3. \A w \in gone : ~Alive(w) /\ ~Alive(w)'
    BY <1>1 DEF Alive, Idle, SlotInv, TypeOK, Pooled
  <1>4. \A w \in Worker \ gone : thread'[w] = thread[w]
    BY <1>1
  <1> HIDE DEF gone
  <1>5. \A w \in Worker : Alive(w)' =>
           /\ w \notin gone
           /\ Alive(w)
           /\ JobOf(w)' = JobOf(w)
           /\ QueueOfWorker(w)' = QueueOfWorker(w)
    BY <1>3, <1>4 DEF Alive, JobOf, QueueOfWorker
  <1>6. OneWorkerPerQueue'
    BY <1>5, CalmOneWorker DEF CalmStep, SlotInv
  <1>7. PoolBounded'
    <2> SUFFICES ASSUME NEW q \in QueueId
                 PROVE  Cardinality(pool'[q]) <= MaxJobsPerQueue
      BY DEF PoolBounded
    <2>1. pool'[q] \subseteq pool[q]
      BY <1>1
    <2>2. IsFiniteSet(pool[q]) /\ Cardinality(pool[q]) \in Nat
      BY FiniteThreads DEF SlotInv
    <2>3. /\ IsFiniteSet(pool'[q])
          /\ Cardinality(pool'[q]) <= Cardinality(pool[q])
      BY <2>1, <2>2, FS_Subset
    <2>4. Cardinality(pool'[q]) \in Nat
      BY <2>3, FS_CardinalityType
    <2>5. Cardinality(pool[q]) <= MaxJobsPerQueue
      BY DEF SlotInv, PoolBounded
    <2>6. QED
      BY <2>2, <2>3, <2>4, <2>5, WorkerManagerAssumption
  <1>8. SlotIsFree' /\ NoThreadBeforeLoop'
    BY <1>1, <1>2 DEF SlotIsFree, NoThreadBeforeLoop
  <1>9. LiveThreadsKnown'
    <2> SUFFICES ASSUME NEW w \in Worker, Alive(w)'
                 PROVE  w \in pool'[QueueOfWorker(w)']
      BY DEF LiveThreadsKnown
    <2>1. w \in pool[QueueOfWorker(w)]
      BY <1>1, <1>2, <1>5 DEF SlotInv, LiveThreadsKnown, Delegating
    <2>2. QueueOfWorker(w) \in QueueId
      BY ThreadType, JobQueueAssumption
         DEF SlotInv, QueueOfWorker, JobOf, Handle
    <2>3. QED
      BY <1>1, <1>5, <2>1, <2>2
  <1>10. QED
    BY <1>6, <1>7, <1>8, <1>9 DEF SlotInv

\* Every step of a pass of delegate() keeps the invariant.
LEMMA SlotDelegate ==
    ASSUME SlotInv, TypeOK', Delegate
    PROVE  SlotInv'
  <1> USE DEF table, outside, bounds
  <1>1. CASE TakeSnapshot
    <2>1. starting = {}
      BY <1>1 DEF TakeSnapshot, SlotInv, SlotIsFree
    <2>2. NoThreadBeforeLoop' /\ LiveThreadsKnown'
      BY <1>1 DEF TakeSnapshot, SlotInv, NoThreadBeforeLoop, LiveThreadsKnown,
                  Delegating, Alive, QueueOfWorker, JobOf
    <2>3. QED
      BY <1>1, <2>1, <2>2, MainStep DEF TakeSnapshot
  <1>2. CASE Reap
    BY <1>2, SlotReap
  <1>3. CASE EndPass
    <2>1. starting = {}
      BY <1>3 DEF EndPass, SlotInv, SlotIsFree
    <2>2. NoThreadBeforeLoop' /\ LiveThreadsKnown'
      BY <1>3 DEF EndPass, NextPass, SlotInv, NoThreadBeforeLoop,
                  LiveThreadsKnown, Delegating, Alive, QueueOfWorker, JobOf
    <2>3. QED
      BY <1>3, <2>1, <2>2, MainStep DEF EndPass
  <1>4. ASSUME NEW h \in snapshot, SkipJob(h) PROVE SlotInv'
    <2>1. UNCHANGED <<main, pool, starting, thread>>
      BY <1>4 DEF SkipJob
    <2>2. CalmStep /\ \A w \in starting : JobOf(w)' = JobOf(w)
      BY <2>1 DEF CalmStep, Alive, JobOf
    <2>3. QED
      BY <2>1, <2>2, QuietStep
  <1>5. ASSUME NEW h \in snapshot, NEW w \in Worker, ClaimJob(h, w)
        PROVE  SlotInv'
    BY <1>5, SlotClaim
  <1>6. ASSUME NEW v \in Worker, StartWorker(v) PROVE SlotInv'
    <2>1. /\ main = "start" /\ main' = "append"
          /\ UNCHANGED <<pool, starting>>
          /\ v \in starting
          /\ thread' = [thread EXCEPT ![v].state = "run"]
      BY <1>6 DEF StartWorker
    <2>2. \A w \in Worker : QueueOfWorker(w)' = QueueOfWorker(w)
      BY <2>1 DEF SlotInv, TypeOK, Thread, QueueOfWorker, JobOf
    <2>3. thread[v].state = "new"
      BY <2>1 DEF SlotInv, SlotIsFree
    <2>4. \A w \in Worker : Alive(w)' => Alive(w)
      BY <2>1, <2>3 DEF SlotInv, TypeOK, Alive
    <2>5. CalmStep
      BY <2>1, <2>4 DEF CalmStep, SlotInv, TypeOK, Thread, JobOf
    <2>6. OneWorkerPerQueue'
      BY <2>5, CalmOneWorker DEF SlotInv
    <2>7. SlotIsFree' /\ PoolBounded' /\ NoThreadBeforeLoop'
      BY <2>1, <2>2 DEF SlotInv, TypeOK, SlotIsFree, PoolBounded,
                        NoThreadBeforeLoop
    <2>8. LiveThreadsKnown'
      BY <2>1, <2>2, <2>4 DEF SlotInv, LiveThreadsKnown, Delegating
    <2>9. QED
      BY <2>6, <2>7, <2>8 DEF SlotInv
  <1>7. ASSUME NEW w \in Worker, AppendWorker(w) PROVE SlotInv'
    BY <1>7, SlotAppend
  <1>8. QED
    BY <1>1, <1>2, <1>3, <1>4, <1>5, <1>6, <1>7 DEF Delegate

\* The end of the process leaves no thread behind.
LEMMA SlotEnds ==
    ASSUME SlotInv, TypeOK', ProcessEnds
    PROVE  SlotInv'
  <1>1. /\ main' = "down" /\ starting' = {}
        /\ \A q \in QueueId : pool'[q] = {}
        /\ \A w \in Worker : ~Alive(w)'
    BY DEF ProcessEnds, Alive, Idle
  <1>2. OneWorkerPerQueue'
    BY <1>1, CalmOneWorker DEF CalmStep, SlotInv
  <1>3. PoolBounded'
    BY <1>1, FS_EmptySet, WorkerManagerAssumption DEF PoolBounded
  <1>4. SlotIsFree' /\ NoThreadBeforeLoop' /\ LiveThreadsKnown'
    BY <1>1 DEF SlotIsFree, NoThreadBeforeLoop, LiveThreadsKnown
  <1>5. QED
    BY <1>2, <1>3, <1>4 DEF SlotInv

\* While shutting down, or once Ctrl-C abandons a pass, nothing is started.
LEMMA SlotStopping ==
    ASSUME SlotInv, TypeOK', CalmStep, UNCHANGED pool, starting' = {},
           main' \in Stopping
    PROVE  SlotInv'
  <1>1. OneWorkerPerQueue'
    BY CalmOneWorker DEF SlotInv
  <1>2. PoolBounded' /\ SlotIsFree' /\ NoThreadBeforeLoop' /\ LiveThreadsKnown'
    BY DEF SlotInv, PoolBounded, SlotIsFree, NoThreadBeforeLoop,
           LiveThreadsKnown, Stopping, Delegating
  <1>3. QED
    BY <1>1, <1>2 DEF SlotInv

\* Shutting down keeps the invariant.
LEMMA SlotShutDown ==
    ASSUME SlotInv, TypeOK', ShutDown
    PROVE  SlotInv'
  <1>1. CASE Exit
    BY <1>1, SlotEnds DEF Exit
  <1>2. CASE ~Exit
    <2>1. /\ main \in Stopping /\ main' \in Stopping
          /\ UNCHANGED <<pool, starting>>
      BY <1>2 DEF ShutDown, InterruptWorker, AllInterrupted, JoinWorkers,
                  StopApi, JoinApi, Stopping
    <2>2. starting = {}
      BY <2>1 DEF SlotInv, SlotIsFree, Stopping
    <2>3. \A w \in Worker : /\ thread'[w].state = thread[w].state
                            /\ thread'[w].job = thread[w].job
      BY <1>2 DEF ShutDown, InterruptWorker, Interrupt, AllInterrupted,
                  JoinWorkers, StopApi, JoinApi, SlotInv, TypeOK, Thread
    <2>4. CalmStep
      BY <2>3 DEF CalmStep, Alive, JobOf
    <2>5. QED
      BY <2>1, <2>2, <2>4, SlotStopping
  <1>3. QED
    BY <1>1, <1>2

\* SIGTERM, Ctrl-C and SIGKILL keep the invariant.
LEMMA SlotStop ==
    ASSUME SlotInv, TypeOK', Stop
    PROVE  SlotInv'
  <1>1. CASE Sigterm
    <2>1. UNCHANGED <<main, pool, starting, thread>>
      BY <1>1 DEF Sigterm
    <2>2. CalmStep /\ \A w \in starting : JobOf(w)' = JobOf(w)
      BY <2>1 DEF CalmStep, Alive, JobOf
    <2>3. QED
      BY <2>1, <2>2, QuietStep
  <1>2. CASE KeyboardInterrupt
    <2>1. main' \in Stopping /\ starting' = {} /\ UNCHANGED pool
      BY <1>2 DEF KeyboardInterrupt, Stopping
    <2>2. \A w \in Worker : Alive(w)' => thread'[w] = thread[w]
      BY <1>2 DEF KeyboardInterrupt, Alive, Idle
    <2>3. CalmStep
      BY <2>2 DEF CalmStep, Alive, JobOf
    <2>4. QED
      BY <2>1, <2>3, SlotStopping
  <1>3. CASE Kill
    BY <1>3, SlotEnds DEF Kill
  <1>4. QED
    BY <1>1, <1>2, <1>3 DEF Stop

\* The steps of a worker's thread keep the invariant: it only ever dies.
LEMMA SlotWorker ==
    ASSUME SlotInv, TypeOK', NEW v \in Worker, WorkerStep(v)
    PROVE  SlotInv'
  <1>1. UNCHANGED <<main, pool, starting>>
    BY DEF WorkerStep, WorkFinishes, WorkReturns, WorkReleases,
           WorkInterrupted, WorkCrashes, RunFinishes, CleanUp, manager
  <1>2. thread[v].state \in {"run", "returned", "cleanup"}
    BY DEF WorkerStep, WorkFinishes, WorkReturns, WorkReleases,
           WorkInterrupted, WorkCrashes, RunFinishes, CleanUp
  <1>3. \A w \in Worker : /\ w # v => thread'[w] = thread[w]
                          /\ thread'[w].job.key = thread[w].job.key
    <2> DEFINE same == \A w \in Worker : /\ w # v => thread'[w] = thread[w]
                                         /\ thread'[w].job.key = thread[w].job.key
    <2>1. thread \in [Worker -> Thread]
      BY DEF SlotInv, TypeOK
    <2>2. ASSUME NEW s, SetThread(v, s) PROVE same
      BY <2>1, <2>2 DEF SetThread, Thread
    <2>3. ASSUME NEW s, FinishJob(v, s) PROVE same
      BY <2>1, <2>3 DEF FinishJob, Thread, Handle
    <2>4. ASSUME NEW s, ReleaseJob(v, s) PROVE same
      BY <2>2, <2>4 DEF ReleaseJob
    <2> HIDE DEF same
    <2>5. same
      BY <2>2, <2>3, <2>4
         DEF WorkerStep, WorkFinishes, WorkReturns, WorkReleases,
             WorkInterrupted, WorkCrashes, RunFinishes, CleanUp
    <2>6. QED
      BY <2>5 DEF same
  <1>4. CalmStep /\ \A w \in starting : JobOf(w)' = JobOf(w)
    BY <1>2, <1>3 DEF CalmStep, Alive, JobOf, SlotInv, TypeOK
  <1>5. \A w \in starting : thread[w].state = "new" => thread'[w].state = "new"
    BY <1>2, <1>3 DEF SlotInv, TypeOK
  <1>6. QED
    BY <1>1, <1>4, <1>5, QuietStep

\* So do the steps of the API, the front-end and the clock.
LEMMA SlotOutside ==
    ASSUME SlotInv, TypeOK',
           Web \/ (\E j \in Job : ApiCancels(j) \/ TimePasses(j))
    PROVE  SlotInv'
  <1>1. UNCHANGED <<main, pool, starting>>
    BY DEF Web, Submit, RequestRetry, RequestDelete, SendCall, CallTimesOut,
           DeleteJob, RetryJob, ApiCancels, TimePasses, manager
  <1>2. \A w \in Worker : /\ thread'[w].state = thread[w].state
                          /\ thread'[w].job = thread[w].job
    <2>1. CASE UNCHANGED thread
      BY <2>1
    <2>2. ASSUME NEW v \in Pooled, Interrupt(v, Cancel)
          PROVE  \A w \in Worker : /\ thread'[w].state = thread[w].state
                                   /\ thread'[w].job = thread[w].job
      BY <2>2 DEF Interrupt, Pooled, SlotInv, TypeOK, Thread
    <2>3. QED
      BY <2>1, <2>2
         DEF Web, Submit, RequestRetry, RequestDelete, SendCall, CallTimesOut,
             DeleteJob, RetryJob, ApiCancels, TimePasses
  <1>3. CalmStep /\ \A w \in Worker : JobOf(w)' = JobOf(w)
    BY <1>2 DEF CalmStep, Alive, JobOf
  <1>4. QED
    BY <1>1, <1>2, <1>3, QuietStep DEF SlotInv, TypeOK

\* SlotInv is inductive.
LEMMA SlotNext ==
    ASSUME SlotInv, [Next]_vars
    PROVE  SlotInv'
  <1>1. TypeOK'
    BY TypeNext DEF SlotInv
  <1>2. CASE UNCHANGED vars
    <2>1. UNCHANGED <<main, pool, starting, thread>>
      BY <1>2 DEF vars
    <2>2. CalmStep /\ \A w \in starting : JobOf(w)' = JobOf(w)
      BY <2>1 DEF CalmStep, Alive, JobOf
    <2>3. QED
      BY <1>1, <2>1, <2>2, QuietStep
  <1>3. QED
    BY <1>1, <1>2, SlotStart, SlotDelegate, SlotShutDown, SlotStop, SlotWorker,
       SlotOutside DEF Next

\* The manager always knows every live thread while it delegates, and its
\* pools never exceed their limit.
THEOREM SlotsCorrect == Spec => []SlotInv
  BY SlotInit, SlotNext, PTL DEF Spec

\* However many workers there are and whatever the front-end, the API and the
\* signals do, no queue ever has more than MAX_JOBS_PER_QUEUE live threads.
THEOREM OneWorkerPerQueueAlways == Spec => []OneWorkerPerQueue
  <1>1. SlotInv => OneWorkerPerQueue
    BY DEF SlotInv
  <1>2. QED
    BY <1>1, SlotsCorrect, PTL

-----------------------------------------------------------------------------
(* A worker and the job that it holds                                      *)

\* While a job is neither finished nor left, the handle says so.
Unfinished ==
    /\ \A h \in snapshot : ~h.finished
    /\ \A w \in Worker :
          thread[w].state \in {"new", "run"} => ~thread[w].job.finished

HoldInv == SlotInv /\ Unfinished

\* A worker's steps change its own thread and its own job's row.
LEMMA WorkerThread ==
    ASSUME TypeOK, NEW w \in Worker, WorkerStep(w)
    PROVE  /\ \A v \in Worker : v # w => thread'[v] = thread[v]
           /\ thread'[w].job.key = thread[w].job.key
           /\ thread[w].state \in {"run", "returned", "cleanup"}
           /\ thread'[w].state \in {"returned", "cleanup", "dead"}
           /\ CleanUp(w) \/ thread'[w].state # "dead"
           /\ thread'[w].state = "returned" => thread[w].state = "run"
           /\ UNCHANGED <<manager, outside>>
  <1> DEFINE same == /\ \A v \in Worker : v # w => thread'[v] = thread[v]
                     /\ thread'[w].job.key = thread[w].job.key
  <1>0. thread \in [Worker -> Thread] /\ thread[w] \in Thread
    BY DEF TypeOK
  <1>1. ASSUME NEW s, SetThread(w, s) PROVE same /\ thread'[w].state = s
    BY <1>0, <1>1 DEF SetThread, Thread
  <1>2. ASSUME NEW s, FinishJob(w, s) PROVE same /\ thread'[w].state = s
    BY <1>0, <1>2 DEF FinishJob, Thread, Handle
  <1>3. ASSUME NEW s, ReleaseJob(w, s) PROVE same /\ thread'[w].state = s
    BY <1>1, <1>3 DEF ReleaseJob
  <1> HIDE DEF same
  <1>4. /\ same
        /\ thread'[w].state \in {"returned", "cleanup", "dead"}
        /\ CleanUp(w) \/ thread'[w].state # "dead"
        /\ thread'[w].state = "returned" => thread[w].state = "run"
    BY <1>1, <1>2, <1>3
    DEF WorkerStep, WorkFinishes, WorkReturns, WorkReleases, WorkInterrupted,
        WorkCrashes, RunFinishes, CleanUp
  <1>5. /\ thread[w].state \in {"run", "returned", "cleanup"}
        /\ UNCHANGED <<manager, outside>>
    BY DEF WorkerStep, WorkFinishes, WorkReturns, WorkReleases,
           WorkInterrupted, WorkCrashes, RunFinishes, CleanUp
  <1>6. QED
    BY <1>4, <1>5 DEF same

\* What a worker's step does to the row of its job: nothing, while it holds on
\* to a job that it holds, or has let go; or it lets go, and leaves no claim.
KeepsRow(w) ==
    /\ UNCHANGED jobs
    /\ \A j \in Job : Holds(w, j) => Holds(w, j)'

LetsGo(w) ==
    LET k == JobOf(w) IN
    /\ Holds(w, k)
    /\ \A i \in Job : i # k => jobs'[i].state = jobs[i].state
    /\ jobs[k].state = "absent" => jobs'[k].state = "absent"
    /\ \/ jobs'[k].state \in {"absent", "queued"}
       \/ jobs'[k].state = "parked" /\ thread'[w].state = "cleanup"

LEMMA WorkerRow ==
    ASSUME TypeOK, Unfinished, NEW w \in Worker, WorkerStep(w)
    PROVE  KeepsRow(w) \/ LetsGo(w)
  <1> DEFINE h == thread[w].job
             k == h.key
  <1>0. /\ thread \in [Worker -> Thread] /\ thread[w] \in Thread
        /\ h = thread[w].job /\ k = thread[w].job.key
    BY DEF TypeOK
  <1>a. h \in Handle /\ k \in Job /\ jobs \in Table
    BY DEF TypeOK, Thread, Handle
  <1> HIDE DEF h
  <1>1. ASSUME jobs' = Finish(jobs, h, FALSE), Holds(w, k)
        PROVE  LetsGo(w)
    <2> DEFINE t == Finish(jobs, h, FALSE)
    <2>1. \A i \in Job : i # k => t[i].state = jobs[i].state
      BY <1>a, FinishState
    <2>2. /\ t[k].state \in {"absent", "queued"}
          /\ jobs[k].state = "absent" => t[k].state = "absent"
      BY <1>a, FinishState
    <2> HIDE DEF t
    <2>3. jobs' = t
      BY <1>1 DEF t
    <2>4. QED
      BY <1>0, <1>1, <2>1, <2>2, <2>3 DEF LetsGo, JobOf
  <1>2. ASSUME jobs' = Release(jobs, h, TRUE, TRUE), Holds(w, k)
        PROVE  LetsGo(w)
    <2> DEFINE t == Release(jobs, h, TRUE, TRUE)
    <2>1. \A i \in Job :
            t[i].state = IF i = k /\ jobs[i].state # "absent"
                         THEN "queued" ELSE jobs[i].state
      BY <1>a, ReleaseState
    <2> HIDE DEF t
    <2>2. jobs' = t
      BY <1>2 DEF t
    <2>3. QED
      BY <1>0, <1>a, <1>2, <2>1, <2>2 DEF LetsGo, JobOf
  <1>3. thread[w].state = "run" => Holds(w, k)
    BY <1>0 DEF Holds, JobOf, Unfinished
  <1>4. CASE WorkFinishes(w)
    BY <1>0, <1>1, <1>3, <1>4 DEF WorkFinishes, FinishJob
  <1>5. CASE WorkReturns(w)
    <2>1. thread' = [thread EXCEPT ![w].state = "returned"] /\ UNCHANGED jobs
      BY <1>5 DEF WorkReturns, SetThread, table
    <2>2. thread'[w].state = "returned" /\ thread'[w].job = thread[w].job
      BY <1>0, <2>1 DEF Thread
    <2>3. QED
      BY <2>1, <2>2 DEF KeepsRow, Holds, JobOf
  <1>6. CASE WorkReleases(w)
    BY <1>0, <1>2, <1>3, <1>6 DEF WorkReleases, ReleaseJob
  <1>7. CASE WorkInterrupted(w)
    BY <1>0, <1>1, <1>2, <1>3, <1>7
    DEF WorkInterrupted, ReleaseJob, FinishJob
  <1>8. CASE WorkCrashes(w)
    <2>1. /\ jobs' = Park(jobs, h) /\ h = thread[w].job
          /\ thread' = [thread EXCEPT ![w].state = "cleanup"]
          /\ thread[w].state = "run"
      BY <1>0, <1>8 DEF WorkCrashes, SetThread
    <2>2. \A i \in Job :
            jobs'[i].state = IF i = k /\ jobs[i].state # "absent"
                             THEN "parked" ELSE jobs[i].state
      BY <1>a, <2>1, ParkState
    <2>3. thread'[w].state = "cleanup"
      BY <1>0, <2>1 DEF Thread
    <2>4. QED
      BY <1>0, <1>a, <1>3, <2>1, <2>2, <2>3 DEF LetsGo, JobOf
  <1>9. CASE RunFinishes(w)
    <2>1. CASE thread[w].job.finished
      <3>1. UNCHANGED jobs /\ \A j \in Job : ~Holds(w, j)
        BY <1>9, <2>1 DEF RunFinishes, Holds
      <3>2. QED
        BY <3>1 DEF KeepsRow, Holds
    <2>2. CASE ~thread[w].job.finished
      <3>1. Holds(w, k)
        BY <1>0, <1>9, <2>2 DEF RunFinishes, Holds, JobOf
      <3>2. QED
        BY <1>0, <1>1, <1>9, <2>2, <3>1 DEF RunFinishes, FinishJob
    <2>3. QED
      BY <2>1, <2>2
  <1>10. CASE CleanUp(w)
    BY <1>10 DEF CleanUp, KeepsRow, Holds, table
  <1>11. QED
    BY <1>4, <1>5, <1>6, <1>7, <1>8, <1>9, <1>10 DEF WorkerStep

\* The other steps: those that neither claim a job nor are a worker's.
Other ==
    \/ Start
    \/ TakeSnapshot \/ Reap \/ EndPass
    \/ \E h \in snapshot : SkipJob(h)
    \/ \E w \in Worker : StartWorker(w) \/ AppendWorker(w)
    \/ ShutDown \/ Stop \/ Web
    \/ \E j \in Job : ApiCancels(j) \/ TimePasses(j)

\* A thread does what it did, at most interrupted.
Same(w) == thread'[w].state = thread[w].state /\ thread'[w].job = thread[w].job

\* Started, it runs; reaped, it is none; and so it is once the process ends, or
\* once Ctrl-C keeps it from being started.
Started(w) ==
    /\ StartWorker(w)
    /\ thread[w].state = "new" /\ thread'[w].state = "run"
    /\ thread'[w].job = thread[w].job

LEMMA OtherThreads ==
    ASSUME SlotInv, Other
    PROVE  \A w \in Worker :
              \/ Same(w) \/ Started(w)
              \/ Reap /\ thread[w].state = "dead" /\ thread'[w] = Idle
              \/ (KeyboardInterrupt \/ ProcessEnds) /\ thread'[w] = Idle
  <1> SUFFICES ASSUME NEW w \in Worker
               PROVE  \/ Same(w) \/ Started(w)
                      \/ Reap /\ thread[w].state = "dead" /\ thread'[w] = Idle
                      \/ (KeyboardInterrupt \/ ProcessEnds)
                            /\ thread'[w] = Idle
    OBVIOUS
  <1>0. thread \in [Worker -> Thread] /\ thread[w] \in Thread
    BY DEF SlotInv, TypeOK
  <1>1. CASE UNCHANGED thread
    BY <1>1 DEF Same
  <1>2. CASE Reap
    BY <1>0, <1>2 DEF Reap, Same
  <1>3. ASSUME NEW v \in Worker, StartWorker(v)
        PROVE  Same(w) \/ Started(w)
    <2>1. /\ thread' = [thread EXCEPT ![v].state = "run"]
          /\ thread[v].state = "new"
      BY <1>3 DEF StartWorker, SlotInv, SlotIsFree
    <2>2. CASE w = v
      BY <1>0, <1>3, <2>1, <2>2 DEF Started, Thread
    <2>3. CASE w # v
      BY <1>0, <2>1, <2>3 DEF Same
    <2>4. QED
      BY <2>2, <2>3
  <1>4. ASSUME NEW v \in Worker, NEW i, Interrupt(v, i)
        PROVE  Same(w)
    BY <1>0, <1>4 DEF Interrupt, Same, Thread
  <1>5. CASE StopApi
    BY <1>0, <1>5 DEF StopApi, Same, Thread
  <1>6. CASE KeyboardInterrupt
    BY <1>0, <1>6 DEF KeyboardInterrupt, Same
  <1>7. CASE ProcessEnds
    BY <1>7 DEF ProcessEnds
  <1>8. CASE Start \/ TakeSnapshot \/ EndPass
             \/ (\E h \in snapshot : SkipJob(h))
             \/ (\E v \in Worker : AppendWorker(v)) \/ Web
             \/ (\E j \in Job : TimePasses(j))
    BY <1>1, <1>8
    DEF Start, Boot, BootEnsure, BootDone, TakeSnapshot, EndPass, SkipJob,
        AppendWorker, Web, Submit, RequestRetry, RequestDelete, SendCall,
        CallTimesOut, DeleteJob, RetryJob, TimePasses, outside
  <1>9. CASE ShutDown \/ Stop
    BY <1>1, <1>4, <1>5, <1>6, <1>7, <1>9
    DEF ShutDown, InterruptWorker, AllInterrupted, JoinWorkers, JoinApi, Exit,
        Stop, Sigterm, Kill
  <1>10. ASSUME NEW j \in Job, ApiCancels(j)
         PROVE  Same(w)
    <2>1. Pooled \subseteq Worker
      BY DEF Pooled, SlotInv, TypeOK
    <2>2. QED
      BY <1>4, <1>10, <2>1 DEF ApiCancels, Same
  <1>11. QED
    BY <1>2, <1>3, <1>8, <1>9, <1>10 DEF Other

\* A start leaves no claim.
LEMMA BootRows ==
    ASSUME TypeOK, Boot
    PROVE  \A j \in Job :
              jobs'[j].state = IF jobs[j].state # "absent" THEN "queued"
                                                           ELSE "absent"
  BY ReleaseAllState DEF Boot, TypeOK

\* No row is claimed or parked by them, and parked rows are released by a start
\* or on request.
LEMMA OtherRows ==
    ASSUME TypeOK, Other
    PROVE  \A j \in Job :
              /\ jobs'[j].state \in {jobs[j].state, "absent", "queued"}
              /\ jobs[j].state = "parked" /\ jobs'[j].state = "queued" =>
                    main = "down" \/ web.op = "retry"
  <1>0. /\ jobs \in Table /\ nextId \in Nat /\ web.job \in Handle
        /\ web.job.key \in Job
    BY DEF TypeOK, Request, Handle
  <1>1. CASE Boot
    BY <1>1, BootRows DEF Boot
  <1>2. ASSUME NEW j \in Job, NEW d \in BOOLEAN,
               jobs' = AddJob(jobs, j, nextId, d)
        PROVE  \A i \in Job : \/ jobs'[i].state = jobs[i].state
                              \/ /\ jobs[i].state = "absent"
                                 /\ jobs'[i].state = "queued"
    BY <1>0, <1>2, AddJobState
  <1>3. ASSUME NEW j \in Job, BootEnsure(j) \/ Submit(j)
        PROVE  \A i \in Job : \/ jobs'[i].state = jobs[i].state
                              \/ /\ jobs[i].state = "absent"
                                 /\ jobs'[i].state = "queued"
    BY <1>2, <1>3 DEF BootEnsure, Submit
  <1>4. CASE DeleteJob
    <2>1. jobs' = Finish(jobs, web.job, TRUE)
      BY <1>4 DEF DeleteJob
    <2>2. \A i \in Job : i # web.job.key => jobs'[i].state = jobs[i].state
      BY <1>0, <2>1, FinishState
    <2>3. jobs'[web.job.key].state = "absent"
      BY <1>0, <2>1, FinishState
    <2>4. QED
      BY <2>2, <2>3
  <1>5. CASE RetryJob
    <2>1. jobs' = Release(jobs, web.job, FALSE, FALSE) /\ web.op = "retry"
      BY <1>5 DEF RetryJob
    <2>2. \A i \in Job : \/ jobs'[i].state = jobs[i].state
                         \/ jobs'[i].state = "queued"
      BY <1>0, <2>1, ReleaseState
    <2>3. QED
      BY <2>1, <2>2
  <1>6. ASSUME NEW j \in Job, TimePasses(j)
        PROVE  \A i \in Job : jobs'[i].state = jobs[i].state
    BY <1>0, <1>6, TimeState DEF TimePasses
  <1>7. CASE UNCHANGED jobs
    BY <1>7
  <1>8. CASE Start
    BY <1>1, <1>3, <1>7, <1>8 DEF Start, BootDone, table
  <1>9. CASE Web
    BY <1>3, <1>4, <1>5, <1>7, <1>9
    DEF Web, RequestRetry, RequestDelete, SendCall, CallTimesOut, table
  <1>10. CASE ShutDown \/ Stop
    <2>1. UNCHANGED jobs
      BY <1>10
      DEF ShutDown, InterruptWorker, AllInterrupted, JoinWorkers, StopApi,
          JoinApi, Exit, Stop, Sigterm, KeyboardInterrupt, Kill, ProcessEnds,
          table
    <2>2. QED
      BY <1>7, <2>1
  <1>11. CASE \/ TakeSnapshot \/ Reap \/ EndPass
              \/ \E h \in snapshot : SkipJob(h)
              \/ \E w \in Worker : StartWorker(w) \/ AppendWorker(w)
              \/ \E j \in Job : ApiCancels(j)
    <2>1. UNCHANGED jobs
      BY <1>11
      DEF TakeSnapshot, Reap, EndPass, SkipJob, StartWorker, AppendWorker,
          ApiCancels, table
    <2>2. QED
      BY <1>7, <2>1
  <1>12. QED
    BY <1>6, <1>8, <1>9, <1>10, <1>11 DEF Other

\* A job is claimed for a worker that was none.
LEMMA ClaimThread ==
    ASSUME TypeOK, NEW h \in snapshot, NEW w \in Worker, ClaimJob(h, w)
    PROVE  /\ h \in Handle
           /\ \A v \in Worker : v # w => thread'[v] = thread[v]
           /\ thread[w].state = "none"
           /\ thread'[w].state = "new" /\ thread'[w].job = h
           /\ main = "assign" /\ main' = "start"
           /\ \A j \in Job :
                 jobs'[j].state = IF j = h.key THEN "claimed" ELSE jobs[j].state
           /\ jobs[h.key].state = "queued"
  <1>1. thread \in [Worker -> Thread] /\ h \in Handle /\ jobs \in Table
    BY DEF TypeOK
  <1>2. [Idle EXCEPT !.state = "new", !.job = h].state = "new"
        /\ [Idle EXCEPT !.state = "new", !.job = h].job = h
    BY DEF Idle
  <1>3. \A j \in Job :
            jobs'[j].state = IF j = h.key THEN "claimed" ELSE jobs[j].state
    BY <1>1, ClaimState DEF ClaimJob
  <1>4. QED
    BY <1>1, <1>2, <1>3 DEF ClaimJob, CanClaim

LEMMA HoldNext ==
    ASSUME HoldInv, [Next]_vars
    PROVE  HoldInv'
  <1>0. SlotInv' /\ TypeOK /\ SlotInv
    BY SlotNext DEF HoldInv, SlotInv
  <1>1. CASE UNCHANGED vars
    BY <1>0, <1>1 DEF vars, HoldInv, Unfinished
  <1>2. ASSUME NEW w \in Worker, WorkerStep(w) PROVE HoldInv'
    <2>1. /\ \A v \in Worker : v # w => thread'[v] = thread[v]
          /\ thread'[w].state \in {"returned", "cleanup", "dead"}
          /\ UNCHANGED snapshot
      BY <1>0, <1>2, WorkerThread DEF manager
    <2>2. QED
      BY <1>0, <2>1 DEF HoldInv, Unfinished
  <1>3. ASSUME NEW h \in snapshot, NEW w \in Worker, ClaimJob(h, w)
        PROVE  HoldInv'
    <2>1. /\ \A v \in Worker : v # w => thread'[v] = thread[v]
          /\ thread'[w].job = h
      BY <1>0, <1>3, ClaimThread
    <2>2. snapshot' \subseteq snapshot
      BY <1>3 DEF ClaimJob
    <2>3. QED
      BY <1>0, <2>1, <2>2 DEF HoldInv, Unfinished
  <1>4. CASE Other
    <2>1. \A h \in snapshot' : ~h.finished
      <3>1. CASE TakeSnapshot
        BY <3>1 DEF TakeSnapshot, GetJob
      <3>2. CASE ~TakeSnapshot
        <4>1. snapshot' \subseteq snapshot
          BY <1>4, <3>2
          DEF Other, Start, Boot, BootEnsure, BootDone, Reap, EndPass, SkipJob,
              StartWorker, AppendWorker, ShutDown, InterruptWorker,
              AllInterrupted, JoinWorkers, StopApi, JoinApi, Exit, ProcessEnds,
              Stop, Sigterm, KeyboardInterrupt, Kill, Web, Submit,
              RequestRetry, RequestDelete, SendCall, CallTimesOut, DeleteJob,
              RetryJob, ApiCancels, TimePasses, manager
        <4>2. QED
          BY <4>1 DEF HoldInv, Unfinished
      <3>3. QED
        BY <3>1, <3>2
    <2>2. \A w \in Worker :
             thread'[w].state \in {"new", "run"} => ~thread'[w].job.finished
      <3> SUFFICES ASSUME NEW w \in Worker,
                          thread'[w].state \in {"new", "run"}
                   PROVE  ~thread'[w].job.finished
        OBVIOUS
      <3>1. Same(w) \/ Started(w)
        BY <1>0, <1>4, OtherThreads DEF Idle
      <3>2. QED
        BY <3>1 DEF Same, Started, HoldInv, Unfinished
    <2>3. QED
      BY <1>0, <2>1, <2>2 DEF HoldInv, Unfinished
  <1>5. QED
    BY <1>1, <1>2, <1>3, <1>4 DEF Next, Delegate, Other

LEMMA HoldInit == Init => HoldInv
  BY SlotInit DEF Init, HoldInv, Unfinished, Idle

-----------------------------------------------------------------------------
(* No claim is left behind                                                 *)

\* When ClaimHasWorker says something
Covered ==
    main = "boot" \/ main \in Delegating \/ (Daemon /\ main # "down")

\* It comes to by a start, and no longer does once the process ends, or once
\* Ctrl-C abandons a pass.
LEMMA OtherCovered ==
    ASSUME TypeOK, Other, Covered'
    PROVE  (Covered /\ ~KeyboardInterrupt /\ ~ProcessEnds) \/ Boot
  <1>1. ~KeyboardInterrupt /\ ~ProcessEnds
    BY DEF KeyboardInterrupt, ProcessEnds, Covered, Delegating
  <1>2. CASE main' = main
    BY <1>1, <1>2 DEF Covered
  <1>3. CASE Start
    BY <1>1, <1>3 DEF Start, BootEnsure, BootDone, Covered
  <1>4. CASE \/ TakeSnapshot \/ Reap \/ EndPass
             \/ \E h \in snapshot : SkipJob(h)
             \/ \E w \in Worker : StartWorker(w) \/ AppendWorker(w)
    BY <1>1, <1>4
    DEF TakeSnapshot, Reap, EndPass, SkipJob, StartWorker, AppendWorker,
        Covered, Delegating
  <1>5. CASE ShutDown
    BY <1>1, <1>5
    DEF ShutDown, InterruptWorker, AllInterrupted, JoinWorkers, StopApi,
        JoinApi, Exit, Covered, Delegating
  <1>6. CASE Stop
    BY <1>1, <1>6 DEF Stop, Sigterm, Kill, Covered
  <1>7. CASE Web \/ \E j \in Job : ApiCancels(j) \/ TimePasses(j)
    BY <1>2, <1>7
    DEF Web, Submit, RequestRetry, RequestDelete, SendCall, CallTimesOut,
        DeleteJob, RetryJob, ApiCancels, TimePasses, manager
  <1>8. QED
    BY <1>3, <1>4, <1>5, <1>6, <1>7 DEF Other

\* A job keeps its holder, unless it loses its claim.
LEMMA ClaimKept ==
    ASSUME HoldInv, ClaimHasWorker, [Next]_vars
    PROVE  ClaimHasWorker'
  <1> SUFFICES ASSUME Covered', NEW j \in Job, jobs'[j].state = "claimed"
               PROVE  \E w \in Worker : Holds(w, j)'
    BY DEF ClaimHasWorker, Covered
  <1>0. TypeOK /\ SlotInv /\ Unfinished
    BY DEF HoldInv, SlotInv
  <1>1. ASSUME Covered, jobs[j].state = "claimed"
        PROVE  \E w \in Worker : Holds(w, j)
    BY <1>1 DEF ClaimHasWorker, Covered
  <1>2. CASE UNCHANGED vars
    BY <1>1, <1>2 DEF vars, Covered, Holds, JobOf
  <1>3. ASSUME NEW v \in Worker, WorkerStep(v)
        PROVE  \E w \in Worker : Holds(w, j)'
    <2>1. Covered
      BY <1>0, <1>3, WorkerThread DEF Covered, manager
    <2>2. KeepsRow(v) \/ (LetsGo(v) /\ j # JobOf(v))
      BY <1>0, <1>3, WorkerRow DEF LetsGo
    <2>a. jobs[j].state = "claimed"
      BY <2>2 DEF KeepsRow, LetsGo
    <2>3. PICK w \in Worker : Holds(w, j)
      BY <1>1, <2>1, <2>a
    <2>4. CASE w = v
      <3>1. j = JobOf(v)
        BY <2>3, <2>4 DEF Holds
      <3>2. QED
        BY <2>2, <2>3, <2>4, <3>1 DEF KeepsRow
    <2>5. CASE w # v
      BY <1>0, <1>3, <2>3, <2>5, WorkerThread DEF Holds, JobOf
    <2>6. QED
      BY <2>4, <2>5
  <1>4. ASSUME NEW h \in snapshot, NEW v \in Worker, ClaimJob(h, v)
        PROVE  \E w \in Worker : Holds(w, j)'
    <2>1. /\ \A w \in Worker : w # v => thread'[w] = thread[w]
          /\ thread[v].state = "none"
          /\ thread'[v].state = "new" /\ thread'[v].job = h
          /\ main = "assign"
          /\ jobs'[j].state = IF j = h.key THEN "claimed" ELSE jobs[j].state
      BY <1>0, <1>4, ClaimThread
    <2>2. CASE j = h.key
      BY <1>0, <2>1, <2>2 DEF Holds, JobOf, Unfinished
    <2>3. CASE j # h.key
      <3>1. PICK w \in Worker : Holds(w, j)
        BY <1>1, <2>1, <2>3 DEF Covered, Delegating
      <3>2. QED
        BY <2>1, <3>1 DEF Holds, JobOf
    <2>4. QED
      BY <2>2, <2>3
  <1>5. CASE Other
    <2>1. ~Boot
      BY <1>0, BootRows
    <2>2. Covered /\ ~KeyboardInterrupt /\ ~ProcessEnds
      BY <1>0, <1>5, <2>1, OtherCovered
    <2>3. jobs[j].state = "claimed"
      BY <1>0, <1>5, OtherRows
    <2>4. PICK w \in Worker : Holds(w, j)
      BY <1>1, <2>2, <2>3
    <2>5. Same(w) \/ Started(w)
      BY <1>0, <1>5, <2>2, <2>4, OtherThreads DEF Holds
    <2>6. QED
      BY <2>4, <2>5 DEF Same, Started, Holds, JobOf
  <1>6. QED
    BY <1>2, <1>3, <1>4, <1>5 DEF Next, Delegate, Other

\* However workers end, and whatever users, signals and restarts do, a job that
\* is claimed is held by a thread that will still give it up.
THEOREM ClaimAlwaysHasWorker == Spec => []ClaimHasWorker
  <1>1. Init => HoldInv /\ ClaimHasWorker
    BY HoldInit DEF Init, ClaimHasWorker, NoRow
  <1>2. HoldInv /\ ClaimHasWorker /\ [Next]_vars => (HoldInv /\ ClaimHasWorker)'
    BY HoldNext, ClaimKept
  <1>3. QED
    BY <1>1, <1>2, PTL DEF Spec

-----------------------------------------------------------------------------
(* Crashed jobs rest                                                       *)

\* With one job per queue, a job has one live thread.
LEMMA OneThread ==
    ASSUME SlotInv, MaxJobsPerQueue = 1, NEW v \in Worker, NEW w \in Worker,
           Alive(v), Alive(w), JobOf(v) = JobOf(w)
    PROVE  v = w
  <1> DEFINE q == QueueOfWorker(v)
  <1>1. q \in QueueId
    BY ThreadType, JobQueueAssumption
    DEF SlotInv, QueueOfWorker, JobOf, Handle
  <1>2. v \in AliveIn(q) /\ w \in AliveIn(q)
    BY DEF AliveIn, QueueOfWorker
  <1> HIDE DEF q
  <1>3. /\ IsFiniteSet(AliveIn(q))
        /\ Cardinality(AliveIn(q)) \in Nat /\ Cardinality(AliveIn(q)) <= 1
    BY <1>1, FiniteThreads DEF SlotInv, OneWorkerPerQueue
  <1>4. ASSUME v # w PROVE FALSE
    <2>1. {v, w} \subseteq AliveIn(q)
      BY <1>2
    <2>2. Cardinality({v, w}) <= Cardinality(AliveIn(q))
      BY <1>3, <2>1, FS_Subset
    <2>3. Cardinality({v}) = 1 /\ IsFiniteSet({v})
      BY FS_Singleton
    <2>4. {v, w} = {v} \cup {w} /\ w \notin {v}
      BY <1>4
    <2>5. Cardinality({v, w}) = 2
      BY <2>3, <2>4, FS_AddElement
    <2>6. QED
      BY <1>3, <2>2, <2>5
  <1>5. QED
    BY <1>4

\* Nobody holds a parked job.
ParkedUnheld ==
    \A j \in Job :
        jobs[j].state = "parked" => \A w \in Worker : ~Holds(w, j)

LEMMA ParkedKept ==
    ASSUME HoldInv, MaxJobsPerQueue = 1, ParkedUnheld, [Next]_vars
    PROVE  ParkedUnheld'
  <1> SUFFICES ASSUME NEW j \in Job, jobs'[j].state = "parked",
                      NEW w \in Worker
               PROVE  ~Holds(w, j)'
    BY DEF ParkedUnheld
  <1>0. TypeOK /\ SlotInv /\ Unfinished
    BY DEF HoldInv, SlotInv
  <1>1. ASSUME jobs[j].state = "parked" PROVE ~Holds(w, j)
    BY <1>1 DEF ParkedUnheld
  <1>2. CASE UNCHANGED vars
    BY <1>1, <1>2 DEF vars, Holds, JobOf
  <1>3. ASSUME NEW v \in Worker, WorkerStep(v)
        PROVE  ~Holds(w, j)'
    <2>1. /\ w # v => thread'[w] = thread[w]
          /\ thread'[v].job.key = thread[v].job.key
          /\ thread[v].state \in {"run", "returned", "cleanup"}
          /\ thread'[v].state \in {"returned", "cleanup", "dead"}
          /\ thread'[v].state = "returned" => thread[v].state = "run"
      BY <1>0, <1>3, WorkerThread
    <2>2. CASE KeepsRow(v) \/ (LetsGo(v) /\ j # JobOf(v))
      <3>1. jobs[j].state = "parked"
        BY <2>2 DEF KeepsRow, LetsGo
      <3>2. ~Holds(w, j)
        BY <1>1, <3>1
      <3>3. QED
        BY <1>0, <2>1, <3>2 DEF Holds, JobOf, Unfinished
    <2>3. CASE LetsGo(v) /\ j = JobOf(v)
      <3>1. thread'[v].state = "cleanup" /\ Alive(v)
        BY <2>1, <2>3 DEF LetsGo, Alive
      <3>2. CASE w = v
        BY <3>1, <3>2 DEF Holds
      <3>3. CASE w # v
        <4>1. Holds(w, j)' => Alive(w) /\ JobOf(w) = j
          BY <2>1, <3>3 DEF Holds, Alive, JobOf
        <4>2. QED
          BY <1>0, <2>3, <3>1, <3>3, <4>1, OneThread
      <3>4. QED
        BY <3>2, <3>3
    <2>4. QED
      BY <1>0, <1>3, <2>2, <2>3, WorkerRow
  <1>4. ASSUME NEW h \in snapshot, NEW v \in Worker, ClaimJob(h, v)
        PROVE  ~Holds(w, j)'
    <2>1. /\ w # v => thread'[w] = thread[w]
          /\ thread'[v].job = h
          /\ jobs'[j].state = IF j = h.key THEN "claimed" ELSE jobs[j].state
      BY <1>0, <1>4, ClaimThread
    <2>2. jobs[j].state = "parked" /\ j # h.key
      BY <2>1
    <2>3. QED
      BY <1>1, <2>1, <2>2 DEF Holds, JobOf
  <1>5. CASE Other
    <2>1. jobs[j].state = "parked"
      BY <1>0, <1>5, OtherRows
    <2>2. ~Holds(w, j)
      BY <1>1, <2>1
    <2>3. CASE Same(w) \/ Started(w)
      BY <2>2, <2>3 DEF Same, Started, Holds, JobOf
    <2>4. CASE thread'[w] = Idle
      BY <2>4 DEF Idle, Holds
    <2>5. QED
      BY <1>0, <1>5, <2>3, <2>4, OtherThreads
  <1>6. QED
    BY <1>2, <1>3, <1>4, <1>5 DEF Next, Delegate, Other

\* A step that has a parked job run again is a start's, or asked for.
LEMMA ParkedStep ==
    ASSUME HoldInv, ParkedUnheld, [Next]_vars, NEW j \in Job,
           jobs[j].state = "parked", jobs'[j].state \in {"queued", "claimed"}
    PROVE  main = "down" \/ web.op = "retry"
  <1>0. TypeOK /\ SlotInv /\ Unfinished
    BY DEF HoldInv, SlotInv
  <1>1. ~UNCHANGED vars
    BY DEF vars
  <1>2. ASSUME NEW v \in Worker, WorkerStep(v) PROVE FALSE
    <2>1. CASE KeepsRow(v) \/ (LetsGo(v) /\ j # JobOf(v))
      BY <2>1 DEF KeepsRow, LetsGo
    <2>2. CASE LetsGo(v) /\ j = JobOf(v)
      BY <2>2 DEF LetsGo, ParkedUnheld
    <2>3. QED
      BY <1>0, <1>2, <2>1, <2>2, WorkerRow
  <1>3. ASSUME NEW h \in snapshot, NEW v \in Worker, ClaimJob(h, v)
        PROVE  FALSE
    BY <1>0, <1>3, ClaimThread
  <1>4. CASE Other
    BY <1>0, <1>4, OtherRows
  <1>5. QED
    BY <1>1, <1>2, <1>3, <1>4 DEF Next, Delegate, Other

\* A crashed job is only run again after a restart or when someone asks for it,
\* as MAX_JOBS_PER_QUEUE is 1: no thread outlives the claim of another.
THEOREM ParkedAlwaysUntilRetried ==
    ASSUME MaxJobsPerQueue = 1
    PROVE  Spec => ParkedUntilRetried
  <1> DEFINE Inv == HoldInv /\ ParkedUnheld
  <1>1. Init => Inv
    BY HoldInit DEF Init, ParkedUnheld, NoRow
  <1>2. Inv /\ [Next]_vars => Inv'
    BY HoldNext, ParkedKept
  <1>3. Inv /\ [Next]_vars =>
          [\A j \in Job :
              /\ jobs[j].state = "parked"
              /\ jobs'[j].state \in {"queued", "claimed"}
              => main = "down" \/ web.op = "retry"]_vars
    BY ParkedStep
  <1> HIDE DEF Inv
  <1>4. QED
    BY <1>1, <1>2, <1>3, PTL DEF Spec, ParkedUntilRetried

-----------------------------------------------------------------------------
(* The manager implements the lifecycle of jobs                            *)

Running == {JobOf(w) : w \in {v \in Worker : Alive(v)}}

\* The states of the rows, and what is running, may stay as they are.
LEMMA StatusSame ==
    ASSUME \A i \in Job : jobs'[i].state = jobs[i].state
    PROVE  [j \in Job |-> jobs'[j].state] = [j \in Job |-> jobs[j].state]
  OBVIOUS

LEMMA RunningSame ==
    ASSUME \A w \in Worker : /\ Alive(w)' <=> Alive(w)
                             /\ Alive(w) => JobOf(w)' = JobOf(w)
    PROVE  Running' = Running
  BY DEF Running

\* One row's state may change.
LEMMA StatusSet ==
    ASSUME NEW j \in Job, NEW s, jobs'[j].state = s,
           \A i \in Job : i # j => jobs'[i].state = jobs[i].state
    PROVE  Lifecycle!SetStatus(j, s)
  BY DEF Lifecycle!SetStatus

\* A row may be added, deleted or made claimable while no thread comes or goes.
LEMMA RowStep ==
    ASSUME Running' = Running, NEW j \in Job,
           \A i \in Job : i # j => jobs'[i].state = jobs[i].state,
           \/ jobs'[j].state = jobs[j].state
           \/ jobs[j].state = "absent" /\ jobs'[j].state = "queued"
           \/ /\ jobs[j].state # "absent"
              /\ jobs'[j].state \in {"absent", "queued"}
           \/ /\ jobs[j].state # "absent" /\ j \in Running
              /\ jobs'[j].state = "parked"
    PROVE  Lifecycle!Next \/ UNCHANGED Lifecycle!vars
  <1>1. CASE jobs'[j].state = jobs[j].state
    <2>1. \A i \in Job : jobs'[i].state = jobs[i].state
      BY <1>1
    <2>2. QED
      BY <2>1, StatusSame DEF Lifecycle!vars, Running
  <1>2. CASE jobs[j].state = "absent" /\ jobs'[j].state = "queued"
    <2>1. Lifecycle!SetStatus(j, "queued")
      BY <1>2, StatusSet
    <2>2. Lifecycle!Add(j)
      BY <1>2, <2>1 DEF Lifecycle!Add, Lifecycle!Exists, Running
    <2>3. QED
      BY <2>2 DEF Lifecycle!Next
  <1>3. CASE jobs[j].state # "absent" /\ jobs'[j].state = "absent"
    <2>1. Lifecycle!SetStatus(j, "absent")
      BY <1>3, StatusSet
    <2>2. Lifecycle!Remove(j)
      BY <1>3, <2>1 DEF Lifecycle!Remove, Lifecycle!Exists, Running
    <2>3. QED
      BY <2>2 DEF Lifecycle!Next
  <1>4. CASE jobs[j].state # "absent" /\ jobs'[j].state = "queued"
    <2>1. Lifecycle!SetStatus(j, "queued")
      BY <1>4, StatusSet
    <2>2. Lifecycle!Requeue(j)
      BY <1>4, <2>1 DEF Lifecycle!Requeue, Lifecycle!Exists, Running
    <2>3. QED
      BY <2>2 DEF Lifecycle!Next
  <1>5. CASE /\ jobs[j].state # "absent" /\ j \in Running
             /\ jobs'[j].state = "parked"
    <2>1. Lifecycle!SetStatus(j, "parked")
      BY <1>5, StatusSet
    <2>2. Lifecycle!Park(j)
      BY <1>5, <2>1 DEF Lifecycle!Park, Lifecycle!Exists, Running
    <2>3. QED
      BY <2>2 DEF Lifecycle!Next
  <1>6. QED
    BY <1>1, <1>2, <1>3, <1>4, <1>5

\* A thread ends having given up its claim.
LEMMA CleanUpStops ==
    ASSUME HoldInv, ClaimHasWorker, Daemon, MaxJobsPerQueue = 1,
           NEW w \in Worker, CleanUp(w)
    PROVE  Lifecycle!Next
  <1> DEFINE k == JobOf(w)
  <1>0. /\ TypeOK /\ SlotInv /\ thread \in [Worker -> Thread]
        /\ k \in Job /\ Alive(w) /\ thread[w].state = "cleanup"
        /\ UNCHANGED jobs
    BY ThreadType
    DEF HoldInv, SlotInv, TypeOK, CleanUp, JobOf, Handle, Alive, table
  <1>1. /\ thread'[w].state = "dead"
        /\ \A v \in Worker : v # w => thread'[v] = thread[v]
    BY <1>0 DEF CleanUp, SetThread, Thread
  <1>2. \A v \in Worker : Alive(v) /\ JobOf(v) = k => v = w
    BY <1>0, OneThread
  <1>3. jobs[k].state # "claimed"
    <2> SUFFICES ASSUME jobs[k].state = "claimed" PROVE FALSE
      OBVIOUS
    <2>1. main # "down"
      BY <1>0 DEF SlotInv, NoThreadBeforeLoop
    <2>2. PICK v \in Worker : Holds(v, k)
      BY <1>0, <2>1 DEF ClaimHasWorker
    <2>3. Alive(v) /\ JobOf(v) = k
      BY <2>2 DEF Holds, Alive
    <2>4. QED
      BY <1>0, <1>2, <2>2, <2>3 DEF Holds
  <1>4. Running' = Running \ {k} /\ k \in Running
    <2>1. \A v \in Worker : Alive(v)' <=> Alive(v) /\ v # w
      BY <1>1 DEF Alive
    <2>2. \A v \in Worker : v # w => JobOf(v)' = JobOf(v)
      BY <1>1 DEF JobOf
    <2> HIDE DEF k
    <2>3. \A v \in Worker : Alive(v)' => Alive(v) /\ JobOf(v)' = JobOf(v)
                                         /\ JobOf(v) # k
      BY <1>2, <2>1, <2>2
    <2>4. \A v \in Worker : Alive(v) /\ JobOf(v) # k => Alive(v)'
      BY <2>1 DEF k
    <2>5. Alive(w) /\ JobOf(w) = k
      BY <1>0 DEF k
    <2>6. QED
      BY <2>3, <2>4, <2>5 DEF Running
  <1>5. Lifecycle!Stop(k)
    BY <1>0, <1>3, <1>4 DEF Lifecycle!Stop, Running
  <1>6. QED
    BY <1>0, <1>5 DEF Lifecycle!Next

\* A job is claimed when no other of its queue is running.
LEMMA ClaimStarts ==
    ASSUME HoldInv, MaxJobsPerQueue = 1,
           NEW h \in snapshot, NEW w \in Worker, ClaimJob(h, w)
    PROVE  Lifecycle!Next
  <1> DEFINE j == h.key
  <1>0. /\ TypeOK /\ SlotInv /\ h \in Handle /\ j \in Job
        /\ QueueOf[j] \in QueueId
        /\ main = "assign" /\ starting = {}
    BY JobQueueAssumption
    DEF HoldInv, SlotInv, TypeOK, Handle, ClaimJob, SlotIsFree
  <1>1. /\ \A v \in Worker : v # w => thread'[v] = thread[v]
        /\ thread[w].state = "none"
        /\ thread'[w].state = "new" /\ thread'[w].job = h
        /\ jobs[j].state = "queued"
        /\ \A i \in Job :
              jobs'[i].state = IF i = j THEN "claimed" ELSE jobs[i].state
    BY <1>0, ClaimThread
  <1>2. pool[QueueOf[j]] = {}
    <2>1. Cardinality(pool[QueueOf[j]]) < 1
      BY DEF ClaimJob, HasSlot
    <2>2. /\ IsFiniteSet(pool[QueueOf[j]])
          /\ Cardinality(pool[QueueOf[j]]) \in Nat
      BY <1>0, FiniteThreads
    <2>3. Cardinality(pool[QueueOf[j]]) = 0
      BY <2>1, <2>2
    <2>4. QED
      BY <2>2, <2>3, FS_EmptySet
  <1> HIDE DEF j
  <1>3. \A v \in Worker : Alive(v) => QueueOf[JobOf(v)] # QueueOf[j]
    BY <1>0, <1>2 DEF SlotInv, LiveThreadsKnown, Delegating, QueueOfWorker
  <1>4. \A k \in Running : QueueOf[k] # QueueOf[j]
    BY <1>3 DEF Running
  <1>5. Running' = Running \cup {j}
    <2>1. \A v \in Worker : Alive(v)' <=> Alive(v) \/ v = w
      BY <1>1 DEF Alive
    <2>2. \A v \in Worker : v # w => JobOf(v)' = JobOf(v)
      BY <1>1 DEF JobOf
    <2>3. ~Alive(w) /\ JobOf(w)' = j
      BY <1>1 DEF Alive, JobOf, j
    <2>4. QED
      BY <2>1, <2>2, <2>3 DEF Running
  <1>6. Lifecycle!SetStatus(j, "claimed")
    BY <1>0, <1>1, StatusSet
  <1>7. Lifecycle!Start(j)
    BY <1>1, <1>0, <1>4, <1>5, <1>6 DEF Lifecycle!Start, Running
  <1>8. QED
    BY <1>0, <1>7 DEF Lifecycle!Next

\* The end of the process ends everything.
LEMMA EndGoesDown ==
    ASSUME ProcessEnds
    PROVE  Lifecycle!Next
  <1>1. \A w \in Worker : ~Alive(w)'
    BY DEF ProcessEnds, Alive, Idle
  <1>2. Running' = {} /\ UNCHANGED jobs
    BY <1>1 DEF Running, ProcessEnds, table
  <1>3. Lifecycle!GoDown
    BY <1>2 DEF Lifecycle!GoDown, Running
  <1>4. QED
    BY <1>3 DEF Lifecycle!Next

\* The other steps change one row at most.
LEMMA OtherImplements ==
    ASSUME HoldInv, Daemon, Other
    PROVE  Lifecycle!Next \/ UNCHANGED Lifecycle!vars
  <1>0. /\ TypeOK /\ SlotInv
        /\ jobs \in Table /\ nextId \in Nat /\ web.job \in Handle
        /\ web.job.key \in Job
    BY DEF HoldInv, SlotInv, TypeOK, Request, Handle
  <1>1. CASE ProcessEnds
    BY <1>1, EndGoesDown
  <1>2. ASSUME ~ProcessEnds
        PROVE  Running' = Running
    <2>1. ~KeyboardInterrupt
      BY DEF KeyboardInterrupt
    <2>2. \A w \in Worker : \/ Same(w) \/ Started(w)
                            \/ thread[w].state = "dead" /\ thread'[w] = Idle
      BY <1>0, <1>2, <2>1, OtherThreads
    <2>3. \A w \in Worker : /\ Alive(w)' <=> Alive(w)
                            /\ Alive(w) => JobOf(w)' = JobOf(w)
      BY <2>2 DEF Same, Started, Idle, Alive, JobOf
    <2>4. QED
      BY <2>3, RunningSame
  <1>3. CASE Boot
    <2>1. Running = {} /\ Running' = {}
      BY <1>0, <1>3
      DEF Boot, SlotInv, NoThreadBeforeLoop, Running, Alive
    <2>2. Lifecycle!Boot
      BY <1>0, <1>3, <2>1, BootRows
      DEF Lifecycle!Boot, Lifecycle!Exists, Running
    <2>3. QED
      BY <2>2 DEF Lifecycle!Next
  <1>4. ASSUME ~ProcessEnds, NEW j \in Job, BootEnsure(j) \/ Submit(j)
        PROVE  Lifecycle!Next \/ UNCHANGED Lifecycle!vars
    <2>1. PICK d \in BOOLEAN : jobs' = AddJob(jobs, j, nextId, d)
      BY <1>4 DEF BootEnsure, Submit
    <2>2. \A i \in Job : jobs'[i].state =
             IF i = j /\ jobs[j].state = "absent" THEN "queued"
                                                  ELSE jobs[i].state
      BY <1>0, <2>1, AddJobState
    <2>3. QED
      BY <1>2, <1>4, <2>2, RowStep
  <1>5. CASE DeleteJob /\ ~ProcessEnds
    <2>1. jobs' = Finish(jobs, web.job, TRUE)
      BY <1>5 DEF DeleteJob
    <2>2. \A i \in Job : i # web.job.key => jobs'[i].state = jobs[i].state
      BY <1>0, <2>1, FinishState
    <2>3. jobs'[web.job.key].state = "absent"
      BY <1>0, <2>1, FinishState
    <2>4. QED
      BY <1>0, <1>2, <1>5, <2>2, <2>3, RowStep
  <1>6. CASE RetryJob /\ ~ProcessEnds
    <2>1. jobs' = Release(jobs, web.job, FALSE, FALSE)
      BY <1>6 DEF RetryJob
    <2>2. \A i \in Job :
             jobs'[i].state = IF i = web.job.key /\ jobs[i].state # "absent"
                              THEN "queued" ELSE jobs[i].state
      BY <1>0, <2>1, ReleaseState
    <2>3. QED
      BY <1>0, <1>2, <1>6, <2>2, RowStep
  <1>7. ASSUME ~ProcessEnds, \A i \in Job : jobs'[i].state = jobs[i].state
        PROVE  UNCHANGED Lifecycle!vars
    BY <1>2, <1>7, StatusSame DEF Lifecycle!vars, Running
  <1>8. ASSUME NEW j \in Job, TimePasses(j), ~ProcessEnds
        PROVE  UNCHANGED Lifecycle!vars
    <2>1. \A i \in Job : jobs'[i].state = jobs[i].state
      BY <1>0, <1>8, TimeState DEF TimePasses
    <2>2. QED
      BY <1>7, <1>8, <2>1
  <1>9. CASE Start /\ ~ProcessEnds
    BY <1>3, <1>4, <1>7, <1>9 DEF Start, BootDone, table
  <1>10. CASE Web /\ ~ProcessEnds
    BY <1>4, <1>5, <1>6, <1>7, <1>10
    DEF Web, RequestRetry, RequestDelete, SendCall, CallTimesOut, table
  <1>11. CASE (ShutDown \/ Stop) /\ ~ProcessEnds
    BY <1>7, <1>11
    DEF ShutDown, InterruptWorker, AllInterrupted, JoinWorkers, StopApi,
        JoinApi, Exit, Stop, Sigterm, KeyboardInterrupt, Kill, table
  <1>12. CASE /\ \/ TakeSnapshot \/ Reap \/ EndPass
                 \/ \E h \in snapshot : SkipJob(h)
                 \/ \E w \in Worker : StartWorker(w) \/ AppendWorker(w)
                 \/ \E j \in Job : ApiCancels(j)
              /\ ~ProcessEnds
    BY <1>7, <1>12
    DEF TakeSnapshot, Reap, EndPass, SkipJob, StartWorker, AppendWorker,
        ApiCancels, table
  <1>13. QED
    BY <1>1, <1>8, <1>9, <1>10, <1>11, <1>12 DEF Other

\* Every step of the manager is one of the lifecycle, or none.
LEMMA StepImplements ==
    ASSUME HoldInv, ClaimHasWorker, Daemon, MaxJobsPerQueue = 1, [Next]_vars
    PROVE  [Lifecycle!Next]_(Lifecycle!vars)
  <1>0. TypeOK /\ SlotInv /\ Unfinished
    BY DEF HoldInv, SlotInv
  <1>1. CASE UNCHANGED vars
    BY <1>1 DEF vars, Lifecycle!vars, Alive, JobOf
  <1>2. ASSUME NEW w \in Worker, WorkerStep(w)
        PROVE  Lifecycle!Next \/ UNCHANGED Lifecycle!vars
    <2>1. CASE CleanUp(w)
      BY <2>1, CleanUpStops
    <2>2. CASE ~CleanUp(w)
      <3>1. /\ \A v \in Worker : v # w => thread'[v] = thread[v]
            /\ thread'[w].job.key = thread[w].job.key
            /\ thread[w].state \in {"run", "returned", "cleanup"}
            /\ thread'[w].state \in {"returned", "cleanup"}
        BY <1>0, <1>2, <2>2, WorkerThread
      <3>2. \A v \in Worker : /\ Alive(v)' <=> Alive(v)
                              /\ Alive(v) => JobOf(v)' = JobOf(v)
        BY <3>1 DEF Alive, JobOf
      <3>3. Running' = Running
        BY <3>2, RunningSame
      <3>4. CASE KeepsRow(w)
        BY <3>3, <3>4, StatusSame DEF KeepsRow, Lifecycle!vars, Running
      <3>5. CASE LetsGo(w)
        <4>1. JobOf(w) \in Job /\ JobOf(w) \in Running
          BY <1>0, <3>1, ThreadType DEF JobOf, Handle, Alive, Running
        <4>2. /\ \A i \in Job : i # JobOf(w) => jobs'[i].state = jobs[i].state
              /\ jobs[JobOf(w)].state = "absent" =>
                     jobs'[JobOf(w)].state = "absent"
              /\ jobs'[JobOf(w)].state \in {"absent", "queued", "parked"}
          BY <3>5 DEF LetsGo
        <4>3. QED
          BY <3>3, <4>1, <4>2, RowStep
      <3>6. QED
        BY <1>0, <1>2, <3>4, <3>5, WorkerRow
    <2>3. QED
      BY <2>1, <2>2
  <1>3. ASSUME NEW h \in snapshot, NEW w \in Worker, ClaimJob(h, w)
        PROVE  Lifecycle!Next
    BY <1>3, ClaimStarts
  <1>4. CASE Other
    BY <1>4, OtherImplements
  <1>5. QED
    BY <1>1, <1>2, <1>3, <1>4 DEF Next, Delegate, Other

\* The back-end, run as a daemon, keeps the promise that JobLifecycle states:
\* jobs of a queue run one at a time, and nobody stops working on a job that
\* still bears their claim, unless the whole back-end goes down.
THEOREM ImplementsLifecycleAlways ==
    ASSUME Daemon, MaxJobsPerQueue = 1
    PROVE  Spec => ImplementsLifecycle
  <1> DEFINE Inv == HoldInv /\ ClaimHasWorker
  <1>1. Init => Inv
    BY HoldInit DEF Init, ClaimHasWorker, NoRow
  <1>2. Inv /\ [Next]_vars => Inv'
    BY HoldNext, ClaimKept
  <1>3. Inv /\ [Next]_vars => [Lifecycle!Next]_(Lifecycle!vars)
    BY StepImplements
  <1>4. Init => Lifecycle!Init
    BY DEF Init, Lifecycle!Init, Alive, Idle, NoRow
  <1> HIDE DEF Inv
  <1>5. QED
    BY <1>1, <1>2, <1>3, <1>4, PTL DEF Spec, ImplementsLifecycle, Lifecycle!Spec
-----------------------------------------------------------------------------
(* The API stops last                                                      *)

\* Workers in the pool were started; while workers are interrupted the API is
\* not among them, and when its turn comes it is the only one left.
Begun(w) == thread[w].state \notin {"none", "new"}

PooledBegun ==
    /\ \A w \in Pooled : Begun(w)
    /\ main = "append" => \A w \in starting : Begun(w)

ToStopOthers ==
    /\ main # "interrupt" => toStop = {}
    /\ \A w \in toStop : JobOf(w) # Api

OthersEnded == main = "stopapi" => \A w \in Pooled : Alive(w) => JobOf(w) = Api

StopInv == SlotInv /\ PooledBegun /\ ToStopOthers /\ OthersEnded

LEMMA StopInit == Init => StopInv
  <1> SUFFICES ASSUME Init PROVE StopInv
    OBVIOUS
  <1>1. SlotInv
    BY SlotInit
  <1>2. Pooled = {} /\ starting = {} /\ toStop = {} /\ main = "down"
    BY DEF Init, Pooled
  <1>3. QED
    BY <1>1, <1>2 DEF StopInv, PooledBegun, ToStopOthers, OthersEnded

\* Where the pool and the states of its threads stay, what is in it was begun.
LEMMA SamePool ==
    ASSUME PooledBegun, UNCHANGED pool,
           main' = "append" => UNCHANGED <<main, starting>>,
           \A w \in Pooled \cup starting : Begun(w) => Begun(w)'
    PROVE  PooledBegun'
  <1>1. Pooled' = Pooled
    BY DEF Pooled
  <1>2. QED
    BY <1>1 DEF PooledBegun

\* Which a worker's own steps do, and those of the others.
LEMMA WorkerBegun ==
    ASSUME SlotInv, PooledBegun, NEW v \in Worker, WorkerStep(v)
    PROVE  PooledBegun'
  <1>1. TypeOK
    BY DEF SlotInv
  <1>2. /\ \A w \in Worker : w # v => thread'[w] = thread[w]
        /\ thread'[v].state \in {"returned", "cleanup", "dead"}
        /\ UNCHANGED <<main, pool, starting>>
    BY <1>1, WorkerThread DEF manager
  <1>3. Pooled \cup starting \subseteq Worker
    BY <1>1 DEF TypeOK, Pooled
  <1>4. \A w \in Pooled \cup starting : Begun(w) => Begun(w)'
    BY <1>2, <1>3 DEF Begun
  <1>5. QED
    BY <1>2, <1>4, SamePool

\* What comes to the pool was started before.
LEMMA AppendBegun ==
    ASSUME SlotInv, PooledBegun, NEW v \in Worker,
           AppendWorker(v) \/ StartWorker(v)
    PROVE  PooledBegun'
  <1>0. starting = {v} /\ TypeOK
    BY DEF AppendWorker, StartWorker, SlotInv, SlotIsFree
  <1>1. CASE AppendWorker(v)
    <2>1. /\ starting' = {} /\ UNCHANGED thread /\ main = "append"
          /\ \A q \in QueueId : pool'[q] \subseteq pool[q] \cup {v}
      BY <1>0, <1>1 DEF AppendWorker, TypeOK
    <2>2. Pooled' \subseteq Pooled \cup {v}
      BY <2>1 DEF Pooled
    <2>3. \A w \in Pooled \cup {v} : Begun(w)'
      BY <1>0, <2>1 DEF PooledBegun, Begun
    <2>4. QED
      BY <2>1, <2>2, <2>3 DEF PooledBegun
  <1>2. CASE StartWorker(v)
    <2>1. /\ thread' = [thread EXCEPT ![v].state = "run"]
          /\ UNCHANGED <<pool, starting>>
      BY <1>2 DEF StartWorker
    <2>2. \A w \in Worker : Begun(w) \/ w = v => Begun(w)'
      BY <1>0, <2>1 DEF Begun, TypeOK, Thread
    <2>3. Pooled' = Pooled /\ Pooled \subseteq Worker
      BY <1>0, <2>1 DEF Pooled, TypeOK
    <2>4. QED
      BY <1>0, <2>1, <2>2, <2>3 DEF PooledBegun
  <1>3. QED
    BY <1>1, <1>2

\* Of the main thread's other steps, one takes the dead out of the pool, and
\* one claims a job for a worker that was none.
LEMMA PoolBegun ==
    ASSUME SlotInv, PooledBegun, [Next]_vars
    PROVE  PooledBegun'
  <1>0. TypeOK /\ Pooled \cup starting \subseteq Worker
    BY DEF SlotInv, TypeOK, Pooled
  <1>1. CASE UNCHANGED vars
    BY <1>1, SamePool DEF vars, Begun
  <1>2. CASE Reap
    <2>1. \A w \in Worker : thread'[w] = thread[w] \/ thread[w].state = "dead"
      BY <1>2 DEF Reap
    <2>2. \A w \in Pooled' : w \in Pooled /\ thread[w].state # "dead"
      BY <1>2 DEF Reap, Pooled
    <2>3. starting' = {}
      BY <1>2 DEF Reap, SlotInv, SlotIsFree
    <2>4. QED
      BY <1>0, <2>1, <2>2, <2>3 DEF PooledBegun, Begun
  <1>3. CASE ProcessEnds
    BY <1>3 DEF ProcessEnds, PooledBegun, Pooled
  <1>4. ASSUME NEW h \in snapshot, NEW v \in Worker, ClaimJob(h, v)
        PROVE  PooledBegun'
    <2>1. /\ \A w \in Worker : w # v => thread'[w] = thread[w]
          /\ thread[v].state = "none" /\ main' = "start"
      BY <1>0, <1>4, ClaimThread
    <2>2. Pooled' = Pooled
      BY <1>4 DEF ClaimJob, Pooled
    <2>3. QED
      BY <1>0, <2>1, <2>2 DEF PooledBegun, Begun
  <1>5. CASE KeyboardInterrupt
    <2>1. /\ starting' = {} /\ UNCHANGED pool
          /\ \A w \in Worker :
                thread[w].state # "new" => thread'[w] = thread[w]
      BY <1>5 DEF KeyboardInterrupt
    <2>2. Pooled' = Pooled
      BY <2>1 DEF Pooled
    <2>3. QED
      BY <1>0, <2>1, <2>2 DEF PooledBegun, Begun
  <1>6. ASSUME Other, ~Reap, ~ProcessEnds, ~KeyboardInterrupt,
               \A v \in Worker : ~AppendWorker(v) /\ ~StartWorker(v)
        PROVE  PooledBegun'
    <2>1. \A w \in Worker : thread'[w].state = thread[w].state
      BY <1>6, OtherThreads DEF Same, Started
    <2>2. UNCHANGED pool
      BY <1>6 DEF Other, Start, Boot, BootEnsure, BootDone, TakeSnapshot,
                  EndPass, SkipJob, ShutDown, InterruptWorker, AllInterrupted,
                  JoinWorkers, StopApi, JoinApi, Exit, Stop, Sigterm, Kill,
                  Web, Submit, RequestRetry, RequestDelete, SendCall,
                  CallTimesOut, DeleteJob, RetryJob, ApiCancels, TimePasses,
                  manager
    <2>3. main' = "append" => UNCHANGED <<main, starting>>
      BY <1>6 DEF Other, Start, Boot, BootEnsure, BootDone, NextPass,
                  TakeSnapshot, EndPass, SkipJob, ShutDown, InterruptWorker,
                  AllInterrupted, JoinWorkers, StopApi, JoinApi, Exit, Stop,
                  Sigterm, Kill, Web, Submit, RequestRetry, RequestDelete,
                  SendCall, CallTimesOut, DeleteJob, RetryJob, ApiCancels,
                  TimePasses, manager
    <2>4. QED
      BY <1>0, <2>1, <2>2, <2>3, SamePool DEF Begun
  <1>7. QED
    BY <1>1, <1>2, <1>3, <1>4, <1>5, <1>6, AppendBegun, WorkerBegun
    DEF Next, Delegate, Other

\* While it shuts down, until the process ends, the manager changes no pool and
\* starts no thread.
LEMMA StoppingStep ==
    ASSUME SlotInv, main \in Stopping, [Next]_vars, ~ProcessEnds
    PROVE  /\ UNCHANGED pool
           /\ \A w \in Worker : JobOf(w)' = JobOf(w)
           /\ \A w \in Worker : Alive(w)' => Alive(w)
  <1>0. TypeOK
    BY DEF SlotInv
  <1>1. CASE UNCHANGED vars
    BY <1>1 DEF vars, JobOf, Alive
  <1>2. ASSUME NEW v \in Worker, WorkerStep(v)
        PROVE  /\ UNCHANGED pool
               /\ \A w \in Worker : JobOf(w)' = JobOf(w)
               /\ \A w \in Worker : Alive(w)' => Alive(w)
    BY <1>0, <1>2, WorkerThread DEF manager, JobOf, Alive
  <1>3. ASSUME ShutDown \/ Web \/ \E j \in Job : ApiCancels(j) \/ TimePasses(j)
        PROVE  /\ UNCHANGED pool
               /\ \A w \in Worker : JobOf(w)' = JobOf(w)
               /\ \A w \in Worker : Alive(w)' => Alive(w)
    <2>1. Other /\ ~Reap /\ ~KeyboardInterrupt
          /\ \A w \in Worker : ~StartWorker(w)
      BY <1>3 DEF Other, Reap, KeyboardInterrupt, StartWorker, Stopping,
                  Delegating
    <2>2. \A w \in Worker : Same(w)
      BY <2>1, OtherThreads DEF Started
    <2>3. UNCHANGED pool
      BY <1>3 DEF ShutDown, InterruptWorker, AllInterrupted, JoinWorkers,
                  StopApi, JoinApi, Exit, Web, Submit, RequestRetry,
                  RequestDelete, SendCall, CallTimesOut, DeleteJob, RetryJob,
                  ApiCancels, TimePasses, manager
    <2>4. QED
      BY <2>2, <2>3 DEF Same, JobOf, Alive
  <1>4. ~Start /\ ~Delegate /\ ~Sigterm /\ ~KeyboardInterrupt
    BY DEF Start, Boot, BootEnsure, BootDone, Delegate, TakeSnapshot, Reap,
           EndPass, SkipJob, ClaimJob, StartWorker, AppendWorker, Sigterm,
           KeyboardInterrupt, Stopping, Delegating
  <1>5. QED
    BY <1>1, <1>2, <1>3, <1>4 DEF Next, Stop, Kill

\* What the steps that lead to shutting down, and those of a shutdown, do to
\* the workers still to be interrupted and to the place of the main thread.
LEMMA ToStopStep ==
    ASSUME SlotInv, PooledBegun, ToStopOthers, [Next]_vars
    PROVE  ToStopOthers'
  <1>0. TypeOK
    BY DEF SlotInv
  <1>1. CASE ProcessEnds
    BY <1>1 DEF ProcessEnds, ToStopOthers
  <1>2. CASE main \in Stopping /\ ~ProcessEnds
    <2>1. \A w \in Worker : JobOf(w)' = JobOf(w)
      BY <1>2, StoppingStep
    <2>2. toStop' \subseteq toStop /\ toStop \subseteq Worker
      BY <1>0, <1>2 DEF TypeOK, Next, vars, Start, Boot, BootEnsure, BootDone,
      Delegate, TakeSnapshot, Reap, EndPass, SkipJob, ClaimJob, StartWorker,
      AppendWorker, ShutDown, InterruptWorker, AllInterrupted, JoinWorkers,
      StopApi, JoinApi, Exit, Stop, Sigterm, KeyboardInterrupt, Kill, Web,
      Submit, RequestRetry, RequestDelete, SendCall, CallTimesOut, DeleteJob,
      RetryJob, ApiCancels, TimePasses, WorkerStep, WorkFinishes, WorkReturns,
      WorkReleases, WorkInterrupted, WorkCrashes, RunFinishes, CleanUp,
      manager, Stopping, Delegating
    <2>3. main' # "interrupt" => main # "interrupt" \/ toStop' = {}
      BY <1>2 DEF Next, vars, Start, Boot, BootEnsure, BootDone,
      Delegate, TakeSnapshot, Reap, EndPass, SkipJob, ClaimJob, StartWorker,
      AppendWorker, ShutDown, InterruptWorker, AllInterrupted, JoinWorkers,
      StopApi, JoinApi, Exit, Stop, Sigterm, KeyboardInterrupt, Kill, Web,
      Submit, RequestRetry, RequestDelete, SendCall, CallTimesOut, DeleteJob,
      RetryJob, ApiCancels, TimePasses, WorkerStep, WorkFinishes, WorkReturns,
      WorkReleases, WorkInterrupted, WorkCrashes, RunFinishes, CleanUp,
      manager, Stopping, Delegating
    <2>4. QED
      BY <2>1, <2>2, <2>3 DEF ToStopOthers
  <1>3. CASE main \notin Stopping /\ ~ProcessEnds
    <2>0. toStop = {}
      BY <1>3 DEF ToStopOthers, Stopping
    <2>1. CASE EndPass
      BY <1>0, <2>1 DEF EndPass, NextPass, ToStopOthers, JobOf
    <2>2. CASE KeyboardInterrupt
      <3>1. /\ toStop' = {w \in Pooled : JobOf(w) # Api}
            /\ main' = "interrupt"
            /\ \A w \in Worker :
                  thread[w].state # "new" => thread'[w] = thread[w]
        BY <2>2 DEF KeyboardInterrupt
      <3>2. \A w \in Pooled : w \in Worker /\ thread[w].state # "new"
        BY <1>0 DEF PooledBegun, Begun, Pooled, TypeOK
      <3>3. QED
        BY <3>1, <3>2 DEF ToStopOthers, JobOf
    <2>3. CASE ~EndPass /\ ~KeyboardInterrupt
      <3>1. toStop' = {}
        BY <1>3, <2>0, <2>3 DEF Next, vars, Start, Boot, BootEnsure, BootDone,
        Delegate, TakeSnapshot, Reap, SkipJob, ClaimJob, StartWorker,
        AppendWorker, ShutDown, InterruptWorker, AllInterrupted, JoinWorkers,
        StopApi, JoinApi, Exit, Stop, Sigterm, Kill, Web,
        Submit, RequestRetry, RequestDelete, SendCall, CallTimesOut, DeleteJob,
        RetryJob, ApiCancels, TimePasses, WorkerStep, WorkFinishes, WorkReturns,
        WorkReleases, WorkInterrupted, WorkCrashes, RunFinishes, CleanUp,
        manager
      <3>2. QED
        BY <3>1 DEF ToStopOthers
    <2>4. QED
      BY <2>1, <2>2, <2>3
  <1>4. QED
    BY <1>1, <1>2, <1>3

\* The API alone is left when its turn comes.
LEMMA OthersStep ==
    ASSUME SlotInv, OthersEnded, [Next]_vars
    PROVE  OthersEnded'
  <1>0. TypeOK
    BY DEF SlotInv
  <1>1. CASE ProcessEnds
    BY <1>1 DEF ProcessEnds, OthersEnded
  <1>2. CASE main = "stopapi" /\ ~ProcessEnds
    <2>1. /\ UNCHANGED pool
          /\ \A w \in Worker : JobOf(w)' = JobOf(w)
          /\ \A w \in Worker : Alive(w)' => Alive(w)
      BY <1>2, StoppingStep DEF Stopping
    <2>2. Pooled' = Pooled /\ Pooled \subseteq Worker
      BY <1>0, <2>1 DEF Pooled, TypeOK
    <2>3. QED
      BY <1>2, <2>1, <2>2 DEF OthersEnded
  <1>3. CASE JoinWorkers
    <2>1. Pooled' = Pooled /\ UNCHANGED thread
      BY <1>3 DEF JoinWorkers, Pooled
    <2>2. \A w \in Pooled : Alive(w) => JobOf(w) = Api
      BY <1>3 DEF JoinWorkers, IsOver, Alive
    <2>3. QED
      BY <2>1, <2>2 DEF OthersEnded, Alive, JobOf
  <1>4. CASE main # "stopapi" /\ ~JoinWorkers
    <2>1. main' # "stopapi"
      BY <1>4 DEF Next, vars, Start, Boot, BootEnsure, BootDone, NextPass,
      Delegate, TakeSnapshot, Reap, EndPass, SkipJob, ClaimJob, StartWorker,
      AppendWorker, ShutDown, InterruptWorker, AllInterrupted, StopApi, JoinApi,
      Exit, ProcessEnds, Stop, Sigterm, KeyboardInterrupt, Kill, Web, Submit,
      RequestRetry, RequestDelete, SendCall, CallTimesOut, DeleteJob, RetryJob,
      ApiCancels, TimePasses, WorkerStep, WorkFinishes, WorkReturns,
      WorkReleases, WorkInterrupted, WorkCrashes, RunFinishes, CleanUp, manager
    <2>2. QED
      BY <2>1 DEF OthersEnded
  <1>5. QED
    BY <1>1, <1>2, <1>3, <1>4

\* Only the manager, when it shuts down, has a worker put its job back.
LEMMA WhoInterrupts ==
    ASSUME SlotInv, ToStopOthers, [Next]_vars, NEW w \in Worker,
           JobOf(w) = Api,
           thread[w].interrupted # Retry, thread'[w].interrupted = Retry
    PROVE  StopApi
  <1>0. /\ TypeOK /\ thread \in [Worker -> Thread]
        /\ Pooled \subseteq Worker
        /\ Idle.interrupted = None /\ None # Retry /\ Cancel # Retry
    BY DEF SlotInv, TypeOK, Pooled, Idle, None, Retry, Cancel
  <1>1. CASE UNCHANGED thread
    BY <1>1
  <1>2. ASSUME NEW v \in Worker, WorkerStep(v) PROVE FALSE
    <2>1. ASSUME NEW s, SetThread(v, s) PROVE FALSE
      BY <1>0, <2>1 DEF SetThread, Thread
    <2>2. ASSUME NEW s, FinishJob(v, s) PROVE FALSE
      BY <1>0, <2>2 DEF FinishJob, Thread, Handle
    <2>3. ASSUME NEW s, ReleaseJob(v, s) PROVE FALSE
      BY <2>1, <2>3 DEF ReleaseJob
    <2>4. QED
      BY <1>2, <2>1, <2>2, <2>3
      DEF WorkerStep, WorkFinishes, WorkReturns, WorkReleases, WorkInterrupted,
          WorkCrashes, RunFinishes, CleanUp
  <1>3. ASSUME NEW v \in Worker, InterruptWorker(v) PROVE FALSE
    <2>1. v # w /\ thread' = [thread EXCEPT ![v].interrupted = Retry]
      BY <1>3 DEF InterruptWorker, Interrupt, ToStopOthers
    <2>2. QED
      BY <1>0, <2>1
  <1>4. ASSUME NEW j \in Job, ApiCancels(j) PROVE FALSE
    <2>1. ASSUME NEW v \in Worker, Interrupt(v, Cancel) PROVE FALSE
      BY <1>0, <2>1 DEF Interrupt, Thread
    <2>2. QED
      BY <1>0, <1>1, <1>4, <2>1 DEF ApiCancels
  <1>5. ASSUME NEW h \in snapshot, NEW v \in Worker, ClaimJob(h, v)
        PROVE  FALSE
    <2>1. [Idle EXCEPT !.state = "new", !.job = h].interrupted = None
      BY DEF Idle
    <2>2. QED
      BY <1>0, <1>5, <2>1 DEF ClaimJob
  <1>6. ASSUME NEW v \in Worker, StartWorker(v) PROVE FALSE
    BY <1>0, <1>6 DEF StartWorker, Thread
  <1>7. CASE Reap \/ KeyboardInterrupt \/ ProcessEnds
    BY <1>0, <1>7 DEF Reap, KeyboardInterrupt, ProcessEnds
  <1>8. CASE \/ Start \/ TakeSnapshot \/ EndPass
             \/ (\E h \in snapshot : SkipJob(h))
             \/ (\E v \in Worker : AppendWorker(v)) \/ Web
             \/ (\E j \in Job : TimePasses(j)) \/ UNCHANGED vars
    BY <1>1, <1>8
    DEF Start, Boot, BootEnsure, BootDone, TakeSnapshot, EndPass, SkipJob,
        AppendWorker, Web, Submit, RequestRetry, RequestDelete, SendCall,
        CallTimesOut, DeleteJob, RetryJob, TimePasses, outside, vars
  <1>9. CASE ShutDown \/ Stop
    BY <1>1, <1>3, <1>7, <1>9
    DEF ShutDown, AllInterrupted, JoinWorkers, JoinApi, Exit, Stop, Sigterm,
        Kill, TypeOK
  <1>10. QED
    BY <1>2, <1>4, <1>5, <1>6, <1>7, <1>8, <1>9 DEF Next, Delegate

\* However a shutdown begins and whatever users ask for meanwhile, the API is
\* told to stop when no other worker of the pool is left.
THEOREM ApiAlwaysStopsLast == Spec => ApiStopsLast
  <1>1. StopInv /\ [Next]_vars => StopInv'
    BY SlotNext, PoolBegun, ToStopStep, OthersStep DEF StopInv
  <1>2. StopInv /\ [Next]_vars =>
          [\A w \in Worker :
              /\ Alive(w) /\ JobOf(w) = Api
              /\ thread[w].interrupted # Retry /\ thread'[w].interrupted = Retry
              => \A v \in Pooled : Alive(v) => JobOf(v) = Api]_vars
    <2> SUFFICES ASSUME StopInv, [Next]_vars, NEW w \in Worker, JobOf(w) = Api,
                        thread[w].interrupted # Retry,
                        thread'[w].interrupted = Retry
                 PROVE  \A v \in Pooled : Alive(v) => JobOf(v) = Api
      OBVIOUS
    <2>1. main = "stopapi"
      BY WhoInterrupts DEF StopInv, StopApi
    <2>2. QED
      BY <2>1 DEF StopInv, OthersEnded
  <1>3. QED
    BY <1>1, <1>2, StopInit, PTL DEF Spec, ApiStopsLast
=============================================================================
